------------------------ MODULE NetworkMonitor_proofs ------------------------
(***************************************************************************)
(* Proofs about NetworkMonitor, for any clients and packets, every build,  *)
(* queues of every size, captures of every length and all faults.          *)
(***************************************************************************)
EXTENDS NetworkMonitor, FiniteSetTheorems, SequenceTheorems, TLAPS

-----------------------------------------------------------------------------
(* Queues *)

\* A packet that goes from the front of the queue to the end of the analysed ones keeps its
\* place in the whole.
LEMMA TakeKeepsOrder ==
  ASSUME NEW S, NEW a \in Seq(S), NEW q \in Seq(S), q # <<>>
  PROVE  Append(a, Head(q)) \o Tail(q) = a \o q
<1> DEFINE b == Append(a, Head(q))
           t == Tail(q)
<1>1. /\ Head(q) \in S /\ Head(q) = q[1] /\ t \in Seq(S) /\ Len(t) = Len(q) - 1
      /\ \A i \in 1..Len(t) : t[i] = q[i + 1]
  BY HeadTailProperties
<1>2. /\ b \in Seq(S) /\ Len(b) = Len(a) + 1 /\ b[Len(a) + 1] = q[1]
      /\ \A i \in 1..Len(a) : b[i] = a[i]
  BY <1>1, AppendProperties
<1>3. Len(a) \in Nat /\ Len(q) \in Nat
  BY LenProperties
<1>4. /\ b \o t \in Seq(S) /\ Len(b \o t) = Len(b) + Len(t)
      /\ \A i \in 1..(Len(b) + Len(t)) : (b \o t)[i] = IF i <= Len(b) THEN b[i] ELSE t[i - Len(b)]
  BY <1>1, <1>2, ConcatProperties
<1>5. /\ a \o q \in Seq(S) /\ Len(a \o q) = Len(a) + Len(q)
      /\ \A i \in 1..(Len(a) + Len(q)) : (a \o q)[i] = IF i <= Len(a) THEN a[i] ELSE q[i - Len(a)]
  BY ConcatProperties
<1> HIDE DEF b, t
<1>6. Len(b \o t) = Len(a \o q)
  BY <1>1, <1>2, <1>3, <1>4, <1>5
<1>7. ASSUME NEW i \in 1..Len(b \o t)
      PROVE  (b \o t)[i] = (a \o q)[i]
  <2>1. CASE i <= Len(a)
    BY <2>1, <1>1, <1>2, <1>3, <1>4, <1>5
  <2>2. CASE i = Len(a) + 1
    <3>1. (b \o t)[i] = q[1]
      BY <2>2, <1>1, <1>2, <1>3, <1>4
    <3>2. (a \o q)[i] = q[i - Len(a)]
      BY <2>2, <1>1, <1>2, <1>3, <1>4, <1>5
    <3>3. QED
      BY <2>2, <3>1, <3>2, <1>3
  <2>3. CASE i > Len(a) + 1
    <3>1. (b \o t)[i] = t[i - Len(b)] /\ i - Len(b) \in 1..Len(t)
      BY <2>3, <1>1, <1>2, <1>3, <1>4
    <3>2. (a \o q)[i] = q[i - Len(a)]
      BY <2>3, <1>1, <1>2, <1>3, <1>4, <1>5
    <3>3. t[i - Len(b)] = q[i - Len(b) + 1] /\ i - Len(b) + 1 = i - Len(a)
      BY <3>1, <1>1, <1>2, <1>3
    <3>4. QED
      BY <3>1, <3>2, <3>3
  <2>4. QED
    BY <2>1, <2>2, <2>3, <1>2, <1>3, <1>4, <1>1
<1>8. b \o t = a \o q
  BY <1>4, <1>5, <1>6, <1>7, SeqEqual
<1>9. QED
  BY <1>8 DEF b, t

\* A packet that is pushed is the last of the whole.
LEMMA CaptureAddsLast ==
  ASSUME NEW S, NEW a \in Seq(S), NEW q \in Seq(S), NEW n \in S
  PROVE  /\ a \o Append(q, n) = Append(a \o q, n)
         /\ a \o q \in Seq(S) /\ Len(a \o q) \in Nat
         /\ Len(Append(a \o q, n)) = Len(a \o q) + 1
         /\ \A i \in 1..Len(a \o q) : Append(a \o q, n)[i] = (a \o q)[i]
         /\ Append(a \o q, n)[Len(a \o q) + 1] = n
<1>1. <<n>> \in Seq(S)
  OBVIOUS
<1>2. Append(q, n) = q \o <<n>>
  BY AppendIsConcat
<1>3. a \o q \in Seq(S) /\ Len(a \o q) \in Nat
  BY ConcatProperties, LenProperties
<1>4. Append(a \o q, n) = (a \o q) \o <<n>>
  BY <1>3, AppendIsConcat
<1>5. (a \o q) \o <<n>> = a \o (q \o <<n>>)
  BY <1>1, ConcatAssociative
<1>6. QED
  BY <1>2, <1>3, <1>4, <1>5, AppendProperties

-----------------------------------------------------------------------------
(* Types *)

StoreTypes ==
  /\ status \in [Clients -> Statuses]
  /\ arrivals \in Nat /\ departures \in Nat /\ erased \in Nat /\ left \in Nat /\ back \in Nat

LEMMA PacketFields ==
  ASSUME NEW p \in Packets
  PROVE  p.client \in Clients /\ p.kind \in Kinds
BY PacketsAssumption

LEMMA SaveTypes ==
  ASSUME StoreTypes, NEW c \in Clients, NEW s \in Statuses, Save(c, s)
  PROVE  StoreTypes'
<1>1. /\ status' = [status EXCEPT ![c] = s]
      /\ arrivals' \in {arrivals, arrivals + 1} /\ departures' \in {departures, departures + 1}
      /\ left' \in {left, left + 1} /\ back' \in {back, back + 1} /\ erased' = erased
  BY DEF Save, RamSave, MySqlSave
<1>2. QED
  BY <1>1 DEF StoreTypes

LEMMA EraseTypes ==
  ASSUME StoreTypes, NEW c \in Clients, Erase(c)
  PROVE  StoreTypes'
<1>1. status' = [status EXCEPT ![c] = "unknown"] /\ erased' \in {erased, erased + 1}
  BY DEF Erase
<1>2. UNCHANGED <<arrivals, departures, left, back>>
  BY DEF Erase
<1>3. "unknown" \in Statuses
  BY DEF Statuses
<1>4. QED
  BY <1>1, <1>2, <1>3 DEF StoreTypes

\* What a packet does to the store is one of these.
LEMMA HandleIs ==
  ASSUME NEW p \in Packets, Handle(p)
  PROVE  \/ \E s \in Statuses \ {"unknown"} :
              Save(p.client, s) /\ (s = "closed" => status[p.client] = "active")
         \/ Erase(p.client)
         \/ UNCHANGED storeVars
<1>1. p.kind \in Kinds
  BY PacketFields
<1>2. CASE p.kind = "syn"
  BY <1>2 DEF Handle, BeginEstablishment, Statuses
<1>3. CASE p.kind \in {"data", "datafin"}
  <2>1. "active" \in Statuses \ {"unknown"} /\ "active" # "closed"
    BY DEF Statuses
  <2>2. Save(p.client, "active") \/ Erase(p.client) \/ UNCHANGED storeVars
    BY <1>3 DEF Handle, EndEstablishment
  <2>3. QED
    BY <2>1, <2>2
<1>4. CASE p.kind = "finack"
  BY <1>4 DEF Handle, EndTermination, Statuses
<1>5. CASE p.kind = "fin"
  BY <1>5 DEF Handle
<1>6. QED
  BY <1>1, <1>2, <1>3, <1>4, <1>5 DEF Kinds

LEMMA HandleTypes ==
  ASSUME StoreTypes, NEW p \in Packets, Handle(p)
  PROVE  StoreTypes'
<1>1. p.client \in Clients
  BY PacketFields
<1>2. CASE UNCHANGED storeVars
  BY <1>2 DEF StoreTypes, storeVars
<1>3. QED
  BY <1>1, <1>2, HandleIs, SaveTypes, EraseTypes

-----------------------------------------------------------------------------
(* Who is where, and the packets                                           *)

\* The threads, and the number of packets after the end of the capture: the analyser only
\* goes for a packet if the sniffer was not done, and then at most once more.
ThreadInv ==
  /\ build \in Builds
  /\ main \in {"open", "join", "ended", "failed", "aborted"}
  /\ sniffer \in {"open", "capture", "ended"} /\ done \in BOOLEAN
  /\ analyser \in {"test", "fetch", "ended"} /\ oneMore \in BOOLEAN
  /\ late \in 0..1
  /\ ~done \/ analyser = "fetch" => late = 0
  /\ oneMore \/ analyser = "ended"

\* Distinct packets in the order of their capture, the last one no later than n
InOrder(s, n) ==
  /\ \A i \in 1..Len(s) : s[i] <= n
  /\ \A i, j \in 1..Len(s) : i < j => s[i] < s[j]

\* Every packet is analysed at most once, in the order of capture; those of the queue with a
\* lock are either analysed or still there.
OrderInv ==
  /\ captured \in Seq(Packets) /\ Len(captured) <= MaxPackets
  /\ queue \in Seq(1..MaxPackets) /\ analysed \in Seq(1..MaxPackets)
  /\ failed \subseteq 1..MaxPackets
  /\ InOrder(analysed \o queue, Len(captured))
  /\ build.queue = "sync" => Len(analysed \o queue) = Len(captured)

\* The packet at the front of the queue
LEMMA FrontIsCaptured ==
  ASSUME OrderInv, queue # <<>>
  PROVE  /\ Head(queue) \in 1..MaxPackets
         /\ captured[Head(queue)] \in Packets
<1>0. queue \in Seq(1..MaxPackets) /\ analysed \in Seq(1..MaxPackets)
  BY DEF OrderInv
<1>1. /\ Head(queue) \in 1..MaxPackets /\ Head(queue) = queue[1]
      /\ Len(analysed) \in Nat /\ Len(queue) \in Nat /\ Len(queue) # 0
  <2>1. Len(queue) # 0 /\ Len(queue) \in Nat /\ Len(analysed) \in Nat
    BY <1>0, LenProperties, EmptySeq, SeqEqual
  <2>2. Head(queue) = queue[1]
    BY <1>0
  <2>3. QED
    BY <1>0, <2>1, <2>2, HeadTailProperties
<1>2. /\ Len(analysed) + 1 \in 1..Len(analysed \o queue)
      /\ (analysed \o queue)[Len(analysed) + 1] = queue[1]
  BY <1>1, ConcatProperties DEF OrderInv
<1>3. Head(queue) \in 1..Len(captured)
  BY <1>1, <1>2, LenProperties DEF OrderInv, InOrder
<1>4. QED
  BY <1>1, <1>3, ElementOfSeq DEF OrderInv

LEMMA InitThreads == Init => ThreadInv
<1>1. SUFFICES ASSUME Init PROVE ThreadInv
  OBVIOUS
<1>2. /\ build \in Builds /\ main = "open" /\ sniffer = "open" /\ done = FALSE
      /\ analyser = "test" /\ oneMore = TRUE /\ late = 0
  BY <1>1 DEF Init
<1>3. late \in 0..1
  BY <1>2
<1>4. QED
  BY <1>2, <1>3, Zenon DEF ThreadInv

LEMMA ThreadsKept ==
  ASSUME ThreadInv, [Next]_vars
  PROVE  ThreadInv'
<1>1. CASE OpenStore \/ OpenStoreThrows \/ JoinAll \/ OpenDevice \/ OpenDeviceThrows
  BY <1>1 DEF ThreadInv, OpenStore, OpenStoreThrows, JoinAll, OpenDevice, OpenDeviceThrows,
              packetVars
<1>2. CASE CaptureEnds
  BY <1>2 DEF ThreadInv, CaptureEnds, packetVars
<1>3. ASSUME NEW p \in Packets, Capture(p)
      PROVE  ThreadInv'
  BY <1>3 DEF ThreadInv, Capture
<1>4. CASE Test
  BY <1>4 DEF ThreadInv, Test, packetVars
<1>5. CASE FetchNothing
  BY <1>5 DEF ThreadInv, FetchNothing, packetVars
<1>6. CASE Take /\ main' \in {main, "aborted"}
  BY <1>6 DEF ThreadInv, Take
<1>7. CASE Stopped \/ UNCHANGED vars
  BY <1>7 DEF ThreadInv, Stopped, vars, packetVars
<1>8. QED
  BY <1>1, <1>2, <1>3, <1>4, <1>5, <1>6, <1>7
  DEF Next, AnalyserStep, Analyse, AnalyseThrows, DecodeThrows

LEMMA InitOrder == Init => OrderInv
<1>1. <<>> \o <<>> = <<>>
  BY ConcatEmptySeq, EmptySeq
<1>2. SUFFICES ASSUME Init PROVE OrderInv
  OBVIOUS
<1>3. /\ captured = <<>> /\ queue = <<>> /\ analysed = <<>> /\ failed = {}
      /\ analysed \o queue = <<>>
  BY <1>1, <1>2 DEF Init
<1>4. /\ <<>> \in Seq(Packets) /\ <<>> \in Seq(1..MaxPackets)
      /\ Len(<<>>) = 0
  BY EmptySeq
<1>5. QED
  BY <1>3, <1>4, MonitorBoundsAssumption DEF OrderInv, InOrder

\* A later packet may follow.
LEMMA AppendInOrder ==
  ASSUME NEW n \in Nat, NEW s \in Seq(1..MaxPackets), InOrder(s, n),
         NEW t, Len(t) = Len(s) + 1, t[Len(s) + 1] = n + 1,
         \A i \in 1..Len(s) : t[i] = s[i]
  PROVE  InOrder(t, n + 1)
<1>1. Len(s) \in Nat /\ \A i \in 1..Len(s) : s[i] \in 1..MaxPackets
  BY LenProperties, ElementOfSeq
<1>2. \A i \in 1..Len(s) : s[i] \in Nat /\ s[i] <= n
  BY <1>1, MonitorBoundsAssumption DEF InOrder
<1>3. \A i \in 1..Len(t) : i \in 1..Len(s) \/ i = Len(s) + 1
  BY <1>1
<1>4. \A i \in 1..Len(t) : t[i] <= n + 1
  BY <1>1, <1>2, <1>3
<1>5. ASSUME NEW i \in 1..Len(t), NEW j \in 1..Len(t), i < j
      PROVE  t[i] < t[j]
  <2>1. i \in 1..Len(s) /\ t[i] = s[i]
    BY <1>1, <1>3, <1>5
  <2>2. CASE j \in 1..Len(s)
    BY <1>5, <2>1, <2>2 DEF InOrder
  <2>3. CASE j = Len(s) + 1
    BY <1>2, <2>1, <2>3
  <2>4. QED
    BY <1>3, <2>2, <2>3
<1>6. QED
  BY <1>4, <1>5 DEF InOrder

LEMMA CaptureKeepsOrder ==
  ASSUME OrderInv, NEW p \in Packets, Capture(p)
  PROVE  OrderInv'
<1> DEFINE n == Len(captured) + 1
           s == analysed \o queue
<1>1. /\ Len(captured) \in Nat /\ n \in 1..MaxPackets
      /\ captured' \in Seq(Packets) /\ Len(captured') = n
  BY AppendProperties, LenProperties, MonitorBoundsAssumption DEF Capture, OrderInv
<1>2. analysed' = analysed /\ failed' = failed /\ build' = build
  BY DEF Capture
<1>3. CASE queue' = queue /\ build.queue # "sync"
  <2>1. s \in Seq(1..MaxPackets)
    BY ConcatProperties DEF OrderInv
  <2>2. Len(s) \in Nat /\ \A i \in 1..Len(s) : s[i] \in 1..MaxPackets
    BY <2>1, LenProperties, ElementOfSeq
  <2>3. \A i \in 1..Len(s) : s[i] \in Nat
    BY <2>2, MonitorBoundsAssumption
  <2>4. InOrder(s, n)
    BY <1>1, <2>2, <2>3 DEF InOrder, OrderInv
  <2>5. InOrder(analysed' \o queue', Len(captured'))
    BY <1>1, <1>2, <1>3, <2>4
  <2>6. QED
    BY <1>1, <1>2, <1>3, <2>5 DEF OrderInv
<1>4. CASE queue' = Append(queue, n)
  <2>1. /\ analysed \o Append(queue, n) = Append(s, n) /\ s \in Seq(1..MaxPackets)
        /\ Len(Append(s, n)) = Len(s) + 1 /\ Append(s, n)[Len(s) + 1] = n
        /\ \A i \in 1..Len(s) : Append(s, n)[i] = s[i]
    BY <1>1, CaptureAddsLast DEF OrderInv
  <2>2. InOrder(Append(s, n), n)
    BY <1>1, <2>1, AppendInOrder DEF OrderInv
  <2>3. queue' \in Seq(1..MaxPackets)
    BY <1>1, <1>4, AppendProperties DEF OrderInv
  <2>4. /\ InOrder(analysed' \o queue', Len(captured'))
        /\ Len(analysed' \o queue') = Len(analysed \o queue) + 1
    BY <1>1, <1>2, <1>4, <2>1, <2>2
  <2>5. build'.queue = "sync" => Len(analysed' \o queue') = Len(captured')
    BY <1>1, <1>2, <2>4 DEF OrderInv
  <2>6. /\ captured' \in Seq(Packets) /\ Len(captured') <= MaxPackets
        /\ analysed' \in Seq(1..MaxPackets) /\ failed' \subseteq 1..MaxPackets
    BY <1>1, <1>2, MonitorBoundsAssumption DEF OrderInv
  <2>7. QED
    BY <2>3, <2>4, <2>5, <2>6 DEF OrderInv
<1>5. (queue' = queue /\ build.queue # "sync") \/ queue' = Append(queue, n)
  BY DEF Capture
<1>6. QED
  BY <1>3, <1>4, <1>5

LEMMA TakeKeepsInv ==
  ASSUME OrderInv, Take, failed' \in {failed, failed \cup {Head(queue)}}
  PROVE  OrderInv'
<1>1. /\ queue # <<>> /\ queue' = Tail(queue) /\ analysed' = Append(analysed, Head(queue))
      /\ captured' = captured /\ build' = build
  BY DEF Take
<1>2. Head(queue) \in 1..MaxPackets
  BY <1>1, FrontIsCaptured
<1>3. queue' \in Seq(1..MaxPackets) /\ analysed' \in Seq(1..MaxPackets)
  BY <1>1, <1>2, HeadTailProperties, AppendProperties DEF OrderInv
<1>4. analysed' \o queue' = analysed \o queue
  BY <1>1, TakeKeepsOrder DEF OrderInv
<1>5. captured' = captured /\ build' = build /\ failed' \subseteq 1..MaxPackets
  BY <1>1, <1>2 DEF OrderInv
<1>6. QED
  BY <1>3, <1>4, <1>5 DEF OrderInv

LEMMA OrderKept ==
  ASSUME OrderInv, [Next]_vars
  PROVE  OrderInv'
<1>1. CASE UNCHANGED <<build, packetVars>>
  BY <1>1 DEF OrderInv, packetVars
<1>2. ASSUME NEW p \in Packets, Capture(p)
      PROVE  OrderInv'
  BY <1>2, CaptureKeepsOrder
<1>3. CASE Analyse
  BY <1>3, TakeKeepsInv DEF Analyse
<1>4. CASE AnalyseThrows \/ DecodeThrows
  BY <1>4, TakeKeepsInv DEF AnalyseThrows, DecodeThrows
<1>5. CASE OpenStore \/ OpenStoreThrows \/ JoinAll \/ OpenDevice \/ OpenDeviceThrows \/ CaptureEnds
  BY <1>1, <1>5 DEF OpenStore, OpenStoreThrows, JoinAll, OpenDevice, OpenDeviceThrows, CaptureEnds
<1>6. CASE Test \/ FetchNothing \/ Stopped \/ UNCHANGED vars
  BY <1>1, <1>6 DEF Test, FetchNothing, Stopped, vars
<1>7. QED
  BY <1>2, <1>3, <1>4, <1>5, <1>6 DEF Next, AnalyserStep

-----------------------------------------------------------------------------
(* The invariant of the threads, the packets and the store                 *)

TypeInv == ThreadInv /\ OrderInv /\ StoreTypes

LEMMA InitStoreTypes == Init => StoreTypes
<1>1. Cardinality(Clients) \in Nat
  BY ClientsAssumption, FS_CardinalityType
<1>2. Empty \in [Clients -> Statuses] /\ [c \in Clients |-> "closed"] \in [Clients -> Statuses]
  BY DEF Empty, Statuses
<1>3. SUFFICES ASSUME Init PROVE StoreTypes
  OBVIOUS
<1>4. status \in [Clients -> Statuses]
  BY <1>2, <1>3 DEF Init
<1>5. arrivals \in Nat /\ departures \in Nat /\ erased = 0 /\ left = 0 /\ back = 0
  BY <1>1, <1>3 DEF Init
<1>6. QED
  BY <1>4, <1>5 DEF StoreTypes

LEMMA StoreTypesKept ==
  ASSUME TypeInv, [Next]_vars
  PROVE  StoreTypes'
<1>1. CASE UNCHANGED storeVars
  BY <1>1 DEF TypeInv, StoreTypes, storeVars
<1>2. CASE OpenStore
  BY <1>2 DEF TypeInv, StoreTypes, OpenStore, Clear, Empty, Statuses
<1>3. CASE Analyse
  <2>1. captured[Head(queue)] \in Packets
    BY <1>3, FrontIsCaptured DEF Analyse, Take, TypeInv
  <2>2. QED
    BY <1>3, <2>1, HandleTypes DEF Analyse, TypeInv
<1>4. CASE OpenStoreThrows \/ JoinAll \/ OpenDevice \/ OpenDeviceThrows \/ CaptureEnds
           \/ (\E p \in Packets : Capture(p))
  BY <1>1, <1>4
  DEF OpenStoreThrows, JoinAll, OpenDevice, OpenDeviceThrows, CaptureEnds, Capture
<1>5. CASE Test \/ FetchNothing \/ AnalyseThrows \/ DecodeThrows \/ Stopped \/ UNCHANGED vars
  BY <1>1, <1>5 DEF Test, FetchNothing, AnalyseThrows, DecodeThrows, Stopped, vars
<1>6. QED
  BY <1>2, <1>3, <1>4, <1>5 DEF Next, AnalyserStep

LEMMA TypeInvInvariant == Spec => []TypeInv
<1>1. Init => TypeInv
  BY InitThreads, InitOrder, InitStoreTypes DEF TypeInv
<1>2. TypeInv /\ [Next]_vars => TypeInv'
  BY ThreadsKept, OrderKept, StoreTypesKept DEF TypeInv
<1>3. QED
  BY <1>1, <1>2, PTL DEF Spec

\* Every reachable state is well typed: no packet but a captured one is ever in the queue.
THEOREM MonitorTypes == Spec => []TypeOK
<1>1. TypeInv => TypeOK
  BY DEF TypeInv, ThreadInv, OrderInv, StoreTypes, TypeOK
<1>2. QED
  BY <1>1, TypeInvInvariant, PTL

\* However long the capture and the queue, one packet at most is analysed after its end.
THEOREM MonitorDoesNotDrain == Spec => []NoDrain
<1>1. TypeInv => NoDrain
  BY DEF TypeInv, ThreadInv, NoDrain
<1>2. QED
  BY <1>1, TypeInvInvariant, PTL

\* Packets are analysed once each and in order, whatever the queue; the queue with a lock
\* loses none.
THEOREM MonitorAnalysesInOrder == Spec => []AnalysedInOrder
<1>1. TypeInv => AnalysedInOrder
  BY DEF TypeInv, OrderInv, InOrder, AnalysedInOrder
<1>2. QED
  BY <1>1, TypeInvInvariant, PTL

-----------------------------------------------------------------------------
(* The statistics                                                          *)

Closed == {c \in Clients : status[c] = "closed"}

\* Nothing is counted before the store is opened; then the statistics are explained.
StatsInv ==
  /\ main = "open" => erased = 0 /\ left = 0 /\ back = 0
  /\ StatisticsExplained

LEMMA ClientSets ==
  /\ IsFiniteSet(Entries) /\ Cardinality(Entries) \in Nat
  /\ IsFiniteSet(Closed) /\ Cardinality(Closed) \in Nat
<1>1. Entries \subseteq Clients /\ Closed \subseteq Clients
  BY DEF Entries, Closed
<1>2. QED
  BY <1>1, ClientsAssumption, FS_Subset, FS_CardinalityType

LEMMA SaveExplained ==
  ASSUME StoreTypes, build' = build, StatisticsExplained, main = "join",
         NEW c \in Clients, NEW s \in Statuses \ {"unknown"}, Save(c, s),
         s = "closed" => status[c] = "active"
  PROVE  StatisticsExplained'
<1>1. /\ arrivals = Cardinality(Entries) + erased
      /\ departures = IF build.store = "ram" THEN back ELSE left
      /\ left <= back + Cardinality(Closed) + erased
  BY DEF StatisticsExplained, Closed
<1>2. /\ status' = [status EXCEPT ![c] = s] /\ erased' = erased
      /\ left' = IF s = "closed" THEN left + 1 ELSE left
      /\ back' = IF status[c] = "closed" THEN back + 1 ELSE back
      /\ arrivals' = IF status[c] = "unknown" THEN arrivals + 1 ELSE arrivals
      /\ departures' = IF build.store = "ram"
                       THEN IF status[c] = "closed" THEN departures + 1 ELSE departures
                       ELSE IF s = "closed" THEN departures + 1 ELSE departures
  BY DEF Save, RamSave, MySqlSave
<1>3. /\ arrivals \in Nat /\ erased \in Nat /\ left \in Nat /\ back \in Nat
      /\ status \in [Clients -> Statuses]
  BY DEF StoreTypes
<1>4. Entries' = Entries \cup {c} /\ (c \in Entries <=> status[c] # "unknown")
  BY <1>2, <1>3 DEF Entries
<1>5. Cardinality(Entries') = IF status[c] = "unknown" THEN Cardinality(Entries) + 1
                              ELSE Cardinality(Entries)
  BY <1>4, ClientSets, FS_AddElement
<1>6. /\ Closed' = IF s = "closed" THEN Closed \cup {c} ELSE Closed \ {c}
      /\ c \in Closed <=> status[c] = "closed"
  BY <1>2, <1>3 DEF Closed
<1>7. Cardinality(Closed') = IF s = "closed" THEN Cardinality(Closed) + 1
                             ELSE IF status[c] = "closed" THEN Cardinality(Closed) - 1
                             ELSE Cardinality(Closed)
  <2>1. CASE s = "closed"
    BY <1>6, <2>1, ClientSets, FS_AddElement
  <2>2. CASE s # "closed"
    BY <1>6, <2>2, ClientSets, FS_RemoveElement
  <2>3. QED
    BY <2>1, <2>2
<1>8. arrivals' = Cardinality(Entries') + erased'
  BY <1>1, <1>2, <1>3, <1>5, ClientSets
<1>9. departures' = IF build.store = "ram" THEN back' ELSE left'
  BY <1>1, <1>2
<1>10. left' <= back' + Cardinality(Closed') + erased'
  <2>1. CASE s = "closed"
    BY <1>1, <1>2, <1>3, <1>7, <2>1, ClientSets
  <2>2. CASE s # "closed"
    BY <1>1, <1>2, <1>3, <1>7, <2>2, ClientSets
  <2>3. QED
    BY <2>1, <2>2
<1>11. QED
  BY <1>8, <1>9, <1>10 DEF StatisticsExplained, Closed, Entries

LEMMA EraseExplained ==
  ASSUME StoreTypes, build' = build, StatisticsExplained, main = "join",
         NEW c \in Clients, Erase(c)
  PROVE  StatisticsExplained'
<1>1. /\ arrivals = Cardinality(Entries) + erased
      /\ departures = IF build.store = "ram" THEN back ELSE left
      /\ left <= back + Cardinality(Closed) + erased
  BY DEF StatisticsExplained, Closed
<1>2. /\ status' = [status EXCEPT ![c] = "unknown"]
      /\ erased' = IF status[c] = "unknown" THEN erased ELSE erased + 1
      /\ arrivals' = arrivals /\ departures' = departures /\ left' = left /\ back' = back
  BY DEF Erase
<1>3. /\ erased \in Nat /\ left \in Nat /\ back \in Nat /\ status \in [Clients -> Statuses]
  BY DEF StoreTypes
<1>4. /\ Entries' = Entries \ {c} /\ (c \in Entries <=> status[c] # "unknown")
      /\ Closed' = Closed \ {c} /\ (c \in Closed => status[c] # "unknown")
  BY <1>2, <1>3 DEF Entries, Closed
<1>5. /\ Cardinality(Entries') = IF status[c] = "unknown" THEN Cardinality(Entries)
                                 ELSE Cardinality(Entries) - 1
      /\ Cardinality(Closed') = IF c \in Closed THEN Cardinality(Closed) - 1
                                ELSE Cardinality(Closed)
  BY <1>4, ClientSets, FS_RemoveElement
<1>6. arrivals' = Cardinality(Entries') + erased'
  BY <1>1, <1>2, <1>3, <1>5, ClientSets
<1>7. left' <= back' + Cardinality(Closed') + erased'
  BY <1>1, <1>2, <1>3, <1>4, <1>5, ClientSets
<1>8. departures' = IF build.store = "ram" THEN back' ELSE left'
  BY <1>1, <1>2
<1>9. QED
  BY <1>6, <1>7, <1>8 DEF StatisticsExplained, Closed, Entries

LEMMA ClearExplained ==
  ASSUME erased = 0, left = 0, back = 0, Clear, UNCHANGED <<build, erased, left, back>>
  PROVE  StatisticsExplained'
<1>1. status' = [c \in Clients |-> "unknown"] /\ arrivals' = 0 /\ departures' = 0
  BY DEF Clear, Empty
<1>2. Entries' = {} /\ {c \in Clients : status'[c] = "closed"} = {}
  BY <1>1 DEF Entries
<1>3. QED
  BY <1>1, <1>2, FS_EmptySet DEF StatisticsExplained

LEMMA StatsKept ==
  ASSUME TypeInv, StatsInv, [Next]_vars
  PROVE  StatsInv'
<1>1. CASE UNCHANGED <<build, storeVars>> /\ (main' \in {"open", "join"} => main' = main)
  BY <1>1 DEF StatsInv, StatisticsExplained, Entries, storeVars
<1>2. CASE OpenStore
  <2>1. main' = "join" /\ StatisticsExplained'
    BY <1>2, ClearExplained DEF OpenStore, StatsInv
  <2>2. QED
    BY <2>1 DEF StatsInv
<1>3. CASE Analyse
  <2>1. main = "join" /\ main' = "join" /\ build' = build /\ queue # <<>>
    BY <1>3 DEF Analyse, Take
  <2>2. captured[Head(queue)] \in Packets /\ Handle(captured[Head(queue)])
    BY <1>3, <2>1, FrontIsCaptured DEF Analyse, TypeInv
  <2>3. captured[Head(queue)].client \in Clients
    BY <2>2, PacketFields
  <2>4. CASE UNCHANGED storeVars
    BY <1>1, <2>1, <2>4
  <2>5. StatisticsExplained'
    BY <2>1, <2>2, <2>3, <2>4, <1>1, HandleIs, SaveExplained, EraseExplained
    DEF TypeInv, StatsInv
  <2>6. QED
    BY <2>1, <2>5 DEF StatsInv
<1>4. CASE OpenStoreThrows \/ JoinAll \/ OpenDevice \/ OpenDeviceThrows \/ CaptureEnds
           \/ (\E p \in Packets : Capture(p))
  BY <1>1, <1>4
  DEF OpenStoreThrows, JoinAll, OpenDevice, OpenDeviceThrows, CaptureEnds, Capture
<1>5. CASE Test \/ FetchNothing \/ AnalyseThrows \/ DecodeThrows \/ Stopped \/ UNCHANGED vars
  BY <1>1, <1>5 DEF Test, FetchNothing, AnalyseThrows, DecodeThrows, Take, Stopped, vars
<1>6. QED
  BY <1>2, <1>3, <1>4, <1>5 DEF Next, AnalyserStep

\* What arrivals and departures count in each store, for any number of clients and packets.
THEOREM MonitorStatisticsExplained == Spec => []StatisticsExplained
<1>1. Init => StatsInv
  BY DEF Init, StatsInv, StatisticsExplained
<1>2. TypeInv /\ StatsInv /\ [Next]_vars => StatsInv'
  BY StatsKept
<1>3. StatsInv => StatisticsExplained
  BY DEF StatsInv
<1>4. QED
  BY <1>1, <1>2, <1>3, TypeInvInvariant, PTL DEF Spec

-----------------------------------------------------------------------------
(* The status of the connections                                           *)

\* Only what was analysed can have failed, nothing is analysed before the store is opened, and
\* the table says what the packets say.
StatusInv ==
  /\ main = "open" => analysed = <<>>
  /\ \A f \in failed : \E i \in 1..Len(analysed) : analysed[i] = f
  /\ StatusFollowsPackets

\* The analysed packets were captured, before the one at the front of the queue.
LEMMA Places ==
  ASSUME OrderInv
  PROVE  /\ Len(analysed) \in Nat /\ Len(captured) \in Nat
         /\ \A i \in 1..Len(analysed) : analysed[i] \in 1..Len(captured)
         /\ queue # <<>> => \A i \in 1..Len(analysed) : analysed[i] < Head(queue)
<1>1. /\ analysed \in Seq(1..MaxPackets) /\ queue \in Seq(1..MaxPackets)
      /\ captured \in Seq(Packets) /\ InOrder(analysed \o queue, Len(captured))
  BY DEF OrderInv
<1>2. /\ Len(analysed) \in Nat /\ Len(queue) \in Nat /\ Len(captured) \in Nat
      /\ \A i \in 1..Len(analysed) : analysed[i] \in 1..MaxPackets
  BY <1>1, LenProperties, ElementOfSeq
<1>3. /\ Len(analysed \o queue) = Len(analysed) + Len(queue)
      /\ \A i \in 1..(Len(analysed) + Len(queue)) :
           (analysed \o queue)[i] = IF i <= Len(analysed) THEN analysed[i]
                                    ELSE queue[i - Len(analysed)]
  BY <1>1, ConcatProperties
<1>4. ASSUME NEW i \in 1..Len(analysed)
      PROVE  i \in 1..Len(analysed \o queue) /\ (analysed \o queue)[i] = analysed[i]
  BY <1>2, <1>3
<1>5. \A i \in 1..Len(analysed) : analysed[i] \in 1..Len(captured)
  BY <1>1, <1>2, <1>4, MonitorBoundsAssumption DEF InOrder
<1>6. ASSUME queue # <<>>, NEW i \in 1..Len(analysed)
      PROVE  analysed[i] < Head(queue)
  <2>1. Len(queue) # 0 /\ Head(queue) = queue[1]
    BY <1>1, <1>6, EmptySeq, SeqEqual
  <2>2. /\ Len(analysed) + 1 \in 1..Len(analysed \o queue)
        /\ (analysed \o queue)[Len(analysed) + 1] = Head(queue)
    BY <1>2, <1>3, <2>1
  <2>3. i < Len(analysed) + 1
    BY <1>2
  <2>4. QED
    BY <1>1, <1>4, <2>2, <2>3 DEF InOrder
<1>7. QED
  BY <1>2, <1>5, <1>6

\* The reference looks at nothing but the packets of the client.
LEMMA SameReference ==
  ASSUME NEW c \in Clients, Applied(c)' = Applied(c),
         \A i \in Applied(c) : KindAt(i)' = KindAt(i)
  PROVE  Reference(c)' = Reference(c)
<1>1. Syns(c)' = Syns(c)
  BY DEF Syns
<1>2. Acts(c)' = Acts(c)
  BY <1>1 DEF Acts
<1>3. Ends(c)' = Ends(c)
  BY <1>2 DEF Ends, Acts
<1>4. QED
  BY <1>1, <1>2, <1>3 DEF Reference

\* What one more packet of the client, behind all others, makes of the reference
LEMMA NextReference ==
  ASSUME NEW c \in Clients, NEW n \in Nat, NEW kind \in Kinds, KindAt(n)' = kind,
         Applied(c)' = Applied(c) \cup {n},
         \A i \in Applied(c) : i \in Nat /\ i < n /\ KindAt(i)' = KindAt(i)
  PROVE  Reference(c)' = CASE kind = "syn" -> "wait"
                           [] kind = "fin" -> Reference(c)
                           [] kind \in {"data", "datafin"} ->
                                IF Reference(c) = "wait" THEN "active" ELSE Reference(c)
                           [] kind = "finack" ->
                                IF Reference(c) = "active" THEN "closed" ELSE "unknown"
<1>1. Syns(c) \subseteq Applied(c) /\ Acts(c) \subseteq Applied(c) /\ Ends(c) \subseteq Acts(c)
  BY DEF Syns, Acts, Ends
<1>2. n \notin Applied(c)
  OBVIOUS
<1>3. CASE kind = "syn"
  <2>1. Syns(c)' = Syns(c) \cup {n}
    BY <1>3 DEF Syns
  <2>2. Acts(c)' = {}
    <3>1. ASSUME NEW i \in Acts(c)'
          PROVE  FALSE
      <4>1. i \in Applied(c) \cup {n} /\ i > n
        BY <2>1, <3>1 DEF Acts
      <4>2. QED
        BY <4>1
    <3>2. QED
      BY <3>1
  <2>3. n \in Syns(c)'
    BY <2>1
  <2>4. QED
    BY <1>3, <2>2, <2>3 DEF Reference
<1>4. CASE kind # "syn"
  <2>1. Syns(c)' = Syns(c)
    BY <1>4 DEF Syns
  <2>2. Acts(c)' = IF kind = "fin" THEN Acts(c) ELSE Acts(c) \cup {n}
    <3>1. \A i \in Applied(c) : i \in Acts(c)' <=> i \in Acts(c)
      BY <2>1 DEF Acts
    <3>2. n \in Acts(c)' <=> kind # "fin"
      <4>1. \A j \in Syns(c) : n > j
        BY <1>1
      <4>2. QED
        BY <2>1, <4>1 DEF Acts
    <3>3. Acts(c)' \subseteq Applied(c) \cup {n}
      BY DEF Acts
    <3>4. QED
      BY <1>1, <1>2, <3>1, <3>2, <3>3
  <2>3. Ends(c)' = IF kind = "finack" THEN Ends(c) \cup {n} ELSE Ends(c)
    <3>1. \A i \in Acts(c) : KindAt(i)' = KindAt(i)
      BY <1>1
    <3>2. QED
      BY <1>1, <1>2, <2>2, <3>1 DEF Ends
  <2>4. CASE kind = "fin"
    BY <2>1, <2>2, <2>3, <2>4 DEF Reference
  <2>5. CASE Syns(c) = {}
    BY <1>4, <2>1, <2>5 DEF Reference, Kinds
  <2>6. CASE Syns(c) # {} /\ Acts(c) = {} /\ kind \in {"data", "datafin"}
    <3>1. Acts(c)' = {n} /\ Ends(c)' = {}
      BY <1>1, <2>2, <2>3, <2>6
    <3>2. QED
      BY <2>1, <2>6, <3>1 DEF Reference
  <2>7. CASE Syns(c) # {} /\ Acts(c) = {} /\ kind = "finack"
    <3>1. Acts(c)' = {n} /\ Ends(c)' = {n}
      BY <1>1, <2>2, <2>3, <2>7
    <3>2. Reference(c)' = "unknown"
      BY <2>1, <2>7, <3>1 DEF Reference
    <3>3. Reference(c) = "wait"
      BY <2>7 DEF Reference
    <3>4. QED
      BY <2>7, <3>2, <3>3
  <2>8. CASE Syns(c) # {} /\ Acts(c) # {} /\ kind \in {"data", "datafin"}
    <3>1. Acts(c)' = Acts(c) \cup {n} /\ Ends(c)' = Ends(c)
      BY <2>2, <2>3, <2>8
    <3>2. \A i \in Ends(c) : i <= n
      BY <1>1
    <3>3. Reference(c)' = Reference(c) /\ Reference(c) # "wait"
      BY <2>1, <2>8, <3>1, <3>2 DEF Reference
    <3>4. QED
      BY <2>8, <3>3
  <2>9. CASE Syns(c) # {} /\ Acts(c) # {} /\ kind = "finack"
    <3>1. Acts(c)' = Acts(c) \cup {n} /\ Ends(c)' = Ends(c) \cup {n}
      BY <2>2, <2>3, <2>9
    <3>2. \A i \in Acts(c) : i \in Nat /\ i < n
      BY <1>1
    <3>3. CASE Ends(c) = {}
      <4>1. Reference(c) = "active"
        BY <2>9, <3>3 DEF Reference
      <4>2. ~ \E i \in Ends(c)' : \A j \in Acts(c)' : i <= j
        BY <2>9, <3>1, <3>2, <3>3
      <4>3. ~ \E i, j \in Ends(c)' : i # j
        BY <3>1, <3>3
      <4>4. Reference(c)' = "closed"
        BY <2>1, <2>9, <3>1, <4>2, <4>3 DEF Reference
      <4>5. QED
        BY <2>9, <4>1, <4>4
    <3>4. CASE Ends(c) # {}
      <4>1. Reference(c) # "active"
        BY <2>9, <3>4 DEF Reference
      <4>2. \E i, j \in Ends(c)' : i # j
        BY <1>1, <1>2, <3>1, <3>4
      <4>3. Reference(c)' = "unknown"
        BY <2>1, <2>9, <3>1, <4>2 DEF Reference
      <4>4. QED
        BY <2>9, <4>1, <4>3
    <3>5. QED
      BY <3>3, <3>4
  <2>10. QED
    BY <1>4, <2>4, <2>5, <2>6, <2>7, <2>8, <2>9 DEF Kinds
<1>5. QED
  BY <1>3, <1>4

\* A packet that is taken and does not fail is the last one that counts for its client.
LEMMA TakeApplies ==
  ASSUME OrderInv, StatusInv, Take, failed' \in {failed, failed \cup {Head(queue)}},
         NEW c \in Clients, NEW n \in Nat, n = Len(analysed) + 1
  PROVE  LET p == captured[Head(queue)]
         IN  /\ KindAt(n)' = p.kind
             /\ Applied(c)' = IF p.client = c /\ failed' = failed THEN Applied(c) \cup {n}
                              ELSE Applied(c)
             /\ \A i \in Applied(c) : i \in Nat /\ i < n /\ KindAt(i)' = KindAt(i)
<1> DEFINE h == Head(queue)
<1>1. /\ Len(analysed) \in Nat /\ queue # <<>> /\ captured' = captured
      /\ \A i \in 1..Len(analysed) : analysed[i] \in Nat /\ analysed[i] < h
  BY Places DEF Take
<1>2. h \in 1..MaxPackets
  BY <1>1, FrontIsCaptured
<1>3. /\ Len(analysed') = n /\ analysed'[n] = h
      /\ \A i \in 1..Len(analysed) : analysed'[i] = analysed[i]
  BY <1>2, AppendProperties DEF Take, OrderInv
<1> HIDE DEF h
<1>4. \A i \in 1..Len(analysed) : analysed[i] # h
  BY <1>1, <1>2, MonitorBoundsAssumption
<1>5. h \notin failed
  BY <1>4 DEF StatusInv
<1>6. \A i \in 1..Len(analysed) : analysed[i] \in failed' <=> analysed[i] \in failed
  BY <1>4 DEF h
<1>7. h \in failed' <=> failed' # failed
  BY <1>5 DEF h
<1>8. \A i \in 1..n : i \in 1..Len(analysed) \/ i = n
  BY <1>1
<1>9. \A i \in 1..Len(analysed) : i \in Applied(c)' <=> i \in Applied(c)
  <2>1. \A i \in 1..Len(analysed) : i \in 1..Len(analysed')
    BY <1>1, <1>3
  <2>2. QED
    BY <1>1, <1>3, <1>6, <2>1 DEF Applied
<1>10. n \in Applied(c)' <=> captured[h].client = c /\ failed' = failed
  <2>1. n \in 1..Len(analysed')
    BY <1>1, <1>3
  <2>2. QED
    BY <1>1, <1>3, <1>7, <2>1 DEF Applied
<1>11. Applied(c)' \subseteq 1..n /\ Applied(c) \subseteq 1..Len(analysed) /\ n \notin 1..Len(analysed)
  BY <1>1, <1>3 DEF Applied
<1>12. Applied(c)' = IF captured[h].client = c /\ failed' = failed THEN Applied(c) \cup {n}
                     ELSE Applied(c)
  BY <1>8, <1>9, <1>10, <1>11
<1>13. KindAt(n)' = captured[h].kind /\ \A i \in 1..Len(analysed) : KindAt(i)' = KindAt(i)
  BY <1>1, <1>3 DEF KindAt
<1>14. \A i \in Applied(c) : i \in Nat /\ i < n
  BY <1>1, <1>11
<1>15. QED
  BY <1>1, <1>11, <1>12, <1>13, <1>14 DEF h

\* What an analysed packet does to the table
LEMMA HandleSets ==
  ASSUME NEW p \in Packets, Handle(p), status \in [Clients -> Statuses]
  PROVE  /\ \A d \in Clients \ {p.client} : status'[d] = status[d]
         /\ LET old == status[p.client]
            IN  status'[p.client] = CASE p.kind = "syn" -> "wait"
                                      [] p.kind = "fin" -> old
                                      [] p.kind \in {"data", "datafin"} ->
                                           IF old = "wait" THEN "active" ELSE old
                                      [] p.kind = "finack" ->
                                           IF old = "active" THEN "closed" ELSE "unknown"
<1>1. p.client \in Clients /\ p.kind \in Kinds
  BY PacketFields
<1>2. \A s : Save(p.client, s) => status' = [status EXCEPT ![p.client] = s]
  BY DEF Save, RamSave, MySqlSave
<1>3. CASE p.kind = "syn"
  BY <1>1, <1>2, <1>3 DEF Handle, BeginEstablishment
<1>4. CASE p.kind \in {"data", "datafin"}
  BY <1>1, <1>2, <1>4 DEF Handle, EndEstablishment, storeVars
<1>5. CASE p.kind = "finack"
  BY <1>1, <1>2, <1>5 DEF Handle, EndTermination, Erase
<1>6. CASE p.kind = "fin"
  BY <1>1, <1>6 DEF Handle, storeVars
<1>7. QED
  BY <1>1, <1>3, <1>4, <1>5, <1>6 DEF Kinds

LEMMA AnalyseKeepsStatus ==
  ASSUME TypeInv, StatusInv, Analyse
  PROVE  StatusFollowsPackets'
<1> DEFINE p == captured[Head(queue)]
<1>1. /\ Take /\ main = "join" /\ queue # <<>> /\ Handle(p) /\ failed' = failed /\ OrderInv
      /\ status \in [Clients -> Statuses]
  BY DEF Analyse, Take, TypeInv, StoreTypes
<1>2. p \in Packets /\ p.client \in Clients /\ p.kind \in Kinds
  BY <1>1, FrontIsCaptured, PacketFields
<1>3. PICK n \in Nat : n = Len(analysed) + 1
  BY <1>1, Places
<1> HIDE DEF p
<1>4. \A c \in Clients : status[c] = Reference(c)
  BY <1>1 DEF StatusInv, StatusFollowsPackets
<1>5. ASSUME NEW c \in Clients
      PROVE  /\ KindAt(n)' = p.kind
             /\ Applied(c)' = IF p.client = c THEN Applied(c) \cup {n} ELSE Applied(c)
             /\ \A i \in Applied(c) : i \in Nat /\ i < n /\ KindAt(i)' = KindAt(i)
  BY <1>1, <1>3, TakeApplies DEF p
<1>6. ASSUME NEW c \in Clients, c # p.client
      PROVE  status'[c] = Reference(c)'
  <2>1. Reference(c)' = Reference(c)
    BY <1>5, <1>6, SameReference
  <2>2. status'[c] = status[c]
    BY <1>1, <1>2, <1>6, HandleSets
  <2>3. QED
    BY <1>4, <2>1, <2>2
<1>7. ASSUME NEW c \in Clients, c = p.client
      PROVE  status'[c] = Reference(c)'
  <2>1. Reference(c)' = CASE p.kind = "syn" -> "wait"
                          [] p.kind = "fin" -> Reference(c)
                          [] p.kind \in {"data", "datafin"} ->
                               IF Reference(c) = "wait" THEN "active" ELSE Reference(c)
                          [] p.kind = "finack" ->
                               IF Reference(c) = "active" THEN "closed" ELSE "unknown"
    BY <1>2, <1>5, <1>7, NextReference
  <2>2. status'[c] = CASE p.kind = "syn" -> "wait"
                       [] p.kind = "fin" -> status[c]
                       [] p.kind \in {"data", "datafin"} ->
                            IF status[c] = "wait" THEN "active" ELSE status[c]
                       [] p.kind = "finack" ->
                            IF status[c] = "active" THEN "closed" ELSE "unknown"
    BY <1>1, <1>2, <1>7, HandleSets
  <2>3. QED
    BY <1>4, <2>1, <2>2
<1>8. QED
  BY <1>6, <1>7 DEF StatusFollowsPackets

LEMMA ThrowKeepsStatus ==
  ASSUME TypeInv, StatusInv, AnalyseThrows \/ DecodeThrows
  PROVE  StatusFollowsPackets'
<1>1. /\ Take /\ main = "join" /\ queue # <<>> /\ failed' = failed \cup {Head(queue)} /\ OrderInv
      /\ status' = status
  BY DEF AnalyseThrows, DecodeThrows, Take, TypeInv, storeVars
<1>2. Head(queue) \notin failed
  <2>1. /\ \A i \in 1..Len(analysed) : analysed[i] \in Nat /\ analysed[i] < Head(queue)
        /\ Head(queue) \in Nat
    BY <1>1, Places, FrontIsCaptured, MonitorBoundsAssumption
  <2>2. \A i \in 1..Len(analysed) : analysed[i] # Head(queue)
    BY <2>1
  <2>3. QED
    BY <2>2 DEF StatusInv
<1>3. PICK n \in Nat : n = Len(analysed) + 1
  BY <1>1, Places
<1>4. ASSUME NEW c \in Clients
      PROVE  Reference(c)' = Reference(c)
  <2>1. Applied(c)' = Applied(c) /\ \A i \in Applied(c) : KindAt(i)' = KindAt(i)
    BY <1>1, <1>2, <1>3, TakeApplies
  <2>2. QED
    BY <2>1, SameReference
<1>5. QED
  BY <1>1, <1>4 DEF StatusInv, StatusFollowsPackets

\* A packet more at the end of the capture leaves the analysed ones as they are.
LEMMA CaptureKeepsStatus ==
  ASSUME TypeInv, StatusInv, NEW p \in Packets, Capture(p)
  PROVE  StatusFollowsPackets'
<1>1. /\ OrderInv /\ captured' = Append(captured, p) /\ captured \in Seq(Packets)
      /\ UNCHANGED <<main, analysed, failed, status>>
  BY DEF Capture, TypeInv, OrderInv, storeVars
<1>2. \A i \in 1..Len(analysed) : captured'[analysed[i]] = captured[analysed[i]]
  BY <1>1, Places, AppendProperties
<1>3. ASSUME NEW c \in Clients
      PROVE  Reference(c)' = Reference(c)
  <2>1. Applied(c)' = Applied(c)
    BY <1>1, <1>2 DEF Applied
  <2>2. \A i \in Applied(c) : KindAt(i)' = KindAt(i)
    BY <1>1, <1>2 DEF Applied, KindAt
  <2>3. QED
    BY <2>1, <2>2, SameReference
<1>4. QED
  BY <1>1, <1>3 DEF StatusInv, StatusFollowsPackets

LEMMA NoPacketKeepsReference ==
  ASSUME UNCHANGED packetVars, NEW c \in Clients
  PROVE  Reference(c)' = Reference(c)
<1>1. Applied(c)' = Applied(c)
  BY DEF Applied, packetVars
<1>2. \A i \in Applied(c) : KindAt(i)' = KindAt(i)
  BY DEF KindAt, packetVars
<1>3. QED
  BY <1>1, <1>2, SameReference

LEMMA StatusKept ==
  ASSUME TypeInv, StatusInv, [Next]_vars
  PROVE  StatusInv'
<1>1. CASE /\ UNCHANGED <<packetVars, status>>
           /\ main' = "open" => main = "open"
           /\ main \in {"open", "failed"} => main' \in {"open", "failed"}
  <2>1. StatusFollowsPackets'
    BY <1>1, NoPacketKeepsReference DEF StatusInv, StatusFollowsPackets
  <2>2. QED
    BY <1>1, <2>1 DEF StatusInv, packetVars
<1>2. CASE OpenStore
  <2>1. /\ main = "open" /\ main' = "join" /\ analysed = <<>> /\ analysed' = <<>>
        /\ failed' = failed /\ status' = [c \in Clients |-> "unknown"]
    BY <1>2 DEF OpenStore, Clear, Empty, packetVars, StatusInv
  <2>2. Len(<<>>) = 0
    BY EmptySeq
  <2>3. \A c \in Clients : Applied(c)' = {}
    BY <2>1, <2>2 DEF Applied
  <2>4. \A c \in Clients : Reference(c)' = "unknown"
    BY <2>3 DEF Reference, Syns
  <2>5. StatusFollowsPackets'
    BY <2>1, <2>4 DEF StatusFollowsPackets
  <2>6. QED
    BY <2>1, <2>5 DEF StatusInv
<1>3. CASE JoinAll \/ OpenDeviceThrows \/ OpenStoreThrows \/ OpenDevice \/ CaptureEnds
  BY <1>1, <1>3
  DEF JoinAll, OpenDeviceThrows, OpenStoreThrows, OpenDevice, CaptureEnds, packetVars, storeVars
<1>4. ASSUME Take, main' # "open", StatusFollowsPackets', failed' \in {failed, failed \cup {Head(queue)}}
      PROVE  StatusInv'
  <2>1. main' # "open" /\ Len(analysed) \in Nat /\ Head(queue) \in 1..MaxPackets
    BY <1>4, Places, FrontIsCaptured DEF Take, TypeInv
  <2>2. /\ Len(analysed') = Len(analysed) + 1 /\ analysed'[Len(analysed) + 1] = Head(queue)
        /\ \A i \in 1..Len(analysed) : analysed'[i] = analysed[i]
    BY <1>4, <2>1, AppendProperties DEF Take, TypeInv, OrderInv
  <2>3. ASSUME NEW f \in failed'
        PROVE  \E i \in 1..Len(analysed') : analysed'[i] = f
    <3>1. CASE f = Head(queue)
      <4>1. Len(analysed) + 1 \in 1..Len(analysed')
        BY <2>1, <2>2
      <4>2. QED
        BY <2>2, <3>1, <4>1
    <3>2. CASE f \in failed
      <4>1. PICK i \in 1..Len(analysed) : analysed[i] = f
        BY <3>2 DEF StatusInv
      <4>2. i \in 1..Len(analysed') /\ analysed'[i] = f
        BY <2>1, <2>2, <4>1
      <4>3. QED
        BY <4>2
    <3>3. QED
      BY <1>4, <3>1, <3>2
  <2>4. QED
    BY <1>4, <2>1, <2>3 DEF StatusInv
<1>5. CASE Analyse
  BY <1>4, <1>5, AnalyseKeepsStatus DEF Analyse, Take
<1>6. CASE AnalyseThrows \/ DecodeThrows
  BY <1>4, <1>6, ThrowKeepsStatus DEF AnalyseThrows, DecodeThrows, Take
<1>7. ASSUME NEW p \in Packets, Capture(p)
      PROVE  StatusInv'
  <2>1. UNCHANGED <<main, analysed, failed>>
    BY <1>7 DEF Capture
  <2>2. QED
    BY <1>7, <2>1, CaptureKeepsStatus DEF StatusInv
<1>8. CASE Test \/ FetchNothing \/ Stopped \/ UNCHANGED vars
  BY <1>1, <1>8 DEF Test, FetchNothing, Stopped, vars, packetVars, storeVars
<1>9. QED
  BY <1>2, <1>3, <1>5, <1>6, <1>7, <1>8 DEF Next, AnalyserStep

\* The table follows the packets of every client, in every store and however many updates fail.
THEOREM MonitorStatusFollowsPackets == Spec => []StatusFollowsPackets
<1>1. Init => StatusInv
  BY DEF Init, StatusInv, StatusFollowsPackets
<1>2. TypeInv /\ StatusInv /\ [Next]_vars => StatusInv'
  BY StatusKept
<1>3. StatusInv => StatusFollowsPackets
  BY DEF StatusInv
<1>4. QED
  BY <1>1, <1>2, <1>3, TypeInvInvariant, PTL DEF Spec
=============================================================================
