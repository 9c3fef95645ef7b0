--------------------------- MODULE NetworkMonitor ---------------------------
(***************************************************************************)
(* The network monitor (netsnif.cpp): a sniffer thread pushes the TCP      *)
(* packets of one server into a queue; an analyser thread takes them and   *)
(* keeps, in a data store, the status of the connection of every client    *)
(* and the server's numbers of arrivals and departures.                    *)
(*                                                                         *)
(* The store and the queue are chosen when the program is built: `build'   *)
(* is that choice, and never changes.  A packet is known by its place in   *)
(* the sequence of the captured ones; only what the analyser looks at is   *)
(* left of it.  Only the analyser uses the store, so that the handling of  *)
(* one packet is one step.  pcap, MySQL, SQLite and the queues of Boost    *)
(* are external.  A statement that fails is rolled back; a COMMIT of the   *)
(* manager that fails comes after that of the store, and undoes nothing.   *)
(***************************************************************************)
EXTENDS Integers, Sequences, FiniteSets

CONSTANTS
  Clients,     \* clients, an address and a port each
  Packets,     \* the packets they and the server may exchange
  Builds,      \* the builds considered
  QueueCap,    \* packets that the lock-free queue holds
  MaxPackets,  \* bound: how many packets are captured
  Faults       \* what may fail

Stores == {"ram", "mysql", "sqlite"}
Queues == {"sync", "spsc"}

\* SYN or FIN of the client; payload, payload with FIN and ACK, or FIN and ACK of the server
Kinds == {"syn", "fin", "data", "datafin", "finack"}

ASSUME BuildsAssumption == Builds \subseteq [store : Stores, queue : Queues]
ASSUME PacketsAssumption == Packets \subseteq [client : Clients, kind : Kinds]
ASSUME ClientsAssumption == IsFiniteSet(Clients)
ASSUME MonitorBoundsAssumption == QueueCap \in Nat \ {0} /\ MaxPackets \in Nat
ASSUME MonitorFaultsAssumption == Faults \subseteq {"store", "device", "decode"}

VARIABLES
  build,       \* the data store and the queue of this program
  main,        \* what main() does
  sniffer,     \* the sniffer thread
  done,        \* sniffer_done
  analyser,    \* the analyser thread
  oneMore,     \* its one_more_time
  captured,    \* history: the packets that passed the filter
  queue,       \* pkt_queue
  analysed,    \* history: the packets taken from the queue
  failed,      \* history: those that left the store as it was because something was thrown
  late,        \* history: how many were taken after the sniffer was done
  status,      \* the store: a status for each client, "unknown" if it has no entry
  arrivals, departures,  \* the store: the statistics of the server
  erased, left, back     \* history: entries erased, clients that left, that came back

storeVars == <<status, arrivals, departures, erased, left, back>>
packetVars == <<captured, queue, analysed, failed, late>>
vars == <<build, main, sniffer, done, analyser, oneMore, packetVars, storeVars>>

-----------------------------------------------------------------------------
Statuses == {"unknown", "wait", "active", "closed"}

TypeOK ==
  /\ build \in Builds
  /\ main \in {"open", "join", "ended", "failed", "aborted"}
  /\ sniffer \in {"open", "capture", "ended"} /\ done \in BOOLEAN
  /\ analyser \in {"test", "fetch", "ended"} /\ oneMore \in BOOLEAN
  /\ captured \in Seq(Packets) /\ Len(captured) <= MaxPackets
  /\ queue \in Seq(1..MaxPackets) /\ analysed \in Seq(1..MaxPackets)
  /\ failed \subseteq 1..MaxPackets /\ late \in Nat
  /\ status \in [Clients -> Statuses]
  /\ {arrivals, departures, erased, left, back} \subseteq Nat

Empty == [c \in Clients |-> "unknown"]

\* A database may hold what an earlier run of the program left in it.
Init ==
  /\ build \in Builds
  /\ main = "open" /\ sniffer = "open" /\ done = FALSE
  /\ analyser = "test" /\ oneMore = TRUE
  /\ captured = <<>> /\ queue = <<>> /\ analysed = <<>> /\ failed = {} /\ late = 0
  /\ status \in IF build.store = "mysql" THEN {Empty, [c \in Clients |-> "closed"]} ELSE {Empty}
  /\ arrivals = IF status = Empty THEN 0 ELSE Cardinality(Clients)
  /\ departures = arrivals
  /\ erased = 0 /\ left = 0 /\ back = 0

-----------------------------------------------------------------------------
(* The data stores.                                                        *)

Entries == {c \in Clients : status[c] # "unknown"}

\* p_data_store->clear()
Clear == status' = Empty /\ arrivals' = 0 /\ departures' = 0

BugRamSave(c, s) ==
  /\ status' = [status EXCEPT ![c] = s]
  /\ arrivals' = IF status[c] \in {"unknown", "closed"} THEN arrivals + 1 ELSE arrivals
  /\ departures' = IF status[c] = "closed" THEN departures + 1 ELSE departures

\* ram_data_store::save(): a departure is counted when the stored entry is a closed one.
RamSave(c, s) ==
  /\ status' = [status EXCEPT ![c] = s]
  /\ arrivals' = IF status[c] = "unknown" THEN arrivals + 1 ELSE arrivals
  /\ departures' = IF status[c] = "closed" THEN departures + 1 ELSE departures

\* mysql_data_store::save(): REPLACE affects one row when there was no entry.
MySqlSave(c, s) ==
  /\ status' = [status EXCEPT ![c] = s]
  /\ arrivals' = IF status[c] = "unknown" /\ s # "closed" THEN arrivals + 1 ELSE arrivals
  /\ departures' = IF s = "closed" THEN departures + 1 ELSE departures

\* sqlite_data_store::save() always throws: its statement has one parenthesis too many.
SaveCompletes == build.store # "sqlite"

Save(c, s) ==
  /\ SaveCompletes
  /\ IF build.store = "ram" THEN RamSave(c, s) ELSE MySqlSave(c, s)
  /\ left' = IF s = "closed" THEN left + 1 ELSE left
  /\ back' = IF status[c] = "closed" THEN back + 1 ELSE back
  /\ UNCHANGED erased

\* erase() removes the entry and leaves the statistics as they are.
Erase(c) ==
  /\ status' = [status EXCEPT ![c] = "unknown"]
  /\ erased' = IF status[c] = "unknown" THEN erased ELSE erased + 1
  /\ UNCHANGED <<arrivals, departures, left, back>>

-----------------------------------------------------------------------------
(* network_connection_manager: what a packet does when nothing is thrown.  *)

BeginEstablishment(c) == Save(c, "wait")

EndEstablishment(c) == IF status[c] = "wait" THEN Save(c, "active") ELSE Erase(c)

EndTermination(c) == IF status[c] = "active" THEN Save(c, "closed") ELSE Erase(c)

BugHandle(p) ==
  CASE p.kind = "syn" -> BeginEstablishment(p.client)
    [] p.kind = "data" ->
         IF status[p.client] = "wait" THEN EndEstablishment(p.client) ELSE UNCHANGED storeVars
    [] p.kind \in {"finack", "datafin"} -> EndTermination(p.client)
    [] p.kind = "fin" -> UNCHANGED storeVars

\* A packet of the server with a payload never ends a connection, whatever its flags are.
Handle(p) ==
  CASE p.kind = "syn" -> BeginEstablishment(p.client)
    [] p.kind \in {"data", "datafin"} ->
         IF status[p.client] = "wait" THEN EndEstablishment(p.client) ELSE UNCHANGED storeVars
    [] p.kind = "finack" -> EndTermination(p.client)
    [] p.kind = "fin" -> UNCHANGED storeVars  \* begin_connection_termination()

\* Packets whose handling accesses the store
Accesses(p) == p.kind # "fin"

\* Packets that make the manager save an entry
Saves(p) ==
  \/ p.kind = "syn"
  \/ p.kind \in {"data", "datafin"} /\ status[p.client] = "wait"
  \/ p.kind = "finack" /\ status[p.client] = "active"

-----------------------------------------------------------------------------
(* main() *)

\* The store is opened and cleared, and the threads are created.
OpenStore ==
  /\ main = "open" /\ main' = "join"
  /\ Clear
  /\ UNCHANGED <<build, sniffer, done, analyser, oneMore, packetVars, erased, left, back>>

OpenStoreThrows ==
  /\ main = "open" /\ main' = "failed"
  /\ build.store # "ram" /\ "store" \in Faults
  /\ UNCHANGED <<build, sniffer, done, analyser, oneMore, packetVars, storeVars>>

\* thd_group.join_all(); only then is the queue closed.
JoinAll ==
  /\ main = "join" /\ sniffer = "ended" /\ analyser = "ended"
  /\ main' = "ended"
  /\ UNCHANGED <<build, sniffer, done, analyser, oneMore, packetVars, storeVars>>

-----------------------------------------------------------------------------
(* The sniffer thread *)

OpenDevice ==
  /\ main = "join" /\ sniffer = "open" /\ sniffer' = "capture"
  /\ UNCHANGED <<build, main, done, analyser, oneMore, packetVars, storeVars>>

\* The device is opened outside the try block: an exception ends the program.
OpenDeviceThrows ==
  /\ main = "join" /\ sniffer = "open" /\ "device" \in Faults
  /\ main' = "aborted"
  /\ UNCHANGED <<build, sniffer, done, analyser, oneMore, packetVars, storeVars>>

BugCapture(p) ==
  /\ main = "join" /\ sniffer = "capture" /\ Len(captured) < MaxPackets
  /\ captured' = Append(captured, p)
  /\ queue' = IF build.queue = "spsc" /\ Len(queue) = QueueCap
              THEN Append(Tail(queue), Len(captured) + 1)
              ELSE <<Len(captured) + 1>> \o queue
  /\ UNCHANGED <<build, main, sniffer, done, analyser, oneMore, analysed, failed, late, storeVars>>

\* push(): the lock-free queue refuses a packet when it is full, and nobody looks.
Capture(p) ==
  /\ main = "join" /\ sniffer = "capture" /\ Len(captured) < MaxPackets
  /\ captured' = Append(captured, p)
  /\ queue' = IF build.queue = "spsc" /\ Len(queue) = QueueCap
              THEN queue
              ELSE Append(queue, Len(captured) + 1)
  /\ UNCHANGED <<build, main, sniffer, done, analyser, oneMore, analysed, failed, late, storeVars>>

BugCaptureEnds ==
  /\ main = "join" /\ sniffer = "capture"
  /\ sniffer' = "ended"
  /\ UNCHANGED <<build, main, done, analyser, oneMore, packetVars, storeVars>>

\* batch_capture() returns, or throws: the exception is swallowed.
CaptureEnds ==
  /\ main = "join" /\ sniffer = "capture"
  /\ sniffer' = "ended" /\ done' = TRUE
  /\ UNCHANGED <<build, main, analyser, oneMore, packetVars, storeVars>>

-----------------------------------------------------------------------------
(* The analyser thread *)

BugTest ==
  /\ main = "join" /\ analyser = "test"
  /\ analyser' = IF ~done \/ queue # <<>> THEN "fetch" ELSE "ended"
  /\ UNCHANGED <<build, main, sniffer, done, oneMore, packetVars, storeVars>>

\* The conditions of the inner loop and, when it is left, of the outer one.
Test ==
  /\ main = "join" /\ analyser = "test"
  /\ IF ~done \/ ~oneMore
     THEN analyser' = "fetch" /\ oneMore' = oneMore
     ELSE /\ oneMore' = ~oneMore
          /\ analyser' = IF ~done /\ ~oneMore' THEN "test" ELSE "ended"
  /\ UNCHANGED <<build, main, sniffer, done, packetVars, storeVars>>

\* The lock-free queue does not block: the loop goes on without a packet.
FetchNothing ==
  /\ main = "join" /\ analyser = "fetch" /\ queue = <<>> /\ build.queue = "spsc"
  /\ analyser' = "test"
  /\ UNCHANGED <<build, main, sniffer, done, oneMore, packetVars, storeVars>>

Take ==
  /\ main = "join" /\ analyser = "fetch" /\ queue # <<>>
  /\ queue' = Tail(queue) /\ analysed' = Append(analysed, Head(queue))
  /\ late' = IF done THEN late + 1 ELSE late
  /\ analyser' = "test"
  /\ UNCHANGED <<build, sniffer, done, oneMore, captured>>

\* The store's save() and erase() commit their own transaction, and with it the manager's.
\* When only the manager's COMMIT fails after that, the store has changed, the exception is
\* logged and the loop goes on: that is this step, too.
Analyse ==
  /\ Take
  /\ Handle(captured[Head(queue)])
  /\ UNCHANGED <<main, failed>>

\* Nothing was committed; the exception is logged and the loop goes on.
AnalyseThrows ==
  /\ Take
  /\ LET p == captured[Head(queue)]
     IN  \/ build.store # "ram" /\ "store" \in Faults /\ Accesses(p)
         \/ ~SaveCompletes /\ Saves(p)
  /\ failed' = failed \cup {Head(queue)}
  /\ UNCHANGED <<main, storeVars>>

\* A frame without IPv4, or an address that host_address() cannot look up: the exception is
\* thrown outside the try blocks, leaves the thread and ends the program.
DecodeThrows ==
  /\ Take /\ "decode" \in Faults
  /\ main' = "aborted"
  /\ failed' = failed \cup {Head(queue)}
  /\ UNCHANGED storeVars

Stopped ==
  /\ \/ main \in {"ended", "failed", "aborted"}
     \/ sniffer = "ended" /\ analyser = "fetch" /\ queue = <<>>  \* waits for ever
     \/ Len(captured) = MaxPackets /\ queue = <<>>               \* the bound
  /\ UNCHANGED vars

AnalyserStep == Test \/ FetchNothing \/ Analyse \/ AnalyseThrows \/ DecodeThrows

Next ==
  \/ OpenStore \/ OpenStoreThrows \/ JoinAll
  \/ OpenDevice \/ OpenDeviceThrows \/ CaptureEnds
  \/ \E p \in Packets : Capture(p)
  \/ AnalyserStep
  \/ Stopped

Spec == Init /\ [][Next]_vars

\* The capture may go on for ever; the threads and main() are scheduled.
FairSpec ==
  /\ Spec
  /\ WF_vars(OpenStore) /\ WF_vars(OpenDevice) /\ WF_vars(JoinAll) /\ WF_vars(AnalyserStep)

-----------------------------------------------------------------------------
(* Properties *)

\* The analysed packets of c whose handling was not given up, by their places
Applied(c) ==
  {i \in 1..Len(analysed) : captured[analysed[i]].client = c /\ analysed[i] \notin failed}

KindAt(i) == captured[analysed[i]].kind

\* Of these, the SYNs, what the two sides did since the last SYN, and the FIN-ACKs of that
Syns(c) == {i \in Applied(c) : KindAt(i) = "syn"}
Acts(c) == {i \in Applied(c) : KindAt(i) # "fin" /\ \A j \in Syns(c) : i > j}
Ends(c) == {i \in Acts(c) : KindAt(i) = "finack"}

\* What a client's packets since its last SYN say of its connection.
Reference(c) ==
  LET endsFirst == \E i \in Ends(c) : \A j \in Acts(c) : i <= j
      endsTwice == \E i, j \in Ends(c) : i # j
  IN  IF Syns(c) = {} THEN "unknown"
      ELSE IF Acts(c) = {} THEN "wait"
      ELSE IF endsFirst \/ endsTwice THEN "unknown"
      ELSE IF Ends(c) = {} THEN "active" ELSE "closed"

\* The table says of every client what its packets since its last SYN say: waiting until
\* the server answers, active from its first payload, closed by the first FIN-ACK without
\* payload, forgotten if that comes before any payload or a second time.  It holds for
\* every store, across failed updates and for a database with old rows in it.
StatusFollowsPackets ==
  main # "open" /\ main # "failed" => \A c \in Clients : status[c] = Reference(c)

\* What the statistics really count: arrivals are the entries there are or were erased, so
\* that a client who comes back on a closed entry is none; departures are the clients that
\* left (MySQL), or those that came back on a closed entry (RAM).  Their difference,
\* which num_connections() returns, falls below zero once clients come back often enough.
StatisticsExplained ==
  main = "join" =>
    /\ arrivals = Cardinality(Entries) + erased
    /\ departures = IF build.store = "ram" THEN back ELSE left
    /\ left <= back + Cardinality({c \in Clients : status[c] = "closed"}) + erased

\* Packets are analysed once each and in the order of their capture; the queue with a
\* lock loses none, the lock-free one those that find it full.
AnalysedInOrder ==
  LET s == analysed \o queue
  IN  /\ \A i, j \in 1..Len(s) : i < j => s[i] < s[j]
      /\ build.queue = "sync" => Len(s) = Len(captured)

\* Once the sniffer is done the analyser takes one more packet at most: what is still in
\* the queue is never analysed, the pass with one_more_time unset is never made.
NoDrain == late <= 1

\* When the capture is over the program ends, if only by an exception, unless the analyser
\* already waits for a packet in the queue with a lock: nobody closes that queue before the
\* thread is joined.
EndsOrHangs ==
  sniffer = "ended"
    ~> (main \in {"ended", "aborted"} \/ (build.queue = "sync" /\ analyser = "fetch" /\ queue = <<>>))
=============================================================================
