------------------------ MODULE WorkloadDriver_proofs ------------------------
(***************************************************************************)
(* Proofs about WorkloadDriver, for RAIN and YCSB, pipes of every size and *)
(* every set of faults; all but type correctness for one life cycle of the *)
(* driver (MaxRuns = 1), the one its programs give it.                     *)
(***************************************************************************)
EXTENDS WorkloadDriver, SequenceTheorems, TLAPS

-----------------------------------------------------------------------------
(* The kinds of threads, and the lines of a pipe                           *)

\* The threads of RAIN are a monitor and a logger; YCSB has a status dumper too.
LEMMA KindsAre ==
  /\ \/ /\ Followers = <<"logger">> /\ Kinds = <<"monitor", "logger">>
        /\ KindSet = {"monitor", "logger"}
     \/ /\ Followers = <<"logger", "status_dumper">>
        /\ Kinds = <<"monitor", "logger", "status_dumper">>
        /\ KindSet = {"monitor", "logger", "status_dumper"}
<1> DEFINE S == {"monitor", "logger", "status_dumper"}
<1>1. /\ <<"monitor">> \in Seq(S) /\ Len(<<"monitor">>) = 1
      /\ <<"logger">> \in Seq(S) /\ Len(<<"logger">>) = 1
      /\ <<"logger", "status_dumper">> \in Seq(S) /\ Len(<<"logger", "status_dumper">>) = 2
  OBVIOUS
<1>2. CASE Followers = <<"logger">>
  <2>1. /\ <<"monitor">> \o <<"logger">> \in Seq(S) /\ Len(<<"monitor">> \o <<"logger">>) = 2
        /\ (<<"monitor">> \o <<"logger">>)[1] = "monitor"
        /\ (<<"monitor">> \o <<"logger">>)[2] = "logger"
    BY <1>1, ConcatProperties
  <2>2. Kinds \in Seq(S) /\ Len(Kinds) = 2 /\ Kinds[1] = "monitor" /\ Kinds[2] = "logger"
    BY <1>2, <2>1 DEF Kinds
  <2>3. Kinds = <<"monitor", "logger">>
    BY <2>2, SeqEqual
  <2>4. KindSet = {"monitor", "logger"}
    BY <2>2 DEF KindSet
  <2>5. QED
    BY <1>2, <2>3, <2>4
<1>3. CASE Followers = <<"logger", "status_dumper">>
  <2> DEFINE c == <<"monitor">> \o <<"logger", "status_dumper">>
  <2>1. /\ c \in Seq(S) /\ Len(c) = 3
        /\ c[1] = "monitor" /\ c[2] = "logger" /\ c[3] = "status_dumper"
    BY <1>1, ConcatProperties
  <2>2. /\ Kinds \in Seq(S) /\ Len(Kinds) = 3
        /\ Kinds[1] = "monitor" /\ Kinds[2] = "logger" /\ Kinds[3] = "status_dumper"
    BY <1>3, <2>1 DEF Kinds
  <2>3. Kinds = <<"monitor", "logger", "status_dumper">>
    BY <2>2, SeqEqual
  <2>4. KindSet = {"monitor", "logger", "status_dumper"}
    BY <2>2 DEF KindSet
  <2>5. QED
    BY <1>3, <2>3, <2>4
<1>4. QED
  BY <1>2, <1>3, FollowersAssumption

\* A line is added at the end of a pipe and taken from its front.
LEMMA PipeLines ==
  ASSUME NEW S, NEW s \in Seq(S), NEW l \in S
  PROVE  /\ Append(s, l) \in Seq(S) /\ Len(Append(s, l)) = Len(s) + 1
         /\ \A i \in 1..Len(s) : Append(s, l)[i] = s[i]
         /\ Append(s, l)[Len(s) + 1] = l
         /\ Len(s) \in Nat
         /\ s # <<>> => /\ Len(s) > 0 /\ Head(s) = s[1]
                        /\ Tail(s) \in Seq(S) /\ Len(Tail(s)) = Len(s) - 1
                        /\ \A i \in 1..(Len(s) - 1) : Tail(s)[i] = s[i + 1]
<1>1. /\ Append(s, l) \in Seq(S) /\ Len(Append(s, l)) = Len(s) + 1
      /\ \A i \in 1..Len(s) : Append(s, l)[i] = s[i]
      /\ Append(s, l)[Len(s) + 1] = l
  BY AppendProperties
<1>2. ASSUME s # <<>>
      PROVE  /\ Len(s) > 0 /\ Head(s) = s[1]
             /\ Tail(s) \in Seq(S) /\ Len(Tail(s)) = Len(s) - 1
             /\ \A i \in 1..(Len(s) - 1) : Tail(s)[i] = s[i + 1]
  BY <1>2, HeadTailProperties, EmptySeq, LenProperties
<1>3. QED
  BY <1>1, <1>2, LenProperties

\* The mark in a pipe that is written to and read from.
LEMMA PipeMarks ==
  ASSUME NEW s \in Seq({"line", "mark"}), OneMark(s)
  PROVE  /\ \A l \in {"line", "mark"} :
              /\ HasMark(Append(s, l)) <=> HasMark(s) \/ l = "mark"
              /\ ~HasMark(s) \/ l = "line" => OneMark(Append(s, l))
         /\ s # <<>> => /\ OneMark(Tail(s))
                        /\ HasMark(Tail(s)) => HasMark(s)
                        /\ HasMark(Tail(s)) => Head(s) # "mark"
                        /\ HasMark(s) /\ Head(s) # "mark" => HasMark(Tail(s))
                        /\ Head(s) = "mark" => HasMark(s)
<1> DEFINE S == {"line", "mark"}
<1>1. Len(s) \in Nat
  BY LenProperties
<1>2. ASSUME NEW l \in S
      PROVE  /\ HasMark(Append(s, l)) <=> HasMark(s) \/ l = "mark"
             /\ ~HasMark(s) \/ l = "line" => OneMark(Append(s, l))
  <2> DEFINE a == Append(s, l)
  <2>1. Len(a) = Len(s) + 1 /\ a[Len(s) + 1] = l /\ \A i \in 1..Len(s) : a[i] = s[i]
    BY PipeLines
  <2> HIDE DEF a
  <2>2. HasMark(a) <=> HasMark(s) \/ l = "mark"
    BY <1>1, <2>1 DEF HasMark
  <2>3. ~HasMark(s) \/ l = "line" => OneMark(a)
    BY <1>1, <2>1 DEF HasMark, OneMark
  <2>4. QED
    BY <2>2, <2>3 DEF a
<1>3. ASSUME s # <<>>
      PROVE  /\ OneMark(Tail(s))
             /\ HasMark(Tail(s)) => HasMark(s)
             /\ HasMark(Tail(s)) => Head(s) # "mark"
             /\ HasMark(s) /\ Head(s) # "mark" => HasMark(Tail(s))
             /\ Head(s) = "mark" => HasMark(s)
  <2> DEFINE a == Tail(s)
             h == Head(s)
  <2>1. /\ Len(s) > 0 /\ h = s[1] /\ Len(a) = Len(s) - 1
        /\ \A i \in 1..(Len(s) - 1) : a[i] = s[i + 1]
    BY <1>3, PipeLines
  <2> HIDE DEF a, h
  <2>2. OneMark(a) /\ (HasMark(a) => HasMark(s)) /\ (h = "mark" => HasMark(s))
    BY <1>1, <2>1 DEF HasMark, OneMark
  <2>3. HasMark(a) => h # "mark"
    BY <1>1, <2>1 DEF HasMark, OneMark
  <2>4. ASSUME HasMark(s), h # "mark" PROVE HasMark(a)
    <3>1. PICK i \in 1..Len(s) : s[i] = "mark"
      BY <2>4 DEF HasMark
    <3>2. i - 1 \in 1..Len(a) /\ a[i - 1] = s[i]
      BY <1>1, <2>1, <2>4, <3>1
    <3>3. QED
      BY <3>1, <3>2 DEF HasMark
  <2>5. QED
    BY <2>2, <2>3, <2>4 DEF a, h
<1>4. QED
  BY <1>2, <1>3

-----------------------------------------------------------------------------
(* Type correctness                                                        *)

OwnType ==
  /\ op \in Busy \cup {"idle", "dead", "aborted"}
  /\ step \in {"returned", "threw", "terminate", "check", "join", "wait", "clear",
               "unready", "run", "spawn"}
  /\ k \in 1..(Len(Kinds) + 1) /\ joinee \in 0..MaxRuns /\ watched \subseteq Tids
  /\ runs \in 0..MaxRuns /\ launched \in BOOLEAN /\ ready \in BOOLEAN
  /\ active \in [KindSet -> BOOLEAN] /\ handle \in [KindSet -> 0..MaxRuns]

GenType ==
  /\ proc \in [Runs -> {"none", "running", "exited"}] /\ marked \in [Runs -> BOOLEAN]
  /\ out \in [Runs -> Seq({"line", "mark"})] /\ \A r \in Runs : Len(out[r]) <= PipeCap
  /\ err \in [Runs -> 0..PipeCap]

ThrType ==
  /\ th \in [Tids -> Reading \cup {"none", "begin", "fetch", "create", "assign", "ended"}]
  /\ src \in [Tids -> 0..MaxRuns]
  /\ nxt \in [Runs -> 1..Len(Followers)]

\* The parts of the type invariant.
LEMMA TypeParts == TypeOK <=> OwnType /\ GenType /\ ThrType
BY DEF TypeOK, OwnType, GenType, ThrType

\* The variables of the owner and of the driver object keep their types.
LEMMA OwnTypeKept == OwnType /\ CursorInv /\ [Next]_vars => OwnType' /\ CursorInv'
<1> SUFFICES ASSUME OwnType, CursorInv, [Next]_vars PROVE OwnType' /\ CursorInv'
  OBVIOUS
<1> USE DEF OwnType, CursorInv, Busy, ownVars, objVars, genVars, thrVars
<1> Len(Kinds) \in {2, 3} /\ MaxRuns \in Nat
  BY KindsAre, BoundsAssumption
<1>1. ASSUME NEW f \in Busy, Call(f) PROVE OwnType' /\ CursorInv'
  BY <1>1 DEF Call, Findable
<1>2. CASE TerminateProcess
  BY <1>2 DEF TerminateProcess, Throw
<1>3. CASE CheckActive \/ JoinReturns \/ JoinsOver
  BY <1>3 DEF CheckActive, JoinReturns, JoinsOver
<1>4. CASE Join
  <2>1. Kinds[k] \in KindSet
    BY <1>4 DEF Join, KindSet
  <2>2. QED
    BY <1>4, <2>1 DEF Join, Throw
<1>5. CASE ClearActive
  <2>1. active' \in [KindSet -> BOOLEAN]
    BY <1>5, Zenon DEF ClearActive
  <2>2. QED
    BY <1>5, <2>1 DEF ClearActive
<1>6. CASE Unready
  BY <1>6, Zenon DEF Unready
<1>7. CASE RunProcess
  <2>1. launched' \in BOOLEAN
    BY <1>7, Zenon DEF RunProcess
  <2>2. QED
    BY <1>7, <2>1 DEF RunProcess, Throw
<1>8. CASE SpawnMonitor
  BY <1>8 DEF SpawnMonitor, Throw
<1>9. ASSUME NEW t \in Tids, ThreadStep(t) PROVE OwnType' /\ CursorInv'
  <2>1. CASE Begin(t) \/ Off(t)
    BY <2>1 DEF Begin, Off
  <2>2. CASE Fetch(t) \/ ReadOut(t) \/ ReadErr(t) \/ ReadEof(t)
    BY <2>2 DEF Fetch, ReadOut, ReadErr, ReadEof
  <2>3. CASE Found(t)
    BY <2>3 DEF Found
  <2>4. CASE CreateFollower(t[1])
    BY <2>4 DEF CreateFollower
  <2>5. CASE AssignFollower(t[1])
    <3>1. t[1] \in 0..MaxRuns
      BY DEF Tids, Runs
    <3>2. QED
      BY <2>5, <3>1 DEF AssignFollower
  <2>6. QED
    BY <1>9, <2>1, <2>2, <2>3, <2>4, <2>5 DEF ThreadStep
<1>10. ASSUME NEW r \in Runs, NEW l \in {"line", "mark"},
              ProcessExits(r) \/ WriteErr(r) \/ WriteOut(r, l)
       PROVE  OwnType' /\ CursorInv'
  BY <1>10 DEF ProcessExits, WriteErr, WriteOut
<1>11. CASE Over \/ UNCHANGED vars
  BY <1>11 DEF Over, vars
<1>12. QED
  BY <1>1, <1>2, <1>3, <1>4, <1>5, <1>6, <1>7, <1>8, <1>9, <1>10, <1>11 DEF Next, OwnerStep

\* A line added to a pipe with room, or taken from one, leaves a pipe of lines.
LEMMA PipesKept ==
  ASSUME GenType, NEW r,
         \/ \E l \in {"line", "mark"} : /\ Len(out[r]) < PipeCap
                                        /\ out' = [out EXCEPT ![r] = Append(@, l)]
         \/ out[r] # <<>> /\ out' = [out EXCEPT ![r] = Tail(@)]
  PROVE  out' \in [Runs -> Seq({"line", "mark"})] /\ \A s \in Runs : Len(out'[s]) <= PipeCap
<1>1. CASE r \notin Runs
  BY <1>1 DEF GenType
<1>2. CASE r \in Runs
  <2>1. /\ out[r] \in Seq({"line", "mark"}) /\ Len(out[r]) <= PipeCap
        /\ PipeCap \in Nat
    BY <1>2, BoundsAssumption DEF GenType
  <2>2. out'[r] \in Seq({"line", "mark"}) /\ Len(out'[r]) <= PipeCap
    <3> DEFINE p == out[r]
    <3>1. p \in Seq({"line", "mark"}) /\ out'[r] \in {Append(p, "line"), Append(p, "mark"), Tail(p)}
      BY <1>2, <2>1 DEF GenType
    <3>2. \/ out'[r] = Append(p, "line") /\ Len(p) < PipeCap
          \/ out'[r] = Append(p, "mark") /\ Len(p) < PipeCap
          \/ out'[r] = Tail(p) /\ p # <<>>
      BY <1>2 DEF GenType
    <3> HIDE DEF p
    <3>3. Append(p, "line") \in Seq({"line", "mark"}) /\ Len(Append(p, "line")) = Len(p) + 1
      BY <3>1, PipeLines
    <3>4. Append(p, "mark") \in Seq({"line", "mark"}) /\ Len(Append(p, "mark")) = Len(p) + 1
      BY <3>1, PipeLines
    <3>5. p # <<>> => Tail(p) \in Seq({"line", "mark"}) /\ Len(Tail(p)) = Len(p) - 1
      BY <3>1, PipeLines
    <3>6. Len(p) \in Nat /\ Len(p) <= PipeCap
      BY <2>1, <3>1, LenProperties DEF p
    <3>7. QED
      <4> DEFINE q == out'[r]
                 L == Len(p)
      <4>1. L \in Nat /\ L <= PipeCap
        BY <3>6
      <4>2. CASE q = Append(p, "line") /\ L < PipeCap
        BY <2>1, <3>3, <4>1, <4>2
      <4>3. CASE q = Append(p, "mark") /\ L < PipeCap
        BY <2>1, <3>4, <4>1, <4>3
      <4>4. CASE q = Tail(p) /\ p # <<>>
        BY <2>1, <3>5, <4>1, <4>4
      <4>5. QED
        BY <3>2, <4>2, <4>3, <4>4
  <2>3. QED
    BY <1>2, <2>2 DEF GenType
<1>3. QED
  BY <1>1, <1>2

\* The generators and their pipes keep their types.
LEMMA GenTypeKept == OwnType /\ GenType /\ [Next]_vars => GenType'
<1> SUFFICES ASSUME OwnType, GenType, [Next]_vars PROVE GenType'
  OBVIOUS
<1> USE DEF ownVars, objVars, genVars, thrVars
<1>1. ASSUME UNCHANGED genVars PROVE GenType'
  BY <1>1 DEF GenType
<1>2. CASE TerminateProcess \/ RunProcess
  BY <1>2 DEF TerminateProcess, RunProcess, GenType
<1>3. ASSUME NEW t \in Tids, ReadOut(t) PROVE GenType'
  BY <1>3, PipesKept DEF ReadOut, GenType
<1>4. ASSUME NEW t \in Tids, ReadErr(t) PROVE GenType'
  <2>1. PipeCap \in Nat
    BY BoundsAssumption
  <2>2. err' = [err EXCEPT ![src[t]] = @ - 1] /\ err[src[t]] > 0
    BY <1>4 DEF ReadErr
  <2>3. err' \in [Runs -> 0..PipeCap]
    <3>1. src[t] \in Runs => err[src[t]] \in 0..PipeCap
      BY DEF GenType
    <3>2. src[t] \in Runs => err[src[t]] - 1 \in 0..PipeCap
      BY <2>1, <2>2, <3>1
    <3>3. QED
      BY <2>2, <3>2 DEF GenType
  <2>4. QED
    BY <1>4, <2>3 DEF ReadErr, GenType
<1>5. ASSUME NEW r \in Runs, NEW l \in {"line", "mark"}, WriteOut(r, l) PROVE GenType'
  <2>1. out' \in [Runs -> Seq({"line", "mark"})] /\ \A s \in Runs : Len(out'[s]) <= PipeCap
    BY <1>5, PipesKept DEF WriteOut
  <2>2. marked' \in [Runs -> BOOLEAN]
    BY <1>5 DEF WriteOut, GenType
  <2>3. QED
    BY <1>5, <2>1, <2>2 DEF WriteOut, GenType
<1>6. ASSUME NEW r \in Runs, WriteErr(r) \/ ProcessExits(r) PROVE GenType'
  <2>1. PipeCap \in Nat
    BY BoundsAssumption
  <2>2. \/ err' = err
        \/ err' = [err EXCEPT ![r] = @ + 1] /\ err[r] < PipeCap
    BY <1>6 DEF WriteErr, ProcessExits
  <2>3. err' \in [Runs -> 0..PipeCap]
    <3>1. err[r] \in 0..PipeCap
      BY DEF GenType
    <3>2. err[r] < PipeCap => err[r] + 1 \in 0..PipeCap
      BY <2>1, <3>1
    <3>3. QED
      BY <2>2, <3>2 DEF GenType
  <2>4. QED
    BY <1>6, <2>3 DEF WriteErr, ProcessExits, GenType
<1>7. QED
  BY <1>1, <1>2, <1>3, <1>4, <1>5, <1>6
     DEF Next, OwnerStep, ThreadStep, Call, CheckActive, Join, JoinReturns, ClearActive,
         JoinsOver, Unready, SpawnMonitor, Begin, Fetch, ReadEof, Found, Off,
         CreateFollower, AssignFollower, Over, vars

\* The threads keep their types.
LEMMA ThrTypeKept == OwnType /\ ThrType /\ [Next]_vars => ThrType'
<1> SUFFICES ASSUME OwnType, ThrType, [Next]_vars PROVE ThrType'
  OBVIOUS
<1> USE DEF ownVars, objVars, genVars, thrVars, ThrType, Reading
<1>1. ASSUME UNCHANGED thrVars PROVE ThrType'
  BY <1>1
<1>2. CASE SpawnMonitor
  BY <1>2 DEF SpawnMonitor
<1>3. ASSUME NEW t \in Tids,
             Begin(t) \/ ReadOut(t) \/ ReadEof(t) \/ Found(t) \/ Off(t)
      PROVE  ThrType'
  BY <1>3 DEF Begin, ReadOut, ReadEof, Found, Off
<1>4. ASSUME NEW t \in Tids, Fetch(t) PROVE ThrType'
  BY <1>4 DEF Fetch, OwnType
<1>5. ASSUME NEW r \in Runs, CreateFollower(r) \/ AssignFollower(r) PROVE ThrType'
  <2>1. Len(Followers) \in Nat
    BY KindsAre
  <2>2. th' \in [Tids -> Reading \cup {"none", "begin", "fetch", "create", "assign", "ended"}]
    BY <1>5 DEF CreateFollower, AssignFollower
  <2>3. nxt' \in [Runs -> 1..Len(Followers)]
    <3>1. \/ nxt' = nxt
          \/ nxt[r] < Len(Followers) /\ nxt' = [nxt EXCEPT ![r] = @ + 1]
      BY <1>5 DEF CreateFollower, AssignFollower
    <3>2. QED
      BY <2>1, <3>1
  <2>4. QED
    BY <1>5, <2>2, <2>3 DEF CreateFollower, AssignFollower
<1>6. \A t \in Tids : t[1] \in Runs
  BY DEF Tids
<1>7. QED
  BY <1>1, <1>2, <1>3, <1>4, <1>5, <1>6
     DEF Next, OwnerStep, ThreadStep, Call, TerminateProcess, CheckActive, Join, JoinReturns,
         ClearActive, JoinsOver, Unready, RunProcess, ReadErr, WriteOut, WriteErr,
         ProcessExits, Over, vars

\* Every variable keeps its type, and the owner works on an existing kind of thread,
\* however often the driver is used and whatever fails.
THEOREM DriverTypeCorrect == Spec => [](TypeOK /\ CursorInv)
<1>1. Init => TypeOK /\ CursorInv
  <2> SUFFICES ASSUME Init PROVE TypeOK /\ CursorInv
    OBVIOUS
  <2>1. Len(Kinds) \in {2, 3} /\ Len(Followers) \in {1, 2}
    BY KindsAre
  <2>2. OwnType /\ CursorInv
    <3>1. active \in [KindSet -> BOOLEAN] /\ launched \in BOOLEAN /\ ready \in BOOLEAN
      BY Zenon DEF Init
    <3>2. MaxRuns \in Nat /\ handle \in [KindSet -> 0..MaxRuns]
      BY BoundsAssumption DEF Init
    <3>3. QED
      BY <2>1, <3>1, <3>2 DEF Init, OwnType, CursorInv, Busy
  <2>3. GenType
    BY BoundsAssumption, EmptySeq DEF Init, GenType
  <2>4. ThrType
    <3>1. 0 \in 0..MaxRuns /\ 1 \in 1..Len(Followers)
      BY <2>1, BoundsAssumption
    <3>2. QED
      BY <3>1 DEF Init, ThrType, Reading
  <2>5. QED
    BY <2>2, <2>3, <2>4, TypeParts
<1>2. TypeOK /\ CursorInv /\ [Next]_vars => TypeOK' /\ CursorInv'
  BY OwnTypeKept, GenTypeKept, ThrTypeKept DEF TypeOK, OwnType, GenType, ThrType
<1>3. QED
  BY <1>1, <1>2, PTL DEF Spec

-----------------------------------------------------------------------------
(* One life cycle: the parts of the invariant OneLife                      *)

\* What the steps of the invariant start from.
Known == TypeOK /\ CursorInv /\ OneLife

\* With one generator the threads are those of run 1.
LEMMA TheThreads ==
  ASSUME MaxRuns = 1
  PROVE  /\ Runs = {1}
         /\ \A x \in KindSet : <<1, x>> \in Tids
         /\ \A t \in Tids : t = <<1, t[2]>> /\ t[1] = 1 /\ t[2] \in KindSet
         /\ "monitor" \in KindSet
         /\ \A i \in 1..Len(Followers) :
              Followers[i] \in KindSet /\ Followers[i] # "monitor"
         /\ \A i, j \in 1..Len(Followers) : Followers[i] = Followers[j] => i = j
         /\ Len(Followers) \in {1, 2} /\ Len(Kinds) \in {2, 3}
         /\ \A x \in KindSet : \E i \in 1..Len(Kinds) : Kinds[i] = x
         /\ \A i \in 1..Len(Kinds) : Kinds[i] \in KindSet
         /\ \A i, j \in 1..Len(Kinds) : Kinds[i] = Kinds[j] => i = j
<1>1. Runs = {1}
  BY DEF Runs
<1>2. /\ \A x \in KindSet : <<1, x>> \in Tids
      /\ \A t \in Tids : t = <<1, t[2]>> /\ t[1] = 1 /\ t[2] \in KindSet
  BY <1>1 DEF Tids
<1>3. Len(Followers) \in {1, 2} /\ Len(Kinds) \in {2, 3} /\ "monitor" \in KindSet
  BY KindsAre
<1>4. /\ \A x \in KindSet : \E i \in 1..Len(Kinds) : Kinds[i] = x
      /\ \A i \in 1..Len(Kinds) : Kinds[i] \in KindSet
  BY DEF KindSet
<1>5. /\ \A i \in 1..Len(Followers) : Followers[i] \in KindSet /\ Followers[i] # "monitor"
      /\ \A i, j \in 1..Len(Followers) : Followers[i] = Followers[j] => i = j
      /\ \A i, j \in 1..Len(Kinds) : Kinds[i] = Kinds[j] => i = j
  <2>1. CASE Len(Followers) = 1
    BY <2>1, KindsAre
  <2>2. CASE Len(Followers) = 2
    BY <2>2, KindsAre
  <2>3. QED
    BY <1>3, <2>1, <2>2
<1>6. QED
  BY <1>1, <1>2, <1>3, <1>4, <1>5

\* reset() and start() find an unused driver, ready_ is only raised in a run.
LEMMA LifeKept == ASSUME MaxRuns = 1, Known, [Next]_vars PROVE LifeInv'
<1> USE DEF ownVars, objVars, genVars, thrVars, LifeInv
<1>1. /\ runs \in {0, 1} /\ MaxRuns = 1 /\ Runs = {1} /\ launched \in BOOLEAN
      /\ proc \in [Runs -> {"none", "running", "exited"}]
      /\ th \in [Tids -> Reading \cup {"none", "begin", "fetch", "create", "assign", "ended"}]
  BY TheThreads DEF Known, TypeOK
<1>2. /\ LifeInv
      /\ op \in {"reset", "start"} /\ step # "spawn" => runs = 0
  BY <1>1 DEF Known, OneLife, CursorInv
<1>3. ASSUME NEW f \in Busy, Call(f) PROVE LifeInv'
  <2>1. /\ op' = f /\ step' = "terminate" /\ watched' = Findable
        /\ f \in {"reset", "start"} => runs < MaxRuns
        /\ UNCHANGED <<runs, launched, ready, proc, th>>
    BY <1>3 DEF Call
  <2>2. f \in {"reset", "start"} => Findable = {}
    BY <1>1, <1>2, <2>1 DEF Findable
  <2>3. QED
    BY <1>2, <2>1, <2>2
<1>4. CASE TerminateProcess
  BY <1>1, <1>2, <1>4 DEF TerminateProcess, Throw
<1>5. CASE CheckActive \/ Join \/ JoinReturns \/ ClearActive
  BY <1>2, <1>5 DEF CheckActive, Join, JoinReturns, ClearActive, Throw
<1>6. CASE JoinsOver
  BY <1>2, <1>6 DEF JoinsOver
<1>7. CASE Unready
  BY <1>1, <1>2, <1>7 DEF Unready
<1>8. CASE RunProcess
  BY <1>1, <1>2, <1>8 DEF RunProcess, Throw
<1>9. CASE SpawnMonitor
  BY <1>1, <1>2, <1>9 DEF SpawnMonitor, Throw
<1>10. ASSUME NEW t \in Tids, ThreadStep(t) PROVE LifeInv'
  <2>1. th[t] # "none"
    BY <1>10, TheThreads DEF ThreadStep, Begin, Fetch, ReadOut, ReadErr, ReadEof, Found, Off,
                             CreateFollower, AssignFollower
  <2>2. runs = 1 /\ launched /\ ~(op = "start" /\ step = "spawn")
    BY <1>1, <1>2, <2>1
  <2>3. /\ UNCHANGED <<runs, launched, watched, proc>>
        /\ UNCHANGED <<op, step>> \/ op' = "aborted"
    BY <1>10 DEF ThreadStep, Begin, Fetch, ReadOut, ReadErr, ReadEof, Found, Off,
                             CreateFollower, AssignFollower
  <2>4. QED
    BY <1>2, <2>2, <2>3
<1>11. ASSUME NEW r \in Runs, NEW l \in {"line", "mark"},
              ProcessExits(r) \/ WriteErr(r) \/ WriteOut(r, l)
       PROVE  LifeInv'
  BY <1>1, <1>2, <1>11 DEF ProcessExits, WriteErr, WriteOut
<1>12. CASE Over \/ UNCHANGED vars
  BY <1>2, <1>12 DEF Over, vars
<1>13. QED
  BY <1>3, <1>4, <1>5, <1>6, <1>7, <1>8, <1>9, <1>10, <1>11, <1>12 DEF Next, OwnerStep

\* The followers come after the monitor, one after the other.
LEMMA OrderKept == ASSUME MaxRuns = 1, Known, [Next]_vars PROVE OrderInv'
<1> DEFINE m == <<1, "monitor">>
<1> USE DEF ownVars, objVars, genVars, thrVars, OrderInv
<1>1. /\ runs \in {0, 1} /\ m \in Tids /\ nxt \in [{1} -> 1..Len(Followers)]
      /\ th \in [Tids -> Reading \cup {"none", "begin", "fetch", "create", "assign", "ended"}]
      /\ src \in [Tids -> 0..1]
  BY TheThreads DEF Known, TypeOK
<1>2. OrderInv /\ LifeInv
  BY DEF Known, OneLife
<1>3. ASSUME UNCHANGED thrVars PROVE OrderInv'
  BY <1>2, <1>3
<1>4. \A i \in 1..Len(Followers) : <<1, Followers[i]>> \in Tids /\ <<1, Followers[i]>> # m
  BY TheThreads
<1>5. CASE SpawnMonitor
  <2>1. runs = 1 /\ \A t \in Tids : th[t] = "none"
    BY <1>2, <1>5 DEF SpawnMonitor, LifeInv
  <2>2. th' = [th EXCEPT ![m] = "begin"] \/ th' = th
    BY <1>5, <2>1 DEF SpawnMonitor
  <2>3. UNCHANGED <<src, nxt>>
    BY <1>5 DEF SpawnMonitor
  <2>4. QED
    BY <1>1, <1>4, <2>1, <2>2, <2>3 DEF Reading
<1>6. ASSUME NEW t \in Tids, Begin(t) PROVE OrderInv'
  BY <1>1, <1>2, <1>4, <1>6 DEF Begin, Reading
<1>7. ASSUME NEW t \in Tids, Fetch(t) PROVE OrderInv'
  <2>1. runs = 1
    BY <1>1, <1>2, <1>7 DEF Fetch, LifeInv
  <2>2. QED
    BY <1>1, <1>2, <1>4, <1>7, <2>1 DEF Fetch, Reading
<1>8. ASSUME NEW t \in Tids, ReadOut(t) \/ ReadEof(t) \/ Found(t) PROVE OrderInv'
  BY <1>1, <1>2, <1>4, <1>8 DEF ReadOut, ReadEof, Found, Reading
<1>9. ASSUME NEW t \in Tids, Off(t) PROVE OrderInv'
  <2>1. th[t] = "off" /\ UNCHANGED <<src, nxt>>
        /\ th' = [th EXCEPT ![t] = IF t[2] = "monitor" THEN "create" ELSE "ended"]
    BY <1>9 DEF Off
  <2>2. CASE t = m
    BY <1>1, <1>2, <1>4, <2>1, <2>2 DEF Reading
  <2>3. CASE t # m
    BY <1>1, <1>2, <1>4, <2>1, <2>3, TheThreads DEF Reading
  <2>4. QED
    BY <2>2, <2>3
<1>10. CASE CreateFollower(1)
  <2> DEFINE f == <<1, Followers[nxt[1]]>>
  <2>1. /\ th[m] = "create" /\ UNCHANGED <<src, nxt>>
        /\ th' = th \/ th' = [th EXCEPT ![m] = "assign", ![f] = "begin"]
    BY <1>10 DEF CreateFollower
  <2>2. nxt[1] \in 1..Len(Followers) /\ f \in Tids /\ f # m
    BY <1>1, <1>4
  <2>3. \A i \in 1..Len(Followers) : i # nxt[1] => <<1, Followers[i]>> # f
    BY <2>2, TheThreads
  <2>4. \A t \in Tids : th'[t] \in Reading => th'[t] = th[t]
    BY <1>1, <2>1, <2>2 DEF Reading
  <2> HIDE DEF f
  <2>5. CASE th' = th
    BY <1>2, <2>1, <2>5
  <2>6. CASE th' = [th EXCEPT ![m] = "assign", ![f] = "begin"]
    <3>1. th'[m] = "assign"
      BY <1>1, <2>2, <2>6
    <3>2. \A i \in 1..Len(Followers) : i > nxt[1] => th'[<<1, Followers[i]>>] = "none"
      BY <1>1, <1>2, <1>4, <2>2, <2>3, <2>6
    <3>3. QED
      BY <1>2, <2>1, <2>4, <3>1, <3>2
  <2>7. QED
    BY <2>1, <2>5, <2>6
<1>11. CASE AssignFollower(1)
  <2>1. /\ th[m] = "assign" /\ src' = src
        /\ \/ th' = [th EXCEPT ![m] = "create"] /\ nxt' = [nxt EXCEPT ![1] = @ + 1]
           \/ th' = [th EXCEPT ![m] = "ended"] /\ nxt' = nxt
    BY <1>11 DEF AssignFollower
  <2>2. th'[m] \in {"create", "ended"} /\ \A t \in Tids \ {m} : th'[t] = th[t]
    BY <1>1, <2>1
  <2>3. /\ nxt[1] \in Nat
        /\ nxt'[1] = nxt[1] + 1 \/ (nxt'[1] = nxt[1] /\ th'[m] = "ended")
    <3>1. nxt[1] \in 1..Len(Followers)
      BY <1>1
    <3>2. QED
      BY <1>1, <2>1, <3>1
  <2>4. \A i \in 1..Len(Followers) :
          i > nxt'[1] \/ (i = nxt'[1] /\ th'[m] = "create") => i > nxt[1]
    BY <2>3
  <2>5. QED
    BY <1>2, <1>4, <2>1, <2>2, <2>4 DEF Reading
<1>12. ASSUME NEW t \in Tids, ThreadStep(t) PROVE OrderInv'
  <2>1. t[1] = 1
    BY TheThreads
  <2>2. ReadErr(t) => UNCHANGED thrVars
    BY DEF ReadErr
  <2>3. QED
    BY <1>3, <1>6, <1>7, <1>8, <1>9, <1>10, <1>11, <1>12, <2>1, <2>2 DEF ThreadStep
<1>13. QED
  BY <1>3, <1>5, <1>12
     DEF Next, OwnerStep, Call, TerminateProcess, CheckActive, Join, JoinReturns,
         ClearActive, JoinsOver, Unready, RunProcess, WriteOut, WriteErr, ProcessExits,
         Over, vars

\* The mark is written once, and nobody but the monitor finds it in the pipe.
LEMMA MarkKept == ASSUME MaxRuns = 1, Known, [Next]_vars PROVE MarkInv'
<1> DEFINE m == <<1, "monitor">>
<1> USE DEF ownVars, objVars, genVars, thrVars
<1>1. /\ runs \in {0, 1} /\ m \in Tids
      /\ th \in [Tids -> Reading \cup {"none", "begin", "fetch", "create", "assign", "ended"}]
      /\ out \in [{1} -> Seq({"line", "mark"})]
      /\ marked \in [{1} -> BOOLEAN] /\ proc \in [{1} -> {"none", "running", "exited"}]
  BY TheThreads DEF Known, TypeOK
<1>2. MarkInv /\ LifeInv /\ OrderInv
  BY DEF Known, OneLife
<1>3. ASSUME UNCHANGED <<th, ready, proc, marked, out>> PROVE MarkInv'
  BY <1>2, <1>3 DEF MarkInv, MarkTaken
<1>4. CASE TerminateProcess
  <2>1. UNCHANGED <<th, ready, marked, out>> /\ (proc[1] = "exited" => proc'[1] = "exited")
    BY <1>4, TheThreads DEF TerminateProcess
  <2>2. QED
    BY <1>2, <2>1 DEF MarkInv, MarkTaken
<1>5. CASE Unready
  BY <1>2, <1>5 DEF Unready, MarkInv, MarkTaken
<1>6. CASE RunProcess
  <2>1. op = "start" /\ step = "run" /\ UNCHANGED <<th, ready, marked, out>>
    BY <1>6 DEF RunProcess
  <2>2. runs = 0
    BY <1>1, <2>1 DEF Known, CursorInv
  <2>3. th[m] = "none"
    BY <1>1, <1>2, <2>2 DEF LifeInv
  <2>4. QED
    BY <1>2, <2>1, <2>3 DEF MarkInv, MarkTaken
<1>7. CASE SpawnMonitor
  <2>1. runs = 1 /\ \A t \in Tids : th[t] = "none"
    BY <1>2, <1>7 DEF SpawnMonitor, LifeInv
  <2>2. UNCHANGED <<ready, proc, marked, out>> /\ (th' = th \/ th' = [th EXCEPT ![m] = "begin"])
    BY <1>7, <2>1 DEF SpawnMonitor
  <2>3. QED
    BY <1>1, <1>2, <2>1, <2>2 DEF MarkInv, MarkTaken
<1>8. ASSUME NEW t \in Tids, Begin(t) \/ Fetch(t) PROVE MarkInv'
  <2>1. /\ UNCHANGED <<ready, proc, marked, out>> /\ th[t] \in {"begin", "fetch"}
        /\ th' = [th EXCEPT ![t] = "fetch"] \/ th' = [th EXCEPT ![t] = "read"]
             \/ (t[2] = "status_dumper" /\ th' = [th EXCEPT ![t] = "off"])
    BY <1>8 DEF Begin, Fetch
  <2>2. QED
    BY <1>1, <1>2, <2>1 DEF MarkInv, MarkTaken
<1>9. ASSUME NEW t \in Tids, ReadOut(t) PROVE MarkInv'
  <2>1. /\ th[t] = "read" /\ src[t] = 1 /\ out[1] # <<>> /\ UNCHANGED <<ready, proc, marked>>
        /\ out' = [out EXCEPT ![1] = Tail(@)]
        /\ th' = [th EXCEPT ![t] = IF t[2] = "monitor" /\ Head(out[1]) = "mark"
                                   THEN "found" ELSE "read"]
    BY <1>2, <1>9 DEF ReadOut, OrderInv, Reading
  <2>2. /\ out'[1] = Tail(out[1]) /\ OneMark(out'[1])
        /\ HasMark(out'[1]) => HasMark(out[1]) /\ Head(out[1]) # "mark"
        /\ Head(out[1]) = "mark" => HasMark(out[1])
    BY <1>1, <1>2, <2>1, PipeMarks DEF MarkInv
  <2>3. MarkTaken => MarkTaken'
    BY <2>1, <2>2 DEF MarkTaken
  <2>4. \A u \in Tids : th'[u] = "found" => MarkTaken'
    <3>1. Head(out[1]) = "mark" => MarkTaken'
      BY <1>2, <2>1, <2>2 DEF MarkInv, MarkTaken
    <3>2. QED
      BY <1>1, <1>2, <2>1, <2>3, <3>1 DEF MarkInv
  <2>5. th'[m] \in {"off", "create", "assign", "ended"} => th'[m] = th[m]
    BY <1>1, <2>1
  <2>6. QED
    BY <1>2, <2>1, <2>2, <2>3, <2>4, <2>5 DEF MarkInv
<1>10. ASSUME NEW t \in Tids, ReadEof(t) PROVE MarkInv'
  <2>1. /\ th[t] = "read" /\ src[t] = 1 /\ proc[1] = "exited" /\ UNCHANGED <<ready, proc, marked, out>>
        /\ t[2] # "status_dumper" => out[1] = <<>>
        /\ th' = [th EXCEPT ![t] = "off"]
    BY <1>2, <1>10 DEF ReadEof, OrderInv, Reading
  <2>2. QED
    BY <1>1, <1>2, <2>1 DEF MarkInv, MarkTaken
<1>11. ASSUME NEW t \in Tids, Found(t) PROVE MarkInv'
  BY <1>1, <1>2, <1>11 DEF Found, MarkInv, MarkTaken
<1>12. ASSUME NEW t \in Tids, Off(t) PROVE MarkInv'
  BY <1>1, <1>2, <1>12 DEF Off, MarkInv, MarkTaken
<1>13. CASE CreateFollower(1) \/ AssignFollower(1)
  <2>1. /\ UNCHANGED <<ready, proc, marked, out>> /\ th[m] \in {"create", "assign"}
        /\ \A t \in Tids : th'[t] = "found" => th[t] = "found"
    BY <1>1, <1>13 DEF CreateFollower, AssignFollower
  <2>2. QED
    BY <1>2, <2>1 DEF MarkInv, MarkTaken
<1>14. ASSUME NEW t \in Tids, ThreadStep(t) PROVE MarkInv'
  <2>1. t[1] = 1
    BY TheThreads
  <2>2. ReadErr(t) => UNCHANGED <<th, ready, proc, marked, out>>
    BY DEF ReadErr
  <2>3. QED
    BY <1>3, <1>8, <1>9, <1>10, <1>11, <1>12, <1>13, <1>14, <2>1, <2>2 DEF ThreadStep
<1>15. ASSUME NEW l \in {"line", "mark"}, WriteOut(1, l) PROVE MarkInv'
  <2>1. /\ proc[1] = "running" /\ (l = "mark" => ~marked[1]) /\ UNCHANGED <<ready, proc, th>>
        /\ out' = [out EXCEPT ![1] = Append(@, l)]
        /\ marked' = [marked EXCEPT ![1] = @ \/ l = "mark"]
    BY <1>15 DEF WriteOut
  <2>2. marked'[1] <=> marked[1] \/ l = "mark"
    BY <1>1, <2>1, Zenon
  <2>3. /\ out'[1] = Append(out[1], l)
        /\ HasMark(out'[1]) <=> HasMark(out[1]) \/ l = "mark"
        /\ ~HasMark(out[1]) \/ l = "line" => OneMark(out'[1])
    BY <1>1, <1>2, <2>1, PipeMarks DEF MarkInv
  <2>4. MarkTaken => MarkTaken'
    BY <2>1, <2>2, <2>3 DEF MarkTaken
  <2>5. QED
    BY <1>2, <2>1, <2>2, <2>3, <2>4 DEF MarkInv
<1>16. CASE ProcessExits(1)
  BY <1>1, <1>2, <1>16 DEF ProcessExits, MarkInv, MarkTaken
<1>17. ASSUME NEW r \in Runs, NEW l \in {"line", "mark"},
              ProcessExits(r) \/ WriteErr(r) \/ WriteOut(r, l)
       PROVE  MarkInv'
  <2>1. r = 1
    BY TheThreads
  <2>2. WriteErr(r) => UNCHANGED <<th, ready, proc, marked, out>>
    BY DEF WriteErr
  <2>3. QED
    BY <1>3, <1>15, <1>16, <1>17, <2>1, <2>2
<1>18. QED
  BY <1>3, <1>4, <1>5, <1>6, <1>7, <1>14, <1>17
     DEF Next, OwnerStep, Call, CheckActive, Join, JoinReturns, ClearActive, JoinsOver,
         Over, vars

\* A flag that is up belongs to a thread that is between its first and last step.
LEMMA FlagKept == ASSUME MaxRuns = 1, Known, [Next]_vars PROVE FlagInv'
<1> DEFINE m == <<1, "monitor">>
<1> USE DEF ownVars, objVars, genVars, thrVars, FlagInv
<1>1. /\ m \in Tids /\ active \in [KindSet -> BOOLEAN]
      /\ th \in [Tids -> Reading \cup {"none", "begin", "fetch", "create", "assign", "ended"}]
  BY TheThreads DEF Known, TypeOK
<1>2. FlagInv /\ LifeInv /\ OrderInv
  BY DEF Known, OneLife
<1>3. \A x \in KindSet : <<1, x>> \in Tids
  BY TheThreads
<1>4. ASSUME UNCHANGED <<active, th>> PROVE FlagInv'
  BY <1>2, <1>4
<1>5. CASE ClearActive
  BY <1>1, <1>2, <1>5 DEF ClearActive
<1>6. CASE SpawnMonitor
  <2>1. \A t \in Tids : th[t] = "none"
    BY <1>2, <1>6 DEF SpawnMonitor, LifeInv
  <2>2. \A x \in KindSet : ~active[x]
    BY <1>2, <1>3, <2>1 DEF Reading
  <2>3. QED
    BY <1>6, <2>2 DEF SpawnMonitor
<1>7. ASSUME NEW t \in Tids, Begin(t) PROVE FlagInv'
  <2>1. t = <<1, t[2]>> /\ t[2] \in KindSet
    BY TheThreads
  <2>2. \A x \in KindSet \ {t[2]} : <<1, x>> # t
    BY <2>1
  <2>3. th'[t] = "fetch" /\ \A x \in KindSet \ {t[2]} :
                              active'[x] = active[x] /\ th'[<<1, x>>] = th[<<1, x>>]
    BY <1>1, <1>3, <1>7, <2>2 DEF Begin
  <2>4. QED
    BY <1>2, <2>1, <2>3
<1>8. ASSUME NEW t \in Tids, Fetch(t) \/ ReadOut(t) \/ ReadEof(t) \/ Found(t) PROVE FlagInv'
  <2>1. /\ active' = active /\ th[t] \in {"fetch"} \cup Reading
        /\ th'[t] \in Reading /\ \A u \in Tids \ {t} : th'[u] = th[u]
    BY <1>1, <1>8 DEF Fetch, ReadOut, ReadEof, Found, Reading
  <2>2. QED
    BY <1>2, <1>3, <2>1
<1>9. ASSUME NEW t \in Tids, Off(t) PROVE FlagInv'
  <2>1. t = <<1, t[2]>> /\ t[2] \in KindSet
    BY TheThreads
  <2>2. \A x \in KindSet \ {t[2]} : <<1, x>> # t
    BY <2>1
  <2>3. ~active'[t[2]] /\ \A x \in KindSet \ {t[2]} :
                            active'[x] = active[x] /\ th'[<<1, x>>] = th[<<1, x>>]
    BY <1>1, <1>3, <1>9, <2>1, <2>2 DEF Off
  <2>4. QED
    BY <1>2, <2>3
<1>10. CASE CreateFollower(1)
  <2>1. nxt[1] \in 1..Len(Followers)
    BY TheThreads DEF Known, TypeOK
  <2>2. th[m] = "create" /\ th[<<1, Followers[nxt[1]]>>] = "none"
    BY <1>2, <1>10, <2>1 DEF CreateFollower, OrderInv
  <2>3. active' = active /\ \A t \in Tids : th[t] \notin {"create", "none"} => th'[t] = th[t]
    BY <1>1, <1>10, <2>2 DEF CreateFollower
  <2>4. QED
    BY <1>2, <1>3, <2>3 DEF Reading
<1>11. CASE AssignFollower(1)
  <2>1. active' = active /\ \A t \in Tids : th[t] # "assign" => th'[t] = th[t]
    BY <1>1, <1>11 DEF AssignFollower
  <2>2. QED
    BY <1>2, <1>3, <2>1 DEF Reading
<1>12. ASSUME NEW t \in Tids, ThreadStep(t) PROVE FlagInv'
  <2>1. t[1] = 1
    BY TheThreads
  <2>2. ReadErr(t) => UNCHANGED <<active, th>>
    BY DEF ReadErr
  <2>3. QED
    BY <1>4, <1>7, <1>8, <1>9, <1>10, <1>11, <1>12, <2>1, <2>2 DEF ThreadStep
<1>13. QED
  BY <1>4, <1>5, <1>6, <1>12
     DEF Next, OwnerStep, Call, TerminateProcess, CheckActive, Join, JoinReturns, JoinsOver,
         Unready, RunProcess, WriteOut, WriteErr, ProcessExits, Over, vars

\* A thread that was flagged, with its handle in place, when the owner called is
\* waited for before the call is over.
LEMMA WatchKept == ASSUME MaxRuns = 1, Known, [Next]_vars PROVE WatchInv'
<1> DEFINE m == <<1, "monitor">>
           Left(t) == th[t] \in {"create", "assign", "ended"}
           Watch(t) == /\ handle[t[2]] = t[1]
                       /\ \/ Left(t)
                          \/ active[t[2]] /\ th[t] \in {"fetch"} \cup Reading /\ Pending(t)
                          \/ step = "threw"
<1> USE DEF ownVars, objVars, genVars, thrVars
<1>1. /\ m \in Tids /\ active \in [KindSet -> BOOLEAN] /\ handle \in [KindSet -> 0..1]
      /\ th \in [Tids -> Reading \cup {"none", "begin", "fetch", "create", "assign", "ended"}]
      /\ joinee \in 0..1 /\ k \in 1..(Len(Kinds) + 1) /\ watched \subseteq Tids
  BY TheThreads DEF Known, TypeOK
<1>2. /\ \A t \in Tids : t = <<1, t[2]>> /\ t[1] = 1 /\ t[2] \in KindSet
      /\ Len(Kinds) \in {2, 3}
  BY TheThreads
<1>3. FlagInv /\ LifeInv /\ OrderInv /\ CursorInv /\ \A t \in watched : Watch(t)
  BY DEF Known, OneLife, WatchInv
<1>4. (\A t \in watched' : Watch(t)') => WatchInv'
  BY DEF WatchInv
<1>5. ASSUME NEW f \in Busy, Call(f) PROVE WatchInv'
  <2>1. /\ watched' = Findable /\ op' = f /\ step' = "terminate" /\ k' = 1
        /\ UNCHANGED <<th, active, handle>>
    BY <1>5 DEF Call
  <2>2. ASSUME NEW t \in Findable PROVE Watch(t)'
    <3>1. t \in Tids /\ active[t[2]] /\ handle[t[2]] = t[1] /\ t[2] \in KindSet
      BY <1>2 DEF Findable
    <3>2. th[t] \in {"fetch"} \cup Reading
      BY <1>2, <1>3, <3>1 DEF FlagInv
    <3>3. PICK i \in 1..Len(Kinds) : Kinds[i] = t[2]
      BY <3>1, TheThreads
    <3>4. Pending(t)'
      BY <2>1, <3>3 DEF Pending
    <3>5. QED
      BY <2>1, <3>1, <3>2, <3>4
  <2>3. QED
    BY <1>4, <2>1, <2>2
<1>6. ASSUME watched' = {} PROVE WatchInv'
  BY <1>6 DEF WatchInv
<1>7. ASSUME TerminateProcess \/ CheckActive \/ Join \/ JoinReturns \/ ClearActive \/ JoinsOver,
             NEW t \in watched
      PROVE  Watch(t)'
  <2>1. Watch(t) /\ t \in Tids /\ t[1] = 1 /\ t[2] \in KindSet /\ t = <<1, t[2]>>
    BY <1>1, <1>2, <1>3
  <2>2. step # "threw" /\ UNCHANGED <<th, handle>>
    BY <1>7 DEF TerminateProcess, CheckActive, Join, JoinReturns, ClearActive, JoinsOver
  <2>3. CASE Left(t)
    BY <2>1, <2>2, <2>3
  <2>4. CASE step' = "threw"
    BY <2>1, <2>2, <2>4
  <2>5. ASSUME ~Left(t), step' # "threw" PROVE Watch(t)'
    <3>1. /\ active[t[2]] /\ th[t] \in {"fetch"} \cup Reading /\ Pending(t)
      BY <2>1, <2>2, <2>5
    <3>2. PICK i \in k..Len(Kinds) : Kinds[i] = t[2] /\ ~(i = k /\ step = "clear")
      BY <3>1 DEF Pending
    <3>3. i \in Nat /\ k \in Nat /\ Len(Kinds) \in Nat /\ i \in 1..Len(Kinds) /\ k <= Len(Kinds)
      BY <1>1, <1>2, <3>2
    <3>4. k \in 1..Len(Kinds) /\ (i # k => i \in (k + 1)..Len(Kinds) /\ Kinds[k] # t[2])
      BY <1>1, <3>2, <3>3, TheThreads
    <3>5. ASSUME op' \in Busy, step' \in {"terminate", "check", "join", "wait", "clear"},
                 active'[t[2]] = active[t[2]],
                 \/ k' = k /\ step' # "clear"
                 \/ k' = k /\ i # k
                 \/ k' = k + 1 /\ i # k /\ step' # "clear"
          PROVE  Watch(t)'
      <4>1. i \in k'..Len(Kinds) /\ ~(i = k' /\ step' = "clear")
        BY <3>2, <3>3, <3>4, <3>5
      <4>2. Pending(t)'
        BY <3>2, <3>5, <4>1 DEF Pending
      <4>3. QED
        BY <2>1, <2>2, <3>1, <3>5, <4>2
    <3>6. CASE TerminateProcess
      BY <2>5, <3>5, <3>6 DEF TerminateProcess, Throw
    <3>7. CASE CheckActive
      <4>1. i = k => active[Kinds[k]]
        BY <3>1, <3>2
      <4>2. QED
        BY <3>5, <3>7, <4>1 DEF CheckActive
    <3>8. CASE Join
      <4>1. i = k => handle[Kinds[k]] # 0
        BY <2>1, <3>2
      <4>2. QED
        BY <2>5, <3>5, <3>8, <4>1 DEF Join, Throw
    <3>9. CASE JoinReturns
      <4>1. joinee = 1
        BY <1>1, <1>3, <3>9 DEF JoinReturns, CursorInv
      <4>2. i # k
        BY <2>1, <2>5, <3>2, <3>9, <4>1 DEF JoinReturns
      <4>3. QED
        BY <3>5, <3>9, <4>2 DEF JoinReturns
    <3>10. CASE ClearActive
      <4>1. i # k /\ Kinds[k] # t[2]
        BY <3>2, <3>4, <3>10 DEF ClearActive
      <4>2. active'[t[2]] = active[t[2]]
        BY <1>1, <2>1, <3>10, <4>1 DEF ClearActive
      <4>3. QED
        BY <3>5, <3>10, <4>1, <4>2 DEF ClearActive
    <3>11. CASE JoinsOver
      BY <3>3, <3>11 DEF JoinsOver
    <3>12. QED
      BY <1>7, <3>6, <3>7, <3>8, <3>9, <3>10, <3>11
  <2>6. QED
    BY <2>3, <2>4, <2>5
<1>8. ASSUME UNCHANGED <<ownVars, th, active, handle>> PROVE WatchInv'
  BY <1>3, <1>8 DEF WatchInv, Pending
<1>9. ASSUME NEW u \in Tids, ThreadStep(u), NEW t \in watched PROVE Watch(t)'
  <2>1. /\ Watch(t) /\ t \in Tids /\ t[1] = 1 /\ t[2] \in KindSet /\ t = <<1, t[2]>>
        /\ u[1] = 1 /\ u = <<1, u[2]>> /\ u[2] \in KindSet
        /\ t # u => t[2] # u[2]
    BY <1>1, <1>2, <1>3
  <2>2. (UNCHANGED <<op, step, k>>) => (Pending(t) => Pending(t)')
    BY DEF Pending
  <2>3. CASE Begin(u)
    <3>1. /\ UNCHANGED <<op, step, k, handle>> /\ th[u] = "begin"
          /\ t # u => th'[t] = th[t] /\ active'[t[2]] = active[t[2]]
      BY <1>1, <2>1, <2>3 DEF Begin
    <3>2. QED
      BY <2>1, <2>2, <3>1 DEF Reading
  <2>4. CASE Fetch(u) \/ ReadOut(u) \/ ReadEof(u) \/ Found(u)
    <3>1. /\ UNCHANGED <<op, step, k, handle, active>> /\ th[u] \in {"fetch"} \cup Reading
          /\ th'[u] \in Reading
          /\ t # u => th'[t] = th[t]
      BY <1>1, <2>1, <2>4 DEF Fetch, ReadOut, ReadEof, Found, Reading
    <3>2. QED
      BY <2>1, <2>2, <3>1 DEF Reading
  <2>5. CASE ReadErr(u)
    BY <2>1, <2>2, <2>5 DEF ReadErr
  <2>6. CASE Off(u)
    <3>1. /\ UNCHANGED <<op, step, k, handle>> /\ th'[u] \in {"create", "ended"}
          /\ t # u => th'[t] = th[t] /\ active'[t[2]] = active[t[2]]
      BY <1>1, <2>1, <2>6 DEF Off
    <3>2. QED
      BY <2>1, <2>2, <3>1
  <2>7. CASE CreateFollower(1)
    <3>1. nxt[1] \in 1..Len(Followers)
      BY TheThreads DEF Known, TypeOK
    <3>2. th[m] = "create" /\ th[<<1, Followers[nxt[1]]>>] = "none"
      BY <1>3, <2>7, <3>1 DEF CreateFollower, OrderInv
    <3>3. /\ UNCHANGED <<k, handle, active>>
          /\ UNCHANGED <<op, step>> \/ step' = "threw"
          /\ th'[t] # th[t] => th[t] = "none" \/ th'[t] = "assign"
      BY <1>1, <2>1, <2>7, <3>2 DEF CreateFollower
    <3>4. QED
      BY <2>1, <2>2, <3>3 DEF Reading
  <2>8. CASE AssignFollower(1)
    <3>1. /\ UNCHANGED <<op, step, k, active>> /\ handle'[t[2]] \in {handle[t[2]], 1}
          /\ th'[t] # th[t] => th'[t] \in {"create", "ended"}
      BY <1>1, <2>1, <2>8 DEF AssignFollower
    <3>2. QED
      BY <2>1, <2>2, <3>1
  <2>9. QED
    BY <1>9, <2>1, <2>3, <2>4, <2>5, <2>6, <2>7, <2>8 DEF ThreadStep
<1>10. (\E u \in Tids : ThreadStep(u)) \/ TerminateProcess \/ CheckActive \/ Join
         \/ JoinReturns \/ ClearActive \/ JoinsOver => watched' = watched
  BY DEF ThreadStep, Begin, Fetch, ReadOut, ReadErr, ReadEof, Found, Off, CreateFollower,
         AssignFollower, TerminateProcess, CheckActive, Join, JoinReturns, ClearActive,
         JoinsOver
<1>11. CASE Unready \/ RunProcess \/ SpawnMonitor
  <2>1. watched' = {}
    BY <1>3, <1>11 DEF LifeInv, Unready, RunProcess, SpawnMonitor
  <2>2. QED
    BY <1>6, <2>1
<1>12. (\E u \in Tids : ThreadStep(u)) \/ TerminateProcess \/ CheckActive \/ Join
         \/ JoinReturns \/ ClearActive \/ JoinsOver => WatchInv'
  BY <1>4, <1>7, <1>9, <1>10
<1>13. ASSUME NEW r \in Runs, NEW l \in {"line", "mark"},
              ProcessExits(r) \/ WriteErr(r) \/ WriteOut(r, l)
       PROVE  WatchInv'
  BY <1>8, <1>13 DEF ProcessExits, WriteErr, WriteOut
<1>14. Over \/ UNCHANGED vars => WatchInv'
  BY <1>8 DEF Over, vars
<1>15. QED
  BY <1>5, <1>11, <1>12, <1>13, <1>14 DEF Next, OwnerStep

-----------------------------------------------------------------------------
(* What one life cycle of a driver guarantees                              *)

\* OneLife holds in every state.
THEOREM DriverInvariant ==
  ASSUME MaxRuns = 1
  PROVE  Spec => []Known
<1>1. Init => OneLife
  <2> SUFFICES ASSUME Init PROVE OneLife
    OBVIOUS
  <2>1. runs = 0 /\ launched = FALSE /\ ready = FALSE /\ watched = {} /\ op = "idle"
    BY DEF Init
  <2>2. /\ \A t \in Tids : th[t] = "none"
        /\ \A r \in Runs : proc[r] = "none" /\ out[r] = <<>>
        /\ \A x \in KindSet : ~active[x]
    BY DEF Init
  <2>3. LifeInv
    BY <2>1, <2>2 DEF LifeInv
  <2>4. OrderInv
    BY <2>2, TheThreads DEF OrderInv, Reading
  <2>5. MarkInv
    <3>1. out[1] = <<>> /\ Len(<<>>) = 0 /\ th[<<1, "monitor">>] = "none"
      BY <2>2, TheThreads, EmptySeq
    <3>2. OneMark(out[1]) /\ ~HasMark(out[1])
      BY <3>1 DEF OneMark, HasMark
    <3>3. QED
      BY <2>1, <2>2, <3>1, <3>2 DEF MarkInv
  <2>6. FlagInv /\ WatchInv
    BY <2>1, <2>2 DEF FlagInv, WatchInv
  <2>7. QED
    BY <2>3, <2>4, <2>5, <2>6 DEF OneLife
<1>2. Known /\ [Next]_vars => OneLife'
  BY LifeKept, OrderKept, MarkKept, FlagKept, WatchKept DEF OneLife
<1>3. QED
  BY <1>1, <1>2, DriverTypeCorrect, PTL DEF Spec, Known

\* ready() answers yes only after the mark was written and read.
THEOREM ReadyIsEarned ==
  ASSUME MaxRuns = 1
  PROVE  Spec => []ReadyOnlyAfterMark
<1>1. Known => ReadyOnlyAfterMark
  <2> SUFFICES ASSUME Known, ready PROVE ReadyOnlyAfterMark
    BY DEF ReadyOnlyAfterMark
  <2>1. runs = 1
    BY DEF Known, OneLife, LifeInv
  <2>2. MarkTaken
    BY DEF Known, OneLife, MarkInv
  <2>3. QED
    BY <2>1, <2>2 DEF MarkTaken, HasMark, ReadyOnlyAfterMark
<1>2. QED
  BY <1>1, DriverInvariant, PTL

\* No two threads read the same standard output.
THEOREM OneReader ==
  ASSUME MaxRuns = 1
  PROVE  Spec => []SoleReader
<1>1. Known => SoleReader
  <2> SUFFICES ASSUME Known, NEW t \in Tids, NEW u \in Tids, th[t] = "read", th[u] = "read",
                      t[2] # "status_dumper", u[2] # "status_dumper"
               PROVE  t = u
    BY DEF SoleReader
  <2>1. t = <<1, t[2]>> /\ u = <<1, u[2]>>
    BY TheThreads
  <2>2. t[2] \in {"monitor", "logger"} /\ u[2] \in {"monitor", "logger"}
    BY TheThreads, KindsAre
  <2>3. Followers[1] = "logger" /\ 1 \in 1..Len(Followers)
    BY KindsAre
  <2>4. th[<<1, "monitor">>] = "read" => th[<<1, "logger">>] = "none"
    BY <2>3 DEF Known, OneLife, OrderInv
  <2>5. QED
    BY <2>1, <2>2, <2>4
<1>2. QED
  BY <1>1, DriverInvariant, PTL

\* A call that has returned has waited for every thread it could see.
THEOREM CallsWait ==
  ASSUME MaxRuns = 1
  PROVE  Spec => []Joined
<1>1. Known => Joined
  BY DEF Known, OneLife, WatchInv, Pending, Joined, Busy, Reading
<1>2. QED
  BY <1>1, DriverInvariant, PTL

\* Only the monitor takes the mark out of the pipe.
THEOREM MonitorTakesMark ==
  ASSUME MaxRuns = 1
  PROVE  Spec => MarkReadByMonitor
<1> DEFINE m == <<1, "monitor">>
<1>1. Known /\ [Next]_vars =>
        \A r \in Runs : HasMark(out[r]) /\ ~HasMark(out'[r]) => th'[<<r, "monitor">>] = "found"
  <2> SUFFICES ASSUME Known, [Next]_vars, HasMark(out[1]), ~HasMark(out'[1])
               PROVE  th'[m] = "found"
    BY TheThreads
  <2>1. /\ m \in Tids /\ out \in [{1} -> Seq({"line", "mark"})]
        /\ th \in [Tids -> Reading \cup {"none", "begin", "fetch", "create", "assign", "ended"}]
        /\ MarkInv /\ OrderInv
    BY TheThreads DEF Known, TypeOK, OneLife
  <2>2. ASSUME NEW t \in Tids, ReadOut(t) PROVE th'[m] = "found"
    <3>1. /\ th[t] = "read" /\ src[t] = 1 /\ out[1] # <<>> /\ t[2] # "status_dumper"
          /\ out' = [out EXCEPT ![1] = Tail(@)]
          /\ th' = [th EXCEPT ![t] = IF t[2] = "monitor" /\ Head(out[1]) = "mark"
                                     THEN "found" ELSE "read"]
      BY <2>1, <2>2 DEF ReadOut, OrderInv, Reading
    <3>2. Head(out[1]) = "mark"
      BY <2>1, <3>1, PipeMarks DEF MarkInv
    <3>3. t[2] = "monitor"
      <4>1. SUFFICES ASSUME t[2] # "monitor" PROVE FALSE
        OBVIOUS
      <4>2. t = <<1, "logger">> /\ Followers[1] = "logger" /\ 1 \in 1..Len(Followers)
        BY <3>1, <4>1, TheThreads, KindsAre
      <4>3. th[m] \in {"create", "assign", "ended"}
        BY <2>1, <3>1, <4>2 DEF OrderInv
      <4>4. QED
        BY <2>1, <3>1, <4>3 DEF MarkInv, MarkTaken
    <3>4. t = m
      BY <3>3, TheThreads
    <3>5. QED
      BY <2>1, <3>1, <3>2, <3>4
  <2>3. ASSUME NEW r \in Runs, NEW l \in {"line", "mark"}, WriteOut(r, l) PROVE FALSE
    <3>1. r = 1 /\ out' = [out EXCEPT ![1] = Append(@, l)]
      BY <2>3, TheThreads DEF WriteOut
    <3>2. QED
      BY <2>1, <3>1, PipeMarks DEF MarkInv
  <2>4. out' # out
    OBVIOUS
  <2>5. QED
    BY <2>2, <2>3, <2>4
       DEF Next, OwnerStep, Call, TerminateProcess, CheckActive, Join, JoinReturns,
           ClearActive, JoinsOver, Unready, RunProcess, SpawnMonitor, ThreadStep, Begin,
           Fetch, ReadErr, ReadEof, Found, Off, CreateFollower, AssignFollower,
           ProcessExits, WriteErr, Over, vars, ownVars, objVars, genVars, thrVars
<1>2. QED
  BY <1>1, DriverInvariant, PTL DEF Spec, MarkReadByMonitor

\* In one life cycle the drivers do what DriverContract promises the experiment.
THEOREM KeepsDriverContract ==
  ASSUME MaxRuns = 1
  PROVE  Spec => ImplementsDriverContract
<1> USE DEF ownVars, objVars, genVars, thrVars
<1>1. Init => Contract!Init
  BY DEF Init, Contract!Init, Alive
<1>2. Known /\ [Next]_vars => [Contract!Next]_(Contract!vars)
  <2> SUFFICES ASSUME Known, [Next]_vars PROVE [Contract!Next]_(Contract!vars)
    OBVIOUS
  <2>1. /\ Runs = {1} /\ LifeInv /\ runs \in {0, 1} /\ Len(Kinds) \in {2, 3}
        /\ proc \in [{1} -> {"none", "running", "exited"}]
        /\ op \in {"reset", "start"} /\ step # "spawn" => runs = 0
    BY TheThreads DEF Known, OneLife, TypeOK, CursorInv
  <2>2. (Alive <=> proc[1] = "running") /\ (Alive' <=> proc'[1] = "running")
    BY <2>1 DEF Alive
  <2>3. CASE TerminateProcess
    <3>1. /\ UNCHANGED <<launched, ready>>
          /\ proc' = proc \/ proc'[1] # "running"
      BY <2>1, <2>3 DEF TerminateProcess
    <3>2. CASE proc' = proc
      BY <2>2, <3>1, <3>2 DEF Contract!vars, Alive
    <3>3. CASE proc'[1] # "running"
      BY <2>2, <3>1, <3>3 DEF Contract!Exit, Contract!Next
    <3>4. QED
      BY <3>1, <3>2, <3>3
  <2>4. CASE Unready
    BY <2>1, <2>2, <2>4 DEF Unready, LifeInv, Contract!Reset, Contract!Next
  <2>5. CASE RunProcess
    <3>1. runs = 0 /\ ~launched /\ ~ready
      BY <2>1, <2>5 DEF RunProcess, LifeInv
    <3>2. CASE launched' = launched /\ proc' = proc
      BY <2>5, <3>2 DEF RunProcess, Contract!vars, Alive
    <3>3. CASE ~(launched' = launched /\ proc' = proc)
      <4>1. launched' = TRUE /\ proc'[1] = "running" /\ ready' = ready
        BY <2>1, <2>5, <3>1, <3>3 DEF RunProcess
      <4>2. QED
        BY <2>2, <3>1, <4>1 DEF Contract!Launch, Contract!Next
    <3>4. QED
      BY <3>2, <3>3
  <2>6. ASSUME NEW t \in Tids, Found(t) PROVE [Contract!Next]_(Contract!vars)
    <3>1. launched /\ ready' = TRUE /\ UNCHANGED <<launched, proc>>
      BY <2>1, <2>6 DEF Found, LifeInv
    <3>2. QED
      BY <3>1 DEF Contract!RampUp, Contract!Next, Alive
  <2>7. ASSUME NEW r \in Runs, ProcessExits(r) PROVE [Contract!Next]_(Contract!vars)
    <3>1. proc'[1] # "running" /\ UNCHANGED <<launched, ready>>
      BY <2>1, <2>7 DEF ProcessExits
    <3>2. QED
      BY <2>2, <3>1 DEF Contract!Exit, Contract!Next
  <2>8. ASSUME UNCHANGED <<launched, proc, ready>> PROVE [Contract!Next]_(Contract!vars)
    BY <2>8 DEF Contract!vars, Alive
  <2>9. QED
    BY <2>3, <2>4, <2>5, <2>6, <2>7, <2>8
       DEF Next, OwnerStep, Call, CheckActive, Join, JoinReturns, ClearActive, JoinsOver,
           SpawnMonitor, ThreadStep, Begin, Fetch, ReadOut, ReadErr, ReadEof, Off,
           CreateFollower, AssignFollower, WriteErr, WriteOut, Over, vars
<1>3. QED
  BY <1>1, <1>2, DriverInvariant, PTL DEF Spec, ImplementsDriverContract, Contract!Spec
=============================================================================
