------------------------ MODULE SystemExperiment_proofs ------------------------
(***************************************************************************)
(* Proofs about SystemExperiment, for any number of applications, VMs of   *)
(* any size, all shares a manager may ask for and any number of runs.      *)
(***************************************************************************)
EXTENDS SystemExperiment, FiniteSetTheorems, TLAPS

-----------------------------------------------------------------------------
(* The conversions of the shares                                           *)

\* A share that was read as n is rounded to n again, whatever the error of the product.
LEMMA RoundedOfRead ==
  ASSUME NEW n \in Nat
  PROVE  Rounded(4 * n) = {n}
<1>1. \A error \in {-1, 0, 1} : (2 * (4 * n) + error + 4) \div 8 = n
  OBVIOUS
<1>2. QED
  BY <1>1 DEF Rounded

LEMMA RoundedTypes ==
  ASSUME NEW share \in Nat, NEW r \in Rounded(share)
  PROVE  r \in Nat
<1>1. PICK error \in {-1, 0, 1} : r = (2 * share + error + 4) \div 8
  BY DEF Rounded
<1>2. 2 * share + error + 4 \in Nat
  BY <1>1
<1>3. QED
  BY <1>1, <1>2

LEMMA CpuShareTypes ==
  ASSUME NEW share \in Nat, NEW c \in SetCpuShare(share)
  PROVE  c \in 0..FullCap
BY RoundedTypes, SharesAssumption DEF SetCpuShare, SetCpuCap

LEMMA MemoryShareTypes ==
  ASSUME NEW share \in Nat, NEW m \in SetMemoryShare(share)
  PROVE  m \in 0..MaxMem
BY RoundedTypes, SharesAssumption DEF SetMemoryShare, Smaller

\* Setting the CPU share that was read leaves as much of the CPU as before; only the cap of a
\* whole VM may have become none.
LEMMA CpuShareKept ==
  ASSUME NEW c \in 0..FullCap, NEW d \in SetCpuShare(CpuShare(c))
  PROVE  CpuCap(d) = CpuCap(c)
<1>1. CpuCap(c) \in 1..FullCap /\ FullCap \in Nat
  BY SharesAssumption DEF CpuCap
<1>2. CASE CpuCap(c) < FullCap
  <2>1. SetCpuShare(CpuShare(c)) = {SetCpuCap(kap) : kap \in {CpuCap(c)}}
    BY <1>1, <1>2, RoundedOfRead DEF SetCpuShare, CpuShare
  <2>2. d = SetCpuCap(CpuCap(c))
    BY <2>1
  <2>3. QED
    BY <1>1, <2>2 DEF SetCpuCap, CpuCap
<1>3. CASE CpuCap(c) = FullCap
  <2>1. d = SetCpuCap(0)
    BY <1>1, <1>3 DEF SetCpuShare, CpuShare
  <2>2. QED
    BY <1>1, <1>3, <2>1 DEF SetCpuCap, CpuCap
<1>4. QED
  BY <1>1, <1>2, <1>3

LEMMA MemoryShareKept ==
  ASSUME NEW m \in 0..MaxMem, NEW d \in SetMemoryShare(MemoryShare(m))
  PROVE  d = m
<1>1. m \in Nat /\ m <= MaxMem
  BY SharesAssumption
<1>2. d = Smaller(m, MaxMem)
  BY <1>1, RoundedOfRead DEF SetMemoryShare, MemoryShare
<1>3. QED
  BY <1>1, <1>2 DEF Smaller

-----------------------------------------------------------------------------
(* The invariant                                                           *)

InRun == main \in {"create", "join", "report"}

\* The experiment waits for its thread.
Waits(a) == main = "create" /\ a > created

\* No thread is left outside a run, and none is there before it is created.
Places ==
  /\ main \in {"idle", "report"} => \A a \in Apps : thread[a] = "none"
  /\ \A a \in Apps : Waits(a) => thread[a] = "none"

CpuGiven(a) == CpuCap(cap[a]) = CpuCap(before[a].cap)

\* Before and after its experiment a VM has what it had before the run; in between that is
\* what was saved.
Given(a) ==
  /\ thread[a] \in {"none", "begun"} => CpuGiven(a) /\ mem[a] = before[a].mem
  /\ thread[a] \notin {"none", "begun"} =>
       saved[a].cpu = CpuShare(before[a].cap) /\ saved[a].mem = MemoryShare(before[a].mem)
  /\ thread[a] = "ending" => mem[a] = before[a].mem

\* Experiments that have no accumulators yet
Fresh(a) == Waits(a) \/ thread[a] \in {"begun", "saved", "inserting"}

\* The accumulators hold every control but the one whose handlers still run.
Counted(a) ==
  /\ Fresh(a) => controls[a] = 0
  /\ thread[a] \in {"applied", "adding"} => controls[a] > 0
  /\ stats[a] = IF a \notin tracked \/ Fresh(a) THEN NoStats
                ELSE IF thread[a] \in {"applied", "adding"} THEN controls[a] - 1
                ELSE controls[a]

\* Only tracked experiments call the gatherer, and it takes two to meet.
Tracking ==
  /\ \A a \in Apps : thread[a] \in {"inserting", "adding"} => a \in tracked
  /\ torn => Cardinality(tracked) > 1

Inv ==
  /\ TypeOK
  /\ Places
  /\ InRun => \A a \in Apps : Given(a) /\ Counted(a)
  /\ Tracking

LEMMA InitInv == Init => Inv
<1> SUFFICES ASSUME Init PROVE Inv
  OBVIOUS
<1>1. MaxControls \in Nat /\ N \in Nat /\ MaxRuns \in Nat /\ FullCap \in Nat /\ MaxMem \in Nat
  BY SystemAssumption, SharesAssumption
<1>2. cap \in [Apps -> 0..FullCap] /\ mem \in [Apps -> 0..MaxMem]
  BY SystemAssumption DEF Init
<1>3. before \in [Apps -> [cap : 0..FullCap, mem : 0..MaxMem]]
  BY <1>2 DEF Init
<1>4. saved \in [Apps -> [cpu : 0..(4 * FullCap), mem : 0..(4 * MaxMem)]]
  BY <1>1 DEF Init
<1>5. tracked \in SUBSET Apps
  BY SystemAssumption DEF Init, Apps
<1>6. stats \in [Apps -> 0..NoStats] /\ controls \in [Apps -> 0..MaxControls]
  BY <1>1 DEF Init, NoStats
<1>7. TypeOK
  <2>1. /\ main = "idle" /\ runs = 0 /\ created = 0 /\ running = FALSE /\ torn = FALSE
        /\ thread = [a \in Apps |-> "none"]
    BY DEF Init
  <2>2. runs \in 0..MaxRuns /\ created \in 0..N
    BY <1>1, <2>1
  <2>3. thread \in [Apps -> {"none", "begun", "saved", "inserting", "managed", "applied",
                            "adding", "settling", "ending"}]
    BY <2>1
  <2>4. main \in {"idle", "create", "join", "report", "aborted", "undefined"}
        /\ running \in BOOLEAN /\ torn \in BOOLEAN
    BY <2>1
  <2>5. QED
    BY <1>2, <1>3, <1>4, <1>5, <1>6, <2>2, <2>3, <2>4, Zenon DEF TypeOK
<1>8. QED
  BY <1>7 DEF Inv, Places, Waits, InRun, Tracking, Init

\* A step of the thread of an experiment leaves the other threads where they are.
LEMMA GoesMoves ==
  ASSUME Inv, NEW a \in Apps, NEW from, NEW to, Goes(a, from, to)
  PROVE  /\ thread[a] = from /\ thread'[a] = to
         /\ \A b \in Apps : b # a => thread'[b] = thread[b]
         /\ tracked' = tracked /\ main' = main /\ runs' = runs /\ created' = created
         /\ running' = running /\ before' = before
BY DEF Goes, Inv, TypeOK, mainVars

\* It only runs in a run, before that is over.
LEMMA GoesInRun ==
  ASSUME Inv, NEW a \in Apps, NEW from, NEW to, Goes(a, from, to), from # "none"
  PROVE  InRun /\ Given(a) /\ Counted(a) /\ main # "report" /\ ~Waits(a)
<1>1. main \in {"create", "join"}
  BY DEF Inv, TypeOK, Places, Goes, Alive
<1>2. ~Waits(a)
  BY DEF Inv, Places, Goes
<1>3. QED
  BY <1>1, <1>2 DEF Inv, InRun

\* What the step of one thread leaves alone
LEMMA ThreadStep ==
  ASSUME Inv, NEW a \in Apps, NEW from, NEW to, Goes(a, from, to), from # "none",
         TypeOK', Given(a)', Counted(a)', Tracking',
         \A b \in Apps : b # a =>
           /\ cap'[b] = cap[b] /\ mem'[b] = mem[b] /\ saved'[b] = saved[b]
           /\ stats'[b] = stats[b] /\ controls'[b] = controls[b]
  PROVE  Inv'
<1>1. /\ \A b \in Apps : b # a => thread'[b] = thread[b]
      /\ tracked' = tracked /\ main' = main /\ created' = created /\ before' = before
  BY GoesMoves
<1>2. InRun /\ main # "report" /\ ~Waits(a)
  BY GoesInRun
<1>3. Places'
  BY <1>1, <1>2 DEF Places, Waits, InRun, Inv
<1>4. ASSUME NEW b \in Apps
      PROVE  Given(b)' /\ Counted(b)'
  <2>1. CASE b = a
    BY <2>1
  <2>2. CASE b # a
    <3>1. Given(b) /\ Counted(b)
      BY <1>2 DEF Inv
    <3>2. Given(b)'
      BY <1>1, <2>2, <3>1 DEF Given, CpuGiven
    <3>3. Counted(b)'
      BY <1>1, <2>2, <3>1 DEF Counted, Fresh, Waits
    <3>4. QED
      BY <3>2, <3>3
  <2>3. QED
    BY <2>1, <2>2
<1>5. QED
  BY <1>3, <1>4 DEF Inv

LEMMA SaveStateKeeps ==
  ASSUME Inv, NEW a \in Apps, SaveState(a)
  PROVE  Inv'
<1>1. Goes(a, "begun", "saved") /\ UNCHANGED <<cap, mem, stats, controls, torn>>
      /\ saved' = [saved EXCEPT ![a] = [cpu |-> CpuShare(cap[a]), mem |-> MemoryShare(mem[a])]]
  BY DEF SaveState
<1>2. /\ thread[a] = "begun" /\ thread'[a] = "saved" /\ before' = before /\ tracked' = tracked
      /\ main' = main /\ created' = created
      /\ \A b \in Apps : b # a => thread'[b] = thread[b]
  BY <1>1, GoesMoves
<1>3. InRun /\ Given(a) /\ Counted(a) /\ ~Waits(a)
  BY <1>1, GoesInRun
<1>4. CpuShare(cap[a]) \in 0..(4 * FullCap) /\ MemoryShare(mem[a]) \in 0..(4 * MaxMem)
  BY SharesAssumption DEF Inv, TypeOK, CpuShare, CpuCap, MemoryShare
<1>5. TypeOK'
  BY <1>1, <1>4 DEF Inv, TypeOK, Goes, mainVars
<1>6. saved'[a] = [cpu |-> CpuShare(cap[a]), mem |-> MemoryShare(mem[a])]
  BY <1>1 DEF Inv, TypeOK
<1>7. Given(a)'
  BY <1>1, <1>2, <1>3, <1>6 DEF Given, CpuGiven, CpuShare
<1>8. Counted(a)'
  BY <1>1, <1>2, <1>3 DEF Counted, Fresh, Waits
<1>9. Tracking'
  BY <1>1, <1>2 DEF Inv, Tracking
<1>10. QED
  BY <1>1, <1>5, <1>6, <1>7, <1>8, <1>9, ThreadStep DEF Inv, TypeOK

\* Who meets another in the gatherer is tracked, and so is the other.
LEMMA TwoMeet ==
  ASSUME Inv, NEW a \in tracked, NEW writes, Enter(a, writes)
  PROVE  torn' \in BOOLEAN /\ (torn' => Cardinality(tracked) > 1)
<1>1. tracked \in SUBSET Apps /\ torn \in BOOLEAN /\ (torn => Cardinality(tracked) > 1)
  BY DEF Inv, TypeOK, Tracking
<1>2. IsFiniteSet(tracked)
  <2>1. IsFiniteSet(1..N)
    BY SystemAssumption, FS_Interval
  <2>2. QED
    BY <1>1, <2>1, FS_Subset DEF Apps
<1>3. ASSUME NEW b \in Inside \ {a} PROVE Cardinality(tracked) > 1
  <2>1. {a, b} \subseteq tracked
    BY DEF Inv, Tracking, Inside
  <2>2. Cardinality({a, b}) = 2
    <3>1. IsFiniteSet({b}) /\ Cardinality({b}) = 1 /\ a \notin {b} /\ {a, b} = {b} \cup {a}
      BY <1>3, FS_Singleton
    <3>2. QED
      BY <3>1, FS_AddElement
  <2>3. QED
    BY <1>2, <2>1, <2>2, FS_Subset, FS_CardinalityType
<1>4. torn' = (torn \/ \E b \in Inside \ {a} : writes \/ thread[b] = "inserting")
  BY DEF Enter
<1>5. torn' \in BOOLEAN
  BY <1>4
<1>6. QED
  BY <1>1, <1>3, <1>4, <1>5

\* A step that leaves the VM and the statistics of the experiment alone.
LEMMA QuietStep ==
  ASSUME Inv, NEW a \in Apps, NEW from, NEW to, Goes(a, from, to),
         from \notin {"none", "begun"}, to \notin {"none", "begun", "ending"},
         UNCHANGED <<vmVars, stats, controls>>, torn' \in BOOLEAN,
         torn' => Cardinality(tracked) > 1,
         to \in {"saved", "inserting", "managed", "applied", "adding", "settling"},
         to \in {"inserting", "adding"} => a \in tracked,
         to \in {"saved", "inserting"} => from \in {"saved", "inserting"},
         to \in {"applied", "adding"} => from \in {"applied", "adding"},
         a \in tracked => /\ from \in {"saved", "inserting"} => to \in {"saved", "inserting"}
                          /\ from \in {"applied", "adding"} => to \in {"applied", "adding"}
  PROVE  Inv'
<1>1. /\ thread[a] = from /\ thread'[a] = to /\ before' = before /\ tracked' = tracked
      /\ main' = main /\ created' = created
      /\ \A b \in Apps : b # a => thread'[b] = thread[b]
  BY GoesMoves
<1>2. Given(a) /\ Counted(a) /\ ~Waits(a)
  BY GoesInRun
<1>3. TypeOK'
  BY DEF Inv, TypeOK, Goes, mainVars, vmVars
<1>4. Given(a)'
  BY <1>1, <1>2 DEF Given, CpuGiven, vmVars
<1>5. Counted(a)'
  <2>1. stats'[a] = stats[a] /\ controls'[a] = controls[a] /\ ~Waits(a)'
    BY <1>1, <1>2 DEF Waits
  <2>2. Fresh(a) <=> from \in {"saved", "inserting"}
    BY <1>1, <1>2 DEF Fresh
  <2>3. Fresh(a)' <=> to \in {"saved", "inserting"}
    BY <1>1, <2>1 DEF Fresh
  <2>4. CASE a \in tracked
    <3>1. Fresh(a)' <=> Fresh(a)
      BY <2>2, <2>3, <2>4
    <3>2. thread'[a] \in {"applied", "adding"} <=> thread[a] \in {"applied", "adding"}
      BY <1>1, <2>4
    <3>3. QED
      BY <1>1, <1>2, <2>1, <3>1, <3>2, Zenon DEF Counted
  <2>5. CASE a \notin tracked
    BY <1>1, <1>2, <2>1, <2>2, <2>3, <2>5 DEF Counted
  <2>6. QED
    BY <2>4, <2>5
<1>6. Tracking'
  BY <1>1 DEF Inv, Tracking
<1>7. QED
  BY <1>3, <1>4, <1>5, <1>6, ThreadStep DEF vmVars

LEMMA OnAppStartKeeps ==
  ASSUME Inv, NEW a \in Apps, OnAppStart(a)
  PROVE  Inv'
<1>1. UNCHANGED <<vmVars, stats, controls>>
  BY DEF OnAppStart
<1>2. CASE a \in tracked
  <2>1. Goes(a, "saved", "inserting") /\ Enter(a, TRUE)
    BY <1>2 DEF OnAppStart
  <2>2. QED
    BY <1>1, <1>2, <2>1, TwoMeet, QuietStep
<1>3. CASE a \notin tracked
  <2>1. Goes(a, "saved", "managed") /\ torn' = torn
    BY <1>3 DEF OnAppStart
  <2>2. torn' \in BOOLEAN /\ (torn' => Cardinality(tracked) > 1)
    BY <2>1 DEF Inv, TypeOK, Tracking
  <2>3. QED
    BY <1>1, <1>3, <2>1, <2>2, QuietStep
<1>4. QED
  BY <1>2, <1>3

LEMMA OnAppControlKeeps ==
  ASSUME Inv, NEW a \in Apps, OnAppControl(a)
  PROVE  Inv'
<1>1. UNCHANGED <<vmVars, stats, controls>>
  BY DEF OnAppControl
<1>2. CASE a \in tracked
  <2>1. Goes(a, "applied", "adding") /\ Enter(a, stats[a] = NoStats)
    BY <1>2 DEF OnAppControl
  <2>2. QED
    BY <1>1, <1>2, <2>1, TwoMeet, QuietStep
<1>3. CASE a \notin tracked
  <2>1. Goes(a, "applied", "managed") /\ torn' = torn
    BY <1>3 DEF OnAppControl
  <2>2. torn' \in BOOLEAN /\ (torn' => Cardinality(tracked) > 1)
    BY <2>1 DEF Inv, TypeOK, Tracking
  <2>3. QED
    BY <1>1, <1>3, <2>1, <2>2, QuietStep
<1>4. QED
  BY <1>2, <1>3

LEMMA SettleKeeps ==
  ASSUME Inv, NEW a \in Apps, Settle(a)
  PROVE  Inv'
<1>1. Goes(a, "managed", "settling") /\ UNCHANGED <<vmVars, stats, controls>> /\ torn' = torn
  BY DEF Settle
<1>2. torn' \in BOOLEAN /\ (torn' => Cardinality(tracked) > 1)
  BY <1>1 DEF Inv, TypeOK, Tracking
<1>3. QED
  BY <1>1, <1>2, QuietStep

LEMMA OnAppStartedKeeps ==
  ASSUME Inv, NEW a \in Apps, OnAppStarted(a)
  PROVE  Inv'
<1>1. /\ Goes(a, "inserting", "managed") /\ stats' = [stats EXCEPT ![a] = 0]
      /\ UNCHANGED <<vmVars, controls, torn>>
  BY DEF OnAppStarted
<1>2. /\ thread[a] = "inserting" /\ thread'[a] = "managed" /\ before' = before
      /\ tracked' = tracked /\ main' = main /\ created' = created
      /\ \A b \in Apps : b # a => thread'[b] = thread[b]
  BY <1>1, GoesMoves
<1>3. Given(a) /\ Counted(a) /\ ~Waits(a) /\ a \in tracked
  BY <1>1, <1>2, GoesInRun DEF Inv, Tracking
<1>4. TypeOK'
  BY <1>1, SystemAssumption DEF Inv, TypeOK, Goes, mainVars, vmVars, NoStats
<1>5. Given(a)'
  BY <1>1, <1>2, <1>3 DEF Given, CpuGiven, vmVars
<1>6. stats'[a] = 0 /\ controls'[a] = 0
  BY <1>1, <1>2, <1>3 DEF Counted, Fresh, Inv, TypeOK
<1>7. Counted(a)'
  BY <1>1, <1>2, <1>3, <1>6 DEF Counted, Fresh, Waits
<1>8. Tracking'
  BY <1>1, <1>2 DEF Inv, Tracking
<1>9. QED
  BY <1>1, <1>4, <1>5, <1>7, <1>8, ThreadStep DEF vmVars, Inv, TypeOK

LEMMA OnAppControlledKeeps ==
  ASSUME Inv, NEW a \in Apps, OnAppControlled(a)
  PROVE  Inv'
<1>1. /\ Goes(a, "adding", "managed")
      /\ stats' = [stats EXCEPT ![a] = IF stats[a] = NoStats THEN 1 ELSE stats[a] + 1]
      /\ UNCHANGED <<vmVars, controls, torn>>
  BY DEF OnAppControlled
<1>2. /\ thread[a] = "adding" /\ thread'[a] = "managed" /\ before' = before
      /\ tracked' = tracked /\ main' = main /\ created' = created
      /\ \A b \in Apps : b # a => thread'[b] = thread[b]
  BY <1>1, GoesMoves
<1>3. Given(a) /\ Counted(a) /\ ~Waits(a) /\ a \in tracked
  BY <1>1, <1>2, GoesInRun DEF Inv, Tracking
<1>4. stats[a] = controls[a] - 1 /\ controls[a] \in 1..MaxControls /\ MaxControls \in Nat
  BY <1>2, <1>3, SystemAssumption DEF Counted, Fresh, Inv, TypeOK
<1>5. stats' = [stats EXCEPT ![a] = controls[a]] /\ controls[a] \in 0..NoStats
  <2>1. stats[a] # NoStats /\ stats[a] + 1 = controls[a] /\ controls[a] \in 0..NoStats
    BY <1>4 DEF NoStats
  <2>2. (IF stats[a] = NoStats THEN 1 ELSE stats[a] + 1) = controls[a]
    BY <2>1
  <2>3. QED
    BY <1>1, <2>1, <2>2
<1>6. TypeOK'
  BY <1>1, <1>5 DEF Inv, TypeOK, Goes, mainVars, vmVars
<1>7. Given(a)'
  BY <1>1, <1>2, <1>3 DEF Given, CpuGiven, vmVars
<1>8. stats'[a] = controls'[a]
  BY <1>1, <1>5 DEF Inv, TypeOK
<1>9. Counted(a)'
  BY <1>1, <1>2, <1>3, <1>8 DEF Counted, Fresh, Waits
<1>10. Tracking'
  BY <1>1, <1>2 DEF Inv, Tracking
<1>11. QED
  BY <1>1, <1>5, <1>6, <1>7, <1>9, <1>10, ThreadStep DEF vmVars, Inv, TypeOK

LEMMA ControlKeeps ==
  ASSUME Inv, NEW a \in Apps, Control(a)
  PROVE  Inv'
<1>1. /\ Goes(a, "managed", "applied") /\ controls[a] < MaxControls
      /\ controls' = [controls EXCEPT ![a] = controls[a] + 1] /\ UNCHANGED <<saved, stats, torn>>
  BY DEF Control
<1>2. /\ thread[a] = "managed" /\ thread'[a] = "applied" /\ before' = before
      /\ tracked' = tracked /\ main' = main /\ created' = created
      /\ \A b \in Apps : b # a => thread'[b] = thread[b]
  BY <1>1, GoesMoves
<1>3. Given(a) /\ Counted(a) /\ ~Waits(a)
  BY <1>1, GoesInRun
<1>4. /\ cap' \in [Apps -> 0..FullCap] /\ mem' \in [Apps -> 0..MaxMem]
      /\ \A b \in Apps : b # a => cap'[b] = cap[b] /\ mem'[b] = mem[b]
  <2>1. cap \in [Apps -> 0..FullCap] /\ mem \in [Apps -> 0..MaxMem]
    BY DEF Inv, TypeOK
  <2>2. PICK c \in {cap[a]} \cup UNION {SetCpuShare(share) : share \in AskedCpu} :
           cap' = [cap EXCEPT ![a] = c]
    BY DEF Control
  <2>3. PICK m \in {mem[a]} \cup UNION {SetMemoryShare(share) : share \in AskedMem} :
           mem' = [mem EXCEPT ![a] = m]
    BY DEF Control
  <2>4. c \in 0..FullCap
    <3>1. ASSUME NEW share \in AskedCpu, c \in SetCpuShare(share) PROVE c \in 0..FullCap
      BY <3>1, SystemAssumption, CpuShareTypes
    <3>2. QED
      BY <2>1, <3>1
  <2>5. m \in 0..MaxMem
    <3>1. ASSUME NEW share \in AskedMem, m \in SetMemoryShare(share) PROVE m \in 0..MaxMem
      BY <3>1, SystemAssumption, MemoryShareTypes
    <3>2. QED
      BY <2>1, <3>1
  <2>6. QED
    BY <2>1, <2>2, <2>3, <2>4, <2>5
<1>5. controls[a] \in Nat /\ controls[a] + 1 \in 1..MaxControls
  BY <1>1, SystemAssumption DEF Inv, TypeOK
<1>6. controls' \in [Apps -> 0..MaxControls] /\ controls'[a] = controls[a] + 1
  BY <1>1, <1>5 DEF Inv, TypeOK
<1>7. TypeOK'
  BY <1>1, <1>4, <1>6 DEF Inv, TypeOK, Goes, mainVars
<1>8. Given(a)'
  BY <1>1, <1>2, <1>3 DEF Given
<1>9. Counted(a)'
  BY <1>1, <1>2, <1>3, <1>5, <1>6 DEF Counted, Fresh, Waits
<1>10. Tracking'
  BY <1>1, <1>2 DEF Inv, Tracking
<1>11. QED
  BY <1>1, <1>4, <1>7, <1>8, <1>9, <1>10, ThreadStep DEF Inv, TypeOK

LEMMA RestoreMemoryKeeps ==
  ASSUME Inv, NEW a \in Apps, RestoreMemory(a)
  PROVE  Inv'
<1>1. Goes(a, "settling", "ending") /\ UNCHANGED <<cap, saved, stats, controls, torn>>
  BY DEF RestoreMemory
<1>2. PICK m \in SetMemoryShare(saved[a].mem) : mem' = [mem EXCEPT ![a] = m]
  BY DEF RestoreMemory
<1>3. /\ thread[a] = "settling" /\ thread'[a] = "ending" /\ before' = before
      /\ tracked' = tracked /\ main' = main /\ created' = created
      /\ \A b \in Apps : b # a => thread'[b] = thread[b]
  BY <1>1, GoesMoves
<1>4. Given(a) /\ Counted(a) /\ ~Waits(a)
  BY <1>1, GoesInRun
<1>5. saved[a].cpu = CpuShare(before[a].cap) /\ saved[a].mem = MemoryShare(before[a].mem)
  BY <1>3, <1>4 DEF Given
<1>6. before[a].mem \in 0..MaxMem /\ saved[a].mem \in Nat
  BY SharesAssumption DEF Inv, TypeOK
<1>7. m \in 0..MaxMem /\ m = before[a].mem
  BY <1>5, <1>6, MemoryShareTypes, MemoryShareKept
<1>8. TypeOK'
  BY <1>1, <1>2, <1>7 DEF Inv, TypeOK, Goes, mainVars
<1>9. Given(a)'
  BY <1>1, <1>2, <1>3, <1>5, <1>7 DEF Given, CpuGiven, Inv, TypeOK
<1>10. Counted(a)'
  BY <1>1, <1>3, <1>4 DEF Counted, Fresh, Waits
<1>11. Tracking'
  BY <1>1, <1>3 DEF Inv, Tracking
<1>12. QED
  BY <1>1, <1>2, <1>8, <1>9, <1>10, <1>11, ThreadStep DEF Inv, TypeOK

LEMMA RestoreCpuKeeps ==
  ASSUME Inv, NEW a \in Apps, RestoreCpu(a)
  PROVE  Inv'
<1>1. Goes(a, "ending", "none") /\ UNCHANGED <<mem, saved, stats, controls, torn>>
  BY DEF RestoreCpu
<1>2. PICK c \in SetCpuShare(saved[a].cpu) : cap' = [cap EXCEPT ![a] = c]
  BY DEF RestoreCpu
<1>3. /\ thread[a] = "ending" /\ thread'[a] = "none" /\ before' = before
      /\ tracked' = tracked /\ main' = main /\ created' = created
      /\ \A b \in Apps : b # a => thread'[b] = thread[b]
  BY <1>1, GoesMoves
<1>4. Given(a) /\ Counted(a) /\ ~Waits(a)
  BY <1>1, GoesInRun
<1>5. mem[a] = before[a].mem /\ saved[a].cpu = CpuShare(before[a].cap)
  BY <1>3, <1>4 DEF Given
<1>6. before[a].cap \in 0..FullCap /\ saved[a].cpu \in Nat
  BY SharesAssumption DEF Inv, TypeOK
<1>7. c \in 0..FullCap /\ CpuCap(c) = CpuCap(before[a].cap)
  BY <1>5, <1>6, CpuShareTypes, CpuShareKept
<1>8. TypeOK'
  BY <1>1, <1>2, <1>7 DEF Inv, TypeOK, Goes, mainVars
<1>9. Given(a)'
  BY <1>1, <1>2, <1>3, <1>5, <1>7 DEF Given, CpuGiven, Inv, TypeOK
<1>10. Counted(a)'
  BY <1>1, <1>3, <1>4 DEF Counted, Fresh, Waits
<1>11. Tracking'
  BY <1>1, <1>3 DEF Inv, Tracking
<1>12. QED
  BY <1>1, <1>2, <1>8, <1>9, <1>10, <1>11, ThreadStep DEF Inv, TypeOK

-----------------------------------------------------------------------------
(* The steps of the thread that calls run()                                *)

LEMMA StartKeeps ==
  ASSUME Inv, Start
  PROVE  Inv'
<1>1. /\ main = "idle" /\ runs < MaxRuns /\ runs' = runs + 1 /\ created' = 0
      /\ main' = (IF N = 0 THEN "report" ELSE "create")
      /\ stats' = [a \in Apps |-> NoStats] /\ controls' = [a \in Apps |-> 0]
      /\ before' = [a \in Apps |-> [cap |-> cap[a], mem |-> mem[a]]]
      /\ UNCHANGED <<tracked, running, thread, vmVars, torn>>
  BY DEF Start
<1>2. N \in Nat /\ MaxRuns \in Nat /\ MaxControls \in Nat
  BY SystemAssumption
<1>3. \A a \in Apps : thread'[a] = "none"
  BY <1>1 DEF Inv, Places
<1>4. TypeOK'
  <2>1. /\ stats' \in [Apps -> 0..NoStats] /\ controls' \in [Apps -> 0..MaxControls]
        /\ runs' \in 0..MaxRuns /\ created' \in 0..N
    BY <1>1, <1>2 DEF NoStats, Inv, TypeOK
  <2>2. before' \in [Apps -> [cap : 0..FullCap, mem : 0..MaxMem]]
    BY <1>1 DEF Inv, TypeOK
  <2>3. QED
    BY <1>1, <2>1, <2>2 DEF Inv, TypeOK, vmVars
<1>5. Places'
  BY <1>3 DEF Places
<1>6. ASSUME NEW a \in Apps PROVE Given(a)' /\ Counted(a)'
  <2>1. before'[a].cap = cap[a] /\ before'[a].mem = mem[a] /\ cap' = cap /\ mem' = mem
    BY <1>1 DEF vmVars
  <2>2. Given(a)'
    BY <1>3, <2>1 DEF Given, CpuGiven
  <2>3. a > created' /\ N # 0
    BY <1>1, <1>2 DEF Apps
  <2>4. Waits(a)' /\ stats'[a] = NoStats /\ controls'[a] = 0
    BY <1>1, <2>3 DEF Waits
  <2>5. Counted(a)'
    BY <1>3, <2>4 DEF Counted, Fresh, NoStats
  <2>6. QED
    BY <2>2, <2>5
<1>7. Tracking'
  BY <1>1 DEF Inv, Tracking
<1>8. QED
  BY <1>4, <1>5, <1>6, <1>7 DEF Inv

LEMMA CreateThreadKeeps ==
  ASSUME Inv, CreateThread
  PROVE  Inv'
<1> DEFINE n == created + 1
<1>1. /\ main = "create" /\ created < N /\ created' = n
      /\ thread' = [thread EXCEPT ![n] = "begun"]
      /\ UNCHANGED <<tracked, main, runs, running, vmVars, stats, controls, before, torn>>
  BY DEF CreateThread
<1>2. n \in Apps /\ created \in Nat /\ n \in 0..N
  BY <1>1, SystemAssumption DEF Inv, TypeOK, Apps
<1>3. /\ thread'[n] = "begun" /\ \A a \in Apps : a # n => thread'[a] = thread[a]
      /\ Waits(n) /\ thread[n] = "none"
  BY <1>1, <1>2 DEF Inv, TypeOK, Waits, Places, Apps
<1>4. TypeOK'
  BY <1>1, <1>2 DEF Inv, TypeOK, vmVars
<1>5. \A a \in Apps : a \in Nat
  BY DEF Apps
<1>6. \A a \in Apps : Waits(a)' <=> Waits(a) /\ a # n
  BY <1>1, <1>2, <1>5 DEF Waits
<1>7. Places'
  BY <1>1, <1>3, <1>6 DEF Inv, Places
<1>8. ASSUME NEW a \in Apps PROVE Given(a)' /\ Counted(a)'
  <2>1. Given(a) /\ Counted(a)
    BY <1>1 DEF Inv, InRun
  <2>2. Given(a)'
    BY <1>1, <1>3, <2>1 DEF Given, CpuGiven, vmVars
  <2>3. Fresh(a)' <=> Fresh(a)
    BY <1>3, <1>6 DEF Fresh
  <2>4. Counted(a)'
    BY <1>1, <1>3, <2>1, <2>3 DEF Counted
  <2>5. QED
    BY <2>2, <2>4
<1>9. Tracking'
  BY <1>1, <1>3 DEF Inv, Tracking
<1>10. QED
  BY <1>4, <1>7, <1>8, <1>9 DEF Inv

LEMMA SetRunningKeeps ==
  ASSUME Inv, SetRunning
  PROVE  Inv'
<1>1. /\ main = "create" /\ created = N /\ running' = TRUE /\ main' = "join"
      /\ UNCHANGED <<tracked, runs, created, thread, vmVars, stats, controls, before, torn>>
  BY DEF SetRunning
<1>2. \A a \in Apps : ~Waits(a) /\ ~Waits(a)'
  BY <1>1, SystemAssumption DEF Waits, Apps
<1>3. TypeOK' /\ Places' /\ Tracking'
  BY <1>1, <1>2 DEF Inv, TypeOK, Places, Tracking, vmVars
<1>4. ASSUME NEW a \in Apps PROVE Given(a)' /\ Counted(a)'
  BY <1>1, <1>2 DEF Inv, InRun, Given, CpuGiven, Counted, Fresh, vmVars
<1>5. QED
  BY <1>3, <1>4 DEF Inv

LEMMA JoinAllKeeps ==
  ASSUME Inv, JoinAll
  PROVE  Inv'
<1>1. /\ main = "join" /\ \A a \in Apps : thread[a] = "none"
      /\ running' = FALSE /\ main' = "report"
      /\ UNCHANGED <<tracked, runs, created, thread, vmVars, stats, controls, before, torn>>
  BY DEF JoinAll
<1>2. \A a \in Apps : ~Waits(a) /\ ~Waits(a)'
  BY <1>1 DEF Waits
<1>3. TypeOK' /\ Places' /\ Tracking'
  BY <1>1, <1>2 DEF Inv, TypeOK, Places, Tracking, vmVars
<1>4. ASSUME NEW a \in Apps PROVE Given(a)' /\ Counted(a)'
  BY <1>1, <1>2 DEF Inv, InRun, Given, CpuGiven, Counted, Fresh, vmVars
<1>5. QED
  BY <1>3, <1>4 DEF Inv

LEMMA RunLeft ==
  ASSUME Inv, Report \/ Abort \/ Corrupt
  PROVE  Inv'
<1>1. /\ UNCHANGED <<tracked, runs, created, running, thread, vmVars, stats, controls, before,
                     torn>>
      /\ main' \in {"idle", "aborted", "undefined"} /\ (main' = "idle" => main = "report")
  BY DEF Report, Abort, Corrupt
<1>2. QED
  BY <1>1 DEF Inv, TypeOK, Places, Waits, InRun, Tracking, vmVars

LEMMA Stutters ==
  ASSUME Inv, UNCHANGED vars
  PROVE  Inv'
BY DEF Inv, TypeOK, Places, Waits, InRun, Given, CpuGiven, Counted, Fresh, Tracking, vars,
       mainVars, vmVars

LEMMA InvInvariant == Spec => []Inv
<1>1. Inv /\ [Next]_vars => Inv'
  <2>1. ASSUME Inv, NEW a \in Apps, AppStep(a) PROVE Inv'
    BY <2>1, SaveStateKeeps, OnAppStartKeeps, OnAppStartedKeeps, ControlKeeps,
       OnAppControlKeeps, OnAppControlledKeeps, SettleKeeps, RestoreMemoryKeeps, RestoreCpuKeeps
    DEF AppStep
  <2>2. ASSUME Inv, MainStep PROVE Inv'
    BY <2>2, StartKeeps, CreateThreadKeeps, SetRunningKeeps, JoinAllKeeps, RunLeft DEF MainStep
  <2>3. QED
    BY <2>1, <2>2, RunLeft, Stutters DEF Next, Over
<1>2. QED
  BY <1>1, InitInv, PTL DEF Spec

-----------------------------------------------------------------------------
(* Theorems                                                                *)

\* Every reachable state is well typed; no share that is set lies outside its VM.
THEOREM SystemTypes == Spec => []TypeOK
<1>1. Inv => TypeOK
  BY DEF Inv
<1>2. QED
  BY <1>1, InvInvariant, PTL

\* For any number of applications and all shares the managers ask for, every VM has its
\* memory and CPU back when run() returns.
THEOREM SystemSharesGivenBack == Spec => []SharesGivenBack
<1>1. Inv => SharesGivenBack
  BY DEF Inv, Places, InRun, Given, CpuGiven, SharesGivenBack
<1>2. QED
  BY <1>1, InvInvariant, PTL

\* For any number of applications and runs the statistics that are printed are those of the
\* controls of this run, unless the threads of two tracked applications met.
THEOREM SystemStatistics == Spec => []StatisticsOfThisRun
<1>1. Inv => StatisticsOfThisRun
  BY DEF Inv, Places, InRun, Counted, Fresh, Waits, Tracking, StatisticsOfThisRun
<1>2. QED
  BY <1>1, InvInvariant, PTL

-----------------------------------------------------------------------------
(* Every experiment keeps its contract                                     *)

Promised(a) == [Contract(a)!Next]_(Contract(a)!vars)

\* What the contract of an application sees does not change.
LEMMA NothingSeen ==
  ASSUME NEW a \in Apps, Phase(a)' = Phase(a), cap'[a] = cap[a], mem'[a] = mem[a],
         before'[a] = before[a]
  PROVE  Promised(a)
<1>1. /\ [v \in {a} |-> Usable(cap[v], mem[v])]' = [v \in {a} |-> Usable(cap[v], mem[v])]
      /\ [v \in {a} |-> Usable(before[v].cap, before[v].mem)]'
           = [v \in {a} |-> Usable(before[v].cap, before[v].mem)]
  BY DEF Usable
<1>2. UNCHANGED Contract(a)!vars
  BY <1>1 DEF Contract!vars
<1>3. QED
  BY <1>2 DEF Promised

LEMMA UsableTypes ==
  ASSUME NEW c \in 0..FullCap, NEW m \in 0..MaxMem, NEW a
  PROVE  Usable(c, m) \in Contract(a)!ShareRec
<1>1. CpuCap(c) \in 0..FullCap
  BY SharesAssumption DEF CpuCap
<1>2. QED
  BY <1>1 DEF Usable, Contract!ShareRec

LEMMA InitPromised ==
  ASSUME Init, NEW a \in Apps
  PROVE  Contract(a)!Init
<1>1. /\ main = "idle" /\ thread[a] = "none"
      /\ before = [v \in Apps |-> [cap |-> cap[v], mem |-> mem[v]]]
      /\ cap[a] \in 0..FullCap /\ mem[a] \in 0..MaxMem
  BY SystemAssumption DEF Init
<1>2. Phase(a) = "idle"
  BY <1>1 DEF Phase, Alive
<1>3. [v \in {a} |-> Usable(cap[v], mem[v])] \in [{a} -> Contract(a)!ShareRec]
  BY <1>1, UsableTypes
<1>4. [v \in {a} |-> Usable(before[v].cap, before[v].mem)] = [v \in {a} |-> Usable(cap[v], mem[v])]
  BY <1>1
<1>5. QED
  BY <1>2, <1>3, <1>4 DEF Contract!Init

\* A step of the thread of one experiment is none of the others.
LEMMA OtherThreads ==
  ASSUME Inv, NEW a \in Apps, NEW b \in Apps, AppStep(b), b # a
  PROVE  Promised(a)
<1>1. /\ thread'[a] = thread[a] /\ main' = main /\ created' = created /\ before' = before
      /\ cap'[a] = cap[a] /\ mem'[a] = mem[a]
  BY DEF AppStep, SaveState, OnAppStart, OnAppStarted, Control, OnAppControl, OnAppControlled,
         Settle, RestoreCpu, RestoreMemory, Goes, vmVars, mainVars, Inv, TypeOK
<1>2. Phase(a)' = Phase(a)
  BY <1>1 DEF Phase, Alive
<1>3. QED
  BY <1>1, <1>2, NothingSeen

\* The phase of an experiment whose thread goes on
LEMMA GoesPhase ==
  ASSUME Inv, NEW a \in Apps, NEW from, NEW to, Goes(a, from, to), from # "none"
  PROVE  /\ Phase(a) = CASE from \in {"begun", "saved", "inserting"} -> "unmanaged"
                         [] from \in {"managed", "applied", "adding"} -> "managed"
                         [] OTHER -> "settling"
         /\ Phase(a)' = CASE to \in {"begun", "saved", "inserting"} -> "unmanaged"
                          [] to \in {"managed", "applied", "adding"} -> "managed"
                          [] OTHER -> "settling"
         /\ before' = before
<1>1. thread[a] = from /\ thread'[a] = to /\ main' = main /\ created' = created /\ before' = before
  BY GoesMoves
<1>2. main \in {"create", "join"} /\ ~(main = "create" /\ a > created)
  BY GoesInRun DEF InRun, Waits
<1>3. Alive /\ Alive'
  BY <1>1, <1>2 DEF Alive
<1>4. QED
  BY <1>1, <1>2, <1>3 DEF Phase

\* Only a controlled VM changes, and only while it is managed.
LEMMA ControlPromised ==
  ASSUME Inv, NEW a \in Apps, Control(a), Inv'
  PROVE  Promised(a)
<1>1. Goes(a, "managed", "applied")
  BY DEF Control
<1>2. Phase(a) = "managed" /\ Phase(a)' = "managed" /\ before' = before
  BY <1>1, GoesPhase
<1>3. cap'[a] \in 0..FullCap /\ mem'[a] \in 0..MaxMem
  BY DEF Inv, TypeOK
<1>4. Usable(cap'[a], mem'[a]) \in Contract(a)!ShareRec
  BY <1>3, UsableTypes
<1>5. /\ [v \in {a} |-> Usable(cap[v], mem[v])]'
           = [[v \in {a} |-> Usable(cap[v], mem[v])] EXCEPT ![a] = Usable(cap'[a], mem'[a])]
      /\ [v \in {a} |-> Usable(before[v].cap, before[v].mem)]'
           = [v \in {a} |-> Usable(before[v].cap, before[v].mem)]
  BY <1>2 DEF Usable
<1>6. Contract(a)!Control(a)
  BY <1>2, <1>4, <1>5 DEF Contract!Control
<1>7. QED
  BY <1>6 DEF Promised, Contract!Next

\* What is given back is what there was before the run.
LEMMA RestorePromised ==
  ASSUME Inv, NEW a \in Apps, RestoreMemory(a) \/ RestoreCpu(a), Inv'
  PROVE  Promised(a)
<1> DEFINE shares == [v \in {a} |-> Usable(cap[v], mem[v])]
           noted == [v \in {a} |-> Usable(before[v].cap, before[v].mem)]
<1>1. CASE RestoreMemory(a)
  <2>1. Goes(a, "settling", "ending") /\ cap' = cap
    BY <1>1 DEF RestoreMemory
  <2>2. Phase(a) = "settling" /\ Phase(a)' = "settling" /\ before' = before /\ thread'[a] = "ending"
    BY <2>1, GoesPhase, GoesMoves
  <2>3. mem'[a] = before[a].mem
    <3>1. InRun /\ InRun'
      BY <2>1, GoesInRun, GoesMoves DEF InRun
    <3>2. QED
      BY <2>2, <3>1 DEF Inv, Given
  <2>4. shares' = [shares EXCEPT ![a].mem = noted[a].mem] /\ noted' = noted
    BY <2>1, <2>2, <2>3 DEF Usable
  <2>5. Contract(a)!Restore(a)
    BY <2>2, <2>4 DEF Contract!Restore
  <2>6. QED
    BY <2>5 DEF Promised, Contract!Next
<1>2. CASE RestoreCpu(a)
  <2>1. Goes(a, "ending", "none") /\ mem' = mem
    BY <1>2 DEF RestoreCpu
  <2>2. Phase(a) = "settling" /\ Phase(a)' = "settling" /\ before' = before /\ thread'[a] = "none"
    BY <2>1, GoesPhase, GoesMoves
  <2>3. CpuCap(cap'[a]) = CpuCap(before[a].cap)
    <3>1. InRun /\ InRun'
      BY <2>1, GoesInRun, GoesMoves DEF InRun
    <3>2. QED
      BY <2>2, <3>1 DEF Inv, Given, CpuGiven
  <2>4. shares' = [shares EXCEPT ![a].cpu = noted[a].cpu] /\ noted' = noted
    BY <2>1, <2>2, <2>3 DEF Usable
  <2>5. Contract(a)!Restore(a)
    BY <2>2, <2>4 DEF Contract!Restore
  <2>6. QED
    BY <2>5 DEF Promised, Contract!Next
<1>3. QED
  BY <1>1, <1>2

\* The other steps of a thread begin or end the management, or are not seen.
LEMMA ThreadPromised ==
  ASSUME Inv, NEW a \in Apps, AppStep(a), Inv'
  PROVE  Promised(a)
<1> DEFINE shares == [v \in {a} |-> Usable(cap[v], mem[v])]
           noted == [v \in {a} |-> Usable(before[v].cap, before[v].mem)]
<1>1. ASSUME NEW from, NEW to, Goes(a, from, to), from # "none", UNCHANGED <<cap, mem>>,
             \/ Phase(a)' = Phase(a)
             \/ Phase(a) = "unmanaged" /\ Phase(a)' = "managed"
             \/ Phase(a) = "managed" /\ Phase(a)' = "settling"
      PROVE  Promised(a)
  <2>1. before' = before
    BY <1>1, GoesPhase
  <2>2. shares' = shares /\ noted' = noted
    BY <1>1, <2>1
  <2>3. CASE Phase(a)' = Phase(a)
    BY <1>1, <2>1, <2>3, NothingSeen
  <2>4. CASE Phase(a) = "unmanaged" /\ Phase(a)' = "managed"
    BY <2>2, <2>4 DEF Promised, Contract!Next, Contract!Manage
  <2>5. CASE Phase(a) = "managed" /\ Phase(a)' = "settling"
    BY <2>2, <2>5 DEF Promised, Contract!Next, Contract!Settle
  <2>6. QED
    BY <1>1, <2>3, <2>4, <2>5
<1>2. CASE SaveState(a)
  <2>1. Goes(a, "begun", "saved") /\ UNCHANGED <<cap, mem>>
    BY <1>2 DEF SaveState
  <2>2. QED
    BY <1>1, <2>1, GoesPhase
<1>3. CASE OnAppStart(a)
  <2>1. UNCHANGED <<cap, mem>> /\ (Goes(a, "saved", "inserting") \/ Goes(a, "saved", "managed"))
    BY <1>3 DEF OnAppStart, vmVars
  <2>2. QED
    BY <1>1, <2>1, GoesPhase
<1>4. CASE OnAppStarted(a)
  <2>1. UNCHANGED <<cap, mem>> /\ Goes(a, "inserting", "managed")
    BY <1>4 DEF OnAppStarted, vmVars
  <2>2. QED
    BY <1>1, <2>1, GoesPhase
<1>5. CASE OnAppControl(a)
  <2>1. UNCHANGED <<cap, mem>> /\ (Goes(a, "applied", "adding") \/ Goes(a, "applied", "managed"))
    BY <1>5 DEF OnAppControl, vmVars
  <2>2. QED
    BY <1>1, <2>1, GoesPhase
<1>6. CASE OnAppControlled(a)
  <2>1. UNCHANGED <<cap, mem>> /\ Goes(a, "adding", "managed")
    BY <1>6 DEF OnAppControlled, vmVars
  <2>2. QED
    BY <1>1, <2>1, GoesPhase
<1>7. CASE Settle(a)
  <2>1. UNCHANGED <<cap, mem>> /\ Goes(a, "managed", "settling")
    BY <1>7 DEF Settle, vmVars
  <2>2. QED
    BY <1>1, <2>1, GoesPhase
<1>8. QED
  BY <1>2, <1>3, <1>4, <1>5, <1>6, <1>7, ControlPromised, RestorePromised DEF AppStep

\* run() begins all experiments and ends them; an exception in a thread ends the program.
LEMMA RunPromised ==
  ASSUME Inv, NEW a \in Apps, MainStep \/ Abort \/ Corrupt, Inv'
  PROVE  Promised(a)
<1> DEFINE shares == [v \in {a} |-> Usable(cap[v], mem[v])]
           noted == [v \in {a} |-> Usable(before[v].cap, before[v].mem)]
<1>0. a \in Nat /\ a > 0 /\ a <= N /\ N \in Nat /\ N # 0
  BY SystemAssumption DEF Apps
<1>1. CASE Start
  <2>1. /\ main = "idle" /\ main' = "create" /\ created' = 0 /\ UNCHANGED <<thread, cap, mem>>
        /\ before' = [v \in Apps |-> [cap |-> cap[v], mem |-> mem[v]]]
    BY <1>0, <1>1 DEF Start, vmVars
  <2>2. thread[a] = "none"
    BY <2>1 DEF Inv, Places
  <2>3. Phase(a) = "idle"
    BY <2>1, <2>2 DEF Phase, Alive
  <2>4. Phase(a)' = "unmanaged"
    BY <1>0, <2>1, <2>2 DEF Phase, Alive
  <2>5. noted' = shares /\ shares' = shares
    BY <2>1
  <2>6. QED
    BY <2>3, <2>4, <2>5 DEF Promised, Contract!Next, Contract!Begin
<1>2. CASE CreateThread
  <2>1. /\ main = "create" /\ main' = "create" /\ created' = created + 1
        /\ thread' = [thread EXCEPT ![created + 1] = "begun"]
        /\ UNCHANGED <<cap, mem, before>> /\ created \in Nat /\ created < N
    BY <1>2, SystemAssumption DEF CreateThread, vmVars, Inv, TypeOK
  <2>2. CASE a = created + 1
    <3>1. thread[a] = "none" /\ thread'[a] = "begun" /\ a > created
      BY <1>0, <2>1, <2>2 DEF Inv, TypeOK, Places, Waits
    <3>2. Phase(a) = "unmanaged" /\ Phase(a)' = "unmanaged"
      BY <2>1, <3>1 DEF Phase, Alive
    <3>3. QED
      BY <2>1, <3>2, NothingSeen
  <2>3. CASE a # created + 1
    <3>1. thread'[a] = thread[a] /\ (a > created' <=> a > created)
      BY <1>0, <2>1, <2>3 DEF Inv, TypeOK
    <3>2. Phase(a)' = Phase(a)
      BY <2>1, <3>1 DEF Phase, Alive
    <3>3. QED
      BY <2>1, <3>2, NothingSeen
  <2>4. QED
    BY <2>2, <2>3
<1>3. CASE SetRunning
  <2>1. /\ main = "create" /\ main' = "join" /\ created = N
        /\ UNCHANGED <<created, thread, cap, mem, before>>
    BY <1>3 DEF SetRunning, vmVars
  <2>2. Phase(a)' = Phase(a)
    BY <1>0, <2>1 DEF Phase, Alive
  <2>3. QED
    BY <2>1, <2>2, NothingSeen
<1>4. CASE JoinAll
  <2>1. /\ main = "join" /\ main' = "report" /\ thread[a] = "none"
        /\ UNCHANGED <<created, thread, cap, mem, before>>
    BY <1>4 DEF JoinAll, vmVars
  <2>2. Phase(a) = "settling" /\ Phase(a)' = "idle"
    BY <2>1 DEF Phase, Alive
  <2>3. CpuCap(cap[a]) = CpuCap(before[a].cap) /\ mem[a] = before[a].mem
    BY <2>1 DEF Inv, InRun, Given, CpuGiven
  <2>4. shares = noted /\ shares' = shares /\ noted' = noted
    BY <2>1, <2>3 DEF Usable
  <2>5. QED
    BY <2>2, <2>4 DEF Promised, Contract!Next, Contract!End
<1>5. CASE Report
  <2>1. /\ main = "report" /\ main' = "idle" /\ UNCHANGED <<created, thread, cap, mem, before>>
    BY <1>5 DEF Report, vmVars
  <2>2. Phase(a)' = Phase(a)
    BY <2>1 DEF Phase, Alive
  <2>3. QED
    BY <2>1, <2>2, NothingSeen
<1>6. CASE Abort \/ Corrupt
  <2>1. Alive /\ main' \in {"aborted", "undefined"} /\ UNCHANGED <<cap, mem, before>>
    BY <1>6 DEF Abort, Corrupt, vmVars
  <2>2. Phase(a)' = "over" /\ Phase(a) # "over"
    BY <2>1 DEF Phase, Alive
  <2>3. shares' = shares /\ noted' = noted
    BY <2>1
  <2>4. QED
    BY <2>2, <2>3 DEF Promised, Contract!Next, Contract!Leave
<1>7. QED
  BY <1>1, <1>2, <1>3, <1>4, <1>5, <1>6 DEF MainStep

\* Any number of experiments may run in parallel: each of them keeps its contract with its VM,
\* from the start signal of the run to the end of the join.
THEOREM SystemKeepsContracts == Spec => ImplementsContracts
<1>1. Init => \A a \in Apps : Contract(a)!Init
  BY InitPromised
<1>2. ASSUME Inv, [Next]_vars, Inv', NEW a \in Apps PROVE Promised(a)
  <2>1. ASSUME UNCHANGED vars PROVE Promised(a)
    <3>1. Phase(a)' = Phase(a) /\ UNCHANGED <<cap, mem, before>>
      BY <2>1 DEF Phase, Alive, vars, mainVars, vmVars
    <3>2. QED
      BY <3>1, NothingSeen
  <2>2. ASSUME NEW b \in Apps, AppStep(b) PROVE Promised(a)
    BY <1>2, <2>2, OtherThreads, ThreadPromised
  <2>3. QED
    BY <1>2, <2>1, <2>2, RunPromised DEF Next, Over
<1>3. Inv /\ Inv' /\ [Next]_vars => \A a \in Apps : [Contract(a)!Next]_(Contract(a)!vars)
  BY <1>2 DEF Promised
<1>4. QED
  BY <1>1, <1>3, InvInvariant, PTL DEF Spec, ImplementsContracts
=============================================================================
