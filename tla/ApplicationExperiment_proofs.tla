-------------------- MODULE ApplicationExperiment_proofs --------------------
(***************************************************************************)
(* Proofs about ApplicationExperiment, for every set of virtual machines,  *)
(* every set of share values and every set of faults.                      *)
(***************************************************************************)
EXTENDS ApplicationExperiment, SequenceTheorems, TLAPS

-----------------------------------------------------------------------------
(* The stack of a VM while its two shares are pushed and popped.           *)

\* A stack of Shares stays one when a value is pushed, and its top, if it has
\* one, is a share.
LEMMA StackType ==
  ASSUME NEW S, NEW s \in Seq(S)
  PROVE  /\ \A e \in S : Append(s, e) \in Seq(S)
         /\ s # <<>> => Back(s) \in S /\ PopBack(s) \in Seq(S)
<1>1. \A e \in S : Append(s, e) \in Seq(S)
  BY AppendProperties
<1>2. ASSUME s # <<>> PROVE Back(s) \in S /\ PopBack(s) \in Seq(S)
  <2>1. Len(s) \in Nat \ {0}
    BY <1>2, EmptySeq, LenProperties
  <2>2. Back(s) \in S
    BY <2>1, ElementOfSeq DEF Back
  <2>3. \A i \in 1..(Len(s) - 1) : s[i] \in S
    BY <2>1, ElementOfSeq
  <2>4. PopBack(s) \in Seq(S)
    BY <2>1, <2>3, SubSeqProperties DEF PopBack
  <2>5. QED
    BY <2>2, <2>4
<1>3. QED
  BY <1>1, <1>2

\* Pushing the CPU share and then the memory share, and popping them again.
LEMMA StackOfTwo ==
  ASSUME NEW c, NEW m
  PROVE  /\ Append(<<>>, c) = <<c>> /\ Append(<<c>>, m) = <<c, m>>
         /\ <<c>> # <<>> /\ <<c, m>> # <<>>
         /\ Back(<<c, m>>) = m /\ PopBack(<<c, m>>) = <<c>>
         /\ Back(<<c>>) = c /\ PopBack(<<c>>) = <<>>
<1> DEFINE S == {c, m}
<1>1. /\ <<>> \in Seq(S) /\ Len(<<>>) = 0
      /\ <<c>> \in Seq(S) /\ Len(<<c>>) = 1 /\ <<c>>[1] = c
      /\ <<c, m>> \in Seq(S) /\ Len(<<c, m>>) = 2 /\ <<c, m>>[1] = c /\ <<c, m>>[2] = m
  OBVIOUS
<1> HIDE DEF S
<1> c \in S /\ m \in S
  BY DEF S
<1>2. Append(<<>>, c) = <<c>> /\ Append(<<c>>, m) = <<c, m>>
  <2>1. Append(<<>>, c) = <<c>>
    <3> DEFINE t == Append(<<>>, c)
    <3>1. t \in Seq(S) /\ Len(t) = 1 /\ t[1] = c
      BY <1>1, AppendProperties
    <3> HIDE DEF t
    <3>2. t = <<c>>
      BY <1>1, <3>1, SeqEqual
    <3>3. QED
      BY <3>2 DEF t
  <2>2. Append(<<c>>, m) = <<c, m>>
    <3> DEFINE t == Append(<<c>>, m)
    <3>1. t \in Seq(S) /\ Len(t) = 2 /\ t[1] = c /\ t[2] = m
      BY <1>1, AppendProperties
    <3> HIDE DEF t
    <3>2. t = <<c, m>>
      BY <1>1, <3>1, SeqEqual
    <3>3. QED
      BY <3>2 DEF t
  <2>3. QED
    BY <2>1, <2>2
<1>3. PopBack(<<c, m>>) = <<c>>
  <2> DEFINE t == SubSeq(<<c, m>>, 1, 1)
  <2>1. t \in Seq(S) /\ Len(t) = 1 /\ t[1] = c
    BY <1>1, SubSeqProperties
  <2> HIDE DEF t
  <2>2. t = <<c>>
    BY <1>1, <2>1, SeqEqual
  <2>3. QED
    BY <1>1, <2>2 DEF PopBack, t
<1>4. PopBack(<<c>>) = <<>>
  BY <1>1, SubSeqEmpty DEF PopBack
<1>5. <<c>> # <<>> /\ <<c, m>> # <<>>
  BY <1>1
<1>6. Back(<<c, m>>) = m /\ Back(<<c>>) = c
  BY <1>1 DEF Back
<1>7. QED
  BY <1>2, <1>3, <1>4, <1>5, <1>6

-----------------------------------------------------------------------------
(* Type correctness                                                        *)

\* Every variable keeps its type: run() never leaves its known locations and the
\* map of saved shares only holds stacks of shares.
THEOREM TypeCorrect == Spec => []TypeOK
<1> USE DEF objVars, saveVars, mgrVars, drvVars
<1>1. Init => TypeOK
  <2> SUFFICES ASSUME Init PROVE TypeOK
    OBVIOUS
  <2>1. vmStates \in [VMs -> Seq(Shares)]
    BY EmptySeq DEF Init
  <2>2. DataTypes
    BY <2>1, MaxRunsAssumption DEF Init, DataTypes, PCs
  <2>3. FlagTypes
    BY DEF Init, FlagTypes, Driver!Init, Driver!TypeOK
  <2>4. QED
    BY <2>2, <2>3 DEF TypeOK
<1>2. FlagTypes /\ [Next]_vars => FlagTypes'
  <2> SUFFICES ASSUME FlagTypes, [Next]_vars PROVE FlagTypes'
    OBVIOUS
  <2> USE DEF FlagTypes, Driver!TypeOK
  <2>1. CASE RunBegin \/ SpawnController
    BY <2>1, Zenon DEF RunBegin, SpawnController
  <2>2. ASSUME NEW v \in VMs, SaveCpu(v) \/ RestoreMem(v) \/ Control(v) PROVE FlagTypes'
    BY <2>2 DEF SaveCpu, RestoreMem, Control
  <2>3. CASE SaveMem \/ SaveDone \/ Poll \/ CheckReady \/ SpawnSampler \/ InterruptAll
    BY <2>3 DEF SaveMem, SaveDone, Poll, CheckReady, SpawnSampler, InterruptAll
  <2>4. CASE Prepare
    BY <2>4, Zenon DEF Prepare, Driver!Reset
  <2>5. CASE StartDriver
    BY <2>5, Zenon DEF StartDriver, Driver!Launch
  <2>6. CASE JoinAll \/ RestoreCpu \/ RestoreDone \/ Terminate \/ LoopThrows
    BY <2>6 DEF JoinAll, RestoreCpu, RestoreDone, Terminate, LoopThrows
  <2>7. CASE StopDriver
    BY <2>7, Zenon DEF StopDriver, Driver!Exit
  <2>8. CASE Finish \/ Destroy
    BY <2>8, Zenon DEF Finish, Destroy
  <2>9. ASSUME NEW b \in BOOLEAN, SetRestoreState(b) PROVE FlagTypes'
    BY <2>9 DEF SetRestoreState
  <2>10. ASSUME NEW t \in Threads, ThreadStep(t) \/ ManagerThrows(t) PROVE FlagTypes'
    BY <2>10 DEF ThreadStep, Acquire, Release, Wake, ManagerThrows
  <2>11. CASE DriverRampsUp \/ DriverExits
    BY <2>11, Zenon DEF DriverRampsUp, DriverExits, Driver!RampUp, Driver!Exit
  <2>12. CASE Over \/ UNCHANGED vars
    BY <2>12 DEF Over, vars
  <2>13. QED
    BY <2>1, <2>2, <2>3, <2>4, <2>5, <2>6, <2>7, <2>8, <2>9, <2>10, <2>11, <2>12
       DEF Next, RunStep
<1>3. DataTypes /\ [Next]_vars => DataTypes'
  <2> SUFFICES ASSUME DataTypes, [Next]_vars PROVE DataTypes'
    OBVIOUS
  <2> USE DEF DataTypes, PCs, Preparing, Polling, Joining, Restoring, Halted
  <2>1. CASE RunBegin
    BY <2>1, MaxRunsAssumption DEF RunBegin, ToRestore
  <2>2. ASSUME NEW v \in VMs, SaveCpu(v) PROVE DataTypes'
    <3>1. Append(vmStates[v], shares[v].cpu) \in Seq(Shares)
      BY StackType DEF ShareRec
    <3>2. QED
      BY <2>2, <3>1 DEF SaveCpu, Throw
  <2>3. CASE SaveMem
    <3>1. cur \in VMs => Append(vmStates[cur], shares[cur].mem) \in Seq(Shares)
      BY StackType DEF ShareRec
    <3>2. vmStates' \in [VMs -> Seq(Shares)]
      BY <2>3, <3>1 DEF SaveMem
    <3>3. QED
      BY <2>3, <3>2 DEF SaveMem, Throw
  <2>4. CASE SaveDone \/ Poll \/ CheckReady \/ JoinAll \/ RestoreDone
    BY <2>4 DEF SaveDone, Poll, CheckReady, JoinAll, RestoreDone
  <2>5. CASE Prepare \/ StartDriver
    BY <2>5 DEF Prepare, StartDriver, Throw
  <2>6. CASE SpawnSampler \/ SpawnController \/ InterruptAll
    BY <2>6 DEF SpawnSampler, SpawnController, InterruptAll, Threads
  <2>7. CASE StopDriver
    BY <2>7 DEF StopDriver, Throw, ToRestore
  <2>8. ASSUME NEW v \in VMs, RestoreMem(v) PROVE DataTypes'
    <3>1. vmStates[v] # <<>> =>
            Back(vmStates[v]) \in Shares /\ PopBack(vmStates[v]) \in Seq(Shares)
      BY StackType
    <3>2. shares' \in [VMs -> ShareRec] /\ vmStates' \in [VMs -> Seq(Shares)]
      BY <2>8, <3>1 DEF RestoreMem, ShareRec
    <3>3. QED
      BY <2>8, <3>2 DEF RestoreMem, Throw
  <2>9. CASE RestoreCpu
    <3>1. cur \in VMs /\ vmStates[cur] # <<>> =>
            Back(vmStates[cur]) \in Shares /\ PopBack(vmStates[cur]) \in Seq(Shares)
      BY StackType
    <3>2. vmStates' \in [VMs -> Seq(Shares)]
      BY <2>9, <3>1 DEF RestoreCpu
    <3>3. shares' \in [VMs -> ShareRec]
      <4>1. CASE cur \in VMs /\ vmStates[cur] # <<>>
        <5>1. \/ shares' = shares
              \/ shares' = [shares EXCEPT ![cur].cpu = Back(vmStates[cur])]
          BY <2>9 DEF RestoreCpu
        <5>2. QED
          BY <3>1, <4>1, <5>1 DEF ShareRec
      <4>2. CASE cur \notin VMs \/ vmStates[cur] = <<>>
        BY <2>9, <4>2 DEF RestoreCpu
      <4>3. QED
        BY <4>1, <4>2
    <3>4. QED
      BY <2>9, <3>2, <3>3 DEF RestoreCpu, Throw
  <2>10. CASE Finish \/ Destroy \/ Terminate \/ LoopThrows
    BY <2>10 DEF Finish, Destroy, Terminate, LoopThrows, Throw, ToRestore
  <2>11. ASSUME NEW b \in BOOLEAN, SetRestoreState(b) PROVE DataTypes'
    BY <2>11 DEF SetRestoreState
  <2>12. ASSUME NEW t \in Threads, ThreadStep(t) \/ ManagerThrows(t) PROVE DataTypes'
    BY <2>12 DEF ThreadStep, Acquire, Release, Wake, ManagerThrows
  <2>13. ASSUME NEW v \in VMs, Control(v) PROVE DataTypes'
    BY <2>13 DEF Control
  <2>14. CASE DriverRampsUp \/ DriverExits
    BY <2>14 DEF DriverRampsUp, DriverExits
  <2>15. CASE Over \/ UNCHANGED vars
    BY <2>15 DEF Over, vars
  <2>16. QED
    BY <2>1, <2>2, <2>3, <2>4, <2>5, <2>6, <2>7, <2>8, <2>9, <2>10, <2>11, <2>12, <2>13,
       <2>14, <2>15 DEF Next, RunStep
<1>4. TypeOK /\ [Next]_vars => TypeOK'
  BY <1>2, <1>3 DEF TypeOK
<1>5. QED
  BY <1>1, <1>4, PTL DEF Spec

-----------------------------------------------------------------------------
(* The threads of the manager                                              *)

\* Outside the polling loop, from the moment the driver is stopped until a later
\* run finds it ready, no thread can sample or change a share.
THEOREM QuiescentOutsideLoop == Spec => []ManagerQuiescent
<1> USE DEF ManagerQuiescent, Polling, Joining
<1>1. Init => ManagerQuiescent
  BY DEF Init
<1>2. ManagerQuiescent /\ [Next]_vars => ManagerQuiescent'
  <2> SUFFICES ASSUME ManagerQuiescent, [Next]_vars PROVE ManagerQuiescent'
    OBVIOUS
  <2> USE DEF objVars, saveVars, mgrVars
  <2>1. CASE RunBegin
    BY <2>1 DEF RunBegin
  <2>2. ASSUME NEW v \in VMs, SaveCpu(v) \/ RestoreMem(v) \/ Control(v)
        PROVE  ManagerQuiescent'
    BY <2>2 DEF SaveCpu, RestoreMem, Control, Throw
  <2>3. CASE SaveMem \/ SaveDone \/ Prepare \/ StartDriver \/ Poll \/ CheckReady
    BY <2>3 DEF SaveMem, SaveDone, Prepare, StartDriver, Poll, CheckReady, Throw
  <2>4. CASE SpawnSampler \/ SpawnController \/ InterruptAll
    BY <2>4 DEF SpawnSampler, SpawnController, InterruptAll
  <2>5. CASE JoinAll \/ LoopThrows
    BY <2>5 DEF JoinAll, LoopThrows
  <2>6. CASE StopDriver \/ RestoreCpu \/ RestoreDone \/ Finish \/ Destroy \/ Terminate
    BY <2>6 DEF StopDriver, RestoreCpu, RestoreDone, Finish, Destroy, Terminate, Throw
  <2>7. ASSUME NEW b \in BOOLEAN, SetRestoreState(b) PROVE ManagerQuiescent'
    BY <2>7 DEF SetRestoreState
  <2>8. ASSUME NEW t \in Threads, ThreadStep(t) PROVE ManagerQuiescent'
    <3>1. pc \notin Polling \cup Joining \cup {"aborted", "dangling"} => thr[t] \in {"absent", "ended"}
      OBVIOUS
    <3>2. thr[t] \notin {"absent", "ended"} /\ pc' = pc
      BY <2>8 DEF ThreadStep, Acquire, Release, Wake
    <3>3. QED
      BY <3>1, <3>2
  <2>9. ASSUME NEW t \in Threads, ManagerThrows(t) PROVE ManagerQuiescent'
    BY <2>9 DEF ManagerThrows
  <2>10. CASE DriverRampsUp \/ DriverExits
    BY <2>10 DEF DriverRampsUp, DriverExits
  <2>11. CASE Over \/ UNCHANGED vars
    BY <2>11 DEF Over, vars
  <2>12. QED
    BY <2>1, <2>2, <2>3, <2>4, <2>5, <2>6, <2>7, <2>8, <2>9, <2>10, <2>11
       DEF Next, RunStep
<1>3. QED
  BY <1>1, <1>2, PTL DEF Spec

\* sample() and control() exclude each other, across every run of the experiment.
THEOREM ManagerExclusive == Spec => []SampleControlExclusive
<1> USE DEF SampleControlExclusive
<1>1. Init => SampleControlExclusive
  BY DEF Init
<1>2. TypeOK /\ SampleControlExclusive /\ [Next]_vars => SampleControlExclusive'
  <2> SUFFICES ASSUME TypeOK, SampleControlExclusive, [Next]_vars
               PROVE  SampleControlExclusive'
    OBVIOUS
  <2> USE DEF objVars, saveVars, mgrVars
  <2>1. CASE RunBegin
    BY <2>1 DEF RunBegin
  <2>2. ASSUME NEW v \in VMs, SaveCpu(v) \/ RestoreMem(v) \/ Control(v)
        PROVE  SampleControlExclusive'
    BY <2>2 DEF SaveCpu, RestoreMem, Control
  <2>3. CASE SaveMem \/ SaveDone \/ Prepare \/ StartDriver \/ Poll \/ CheckReady
    BY <2>3 DEF SaveMem, SaveDone, Prepare, StartDriver, Poll, CheckReady
  <2>4. CASE SpawnSampler \/ SpawnController \/ InterruptAll
    BY <2>4 DEF SpawnSampler, SpawnController, InterruptAll, TypeOK, DataTypes
  <2>5. CASE JoinAll \/ StopDriver \/ RestoreCpu \/ RestoreDone \/ Finish
    BY <2>5 DEF JoinAll, StopDriver, RestoreCpu, RestoreDone, Finish
  <2>6. CASE Destroy \/ Terminate \/ LoopThrows
    BY <2>6 DEF Destroy, Terminate, LoopThrows
  <2>7. ASSUME NEW b \in BOOLEAN, SetRestoreState(b) PROVE SampleControlExclusive'
    BY <2>7 DEF SetRestoreState
  <2>8. ASSUME NEW t \in Threads, Acquire(t) PROVE SampleControlExclusive'
    <3>1. \A u \in Threads : thr[u] # "inside"
      BY <2>8 DEF Acquire, Threads, None
    <3>2. QED
      BY <2>8, <3>1 DEF Acquire, TypeOK, DataTypes
  <2>9. ASSUME NEW t \in Threads, Release(t) PROVE SampleControlExclusive'
    <3>1. \A u \in Threads \ {t} : thr[u] # "inside"
      BY <2>9 DEF Release
    <3>2. QED
      BY <2>9, <3>1 DEF Release, TypeOK, DataTypes
  <2>10. ASSUME NEW t \in Threads, Wake(t) PROVE SampleControlExclusive'
    BY <2>10 DEF Wake, TypeOK, DataTypes
  <2>11. ASSUME NEW t \in Threads, ManagerThrows(t) PROVE SampleControlExclusive'
    BY <2>11 DEF ManagerThrows
  <2>12. CASE DriverRampsUp \/ DriverExits
    BY <2>12 DEF DriverRampsUp, DriverExits
  <2>13. CASE Over \/ UNCHANGED vars
    BY <2>13 DEF Over, vars
  <2>14. QED
    BY <2>1, <2>2, <2>3, <2>4, <2>5, <2>6, <2>7, <2>8, <2>9, <2>10, <2>11, <2>12, <2>13
       DEF Next, RunStep, ThreadStep
<1>3. QED
  BY <1>1, <1>2, TypeCorrect, PTL DEF Spec

\* Why the manager finds a ready driver: run() creates threads only after it has
\* seen ready(), and a thread that exists keeps run() out of Prepare, the one step
\* of the object that resets the driver.
ReadySeen ==
  /\ pc \in Preparing => \A t \in Threads : thr[t] = "absent"
  /\ pc \in Polling => launched
  /\ pc \in {"spawn_sampler", "spawn_controller"} => ready
  /\ ManagedOnlyWhenReady

\* The manager samples and controls only after its driver was found ready.
THEOREM ManagerNeedsReady == Spec => []ManagedOnlyWhenReady
<1> USE DEF ReadySeen, ManagedOnlyWhenReady, Preparing, Polling, Joining
<1>1. Init => ReadySeen
  BY DEF Init
<1>2. TypeOK /\ ReadySeen /\ [Next]_vars => ReadySeen'
  <2> SUFFICES ASSUME TypeOK, ReadySeen, [Next]_vars PROVE ReadySeen'
    OBVIOUS
  <2> USE DEF objVars, saveVars, mgrVars, drvVars, Threads
  <2>1. CASE RunBegin
    BY <2>1 DEF RunBegin
  <2>2. ASSUME NEW v \in VMs, SaveCpu(v) \/ RestoreMem(v) \/ Control(v) PROVE ReadySeen'
    BY <2>2 DEF SaveCpu, RestoreMem, Control, Throw
  <2>3. CASE SaveMem \/ SaveDone \/ Poll \/ CheckReady
    BY <2>3 DEF SaveMem, SaveDone, Poll, CheckReady, Throw
  <2>4. CASE Prepare \/ StartDriver
    BY <2>4 DEF Prepare, StartDriver, Throw, Driver!Reset, Driver!Launch
  <2>5. CASE SpawnSampler \/ SpawnController \/ InterruptAll
    BY <2>5 DEF SpawnSampler, SpawnController, InterruptAll
  <2>6. CASE JoinAll \/ LoopThrows \/ RestoreCpu \/ RestoreDone
    BY <2>6 DEF JoinAll, LoopThrows, RestoreCpu, RestoreDone, Throw
  <2>7. CASE StopDriver \/ Finish \/ Destroy \/ Terminate
    BY <2>7 DEF StopDriver, Finish, Destroy, Terminate, Throw, Driver!Exit
  <2>8. ASSUME NEW b \in BOOLEAN, SetRestoreState(b) PROVE ReadySeen'
    BY <2>8 DEF SetRestoreState
  <2>9. ASSUME NEW t \in Threads, ThreadStep(t) \/ ManagerThrows(t) PROVE ReadySeen'
    BY <2>9 DEF ThreadStep, Acquire, Release, Wake, ManagerThrows, TypeOK, DataTypes
  <2>10. CASE DriverRampsUp \/ DriverExits
    BY <2>10 DEF DriverRampsUp, DriverExits, Driver!RampUp, Driver!Exit
  <2>11. CASE Over \/ UNCHANGED vars
    BY <2>11 DEF Over, vars
  <2>12. QED
    BY <2>1, <2>2, <2>3, <2>4, <2>5, <2>6, <2>7, <2>8, <2>9, <2>10, <2>11 DEF Next, RunStep
<1>3. ReadySeen => ManagedOnlyWhenReady
  OBVIOUS
<1>4. QED
  BY <1>1, <1>2, <1>3, TypeCorrect, PTL DEF Spec

-----------------------------------------------------------------------------
(* What is saved and what is restored                                      *)

\* Taking note of the shares: each step of save_app_state() keeps StateKept.
LEMMA SaveKeeps ==
  ASSUME TypeOK, StateKept,
         RunBegin \/ (\E v \in VMs : SaveCpu(v)) \/ SaveMem \/ SaveDone
  PROVE  StateKept'
<1> USE DEF objVars, saveVars, mgrVars, Running, AllSaved, Preparing, Polling, Joining,
            Restoring, Halted, NothingSaved, Empty, Saved, Busy, Clean
<1>1. CASE RunBegin
  BY <1>1 DEF RunBegin, ToRestore, StateKept, FlagInv, SaveInv, SavedInv, RestoreInv,
              RestoredInv, TypeOK, DataTypes
<1>2. ASSUME NEW v \in VMs, SaveCpu(v) PROVE StateKept'
  <2>1. restoreState /\ Empty(v) /\ ~dying /\ running /\ shares = before
    BY <1>2 DEF SaveCpu, StateKept, FlagInv, SaveInv
  <2>2. CASE pc' = "save_mem"
    <3>1. /\ cur' = v /\ todo' = todo /\ v \in todo /\ pc = "save"
          /\ entries' = entries \cup {v}
          /\ vmStates' = [vmStates EXCEPT ![v] = <<shares[v].cpu>>]
          /\ UNCHANGED <<shares, before, restoreState, running, dying>>
      BY <1>2, <2>1, <2>2, StackOfTwo DEF SaveCpu, Throw
    <3>2. SaveInv'
      BY <2>1, <2>2, <3>1 DEF StateKept, SaveInv, TypeOK, DataTypes
    <3>3. QED
      BY <2>1, <2>2, <3>1, <3>2 DEF StateKept, FlagInv, SavedInv, RestoreInv, RestoredInv
  <2>3. CASE pc' # "save_mem"
    <3>1. pc' = "threw" /\ ~Clean
      BY <1>2, <2>1, <2>3 DEF SaveCpu, Throw
    <3>2. UNCHANGED <<shares, before, restoreState, running, dying>>
      BY <1>2 DEF SaveCpu
    <3>3. QED
      BY <2>1, <3>1, <3>2 DEF StateKept, FlagInv, SaveInv, SavedInv, RestoreInv, RestoredInv
  <2>4. QED
    BY <2>2, <2>3
<1>3. CASE SaveMem
  <2>1. /\ restoreState /\ ~dying /\ running /\ shares = before
        /\ cur \in todo /\ cur \in entries /\ vmStates[cur] = <<before[cur].cpu>>
    BY <1>3 DEF SaveMem, StateKept, FlagInv, SaveInv
  <2>2. CASE pc' = "save"
    <3>1. /\ cur \in VMs /\ todo' = todo \ {cur} /\ pc = "save_mem"
          /\ vmStates' = [vmStates EXCEPT ![cur] = Saved(cur)]
          /\ UNCHANGED <<shares, before, restoreState, running, dying, entries, cur>>
      BY <1>3, <2>1, <2>2, StackOfTwo DEF SaveMem, Throw, TypeOK, DataTypes
    <3>2. SaveInv'
      BY <2>1, <2>2, <3>1 DEF StateKept, SaveInv, TypeOK, DataTypes
    <3>3. QED
      BY <2>1, <2>2, <3>1, <3>2 DEF StateKept, FlagInv, SavedInv, RestoreInv, RestoredInv
  <2>3. CASE pc' # "save"
    <3>1. pc' = "threw" /\ ~Clean
      BY <1>3, <2>1, <2>3 DEF SaveMem, Throw
    <3>2. UNCHANGED <<shares, before, restoreState, running, dying>>
      BY <1>3 DEF SaveMem
    <3>3. QED
      BY <2>1, <3>1, <3>2 DEF StateKept, FlagInv, SaveInv, SavedInv, RestoreInv, RestoredInv
  <2>4. QED
    BY <2>2, <2>3
<1>4. CASE SaveDone
  BY <1>4 DEF SaveDone, StateKept, FlagInv, SaveInv, SavedInv, RestoreInv, RestoredInv
<1>5. QED
  BY <1>1, <1>2, <1>3, <1>4

\* Giving the shares back: each step of restore_app_state(), in run() and in the
\* destructor, keeps StateKept.
LEMMA RestoreKeeps ==
  ASSUME TypeOK, StateKept, (\E v \in VMs : RestoreMem(v)) \/ RestoreCpu \/ RestoreDone
  PROVE  StateKept'
<1> USE DEF objVars, saveVars, mgrVars, Running, AllSaved, Preparing, Polling, Joining,
            Restoring, Halted, NothingSaved, Empty, Saved, Busy, Clean
<1>1. ASSUME NEW v \in VMs, RestoreMem(v) PROVE StateKept'
  <2>1. pc = "restore" /\ v \in todo /\ UNCHANGED <<before, restoreState, running, dying, entries>>
    BY <1>1 DEF RestoreMem
  <2>2. CASE dying /\ ~Clean
    BY <1>1, <2>1, <2>2
       DEF RestoreMem, Throw, StateKept, FlagInv, SaveInv, SavedInv, RestoreInv, RestoredInv
  <2>3. CASE ~dying \/ Clean
    <3>1. restoreState /\ running /\ Restorable(v)
      BY <2>1, <2>3 DEF StateKept, RestoreInv
    <3>2. CASE v \notin entries
      <4>1. /\ pc' = pc /\ todo' = todo \ {v} /\ UNCHANGED <<vmStates, shares>>
            /\ Empty(v) /\ shares[v] = before[v]
        BY <1>1, <3>1, <3>2 DEF RestoreMem, Restorable
      <4>2. RestoreInv'
        BY <2>1, <2>3, <3>1, <4>1 DEF StateKept, RestoreInv, Restorable
      <4>3. QED
        BY <2>1, <4>1, <4>2 DEF StateKept, FlagInv, SaveInv, SavedInv, RestoredInv
    <3>3. CASE v \in entries /\ pc' = "restore_cpu"
      <4>0. /\ Back(vmStates[v]) = before[v].mem
            /\ PopBack(vmStates[v]) = <<before[v].cpu>>
        <5>1. vmStates[v] = <<before[v].cpu, before[v].mem>>
          BY <3>1, <3>3 DEF Restorable
        <5>2. /\ Back(<<before[v].cpu, before[v].mem>>) = before[v].mem
              /\ PopBack(<<before[v].cpu, before[v].mem>>) = <<before[v].cpu>>
          BY StackOfTwo, Zenon
        <5>3. QED
          BY <5>1, <5>2, Zenon
      <4>1. /\ cur' = v /\ todo' = todo
            /\ shares' = [shares EXCEPT ![v].mem = before[v].mem]
            /\ vmStates' = [vmStates EXCEPT ![v] = <<before[v].cpu>>]
        BY <1>1, <2>1, <3>3, <4>0 DEF RestoreMem, Throw
      <4>2. RestoreInv'
        BY <2>1, <2>3, <3>1, <3>3, <4>1
           DEF StateKept, RestoreInv, Restorable, TypeOK, DataTypes, ShareRec
      <4>3. QED
        BY <2>1, <3>1, <3>3, <4>1, <4>2 DEF StateKept, FlagInv, SaveInv, SavedInv, RestoredInv
    <3>4. CASE v \in entries /\ pc' # "restore_cpu"
      <4>1. vmStates[v] # <<>>
        BY <3>1, <3>4, StackOfTwo DEF Restorable
      <4>2. ~Clean /\ ~dying /\ pc' = "threw"
        BY <1>1, <2>1, <2>3, <3>4, <4>1 DEF RestoreMem, Throw
      <4>3. QED
        BY <2>1, <3>1, <4>2
           DEF StateKept, FlagInv, SaveInv, SavedInv, RestoreInv, RestoredInv
    <3>5. QED
      BY <3>2, <3>3, <3>4
  <2>4. QED
    BY <2>2, <2>3
<1>2. CASE RestoreCpu
  <2>1. pc = "restore_cpu" /\ UNCHANGED <<before, restoreState, running, dying, entries, cur>>
    BY <1>2 DEF RestoreCpu
  <2>2. CASE dying /\ ~Clean
    BY <1>2, <2>1, <2>2
       DEF RestoreCpu, Throw, StateKept, FlagInv, SaveInv, SavedInv, RestoreInv, RestoredInv
  <2>3. CASE ~dying \/ Clean
    <3>1. /\ restoreState /\ running /\ cur \in todo /\ cur \in VMs
          /\ vmStates[cur] = <<before[cur].cpu>> /\ shares[cur].mem = before[cur].mem
      BY <2>1, <2>3 DEF StateKept, RestoreInv, TypeOK, DataTypes
    <3>2. vmStates[cur] # <<>> /\ Back(vmStates[cur]) = before[cur].cpu
          /\ PopBack(vmStates[cur]) = <<>>
      BY <3>1, StackOfTwo
    <3>3. CASE pc' = "restore"
      <4>1. /\ todo' = todo \ {cur}
            /\ shares' = [shares EXCEPT ![cur].cpu = before[cur].cpu]
            /\ vmStates' = [vmStates EXCEPT ![cur] = <<>>]
        BY <1>2, <3>2, <3>3 DEF RestoreCpu, Throw
      <4>2. shares'[cur] = before[cur] /\ \A v \in VMs \ {cur} : shares'[v] = shares[v]
        BY <3>1, <4>1 DEF TypeOK, DataTypes, ShareRec
      <4>3. RestoreInv'
        BY <2>1, <2>3, <3>1, <3>3, <4>1, <4>2
           DEF StateKept, RestoreInv, Restorable, TypeOK, DataTypes
      <4>4. QED
        BY <2>1, <3>1, <3>3, <4>1, <4>3 DEF StateKept, FlagInv, SaveInv, SavedInv, RestoredInv
    <3>4. CASE pc' # "restore"
      <4>1. ~Clean /\ ~dying /\ pc' = "threw"
        BY <1>2, <2>3, <3>2, <3>4 DEF RestoreCpu, Throw
      <4>2. QED
        BY <2>1, <3>1, <4>1
           DEF StateKept, FlagInv, SaveInv, SavedInv, RestoreInv, RestoredInv
    <3>5. QED
      BY <3>3, <3>4
  <2>4. QED
    BY <2>2, <2>3
<1>3. CASE RestoreDone
  <2>1. /\ pc = "restore" /\ todo = {} /\ pc' = IF dying THEN "destroyed" ELSE "on_stop"
        /\ UNCHANGED <<before, restoreState, running, dying, entries, vmStates, shares, todo>>
    BY <1>3 DEF RestoreDone
  <2>2. (~dying \/ Clean) /\ restoreState /\ running => shares = before
    BY <2>1 DEF StateKept, RestoreInv, TypeOK, DataTypes
  <2>3. ~dying => NothingSaved /\ running
    BY <2>1 DEF StateKept, RestoreInv, FlagInv
  <2>4. QED
    BY <2>1, <2>2, <2>3 DEF StateKept, FlagInv, SaveInv, SavedInv, RestoreInv, RestoredInv
<1>4. QED
  BY <1>1, <1>2, <1>3

\* The rest of run(), the destructor, the threads and the driver leave the saved
\* shares alone, and only the polled experiment changes the shares.
LEMMA OthersKeep ==
  ASSUME TypeOK, StateKept, ManagerQuiescent, [Next]_vars,
         ~(RunBegin \/ (\E v \in VMs : SaveCpu(v)) \/ SaveMem \/ SaveDone),
         ~((\E v \in VMs : RestoreMem(v)) \/ RestoreCpu \/ RestoreDone)
  PROVE  StateKept'
<1> USE DEF objVars, saveVars, mgrVars, Running, AllSaved, Preparing, Polling, Joining,
            Restoring, Halted, NothingSaved, Empty, Saved, Busy, Clean
<1>1. CASE Prepare \/ StartDriver
  BY <1>1 DEF Prepare, StartDriver, Throw,
              StateKept, FlagInv, SaveInv, SavedInv, RestoreInv, RestoredInv
<1>2. CASE Poll \/ CheckReady \/ SpawnSampler \/ SpawnController \/ InterruptAll \/ JoinAll
  BY <1>2 DEF Poll, CheckReady, SpawnSampler, SpawnController, InterruptAll, JoinAll,
              StateKept, FlagInv, SaveInv, SavedInv, RestoreInv, RestoredInv
<1>3. CASE StopDriver
  BY <1>3 DEF StopDriver, ToRestore, Throw, Restorable, TypeOK, DataTypes,
              StateKept, FlagInv, SaveInv, SavedInv, RestoreInv, RestoredInv
<1>4. CASE Finish
  BY <1>4 DEF Finish, Throw,
              StateKept, FlagInv, SaveInv, SavedInv, RestoreInv, RestoredInv
<1>5. CASE Destroy
  BY <1>5 DEF Destroy, ToRestore, Restorable, TypeOK, DataTypes,
              StateKept, FlagInv, SaveInv, SavedInv, RestoreInv, RestoredInv
<1>6. CASE Terminate \/ LoopThrows
  BY <1>6 DEF Terminate, LoopThrows, StateKept, FlagInv, SaveInv, SavedInv, RestoreInv, RestoredInv
<1>7. ASSUME NEW b \in BOOLEAN, SetRestoreState(b) PROVE StateKept'
  BY <1>7 DEF SetRestoreState,
              StateKept, FlagInv, SaveInv, SavedInv, RestoreInv, RestoredInv
<1>8. ASSUME NEW t \in Threads, ThreadStep(t) PROVE StateKept'
  BY <1>8 DEF ThreadStep, Acquire, Release, Wake, Restorable,
              StateKept, FlagInv, SaveInv, SavedInv, RestoreInv, RestoredInv
<1>9. ASSUME NEW t \in Threads, ManagerThrows(t) PROVE StateKept'
  BY <1>9 DEF ManagerThrows,
              StateKept, FlagInv, SaveInv, SavedInv, RestoreInv, RestoredInv
<1>10. ASSUME NEW v \in VMs, Control(v) PROVE StateKept'
  <2>1. pc \in Polling \cup Joining
    BY <1>10 DEF Control, ProgramLives, ManagerQuiescent, Threads
  <2>2. QED
    BY <1>10, <2>1 DEF Control,
              StateKept, FlagInv, SaveInv, SavedInv, RestoreInv, RestoredInv
<1>11. CASE DriverRampsUp \/ DriverExits \/ Over \/ UNCHANGED vars
  <2>1. UNCHANGED <<pc, objVars, saveVars, shares>>
    BY <1>11 DEF DriverRampsUp, DriverExits, Over, vars
  <2>2. QED
    BY <2>1 DEF Restorable,
              StateKept, FlagInv, SaveInv, SavedInv, RestoreInv, RestoredInv
<1>12. QED
  BY <1>1, <1>2, <1>3, <1>4, <1>5, <1>6, <1>7, <1>8, <1>9, <1>10, <1>11 DEF Next, RunStep

\* The invariant of saving and restoring, for every set of faults.
THEOREM StateIsKept == Spec => []StateKept
<1>1. Init => StateKept
  BY DEF Init, StateKept, FlagInv, SaveInv, SavedInv, RestoreInv, RestoredInv, Running,
         AllSaved, Preparing, Polling, Joining, Restoring, Halted, NothingSaved, Empty
<1>2. TypeOK /\ ManagerQuiescent /\ StateKept /\ [Next]_vars => StateKept'
  BY SaveKeeps, RestoreKeeps, OthersKeep
<1>3. QED
  BY <1>1, <1>2, TypeCorrect, QuiescentOutsideLoop, PTL DEF Spec

\* run() returns with the shares of every VM as it found them, whatever the
\* controller set them to and whatever may throw.
THEOREM RunRestores == Spec => RestoredOnReturn
<1>1. StateKept /\ [Next]_vars
        => (pc # "idle" /\ pc' = "idle" => (restoreState => shares = before))
  <2> SUFFICES ASSUME StateKept, [Next]_vars, pc # "idle", pc' = "idle", restoreState
               PROVE  shares = before
    OBVIOUS
  <2>1. pc = "on_stop"
    BY DEF Next, RunStep, RunBegin, SaveCpu, SaveMem, SaveDone, Prepare, StartDriver, Poll,
           CheckReady, SpawnSampler, SpawnController, InterruptAll, JoinAll, StopDriver,
           RestoreMem, RestoreCpu, RestoreDone, Finish, Throw, LoopThrows, Destroy, Terminate,
           SetRestoreState, ThreadStep, Acquire, Release, Wake, ManagerThrows, Control,
           DriverRampsUp, DriverExits, Over, vars
  <2>2. QED
    BY <2>1 DEF StateKept, RestoredInv
<1>2. QED
  BY <1>1, StateIsKept, PTL DEF Spec, RestoredOnReturn

\* No share stays in vm_states_ between two runs.
THEOREM NothingSavedBetweenRuns == Spec => []NothingLeftSaved
<1>1. StateKept => NothingLeftSaved
  BY DEF StateKept, RestoredInv, NothingSaved, Empty, NothingLeftSaved
<1>2. QED
  BY <1>1, StateIsKept, PTL

\* With clean faults, the destructor leaves the VMs as run() found them: an experiment that
\* an exception has interrupted restores them there.
THEOREM DestructorRestores ==
  ASSUME Clean
  PROVE  Spec => []RestoredByDestructor
<1>1. StateKept => RestoredByDestructor
  BY DEF StateKept, RestoredInv, RestoredByDestructor
<1>2. QED
  BY <1>1, StateIsKept, PTL

\* With clean faults, neither run() nor the destructor takes a value from an empty vector.
THEOREM StacksNeverEmpty ==
  ASSUME Clean
  PROVE  Spec => []StackNeverEmpty
<1>1. StateKept => StackNeverEmpty
  BY DEF StateKept, FlagInv, StackNeverEmpty
<1>2. QED
  BY <1>1, StateIsKept, PTL

\* With clean faults, every step of a restore, by run() or by the destructor, gives a share
\* its own saved value back.  It is a fault in the middle of one that breaks this.
THEOREM RestoresOwnValues ==
  ASSUME Clean
  PROVE  Spec => RestoresWhatWasSaved
<1> USE DEF Restoring, Busy, DataTypes, ShareRec
<1> DEFINE Own == \A v \in VMs : OwnValue(v, "cpu") /\ OwnValue(v, "mem")
<1>1. ASSUME TypeOK, StateKept, pc \in Restoring, NEW v \in VMs, RestoreMem(v)  PROVE Own
  <2>1. CASE UNCHANGED shares
    BY <2>1 DEF OwnValue
  <2>2. CASE v \in entries /\ vmStates[v] # <<>>
             /\ shares' = [shares EXCEPT ![v].mem = Back(vmStates[v])]
    <3>1. restoreState /\ running /\ Restorable(v)
      BY <1>1 DEF RestoreMem, StateKept, RestoreInv
    <3>2. Back(vmStates[v]) = before[v].mem
      <4>1. vmStates[v] = <<before[v].cpu, before[v].mem>>
        BY <2>2, <3>1 DEF Restorable, Saved
      <4>2. Back(<<before[v].cpu, before[v].mem>>) = before[v].mem
        BY StackOfTwo, Zenon
      <4>3. QED
        BY <4>1, <4>2, Zenon
    <3>3. QED
      BY <1>1, <2>2, <3>2 DEF TypeOK, OwnValue
  <2>3. QED
    BY <1>1, <2>1, <2>2 DEF RestoreMem
<1>2. ASSUME TypeOK, StateKept, pc \in Restoring, RestoreCpu  PROVE Own
  <2>1. CASE UNCHANGED shares
    BY <2>1 DEF OwnValue
  <2>2. CASE shares' = [shares EXCEPT ![cur].cpu = Back(vmStates[cur])]
    <3>1. cur \in VMs /\ vmStates[cur] = <<before[cur].cpu>>
      BY <1>2 DEF RestoreCpu, StateKept, RestoreInv, TypeOK
    <3>2. Back(vmStates[cur]) = before[cur].cpu
      BY <3>1, StackOfTwo, Zenon
    <3>3. QED
      BY <1>2, <2>2, <3>1, <3>2 DEF TypeOK, OwnValue
  <2>3. QED
    BY <1>2, <2>1, <2>2 DEF RestoreCpu
\* Nothing else touches a share: no controller is left.
<1>3. ASSUME ManagerQuiescent, pc \in Restoring, [Next]_vars,
             ~((\E v \in VMs : RestoreMem(v)) \/ RestoreCpu)
      PROVE  UNCHANGED shares
  <2>1. \A v \in VMs : ~Control(v)
    BY <1>3 DEF Control, ManagerQuiescent, Polling, Joining, Threads
  <2>2. QED
    BY <1>3, <2>1
       DEF Next, RunStep, RunBegin, SaveCpu, SaveMem, SaveDone, Prepare, StartDriver, Poll,
           CheckReady, SpawnSampler, SpawnController, InterruptAll, JoinAll, StopDriver,
           RestoreDone, Finish, LoopThrows, Destroy, Terminate, SetRestoreState, ThreadStep,
           Acquire, Release, Wake, ManagerThrows, DriverRampsUp, DriverExits, Over, vars
<1>4. TypeOK /\ ManagerQuiescent /\ StateKept /\ [Next]_vars => (pc \in Restoring => Own)
  BY <1>1, <1>2, <1>3 DEF OwnValue
<1>5. QED
  BY <1>4, TypeCorrect, QuiescentOutsideLoop, StateIsKept, PTL DEF Spec, RestoresWhatWasSaved
=============================================================================
