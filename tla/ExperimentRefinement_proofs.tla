--------------------- MODULE ExperimentRefinement_proofs ---------------------
(***************************************************************************)
(* An application experiment keeps the promise of ExperimentContract, for  *)
(* every set of virtual machines and of share values, if no fault hits the *)
(* saved shares (Clean).                                                   *)
(***************************************************************************)
EXTENDS ApplicationExperiment_proofs

\* The sampler is created first, so a controller never acts without one.
SamplerFirst ==
  /\ pc = "spawn_controller" => thr["sampler"] # "absent"
  /\ thr["controller"] # "absent" => thr["sampler"] # "absent"

LEMMA SamplerIsFirst == Spec => []SamplerFirst
<1> USE DEF SamplerFirst
<1>1. Init => SamplerFirst
  BY DEF Init, Threads
<1>2. TypeOK /\ SamplerFirst /\ [Next]_vars => SamplerFirst'
  <2> SUFFICES ASSUME TypeOK, SamplerFirst, [Next]_vars PROVE SamplerFirst'
    OBVIOUS
  <2> USE DEF objVars, saveVars, mgrVars, Threads
  <2>1. CASE RunBegin
    BY <2>1 DEF RunBegin
  <2>2. ASSUME NEW v \in VMs, SaveCpu(v) \/ RestoreMem(v) \/ Control(v)
        PROVE  SamplerFirst'
    BY <2>2 DEF SaveCpu, RestoreMem, Control, Throw
  <2>3. CASE SaveMem \/ SaveDone \/ Prepare \/ StartDriver \/ Poll \/ CheckReady
    BY <2>3 DEF SaveMem, SaveDone, Prepare, StartDriver, Poll, CheckReady, Throw
  <2>4. CASE SpawnSampler \/ SpawnController \/ InterruptAll
    BY <2>4 DEF SpawnSampler, SpawnController, InterruptAll, TypeOK, DataTypes
  <2>5. CASE JoinAll \/ LoopThrows \/ StopDriver \/ RestoreCpu \/ RestoreDone
    BY <2>5 DEF JoinAll, LoopThrows, StopDriver, RestoreCpu, RestoreDone, Throw
  <2>6. CASE Finish \/ Destroy \/ Terminate
    BY <2>6 DEF Finish, Destroy, Terminate, Throw
  <2>7. ASSUME NEW b \in BOOLEAN, SetRestoreState(b) PROVE SamplerFirst'
    BY <2>7 DEF SetRestoreState
  <2>8. ASSUME NEW t \in Threads, ThreadStep(t) \/ ManagerThrows(t) PROVE SamplerFirst'
    BY <2>8 DEF ThreadStep, Acquire, Release, Wake, ManagerThrows, TypeOK, DataTypes
  <2>9. CASE DriverRampsUp \/ DriverExits \/ Over \/ UNCHANGED vars
    BY <2>9 DEF DriverRampsUp, DriverExits, Over, vars
  <2>10. QED
    BY <2>1, <2>2, <2>3, <2>4, <2>5, <2>6, <2>7, <2>8, <2>9 DEF Next, RunStep
<1>3. QED
  BY <1>1, <1>2, TypeCorrect, PTL DEF Spec

-----------------------------------------------------------------------------
(* The phase of each location                                              *)

\* Phase without its CASE: what each location, and a thread or the destructor where
\* they matter, mean to the contract.
LEMMA PhaseOf ==
  /\ pc \in Halted => Phase = "over"
  /\ pc = "threw" => Phase = "leaving"
  /\ dying /\ pc \notin Halted => Phase = "leaving"
  /\ pc = "idle" /\ ~dying => Phase = "idle"
  /\ pc \in {"stop", "on_stop"} \cup Restoring /\ ~dying => Phase = "settling"
  /\ pc \in Preparing \cup Polling \cup Joining /\ ~dying =>
       Phase = IF thr["sampler"] = "absent" THEN "unmanaged" ELSE "managed"
BY DEF Phase, Halted, Restoring, Preparing, Polling, Joining

\* The same of the next state.
LEMMA NextPhaseOf ==
  /\ pc' \in Halted => Phase' = "over"
  /\ pc' = "threw" => Phase' = "leaving"
  /\ dying' /\ pc' \notin Halted => Phase' = "leaving"
  /\ pc' = "idle" /\ ~dying' => Phase' = "idle"
  /\ pc' \in {"stop", "on_stop"} \cup Restoring /\ ~dying' => Phase' = "settling"
  /\ pc' \in Preparing \cup Polling \cup Joining /\ ~dying' =>
       Phase' = IF thr'["sampler"] = "absent" THEN "unmanaged" ELSE "managed"
BY DEF Phase, Halted, Restoring, Preparing, Polling, Joining

-----------------------------------------------------------------------------
(* Every step of the experiment is a step of the contract or a stutter.     *)

\* What the steps need to know of the state they start from.
Known == TypeOK /\ ManagerQuiescent /\ StateKept /\ SamplerFirst

\* An exception, or the end of the object or of the program, is Leave.
LEMMA LeaveStep ==
  ASSUME pc \notin Halted, pc' \in Halted \cup {"threw"} \/ dying',
         UNCHANGED <<restoreState, shares, before>>
  PROVE  Contract!Leave
<1>1. Phase # "over"
  BY PhaseOf DEF Phase, Halted
<1>2. Phase' \in {"leaving", "over"}
  BY NextPhaseOf
<1>3. QED
  BY <1>1, <1>2 DEF Contract!Leave

\* A step within a phase that leaves the shares alone is a stutter.
LEMMA SamePhase ==
  ASSUME Phase' = Phase, UNCHANGED <<restoreState, shares, before>>
  PROVE  UNCHANGED Contract!vars
BY DEF Contract!vars

\* The steps of the thread of run() before the driver is done.
LEMMA RunSimulates ==
  ASSUME Known,
         \/ RunBegin \/ (\E v \in VMs : SaveCpu(v)) \/ SaveMem \/ SaveDone
         \/ Prepare \/ StartDriver \/ Poll \/ CheckReady \/ SpawnSampler
         \/ SpawnController \/ LoopThrows \/ InterruptAll \/ JoinAll
  PROVE  [Contract!Next]_(Contract!vars)
<1> USE DEF objVars, saveVars, mgrVars, Threads
<1>1. pc \notin Restoring \cup Halted => ~dying
  BY DEF Known, StateKept, FlagInv
<1> DEFINE Before == Preparing \cup Polling \cup Joining
<1>2. ASSUME pc \in Before, pc' \in Before, ~dying, UNCHANGED <<dying, restoreState, shares, before>>,
             thr'["sampler"] = thr["sampler"]
      PROVE  UNCHANGED Contract!vars
  BY <1>2, PhaseOf, NextPhaseOf, SamePhase
<1>3. CASE RunBegin
  <2>1. Phase = "idle" /\ Phase' = "unmanaged"
    BY <1>1, <1>3, PhaseOf, NextPhaseOf DEF RunBegin, Preparing, Restoring, Halted
  <2>2. Contract!Begin
    BY <1>3, <2>1 DEF RunBegin, Contract!Begin
  <2>3. QED
    BY <2>2 DEF Contract!Next
<1>4. ASSUME (\E v \in VMs : SaveCpu(v)) \/ SaveMem \/ SaveDone \/ Prepare \/ StartDriver
      PROVE  [Contract!Next]_(Contract!vars)
  <2>1. /\ pc \in Preparing /\ ~dying /\ pc' \in Before \cup {"threw"}
        /\ UNCHANGED <<dying, restoreState, shares, before, thr>>
    BY <1>1, <1>4 DEF SaveCpu, SaveMem, SaveDone, Prepare, StartDriver, Throw,
                      Preparing, Polling, Restoring, Halted
  <2>2. pc' = "threw" => Contract!Leave
    BY <2>1, LeaveStep DEF Preparing, Halted
  <2>3. pc' \in Before => UNCHANGED Contract!vars
    BY <1>2, <2>1
  <2>4. QED
    BY <2>1, <2>2, <2>3 DEF Contract!Next
<1>5. CASE LoopThrows
  <2>1. Contract!Leave
    BY <1>5, LeaveStep DEF LoopThrows, Polling, Halted
  <2>2. QED
    BY <2>1 DEF Contract!Next
<1>6. CASE Poll \/ CheckReady \/ SpawnController \/ InterruptAll
  <2>1. /\ pc \in Before /\ pc' \in Before /\ ~dying
        /\ UNCHANGED <<dying, restoreState, shares, before>>
    BY <1>1, <1>6 DEF Poll, CheckReady, SpawnController, InterruptAll,
                      Polling, Joining, Restoring, Halted
  <2>2. thr'["sampler"] = thr["sampler"]
    BY <1>6 DEF Poll, CheckReady, SpawnController, InterruptAll, Known, TypeOK, DataTypes
  <2>3. QED
    BY <1>2, <2>1, <2>2
<1>7. CASE SpawnSampler
  <2>1. /\ pc = "spawn_sampler" /\ pc' = "spawn_controller" /\ ~dying
        /\ UNCHANGED <<dying, restoreState, shares, before>>
    BY <1>1, <1>7 DEF SpawnSampler, Restoring, Halted
  <2>2. Phase \in {"unmanaged", "managed"}
    BY <2>1, PhaseOf DEF Polling
  <2>3. thr'["sampler"] = "waiting"
    BY <1>7 DEF SpawnSampler, Known, TypeOK, DataTypes
  <2>4. Phase' = "managed"
    BY <2>1, <2>3, NextPhaseOf DEF Polling
  <2>5. CASE Phase = "unmanaged"
    BY <2>1, <2>4, <2>5 DEF Contract!Manage, Contract!Next
  <2>6. CASE Phase = "managed"
    BY <2>1, <2>4, <2>6, SamePhase
  <2>7. QED
    BY <2>2, <2>5, <2>6
<1>8. CASE JoinAll
  <2>1. /\ pc = "join" /\ pc' = "stop" /\ ~dying
        /\ UNCHANGED <<dying, restoreState, shares, before>>
    BY <1>1, <1>8 DEF JoinAll, Restoring, Halted
  <2>2. Phase \in {"unmanaged", "managed"} /\ Phase' = "settling"
    BY <2>1, PhaseOf, NextPhaseOf DEF Joining
  <2>3. Contract!Settle
    BY <2>1, <2>2 DEF Contract!Settle
  <2>4. QED
    BY <2>3 DEF Contract!Next
<1>9. QED
  BY <1>3, <1>4, <1>5, <1>6, <1>7, <1>8

\* The steps of the thread of run() or of the destructor that restore the shares.
LEMMA RestoreSimulates ==
  ASSUME Known, Clean, (\E v \in VMs : RestoreMem(v)) \/ RestoreCpu \/ RestoreDone
  PROVE  [Contract!Next]_(Contract!vars)
<1> USE DEF objVars, saveVars, mgrVars, Restoring, Halted
<1>1. pc \in Restoring /\ Phase \in {"settling", "leaving"}
  BY PhaseOf DEF RestoreMem, RestoreCpu, RestoreDone
<1>2. pc' \notin Halted \cup {"threw"} => pc' \in Restoring \cup {"on_stop"}
  BY DEF RestoreMem, RestoreCpu, RestoreDone, Throw
<1>3. UNCHANGED <<dying, restoreState, before>>
  BY DEF RestoreMem, RestoreCpu, RestoreDone
<1>4. pc' \notin Halted \cup {"threw"} => Phase' = Phase
  BY <1>1, <1>2, <1>3, PhaseOf, NextPhaseOf
<1>5. ASSUME UNCHANGED shares PROVE [Contract!Next]_(Contract!vars)
  <2>1. CASE pc' \in Halted \cup {"threw"}
    BY <1>1, <1>3, <1>5, <2>1, LeaveStep DEF Contract!Next
  <2>2. CASE pc' \notin Halted \cup {"threw"}
    BY <1>3, <1>4, <1>5, <2>2, SamePhase
  <2>3. QED
    BY <2>1, <2>2
<1>6. ASSUME NEW v \in VMs, RestoreMem(v), shares' # shares
      PROVE  [Contract!Next]_(Contract!vars)
  <2>1. /\ pc = "restore" /\ v \in todo /\ v \in entries /\ pc' = "restore_cpu"
        /\ shares' = [shares EXCEPT ![v].mem = Back(vmStates[v])]
    BY <1>6 DEF RestoreMem
  <2>2. restoreState /\ vmStates[v] = Saved(v)
    BY <2>1 DEF Known, StateKept, RestoreInv, Restorable, Busy
  <2>3. Back(Saved(v)) = before[v].mem
    BY StackOfTwo, Zenon DEF Saved
  <2>4. Contract!Restore(v)
    BY <1>1, <1>3, <1>4, <2>1, <2>2, <2>3 DEF Contract!Restore
  <2>5. QED
    BY <2>4 DEF Contract!Next
<1>7. ASSUME RestoreCpu, shares' # shares PROVE [Contract!Next]_(Contract!vars)
  <2>1. /\ pc = "restore_cpu" /\ pc' = "restore"
        /\ shares' = [shares EXCEPT ![cur].cpu = Back(vmStates[cur])]
    BY <1>7 DEF RestoreCpu
  <2>2. restoreState /\ cur \in VMs /\ vmStates[cur] = <<before[cur].cpu>>
    BY <2>1 DEF Known, StateKept, RestoreInv, TypeOK, DataTypes
  <2>3. Back(<<before[cur].cpu>>) = before[cur].cpu
    BY StackOfTwo, Zenon
  <2>4. Contract!Restore(cur)
    BY <1>1, <1>3, <1>4, <2>1, <2>2, <2>3 DEF Contract!Restore
  <2>5. QED
    BY <2>2, <2>4 DEF Contract!Next
<1>8. RestoreDone => UNCHANGED shares
  BY DEF RestoreDone
<1>9. QED
  BY <1>5, <1>6, <1>7, <1>8

\* The other steps: the end of run(), the destructor, the owner's settings, the
\* threads and the driver.
LEMMA OthersSimulate ==
  ASSUME Known, Clean,
         \/ StopDriver \/ Finish \/ Destroy \/ Terminate \/ DriverRampsUp \/ DriverExits
         \/ Over \/ UNCHANGED vars
         \/ \E b \in BOOLEAN : SetRestoreState(b)
         \/ \E t \in Threads : ThreadStep(t) \/ ManagerThrows(t)
         \/ \E v \in VMs : Control(v)
  PROVE  [Contract!Next]_(Contract!vars)
<1> USE DEF objVars, saveVars, mgrVars, Threads
<1>1. pc \notin Restoring \cup Halted => ~dying
  BY DEF Known, StateKept, FlagInv
<1>2. CASE StopDriver
  <2>1. /\ pc = "stop" /\ pc' \in {"restore", "threw"} /\ ~dying
        /\ UNCHANGED <<dying, restoreState, shares, before>>
    BY <1>1, <1>2 DEF StopDriver, Throw, Restoring, Halted
  <2>2. pc' = "threw" => Contract!Leave
    BY <2>1, LeaveStep DEF Halted
  <2>3. pc' = "restore" => Phase' = Phase
    BY <2>1, PhaseOf, NextPhaseOf DEF Restoring
  <2>4. QED
    BY <2>1, <2>2, <2>3, SamePhase DEF Contract!Next
<1>3. CASE Finish
  <2>1. /\ pc = "on_stop" /\ pc' = "idle" /\ ~dying
        /\ UNCHANGED <<dying, restoreState, shares, before>>
    BY <1>1, <1>3 DEF Finish, Throw, Clean, Restoring, Halted
  <2>2. Phase = "settling" /\ Phase' = "idle"
    BY <2>1, PhaseOf, NextPhaseOf
  <2>3. restoreState => shares = before
    BY <2>1 DEF Known, StateKept, RestoredInv
  <2>4. Contract!End
    BY <2>1, <2>2, <2>3 DEF Contract!End
  <2>5. QED
    BY <2>4 DEF Contract!Next
<1>4. CASE Destroy \/ Terminate
  <2>1. /\ pc \in {"idle", "threw"} /\ (pc' \in Halted \/ dying')
        /\ UNCHANGED <<restoreState, shares, before>>
    BY <1>4 DEF Destroy, Terminate, Halted
  <2>2. Contract!Leave
    BY <2>1, LeaveStep DEF Halted
  <2>3. QED
    BY <2>2 DEF Contract!Next
<1>5. ASSUME NEW b \in BOOLEAN, SetRestoreState(b) PROVE [Contract!Next]_(Contract!vars)
  <2>1. /\ pc = "idle" /\ pc' = "idle" /\ ~dying /\ restoreState' \in BOOLEAN
        /\ UNCHANGED <<dying, shares, before>>
    BY <1>1, <1>5 DEF SetRestoreState, Restoring, Halted
  <2>2. Contract!Configure
    BY <2>1, PhaseOf, NextPhaseOf DEF Contract!Configure
  <2>3. QED
    BY <2>2 DEF Contract!Next
<1>6. ASSUME NEW t \in Threads, ThreadStep(t) PROVE [Contract!Next]_(Contract!vars)
  <2>1. UNCHANGED <<pc, dying, restoreState, shares, before>>
    BY <1>6 DEF ThreadStep, Acquire, Release, Wake
  <2>2. thr'["sampler"] = "absent" <=> thr["sampler"] = "absent"
    BY <1>6 DEF ThreadStep, Acquire, Release, Wake, Known, TypeOK, DataTypes
  <2>3. Phase' = Phase
    BY <2>1, <2>2 DEF Phase
  <2>4. QED
    BY <2>1, <2>3, SamePhase
<1>7. ASSUME NEW t \in Threads, ManagerThrows(t) PROVE [Contract!Next]_(Contract!vars)
  <2>1. /\ pc \notin Halted /\ pc' \in Halted
        /\ UNCHANGED <<restoreState, shares, before>>
    BY <1>7 DEF ManagerThrows, ProgramLives, Known, ManagerQuiescent, Polling, Joining, Halted
  <2>2. QED
    BY <2>1, LeaveStep DEF Contract!Next
<1>8. ASSUME NEW v \in VMs, Control(v) PROVE [Contract!Next]_(Contract!vars)
  <2>1. /\ pc \in Polling \cup Joining /\ thr["sampler"] # "absent"
        /\ UNCHANGED <<pc, dying, thr, restoreState, before>>
    BY <1>8 DEF Control, ProgramLives, Known, ManagerQuiescent, SamplerFirst
  <2>2. ~dying
    BY <1>1, <2>1 DEF Polling, Joining, Restoring, Halted
  <2>3. Phase = "managed" /\ Phase' = "managed"
    BY <2>1, <2>2, PhaseOf, NextPhaseOf
  <2>4. Contract!Control(v)
    BY <1>8, <2>1, <2>3 DEF Control, Contract!Control, ShareRec, Contract!ShareRec
  <2>5. QED
    BY <2>4 DEF Contract!Next
<1>9. CASE DriverRampsUp \/ DriverExits \/ Over \/ UNCHANGED vars
  <2>1. UNCHANGED <<pc, dying, thr, restoreState, shares, before>>
    BY <1>9 DEF DriverRampsUp, DriverExits, Over, vars
  <2>2. Phase' = Phase
    BY <2>1 DEF Phase
  <2>3. QED
    BY <2>1, <2>2, SamePhase
<1>10. QED
  BY <1>2, <1>3, <1>4, <1>5, <1>6, <1>7, <1>8, <1>9

\* An application experiment does what ExperimentContract promises: only a managed
\* experiment changes the shares of its VMs, and run() ends with the noted ones.
THEOREM KeepsContract ==
  ASSUME Clean
  PROVE  Spec => ImplementsContract
<1>1. Init => Contract!Init
  BY PhaseOf DEF Init, Contract!Init, ShareRec, Contract!ShareRec
<1>2. Known /\ [Next]_vars => [Contract!Next]_(Contract!vars)
  BY RunSimulates, RestoreSimulates, OthersSimulate DEF Next, RunStep
<1>3. Spec => []Known
  BY TypeCorrect, QuiescentOutsideLoop, StateIsKept, SamplerIsFirst, PTL DEF Known
<1>4. QED
  BY <1>1, <1>2, <1>3, PTL DEF Spec, ImplementsContract, Contract!Spec
=============================================================================
