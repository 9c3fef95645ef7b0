------------------------ MODULE ApplicationExperiment ------------------------
(***************************************************************************)
(* One application experiment (application_experiment.hpp): the thread     *)
(* that executes run(), the sampler and the controller threads of the      *)
(* application manager, and the destructor.                                *)
(*                                                                         *)
(* The driver is the one of DriverContract.  A virtual machine is its CPU  *)
(* and memory share; the controller may set them to anything.  A C++       *)
(* exception leaves run() at the calls named in Faults.                    *)
(*                                                                         *)
(* A definition named Bug... is a wrong version of the definition after    *)
(* it, used to see that a property notices the difference.                 *)
(***************************************************************************)
EXTENDS Naturals, Sequences

CONSTANTS
  VMs,      \* the virtual machines of the application
  Shares,   \* the values of a CPU or memory share
  MaxRuns,  \* bound: how many times run() is called
  Faults    \* the calls that may throw

FaultPoints == {"save", "prepare", "start", "poll", "stop", "restore", "on_stop", "manager"}

ASSUME MaxRunsAssumption == MaxRuns \in Nat
ASSUME FaultsAssumption == Faults \subseteq FaultPoints

VARIABLES
  pc,           \* where run() or the destructor is
  runs,         \* how many times run() was called
  restoreState, \* restore_state_
  running,      \* running_, which no constructor initialises
  entries,      \* keys of the map vm_states_
  vmStates,     \* the vector of each key of vm_states_, empty without a key
  todo,         \* VMs the loop of save or restore has not finished
  cur,          \* VM that loop is working on
  dying,        \* the destructor is executing
  shares,       \* current shares of each VM
  before,       \* history: the shares when run() was called
  mgrRun,       \* mgr_run
  lock,         \* owner of mgr_mtx
  thr,          \* state of the sampler and of the controller thread
  interrupted,  \* threads with a pending interruption request
  launched, alive, ready  \* the driver

drvVars == <<launched, alive, ready>>
saveVars == <<entries, vmStates, todo, cur>>
mgrVars == <<mgrRun, lock, thr, interrupted>>
objVars == <<runs, restoreState, running, dying, before>>
vars == <<pc, objVars, saveVars, shares, mgrVars, drvVars>>

Driver == INSTANCE DriverContract

-----------------------------------------------------------------------------
Threads == {"sampler", "controller"}
None == "none"
ShareRec == [cpu : Shares, mem : Shares]

\* Where run() is, before the polling loop, in it, and after it.
Preparing == {"save", "save_mem", "prepare", "start"}
Polling == {"poll", "check_ready", "spawn_sampler", "spawn_controller"}
Joining == {"interrupt", "join"}
Restoring == {"restore", "restore_cpu"}
Halted == {"aborted", "undefined", "dangling", "destroyed"}
PCs == Preparing \cup Polling \cup Joining \cup Restoring \cup Halted
         \cup {"idle", "stop", "on_stop", "threw"}

FlagTypes ==
  /\ restoreState \in BOOLEAN /\ running \in BOOLEAN /\ dying \in BOOLEAN
  /\ mgrRun \in BOOLEAN
  /\ Driver!TypeOK

DataTypes ==
  /\ pc \in PCs
  /\ runs \in 0..MaxRuns
  /\ entries \in SUBSET VMs
  /\ vmStates \in [VMs -> Seq(Shares)]
  /\ todo \in SUBSET VMs
  /\ cur \in VMs \cup {None}
  /\ shares \in [VMs -> ShareRec]
  /\ before \in [VMs -> ShareRec]
  /\ lock \in Threads \cup {None}
  /\ thr \in [Threads -> {"absent", "waiting", "inside", "asleep", "ended"}]
  /\ interrupted \in SUBSET Threads

\* The type invariant: run() is at one of its locations, and the map of saved
\* shares holds stacks of shares.
TypeOK == FlagTypes /\ DataTypes

\* A new object: the constructors leave running_ uninitialised.
Init ==
  /\ pc = "idle" /\ runs = 0 /\ dying = FALSE
  /\ restoreState = TRUE
  /\ running \in BOOLEAN
  /\ entries = {} /\ vmStates = [v \in VMs |-> <<>>]
  /\ todo = {} /\ cur = None
  /\ shares \in [VMs -> ShareRec] /\ before = shares
  /\ mgrRun = FALSE /\ lock = None /\ interrupted = {}
  /\ thr = [t \in Threads |-> "absent"]
  /\ Driver!Init

-----------------------------------------------------------------------------
(* std::vector<real_type> of vm_states_: a stack.                          *)
BugBackIsFront(s) == s[1]
Back(s) == s[Len(s)]
BugNoPop(s) == s
PopBack(s) == SubSeq(s, 1, Len(s) - 1)

\* save_app_state() and restore_app_state() return at once without
\* restore_state_ or without running_.
ToRestore(isRunning) == IF restoreState /\ isRunning THEN VMs ELSE {}

\* An exception leaves run(); the destructor swallows its own.
Throw(point) ==
  /\ point \in Faults
  /\ pc' = IF dying THEN "destroyed" ELSE "threw"

BugSetAnyTime(b) ==
  /\ pc \notin Halted
  /\ restoreState' = b
  /\ UNCHANGED <<pc, runs, running, dying, before, saveVars, shares, mgrVars, drvVars>>

\* The setter does not look at the state: that it is called between two runs only is assumed of
\* the caller, and is what the programs do, which call it before run().
SetRestoreState(b) ==
  /\ pc = "idle"
  /\ restoreState' = b
  /\ UNCHANGED <<pc, runs, running, dying, before, saveVars, shares, mgrVars, drvVars>>

-----------------------------------------------------------------------------
(* run()                                                                   *)

RunBegin ==
  /\ pc = "idle" /\ runs < MaxRuns
  /\ pc' = "save"
  /\ runs' = runs + 1
  /\ running' = TRUE
  /\ before' = shares
  /\ todo' = ToRestore(TRUE)
  /\ mgrRun' = FALSE
  /\ thr' = [t \in Threads |-> "absent"]
  /\ interrupted' = {}
  /\ UNCHANGED <<restoreState, dying, entries, vmStates, cur, shares, lock, drvVars>>

\* vm_states_[id].push_back(cpu_share()): when cpu_share() throws, the entry
\* may have been created already or not.
SaveCpu(v) ==
  /\ pc = "save" /\ v \in todo
  /\ \/ /\ pc' = "save_mem" /\ cur' = v
        /\ entries' = entries \cup {v}
        /\ vmStates' = [vmStates EXCEPT ![v] = Append(@, shares[v].cpu)]
     \/ /\ Throw("save")
        /\ entries' \in {entries, entries \cup {v}}
        /\ UNCHANGED <<vmStates, cur>>
  /\ UNCHANGED <<objVars, todo, shares, mgrVars, drvVars>>

BugSaveCpuOnly ==
  /\ pc = "save_mem" /\ pc' = "save" /\ todo' = todo \ {cur}
  /\ UNCHANGED <<objVars, vmStates, entries, cur, shares, mgrVars, drvVars>>

SaveMem ==
  /\ pc = "save_mem"
  /\ \/ /\ pc' = "save" /\ todo' = todo \ {cur}
        /\ vmStates' = [vmStates EXCEPT ![cur] = Append(@, shares[cur].mem)]
     \/ Throw("save") /\ UNCHANGED <<todo, vmStates>>
  /\ UNCHANGED <<objVars, entries, cur, shares, mgrVars, drvVars>>

SaveDone ==
  /\ pc = "save" /\ todo = {}
  /\ pc' = "prepare"
  /\ UNCHANGED <<objVars, saveVars, shares, mgrVars, drvVars>>

\* p_mgr_->reset(), p_drv_->reset() and the on-start handlers.
Prepare ==
  /\ pc = "prepare"
  /\ \/ pc' = "start" /\ Driver!Reset
     \/ Throw("prepare") /\ (Driver!Reset \/ UNCHANGED drvVars)
  /\ UNCHANGED <<objVars, saveVars, shares, mgrVars>>

\* p_drv_->start(): it may throw with or without a launched generator.
StartDriver ==
  /\ pc = "start"
  /\ \/ pc' = "poll" /\ Driver!Launch
     \/ Throw("start") /\ (Driver!Launch \/ UNCHANGED drvVars)
  /\ UNCHANGED <<objVars, saveVars, shares, mgrVars>>

BugPollNeverChecks ==
  /\ pc = "poll" /\ ~alive /\ pc' = "interrupt"
  /\ UNCHANGED <<objVars, saveVars, shares, mgrVars, drvVars>>

\* while (!p_drv_->done()) { if (!mgr_run && ...) ... sleep }
Poll ==
  /\ pc = "poll"
  /\ IF alive THEN pc' = (IF mgrRun THEN "poll" ELSE "check_ready")
              ELSE pc' = "interrupt"
  /\ UNCHANGED <<objVars, saveVars, shares, mgrVars, drvVars>>

BugIgnoreReady ==
  /\ pc = "check_ready" /\ pc' = "spawn_sampler"
  /\ UNCHANGED <<objVars, saveVars, shares, mgrVars, drvVars>>

CheckReady ==
  /\ pc = "check_ready"
  /\ pc' = IF ready THEN "spawn_sampler" ELSE "poll"
  /\ UNCHANGED <<objVars, saveVars, shares, mgrVars, drvVars>>

\* done(), ready() or create_thread() throws: the threads that were already
\* created are detached and go on using mgr_mtx, which is gone.
LoopThrows ==
  /\ pc \in Polling /\ "poll" \in Faults
  /\ pc' = IF \A t \in Threads : thr[t] = "absent" THEN "threw" ELSE "dangling"
  /\ UNCHANGED <<objVars, saveVars, shares, mgrVars, drvVars>>

SpawnSampler ==
  /\ pc = "spawn_sampler"
  /\ pc' = "spawn_controller"
  /\ thr' = [thr EXCEPT !["sampler"] = "waiting"]
  /\ UNCHANGED <<objVars, saveVars, shares, mgrRun, lock, interrupted, drvVars>>

\* with the monitor thread the code has commented out
BugSpawnMonitorToo ==
  /\ pc = "spawn_controller" /\ pc' = "poll" /\ mgrRun' = TRUE
  /\ thr' = [t \in Threads \cup {"monitor"} |->
              IF t = "sampler" THEN thr[t] ELSE "waiting"]
  /\ UNCHANGED <<objVars, saveVars, shares, lock, interrupted, drvVars>>

SpawnController ==
  /\ pc = "spawn_controller"
  /\ pc' = "poll"
  /\ thr' = [thr EXCEPT !["controller"] = "waiting"]
  /\ mgrRun' = TRUE
  /\ UNCHANGED <<objVars, saveVars, shares, lock, interrupted, drvVars>>

BugInterruptNobody ==
  /\ pc = "interrupt" /\ pc' = "join" /\ interrupted' = {}
  /\ UNCHANGED <<objVars, saveVars, shares, mgrRun, lock, thr, drvVars>>

InterruptAll ==
  /\ pc = "interrupt"
  /\ pc' = "join"
  /\ interrupted' = {t \in Threads : thr[t] # "absent"}
  /\ UNCHANGED <<objVars, saveVars, shares, mgrRun, lock, thr, drvVars>>

BugJoinNobody ==
  /\ pc = "join" /\ pc' = "stop"
  /\ UNCHANGED <<objVars, saveVars, shares, mgrVars, drvVars>>

JoinAll ==
  /\ pc = "join"
  /\ \A t \in Threads : thr[t] \in {"absent", "ended"}
  /\ pc' = "stop"
  /\ UNCHANGED <<objVars, saveVars, shares, mgrVars, drvVars>>

StopDriver ==
  /\ pc = "stop"
  /\ \/ pc' = "restore" /\ todo' = ToRestore(running)
     \/ Throw("stop") /\ UNCHANGED todo
  /\ Driver!Exit
  /\ UNCHANGED <<objVars, entries, vmStates, cur, shares, mgrVars>>

\* memory_share(back()), pop_back().  back() of an empty vector is undefined.
RestoreMem(v) ==
  /\ pc = "restore" /\ v \in todo
  /\ \/ /\ v \notin entries
        /\ todo' = todo \ {v}
        /\ UNCHANGED <<pc, vmStates, cur, shares>>
     \/ /\ v \in entries /\ vmStates[v] = <<>>
        /\ pc' = "undefined"
        /\ UNCHANGED <<vmStates, todo, cur, shares>>
     \/ /\ v \in entries /\ vmStates[v] # <<>>
        /\ pc' = "restore_cpu" /\ cur' = v
        /\ shares' = [shares EXCEPT ![v].mem = Back(vmStates[v])]
        /\ vmStates' = [vmStates EXCEPT ![v] = PopBack(@)]
        /\ UNCHANGED todo
     \/ /\ v \in entries /\ vmStates[v] # <<>>
        /\ Throw("restore")
        /\ UNCHANGED <<vmStates, todo, cur, shares>>
  /\ UNCHANGED <<objVars, entries, mgrVars, drvVars>>

\* cpu_share(back()), pop_back()
RestoreCpu ==
  /\ pc = "restore_cpu"
  /\ \/ /\ vmStates[cur] = <<>>
        /\ pc' = "undefined"
        /\ UNCHANGED <<vmStates, todo, shares>>
     \/ /\ vmStates[cur] # <<>>
        /\ pc' = "restore" /\ todo' = todo \ {cur}
        /\ shares' = [shares EXCEPT ![cur].cpu = Back(vmStates[cur])]
        /\ vmStates' = [vmStates EXCEPT ![cur] = PopBack(@)]
     \/ /\ vmStates[cur] # <<>>
        /\ Throw("restore")
        /\ UNCHANGED <<vmStates, todo, shares>>
  /\ UNCHANGED <<objVars, entries, cur, mgrVars, drvVars>>

RestoreDone ==
  /\ pc = "restore" /\ todo = {}
  /\ pc' = IF dying THEN "destroyed" ELSE "on_stop"
  /\ UNCHANGED <<objVars, saveVars, shares, mgrVars, drvVars>>

\* The on-stop handlers, then running_ = false.
Finish ==
  /\ pc = "on_stop"
  /\ \/ pc' = "idle" /\ running' = FALSE
     \/ Throw("on_stop") /\ UNCHANGED running
  /\ UNCHANGED <<runs, restoreState, dying, before, saveVars, shares, mgrVars, drvVars>>

-----------------------------------------------------------------------------
(* ~application_experiment(), also after an exception left run(); in a      *)
(* thread of system_experiment such an exception ends the program instead. *)

BugDestroyOnly ==
  /\ pc \in {"idle", "threw"} /\ pc' = "destroyed" /\ dying' = TRUE
  /\ UNCHANGED <<runs, restoreState, running, before, saveVars, shares, mgrVars, drvVars>>

Destroy ==
  /\ pc \in {"idle", "threw"}
  /\ dying' = TRUE
  /\ pc' = "restore"
  /\ todo' = ToRestore(running)
  /\ UNCHANGED <<runs, restoreState, running, before, entries, vmStates, cur, shares,
                 mgrVars, drvVars>>

Terminate ==
  /\ pc = "threw"
  /\ pc' = "aborted"
  /\ UNCHANGED <<objVars, saveVars, shares, mgrVars, drvVars>>

-----------------------------------------------------------------------------
(* sampler_runnable and controller_runnable: the only interruption point   *)
(* of their loop is the sleep.                                             *)

ProgramLives == pc \notin {"aborted", "undefined", "dangling"}

BugNoMutex(t) ==
  /\ ProgramLives /\ thr[t] = "waiting"
  /\ thr' = [thr EXCEPT ![t] = "inside"] /\ lock' = t
  /\ UNCHANGED <<pc, objVars, saveVars, shares, mgrRun, interrupted, drvVars>>

Acquire(t) ==
  /\ ProgramLives
  /\ thr[t] = "waiting" /\ lock = None
  /\ thr' = [thr EXCEPT ![t] = "inside"]
  /\ lock' = t
  /\ UNCHANGED <<pc, objVars, saveVars, shares, mgrRun, interrupted, drvVars>>

\* control() sets the shares of a VM while it holds mgr_mtx.
Control(v) ==
  /\ ProgramLives
  /\ thr["controller"] = "inside"
  /\ \E r \in ShareRec : shares' = [shares EXCEPT ![v] = r]
  /\ UNCHANGED <<pc, objVars, saveVars, mgrVars, drvVars>>

\* The lock_guard's scope ends and the thread sleeps.
Release(t) ==
  /\ ProgramLives
  /\ thr[t] = "inside"
  /\ thr' = [thr EXCEPT ![t] = "asleep"]
  /\ lock' = None
  /\ UNCHANGED <<pc, objVars, saveVars, shares, mgrRun, interrupted, drvVars>>

\* The sleep ends, or the pending interruption ends the thread.
Wake(t) ==
  /\ ProgramLives
  /\ thr[t] = "asleep"
  /\ thr' = [thr EXCEPT ![t] = IF t \in interrupted THEN "ended" ELSE "waiting"]
  /\ UNCHANGED <<pc, objVars, saveVars, shares, mgrRun, lock, interrupted, drvVars>>

\* sample() or control() throws: nothing catches it, the program ends.
ManagerThrows(t) ==
  /\ ProgramLives
  /\ "manager" \in Faults
  /\ thr[t] = "inside"
  /\ pc' = "aborted"
  /\ UNCHANGED <<objVars, saveVars, shares, mgrVars, drvVars>>

-----------------------------------------------------------------------------
(* The generator, on its own.                                              *)

DriverRampsUp ==
  /\ ProgramLives
  /\ Driver!RampUp
  /\ UNCHANGED <<pc, objVars, saveVars, shares, mgrVars>>

DriverExits ==
  /\ ProgramLives
  /\ Driver!Exit
  /\ UNCHANGED <<pc, objVars, saveVars, shares, mgrVars>>

-----------------------------------------------------------------------------
RunStep ==
  \/ RunBegin \/ SaveMem \/ SaveDone \/ Prepare \/ StartDriver
  \/ Poll \/ CheckReady \/ SpawnSampler \/ SpawnController
  \/ InterruptAll \/ JoinAll \/ StopDriver
  \/ RestoreCpu \/ RestoreDone \/ Finish
  \/ \E v \in VMs : SaveCpu(v) \/ RestoreMem(v)

ThreadStep(t) == Acquire(t) \/ Release(t) \/ Wake(t)

\* The object is gone, or the program is.
Over == pc \in Halted /\ UNCHANGED vars

Next ==
  \/ RunStep
  \/ LoopThrows \/ Destroy \/ Terminate
  \/ \E b \in BOOLEAN : SetRestoreState(b)
  \/ \E t \in Threads : ThreadStep(t) \/ ManagerThrows(t)
  \/ \E v \in VMs : Control(v)
  \/ DriverRampsUp \/ DriverExits
  \/ Over

Spec == Init /\ [][Next]_vars

\* The operating system schedules the thread of run() and the two threads of
\* the manager, sample() and control() return, and a sleep ends.  Weak
\* fairness of Acquire: the mutex is not assumed to be fair.
Fairness ==
  /\ WF_vars(RunStep /\ pc # "idle")
  /\ \A t \in Threads : WF_vars(Acquire(t)) /\ WF_vars(Release(t)) /\ WF_vars(Wake(t))

FairSpec == Spec /\ Fairness

-----------------------------------------------------------------------------
(* Safety                                                                  *)

\* The manager is quiescent while the experiment is not being polled: from the
\* moment run() stops the driver and restores the VMs, and until a later run()
\* finds the driver ready, no thread can sample or change a share.
ManagerQuiescent ==
  pc \notin Polling \cup Joining \cup {"aborted", "dangling"} =>
    \A t \in Threads : thr[t] \in {"absent", "ended"}

\* sample() and control() of the manager never overlap: whoever is inside one
\* of them is the owner of mgr_mtx.
SampleControlExclusive == \A t \in Threads : thr[t] = "inside" => lock = t

\* The manager samples and controls only after its driver was found ready, and
\* a ready driver stays ready for the rest of the run.
ManagedOnlyWhenReady ==
  (pc \in Polling \cup Joining /\ \E t \in Threads : thr[t] # "absent") => launched /\ ready

\* When run() returns, every VM has the shares it had when run() was called,
\* whatever the controller did meanwhile, if restore_state_ asks for it.
RestoredOnReturn ==
  [][pc # "idle" /\ pc' = "idle" => (restoreState => shares = before)]_vars

\* Between two runs no saved share is left in vm_states_: a later restore
\* cannot pick up a value of an earlier run.
NothingLeftSaved == pc = "idle" => \A v \in VMs : vmStates[v] = <<>>

\* The destructor finds the VMs as run() found them after run() was left by an
\* exception (running_ is still true).
RestoredByDestructor ==
  pc = "destroyed" /\ running /\ restoreState => shares = before

\* A restore gives a share its own saved value back, never the value of
\* another share, also when an earlier attempt to restore it failed.
OwnValue(v, kind) == shares'[v][kind] \in {shares[v][kind], before[v][kind]}

RestoresWhatWasSaved ==
  [][(pc \in Restoring) => \A v \in VMs : OwnValue(v, "cpu") /\ OwnValue(v, "mem")]_vars

\* save and restore never call back() on an empty vector.
StackNeverEmpty == pc # "undefined"

-----------------------------------------------------------------------------
(* The inductive invariant behind RestoredOnReturn, NothingLeftSaved and,   *)
(* when the faults are Clean, RestoredByDestructor and StackNeverEmpty.     *)

\* No fault hits a half-written or used-up vm_states_.
Clean == Faults \cap {"save", "restore", "on_stop"} = {}

Running == Preparing \cup Polling \cup Joining \cup Restoring \cup {"stop", "on_stop"}
AllSaved == {"prepare", "start", "stop"} \cup Polling \cup Joining

Saved(v) == <<before[v].cpu, before[v].mem>>
Empty(v) == vmStates[v] = <<>>
NothingSaved == \A v \in VMs : Empty(v)

\* v still has to be restored and can be, or never had to be.
Restorable(v) == IF v \in entries THEN vmStates[v] = Saved(v)
                                  ELSE Empty(v) /\ shares[v] = before[v]

\* The VM a loop is working on, after its first half.
Busy == IF pc \in {"save_mem", "restore_cpu"} THEN {cur} ELSE {}

FlagInv ==
  /\ pc \notin Restoring \cup Halted => ~dying
  /\ pc \in Running /\ ~dying => running
  /\ pc = "threw" => running
  /\ pc = "idle" /\ running => entries = {} /\ shares = before
  /\ pc = "undefined" => ~Clean

SaveInv ==
  pc \in {"save", "save_mem"} =>
    /\ shares = before
    /\ ~restoreState => pc = "save" /\ todo = {} /\ NothingSaved
    /\ restoreState => \A v \in VMs \ todo : v \in entries /\ vmStates[v] = Saved(v)
    /\ \A v \in todo \ Busy : Empty(v)
    /\ pc = "save_mem" => /\ cur \in todo /\ cur \in entries
                         /\ vmStates[cur] = <<before[cur].cpu>>

SavedInv ==
  pc \in AllSaved \/ (pc = "threw" /\ Clean) =>
    IF restoreState THEN \A v \in VMs : v \in entries /\ vmStates[v] = Saved(v)
                    ELSE NothingSaved

RestoreInv ==
  pc \in Restoring /\ (~dying \/ Clean) =>
    IF restoreState /\ running
      THEN /\ \A v \in todo \ Busy : Restorable(v)
           /\ \A v \in VMs \ todo : Empty(v) /\ shares[v] = before[v]
           /\ pc = "restore_cpu" => /\ cur \in todo /\ cur \in entries
                                   /\ vmStates[cur] = <<before[cur].cpu>>
                                   /\ shares[cur].mem = before[cur].mem
      ELSE pc = "restore" /\ todo = {} /\ (~dying => NothingSaved)

RestoredInv ==
  /\ pc = "idle" => NothingSaved
  /\ pc = "on_stop" => NothingSaved /\ (restoreState => shares = before)
  /\ pc = "destroyed" /\ Clean /\ restoreState /\ running => shares = before

\* Where run() or the destructor is determines which shares are saved, which
\* are restored and which are still to be.
StateKept == FlagInv /\ SaveInv /\ SavedInv /\ RestoreInv /\ RestoredInv

-----------------------------------------------------------------------------
(* Liveness                                                                *)

\* Once the driver is done, run() leaves its loop, its threads end and it
\* returns (or throws, or the program ends).
RunReturns ==
  (pc \in Polling /\ ~alive) ~> (pc \in {"idle", "threw", "aborted", "dangling"})

\* A driver that gets ready is managed, unless it is done before the next poll.
ReadyIsManaged == (pc \in Polling /\ ready) ~> (mgrRun \/ ~alive \/ pc \notin Polling)

-----------------------------------------------------------------------------
(* Refinement                                                              *)

\* The phase of ExperimentContract that run() is in.
Phase ==
  IF pc \in Halted THEN "over"
  ELSE IF pc = "threw" \/ dying THEN "leaving"
  ELSE CASE pc = "idle" -> "idle"
         [] pc \in {"stop", "on_stop"} \cup Restoring -> "settling"
         [] OTHER -> IF thr["sampler"] = "absent" THEN "unmanaged" ELSE "managed"

Contract == INSTANCE ExperimentContract WITH phase <- Phase

ImplementsContract == Contract!Spec
=============================================================================
