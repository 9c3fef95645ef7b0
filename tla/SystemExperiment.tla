-------------------------- MODULE SystemExperiment --------------------------
(***************************************************************************)
(* A system experiment (system_experiment.hpp) runs the experiments of all *)
(* applications, one thread each, while one statistics gatherer            *)
(* (base_experiment_tracker.hpp, experiment_stats_gatherer.hpp) is called  *)
(* by all of them.  The program that calls run() prints the statistics     *)
(* afterwards (sysmgt.cpp).                                                *)
(*                                                                         *)
(* What an application experiment does is ApplicationExperiment; here it   *)
(* is cut down to what the others see of it: its VM (one per application)  *)
(* whose shares it saves, changes at every control and restores, and its   *)
(* calls of the handlers.  The controller's thread belongs to it.          *)
(***************************************************************************)
EXTENDS VMShares, FiniteSets

CONSTANTS
  N,           \* application experiments
  Trackings,   \* which of them were added before track()
  AskedCpu, AskedMem,  \* shares that managers ask for
  CapsBefore, MemsBefore,  \* what the VMs have at first
  MaxControls, \* bound: controls of an experiment
  MaxRuns,     \* bound: calls of run()
  CanFail      \* whether what the threads call may throw

ASSUME SystemAssumption ==
  /\ N \in Nat /\ Trackings \subseteq SUBSET (1..N)
  /\ AskedCpu \subseteq Nat /\ AskedMem \subseteq Nat
  /\ CapsBefore \subseteq 0..FullCap /\ MemsBefore \subseteq 0..MaxMem
  /\ MaxControls \in Nat /\ MaxRuns \in Nat /\ CanFail \in BOOLEAN

Apps == 1..N

VARIABLES
  tracked,   \* the experiments whose handlers track() has set; it never changes
  main,      \* the thread that calls run()
  runs,      \* calls of run()
  created,   \* experiments whose thread was created in this run
  running,   \* running_
  thread,    \* what the thread of each experiment does
  cap, mem,  \* of each VM
  saved,     \* vm_states_ of each experiment
  stats,     \* observations in the accumulators of each application; NoStats: none there
  controls,  \* history: controls of each experiment in this run
  before,    \* history: cap and memory of each VM before this run
  torn       \* history: the maps of the gatherer were changed while another thread used them

mainVars == <<main, runs, created, running>>
vmVars == <<cap, mem, saved>>
vars == <<tracked, mainVars, thread, vmVars, stats, controls, before, torn>>

NoStats == MaxControls + 1

\* Threads that are inside the gatherer
Inside == {a \in Apps : thread[a] \in {"inserting", "adding"}}

TypeOK ==
  /\ tracked \in SUBSET Apps
  /\ main \in {"idle", "create", "join", "report", "aborted", "undefined"}
  /\ runs \in 0..MaxRuns /\ created \in 0..N /\ running \in BOOLEAN
  /\ thread \in [Apps -> {"none", "begun", "saved", "inserting", "managed", "applied", "adding",
                          "settling", "ending"}]
  /\ cap \in [Apps -> 0..FullCap] /\ mem \in [Apps -> 0..MaxMem]
  /\ saved \in [Apps -> [cpu : 0..(4 * FullCap), mem : 0..(4 * MaxMem)]]
  /\ stats \in [Apps -> 0..NoStats] /\ controls \in [Apps -> 0..MaxControls]
  /\ before \in [Apps -> [cap : 0..FullCap, mem : 0..MaxMem]]
  /\ torn \in BOOLEAN

Init ==
  /\ tracked \in Trackings
  /\ main = "idle" /\ runs = 0 /\ created = 0 /\ running = FALSE
  /\ thread = [a \in Apps |-> "none"]
  /\ cap \in [Apps -> CapsBefore] /\ mem \in [Apps -> MemsBefore]
  /\ saved = [a \in Apps |-> [cpu |-> 0, mem |-> 0]]
  /\ stats = [a \in Apps |-> NoStats] /\ controls = [a \in Apps |-> 0]
  /\ before = [a \in Apps |-> [cap |-> cap[a], mem |-> mem[a]]]
  /\ torn = FALSE

-----------------------------------------------------------------------------
(* run()                                                                   *)

\* The on-start signal: the gatherer forgets everything.
Start ==
  /\ main = "idle" /\ runs < MaxRuns
  /\ runs' = runs + 1
  /\ main' = IF N = 0 THEN "report" ELSE "create"
  /\ created' = 0
  /\ stats' = [a \in Apps |-> NoStats] /\ controls' = [a \in Apps |-> 0]
  /\ before' = [a \in Apps |-> [cap |-> cap[a], mem |-> mem[a]]]
  /\ UNCHANGED <<tracked, running, thread, vmVars, torn>>

\* The thread runs as soon as it is there.
CreateThread ==
  /\ main = "create" /\ created < N
  /\ created' = created + 1
  /\ thread' = [thread EXCEPT ![created'] = "begun"]
  /\ UNCHANGED <<tracked, main, runs, running, vmVars, stats, controls, before, torn>>

SetRunning ==
  /\ main = "create" /\ created = N
  /\ running' = TRUE /\ main' = "join"
  /\ UNCHANGED <<tracked, runs, created, thread, vmVars, stats, controls, before, torn>>

BugJoinAll ==
  /\ main = "join" /\ \E a \in Apps : thread[a] = "none"
  /\ running' = FALSE /\ main' = "report"
  /\ UNCHANGED <<tracked, runs, created, thread, vmVars, stats, controls, before, torn>>

JoinAll ==
  /\ main = "join" /\ \A a \in Apps : thread[a] = "none"
  /\ running' = FALSE /\ main' = "report"
  /\ UNCHANGED <<tracked, runs, created, thread, vmVars, stats, controls, before, torn>>

\* The on-stop signal, and the statistics are printed.
Report ==
  /\ main = "report" /\ main' = "idle"
  /\ UNCHANGED <<tracked, runs, created, running, thread, vmVars, stats, controls, before, torn>>

-----------------------------------------------------------------------------
(* The thread of an application experiment                                 *)

Alive == main \notin {"aborted", "undefined"}

Goes(a, from, to) ==
  /\ Alive /\ thread[a] = from /\ thread' = [thread EXCEPT ![a] = to]
  /\ UNCHANGED <<tracked, mainVars, before>>

SaveState(a) ==
  /\ Goes(a, "begun", "saved")
  /\ saved' = [saved EXCEPT ![a] = [cpu |-> CpuShare(cap[a]), mem |-> MemoryShare(mem[a])]]
  /\ UNCHANGED <<cap, mem, stats, controls, torn>>

\* A handler of the gatherer is entered without a lock; insertions change the maps.
Enter(a, writes) ==
  torn' = (torn \/ \E b \in Inside \ {a} : writes \/ thread[b] = "inserting")

\* on_app_start(): new accumulators take the place of those that may be there.
OnAppStart(a) ==
  /\ Goes(a, "saved", IF a \in tracked THEN "inserting" ELSE "managed")
  /\ IF a \in tracked THEN Enter(a, TRUE) ELSE torn' = torn
  /\ UNCHANGED <<vmVars, stats, controls>>

OnAppStarted(a) ==
  /\ Goes(a, "inserting", "managed")
  /\ stats' = [stats EXCEPT ![a] = 0]
  /\ UNCHANGED <<vmVars, controls, torn>>

\* The manager sets shares of the VM: that of the CPU, that of memory, both or none.
Control(a) ==
  /\ controls[a] < MaxControls
  /\ Goes(a, "managed", "applied")
  /\ controls' = [controls EXCEPT ![a] = @ + 1]
  /\ \E c \in {cap[a]} \cup UNION {SetCpuShare(share) : share \in AskedCpu} :
       cap' = [cap EXCEPT ![a] = c]
  /\ \E m \in {mem[a]} \cup UNION {SetMemoryShare(share) : share \in AskedMem} :
       mem' = [mem EXCEPT ![a] = m]
  /\ UNCHANGED <<saved, stats, torn>>

\* on_app_control(): the accumulators are looked up, with operator[].
OnAppControl(a) ==
  /\ Goes(a, "applied", IF a \in tracked THEN "adding" ELSE "managed")
  /\ IF a \in tracked THEN Enter(a, stats[a] = NoStats) ELSE torn' = torn
  /\ UNCHANGED <<vmVars, stats, controls>>

OnAppControlled(a) ==
  /\ Goes(a, "adding", "managed")
  /\ stats' = [stats EXCEPT ![a] = IF @ = NoStats THEN 1 ELSE @ + 1]
  /\ UNCHANGED <<vmVars, controls, torn>>

\* The workload is over: the controller was joined, the driver is stopped.
Settle(a) ==
  /\ Goes(a, "managed", "settling")
  /\ UNCHANGED <<vmVars, stats, controls, torn>>

\* The share of memory, saved last, goes back first.
RestoreMemory(a) ==
  /\ Goes(a, "settling", "ending")
  /\ \E m \in SetMemoryShare(saved[a].mem) : mem' = [mem EXCEPT ![a] = m]
  /\ UNCHANGED <<cap, saved, stats, controls, torn>>

BugRestoreCpu(a) ==
  /\ Goes(a, "ending", "none")
  /\ \E c \in SetCpuShare(saved[a].mem) : cap' = [cap EXCEPT ![a] = c]
  /\ UNCHANGED <<mem, saved, stats, controls, torn>>

RestoreCpu(a) ==
  /\ Goes(a, "ending", "none")
  /\ \E c \in SetCpuShare(saved[a].cpu) : cap' = [cap EXCEPT ![a] = c]
  /\ UNCHANGED <<mem, saved, stats, controls, torn>>

\* An exception that leaves a thread ends the program, wherever the others are.
Abort ==
  /\ CanFail /\ Alive /\ \E a \in Apps : thread[a] # "none"
  /\ main' = "aborted"
  /\ UNCHANGED <<tracked, runs, created, running, thread, vmVars, stats, controls, before, torn>>

\* Maps that were torn may do anything.
Corrupt ==
  /\ torn /\ Alive /\ Inside # {} /\ main' = "undefined"
  /\ UNCHANGED <<tracked, runs, created, running, thread, vmVars, stats, controls, before, torn>>

AppStep(a) ==
  \/ SaveState(a) \/ OnAppStart(a) \/ OnAppStarted(a)
  \/ Control(a) \/ OnAppControl(a) \/ OnAppControlled(a)
  \/ Settle(a) \/ RestoreMemory(a) \/ RestoreCpu(a)

MainStep == Start \/ CreateThread \/ SetRunning \/ JoinAll \/ Report

Over ==
  /\ ~Alive \/ (main = "idle" /\ runs = MaxRuns)
  /\ UNCHANGED vars

Next == MainStep \/ (\E a \in Apps : AppStep(a)) \/ Abort \/ Corrupt \/ Over

Spec == Init /\ [][Next]_vars

-----------------------------------------------------------------------------
(* Properties *)

\* What is printed is what happened: when the on-stop handlers run no experiment does, the
\* accumulators of every application that was tracked hold one observation per control of
\* this run and nothing of an earlier one, whatever the order of the threads.  Only where
\* the threads of two applications meet in the gatherer nothing is sure.
StatisticsOfThisRun ==
  main = "report" /\ runs > 0 =>
    /\ \A a \in Apps : thread[a] = "none"
    /\ ~torn => \A a \in Apps : stats[a] = IF a \in tracked THEN controls[a] ELSE NoStats
    /\ torn => Cardinality(tracked) > 1

\* When run() returns every VM has its memory and CPU back: what is read as a share, saved
\* and set again survives the conversions, though the cap of a whole VM may become none.
SharesGivenBack ==
  main = "report" /\ runs > 0 =>
    \A a \in Apps : CpuCap(cap[a]) = CpuCap(before[a].cap) /\ mem[a] = before[a].mem

-----------------------------------------------------------------------------
(* Refinement                                                              *)

\* The phase of ExperimentContract that the experiment of an application is in: it begins
\* with the run, and is over when its thread was joined.
Phase(a) ==
  IF ~Alive THEN "over"
  ELSE CASE thread[a] \in {"begun", "saved", "inserting"} -> "unmanaged"
         [] thread[a] \in {"managed", "applied", "adding"} -> "managed"
         [] thread[a] \in {"settling", "ending"} -> "settling"
         [] OTHER -> IF main = "create" /\ a > created THEN "unmanaged"
                     ELSE IF main \in {"create", "join"} THEN "settling" ELSE "idle"

Usable(c, m) == [cpu |-> CpuCap(c), mem |-> m]

Contract(a) == INSTANCE ExperimentContract
  WITH VMs <- {a}, Shares <- (0..FullCap) \cup (0..MaxMem),
       phase <- Phase(a), restoreState <- TRUE,
       shares <- [v \in {a} |-> Usable(cap[v], mem[v])],
       before <- [v \in {a} |-> Usable(before[v].cap, before[v].mem)]

\* However the threads of the others interleave, every application experiment of a run keeps
\* the promise of ExperimentContract to its own VM: what it can use of CPU and memory changes
\* only while it is managed, goes back to what it was before the run and nothing else once the
\* management is over, and is that again when the thread has been joined.
ImplementsContracts ==
  /\ \A a \in Apps : Contract(a)!Init
  /\ [][\A a \in Apps : [Contract(a)!Next]_(Contract(a)!vars)]_vars
=============================================================================
