--------------------------- MODULE WorkloadDriver ---------------------------
(***************************************************************************)
(* The RAIN and the YCSB workload drivers (rain/workload_driver.hpp,       *)
(* ycsb/workload_driver.hpp): the owner, who calls reset(), start(),       *)
(* stop() and the destructor; the workload generator, a process whose      *)
(* output goes into pipes; and the threads that read these pipes.  The     *)
(* monitor waits for the line that ends the ramp-up phase (the mark) and   *)
(* then starts the followers: the logger in RAIN, the logger and the       *)
(* status dumper in YCSB.                                                  *)
(*                                                                         *)
(* No thread has an interruption point, so that interrupt() has no effect; *)
(* a reader ends at the end of its stream.  The process class and          *)
(* boost::thread are external: terminate() returns when the process is     *)
(* gone, and join() of a handle without a thread returns or throws,        *)
(* depending on how Boost was configured.                                  *)
(***************************************************************************)
EXTENDS Naturals, Sequences, FiniteSets

CONSTANTS
  Followers,  \* the threads that the monitor starts, in order
  MaxRuns,    \* bound: how many generators are launched
  PipeCap,    \* lines that a pipe holds
  EarlyErr,   \* lines the generator may write on stderr before the mark
  Faults      \* what may fail

FaultPoints == {"terminate", "process", "thread", "file"}

ASSUME FollowersAssumption == Followers \in {<<"logger">>, <<"logger", "status_dumper">>}
ASSUME BoundsAssumption == MaxRuns \in Nat /\ PipeCap \in Nat \ {0} /\ EarlyErr \in Nat
ASSUME DriverFaultsAssumption == Faults \subseteq FaultPoints

VARIABLES
  op,       \* the member function the owner executes
  step, k,  \* where it is in it, and at which kind of thread
  joinee,   \* the run whose thread it joins
  watched,  \* history: the threads it will find when it comes to join them
  runs,     \* how many generators were launched
  launched, \* history: one was launched since the last reset
  ready,    \* ready_
  active,   \* rampup_thread_active_, monitor_thread_active_, ...
  handle,   \* rampup_thread_, ...: the run of the thread, 0 for none
  proc,     \* the generator of each run
  marked,   \* it has written the mark
  out, err, \* its two pipes
  th,       \* the threads of each run
  src,      \* the run whose stream a thread reads
  nxt       \* the follower that the monitor starts next

ownVars == <<op, step, k, joinee, watched>>
genVars == <<proc, marked, out, err>>
thrVars == <<th, src, nxt>>
objVars == <<runs, launched, ready, active, handle>>
vars == <<ownVars, objVars, genVars, thrVars>>

-----------------------------------------------------------------------------
Runs == 1..MaxRuns
Kinds == <<"monitor">> \o Followers
KindSet == {Kinds[i] : i \in 1..Len(Kinds)}
Tids == Runs \X KindSet

Busy == {"reset", "start", "stop", "destroy"}
Reading == {"read", "found", "off"}

TypeOK ==
  /\ op \in Busy \cup {"idle", "dead", "aborted"}
  /\ step \in {"returned", "threw", "terminate", "check", "join", "wait", "clear",
               "unready", "run", "spawn"}
  /\ k \in 1..(Len(Kinds) + 1) /\ joinee \in 0..MaxRuns /\ watched \subseteq Tids
  /\ runs \in 0..MaxRuns /\ launched \in BOOLEAN /\ ready \in BOOLEAN
  /\ active \in [KindSet -> BOOLEAN] /\ handle \in [KindSet -> 0..MaxRuns]
  /\ proc \in [Runs -> {"none", "running", "exited"}] /\ marked \in [Runs -> BOOLEAN]
  /\ out \in [Runs -> Seq({"line", "mark"})] /\ \A r \in Runs : Len(out[r]) <= PipeCap
  /\ err \in [Runs -> 0..PipeCap]
  /\ th \in [Tids -> Reading \cup {"none", "begin", "fetch", "create", "assign", "ended"}]
  /\ src \in [Tids -> 0..MaxRuns]
  /\ nxt \in [Runs -> 1..Len(Followers)]

Init ==
  /\ op = "idle" /\ step = "returned" /\ k = 1 /\ joinee = 0 /\ watched = {}
  /\ runs = 0 /\ launched = FALSE /\ ready = FALSE
  /\ active = [x \in KindSet |-> FALSE] /\ handle = [x \in KindSet |-> 0]
  /\ proc = [r \in Runs |-> "none"] /\ marked = [r \in Runs |-> FALSE]
  /\ out = [r \in Runs |-> <<>>] /\ err = [r \in Runs |-> 0]
  /\ th = [t \in Tids |-> "none"] /\ src = [t \in Tids |-> 0]
  /\ nxt = [r \in Runs |-> 1]

-----------------------------------------------------------------------------
(* The owner: reset(), start(), stop() and the destructor.                 *)

\* The threads that are flagged and whose handle is in place.
Findable == {t \in Tids : active[t[2]] /\ handle[t[2]] = t[1] /\ th[t] # "none"}

Call(f) ==
  /\ op = "idle"
  /\ f \in {"reset", "start"} => runs < MaxRuns
  /\ op' = f /\ step' = "terminate" /\ k' = 1 /\ watched' = Findable
  /\ UNCHANGED <<joinee, objVars, genVars, thrVars>>

Throw ==
  /\ op' = IF op = "destroy" THEN "aborted" ELSE "idle"
  /\ step' = "threw"

BugNoTerminate ==
  /\ op \in Busy /\ step = "terminate" /\ step' = "check"
  /\ UNCHANGED <<op, k, joinee, watched, objVars, genVars, thrVars>>

\* proc_.terminate(): the destructor swallows an exception, the others do not.
TerminateProcess ==
  /\ op \in Busy /\ step = "terminate"
  /\ \/ /\ step' = "check" /\ op' = op
        /\ proc' = [r \in Runs |-> IF proc[r] = "running" THEN "exited" ELSE proc[r]]
     \/ /\ "terminate" \in Faults
        /\ IF op = "destroy" THEN op' = op /\ step' = "check" ELSE Throw
        /\ UNCHANGED proc
  /\ UNCHANGED <<k, joinee, watched, objVars, marked, out, err, thrVars>>

BugCheckMonitorOnly ==
  /\ op \in Busy /\ step = "check" /\ k <= Len(Kinds)
  /\ IF active[Kinds[k]] /\ k = 1 THEN step' = "join" /\ k' = k ELSE step' = "check" /\ k' = k + 1
  /\ UNCHANGED <<op, joinee, watched, objVars, genVars, thrVars>>

\* if (this->..._thread_active())
CheckActive ==
  /\ op \in Busy /\ step = "check" /\ k <= Len(Kinds)
  /\ IF active[Kinds[k]] THEN step' = "join" /\ k' = k
                         ELSE step' = "check" /\ k' = k + 1
  /\ UNCHANGED <<op, joinee, watched, objVars, genVars, thrVars>>

\* interrupt() and join(): a handle without a thread is not joinable.
Join ==
  /\ op \in Busy /\ step = "join"
  /\ \/ /\ handle[Kinds[k]] # 0
        /\ joinee' = handle[Kinds[k]] /\ step' = "wait" /\ op' = op
     \/ /\ handle[Kinds[k]] = 0 /\ UNCHANGED joinee
        /\ Throw \/ (step' = "clear" /\ op' = op)
  /\ UNCHANGED <<k, watched, objVars, genVars, thrVars>>

JoinReturns ==
  /\ op \in Busy /\ step = "wait" /\ th[<<joinee, Kinds[k]>>] = "ended"
  /\ step' = "clear"
  /\ UNCHANGED <<op, k, joinee, watched, objVars, genVars, thrVars>>

\* ..._thread_active(false), except in the destructor
ClearActive ==
  /\ op \in Busy /\ step = "clear"
  /\ active' = IF op = "destroy" THEN active ELSE [active EXCEPT ![Kinds[k]] = FALSE]
  /\ step' = "check" /\ k' = k + 1
  /\ UNCHANGED <<op, joinee, watched, runs, launched, ready, handle, genVars, thrVars>>

\* stop() and the destructor are over; reset() still has ready_ = false to do,
\* also as the first part of start().
JoinsOver ==
  /\ op \in Busy /\ step = "check" /\ k > Len(Kinds)
  /\ CASE op = "stop" -> op' = "idle" /\ step' = "returned"
       [] op = "destroy" -> op' = "dead" /\ step' = "returned"
       [] OTHER -> op' = op /\ step' = "unready"
  /\ UNCHANGED <<k, joinee, watched, objVars, genVars, thrVars>>

Unready ==
  /\ op \in {"reset", "start"} /\ step = "unready"
  /\ ready' = FALSE /\ launched' = FALSE
  /\ IF op = "reset" THEN op' = "idle" /\ step' = "returned" ELSE op' = op /\ step' = "run"
  /\ UNCHANGED <<k, joinee, watched, runs, active, handle, genVars, thrVars>>

\* proc_.run(...)
RunProcess ==
  /\ op = "start" /\ step = "run"
  /\ \/ /\ runs' = runs + 1 /\ launched' = TRUE
        /\ proc' = [proc EXCEPT ![runs'] = "running"]
        /\ step' = "spawn" /\ op' = op
     \/ /\ "process" \in Faults /\ Throw
        /\ UNCHANGED <<runs, launched, proc>>
  /\ UNCHANGED <<k, joinee, watched, ready, active, handle, marked, out, err, thrVars>>

BugSpawnLoggerFirst ==
  /\ op = "start" /\ step = "spawn" /\ op' = "idle" /\ step' = "returned"
  /\ th' = [th EXCEPT ![<<runs, "monitor">>] = "begin", ![<<runs, "logger">>] = "begin"]
  /\ handle' = [handle EXCEPT !["monitor"] = runs, !["logger"] = runs]
  /\ UNCHANGED <<k, joinee, watched, runs, launched, ready, active, genVars, src, nxt>>

\* rampup_thread_ = boost::thread(runner): without it start() throws, and
\* leaves the process running.
SpawnMonitor ==
  /\ op = "start" /\ step = "spawn"
  /\ \/ /\ op' = "idle" /\ step' = "returned"
        /\ th' = [th EXCEPT ![<<runs, "monitor">>] = "begin"]
        /\ handle' = [handle EXCEPT !["monitor"] = runs]
     \/ "thread" \in Faults /\ Throw /\ UNCHANGED <<th, handle>>
  /\ UNCHANGED <<k, joinee, watched, runs, launched, ready, active, genVars, src, nxt>>

OwnerStep ==
  \/ TerminateProcess \/ CheckActive \/ Join \/ JoinReturns \/ ClearActive \/ JoinsOver
  \/ Unready \/ RunProcess \/ SpawnMonitor

-----------------------------------------------------------------------------
(* The threads: rampup_monitor_runnable and monitor_runnable,              *)
(* steady_state_logger_runnable and logger_runnable, and                   *)
(* status_dumper_runnable.  Their steps on a destroyed driver are          *)
(* undefined and left out.                                                 *)

DriverLives == op \notin {"dead", "aborted"}

Begin(t) ==
  /\ DriverLives /\ th[t] = "begin"
  /\ active' = [active EXCEPT ![t[2]] = TRUE]
  /\ th' = [th EXCEPT ![t] = "fetch"]
  /\ UNCHANGED <<ownVars, runs, launched, ready, handle, genVars, src, nxt>>

\* process().output_stream() or error_stream(), of the process there is now.
\* The status dumper reads nothing without its file.
Fetch(t) ==
  /\ DriverLives /\ th[t] = "fetch"
  /\ src' = [src EXCEPT ![t] = runs]
  /\ \/ th' = [th EXCEPT ![t] = "read"]
     \/ /\ t[2] = "status_dumper" /\ "file" \in Faults
        /\ th' = [th EXCEPT ![t] = "off"]
  /\ UNCHANGED <<ownVars, objVars, genVars, nxt>>

BugLineEndsLoop(t) ==
  /\ DriverLives /\ th[t] = "read" /\ t[2] # "status_dumper" /\ out[src[t]] # <<>>
  /\ out' = [out EXCEPT ![src[t]] = Tail(@)]
  /\ th' = [th EXCEPT ![t] = IF t[2] # "monitor" THEN "read"
                             ELSE IF Head(out[src[t]]) = "mark" THEN "found" ELSE "off"]
  /\ UNCHANGED <<ownVars, objVars, proc, marked, err, src, nxt>>

BugAnyLineIsMark(t) ==
  /\ DriverLives /\ th[t] = "read" /\ t[2] # "status_dumper" /\ out[src[t]] # <<>>
  /\ out' = [out EXCEPT ![src[t]] = Tail(@)]
  /\ th' = [th EXCEPT ![t] = IF t[2] = "monitor" THEN "found" ELSE "read"]
  /\ UNCHANGED <<ownVars, objVars, proc, marked, err, src, nxt>>

\* getline() from stdout: only the monitor looks for the mark.
ReadOut(t) ==
  /\ DriverLives /\ th[t] = "read" /\ t[2] # "status_dumper" /\ out[src[t]] # <<>>
  /\ out' = [out EXCEPT ![src[t]] = Tail(@)]
  /\ th' = [th EXCEPT ![t] = IF t[2] = "monitor" /\ Head(out[src[t]]) = "mark"
                             THEN "found" ELSE "read"]
  /\ UNCHANGED <<ownVars, objVars, proc, marked, err, src, nxt>>

BugReadPastEnd(t) ==
  /\ DriverLives /\ th[t] = "read" /\ t[2] = "status_dumper"
  /\ err' = [err EXCEPT ![src[t]] = @ - 1]
  /\ UNCHANGED <<ownVars, objVars, proc, marked, out, thrVars>>

ReadErr(t) ==
  /\ DriverLives /\ th[t] = "read" /\ t[2] = "status_dumper" /\ err[src[t]] > 0
  /\ err' = [err EXCEPT ![src[t]] = @ - 1]
  /\ UNCHANGED <<ownVars, objVars, proc, marked, out, thrVars>>

BugNoEofOnErr(t) ==
  /\ DriverLives /\ th[t] = "read" /\ proc[src[t]] = "exited"
  /\ t[2] # "status_dumper" /\ out[src[t]] = <<>>
  /\ th' = [th EXCEPT ![t] = "off"]
  /\ UNCHANGED <<ownVars, objVars, genVars, src, nxt>>

\* The stream has ended: the process is gone and its pipe is empty.
ReadEof(t) ==
  /\ DriverLives /\ th[t] = "read" /\ proc[src[t]] = "exited"
  /\ IF t[2] = "status_dumper" THEN err[src[t]] = 0 ELSE out[src[t]] = <<>>
  /\ th' = [th EXCEPT ![t] = "off"]
  /\ UNCHANGED <<ownVars, objVars, genVars, src, nxt>>

BugNeverReady(t) ==
  /\ DriverLives /\ th[t] = "found" /\ th' = [th EXCEPT ![t] = "off"]
  /\ UNCHANGED <<ownVars, objVars, genVars, src, nxt>>

Found(t) ==
  /\ DriverLives /\ th[t] = "found"
  /\ ready' = TRUE
  /\ th' = [th EXCEPT ![t] = "off"]
  /\ UNCHANGED <<ownVars, runs, launched, active, handle, genVars, src, nxt>>

BugEndUnready(t) ==
  /\ DriverLives /\ th[t] = "off"
  /\ active' = [active EXCEPT ![t[2]] = FALSE]
  /\ ready' = FALSE
  /\ th' = [th EXCEPT ![t] = IF t[2] = "monitor" THEN "create" ELSE "ended"]
  /\ UNCHANGED <<ownVars, runs, launched, handle, genVars, src, nxt>>

\* ..._thread_active(false): the monitor goes on and starts its followers,
\* also when its stream has ended without the mark.
Off(t) ==
  /\ DriverLives /\ th[t] = "off"
  /\ active' = [active EXCEPT ![t[2]] = FALSE]
  /\ th' = [th EXCEPT ![t] = IF t[2] = "monitor" THEN "create" ELSE "ended"]
  /\ UNCHANGED <<ownVars, runs, launched, ready, handle, genVars, src, nxt>>

\* boost::thread(runner) in the monitor: its exception ends the program.
CreateFollower(r) ==
  LET m == <<r, "monitor">> IN
  /\ DriverLives /\ th[m] = "create"
  /\ \/ /\ th' = [th EXCEPT ![m] = "assign", ![<<r, Followers[nxt[r]]>>] = "begin"]
        /\ UNCHANGED <<op, step>>
     \/ /\ "thread" \in Faults
        /\ op' = "aborted" /\ step' = "threw" /\ UNCHANGED th
  /\ UNCHANGED <<k, joinee, watched, objVars, genVars, src, nxt>>

BugOneFollower(r) ==
  LET m == <<r, "monitor">> IN
  /\ DriverLives /\ th[m] = "assign"
  /\ handle' = [handle EXCEPT ![Followers[nxt[r]]] = r]
  /\ th' = [th EXCEPT ![m] = "ended"]
  /\ UNCHANGED <<ownVars, runs, launched, ready, active, genVars, src, nxt>>

\* logger_thread_ = ...: the thread may have begun already.
AssignFollower(r) ==
  LET m == <<r, "monitor">> IN
  /\ DriverLives /\ th[m] = "assign"
  /\ handle' = [handle EXCEPT ![Followers[nxt[r]]] = r]
  /\ IF nxt[r] < Len(Followers)
       THEN nxt' = [nxt EXCEPT ![r] = @ + 1] /\ th' = [th EXCEPT ![m] = "create"]
       ELSE th' = [th EXCEPT ![m] = "ended"] /\ UNCHANGED nxt
  /\ UNCHANGED <<ownVars, runs, launched, ready, active, genVars, src>>

ThreadStep(t) ==
  \/ Begin(t) \/ Fetch(t) \/ ReadOut(t) \/ ReadErr(t) \/ ReadEof(t) \/ Found(t) \/ Off(t)
  \/ t[2] = "monitor" /\ (CreateFollower(t[1]) \/ AssignFollower(t[1]))

-----------------------------------------------------------------------------
(* The generator: it writes while the pipe has room, and exits on its own. *)
(* RAIN's stderr is not piped.                                             *)

WriteOut(r, line) ==
  /\ proc[r] = "running" /\ Len(out[r]) < PipeCap
  /\ line = "mark" => ~marked[r]
  /\ marked' = [marked EXCEPT ![r] = @ \/ line = "mark"]
  /\ out' = [out EXCEPT ![r] = Append(@, line)]
  /\ UNCHANGED <<ownVars, objVars, proc, err, thrVars>>

WriteErr(r) ==
  /\ proc[r] = "running" /\ Len(Followers) = 2 /\ err[r] < PipeCap
  /\ marked[r] \/ err[r] < EarlyErr
  /\ err' = [err EXCEPT ![r] = @ + 1]
  /\ UNCHANGED <<ownVars, objVars, proc, marked, out, thrVars>>

ProcessExits(r) ==
  /\ proc[r] = "running"
  /\ proc' = [proc EXCEPT ![r] = "exited"]
  /\ UNCHANGED <<ownVars, objVars, marked, out, err, thrVars>>

-----------------------------------------------------------------------------
Over == op \in {"dead", "aborted"} /\ UNCHANGED vars

Next ==
  \/ \E f \in Busy : Call(f)
  \/ OwnerStep
  \/ \E t \in Tids : ThreadStep(t)
  \/ \E r \in Runs : ProcessExits(r) \/ WriteErr(r) \/ \E l \in {"line", "mark"} : WriteOut(r, l)
  \/ Over

Spec == Init /\ [][Next]_vars

\* The owner's call goes on when it can, and so does every thread.  Nothing is
\* assumed of the generator, or of which call the owner makes.
FairSpec ==
  /\ Spec
  /\ WF_vars(OwnerStep)
  /\ \A t \in Tids : WF_vars(ThreadStep(t))

-----------------------------------------------------------------------------
(* Safety, in one life cycle (MaxRuns = 1)                                 *)

\* ready() answers yes only when the generator of this run has announced the
\* end of its ramp-up, and the announcement has been read.
ReadyOnlyAfterMark ==
  ready => runs > 0 /\ marked[runs] /\ \A i \in 1..Len(out[runs]) : out[runs][i] # "mark"

\* Two threads are never in the loop of the same standard output: the streams
\* have no lock.
SoleReader ==
  \A t, u \in Tids :
    {th[t], th[u]} \subseteq {"read"} /\ src[t] = src[u] /\
    "status_dumper" \notin {t[2], u[2]} => t = u

\* Only the monitor takes the mark out of the pipe: a logger that read it
\* would leave the driver unready for ever.
HasMark(s) == \E i \in 1..Len(s) : s[i] = "mark"

MarkReadByMonitor ==
  [][\A r \in Runs : HasMark(out[r]) /\ ~HasMark(out'[r]) => th'[<<r, "monitor">>] = "found"]_vars

\* reset(), stop() and the destructor, when they return, have waited for each
\* thread that was flagged, with its handle in place, when they were called:
\* it has left its stream.
Joined ==
  op \in {"idle", "dead"} /\ step = "returned" =>
    \A t \in watched : th[t] \notin {"begin", "fetch"} \cup Reading

-----------------------------------------------------------------------------
(* The inductive invariant behind them, for one life cycle.                *)

\* The owner works on a kind of thread that exists, and launches a generator only
\* when the bound allows one.
CursorInv ==
  /\ step \in {"join", "wait", "clear"} => k <= Len(Kinds)
  /\ step = "wait" => joinee # 0
  /\ op \in {"reset", "start"} /\ step # "spawn" => runs < MaxRuns

\* reset() and start() find an unused driver: nothing has been launched.
LifeInv ==
  /\ launched <=> runs = 1
  /\ ready => launched
  /\ op \in {"reset", "start"} => watched = {}
  /\ runs = 0 => /\ \A r \in Runs : proc[r] = "none"
                 /\ \A t \in Tids : th[t] = "none"
  /\ op = "start" /\ step = "spawn" => runs = 1 /\ \A t \in Tids : th[t] = "none"

\* The monitor has left its stream before a follower exists, and the followers
\* are created one after the other.
OrderInv ==
  /\ \A t \in Tids : th[t] \in Reading => src[t] = 1
  /\ \A i \in 1..Len(Followers) :
       /\ th[<<1, "monitor">>] \notin {"create", "assign", "ended"}
            => th[<<1, Followers[i]>>] = "none"
       /\ i > nxt[1] \/ (i = nxt[1] /\ th[<<1, "monitor">>] = "create")
            => th[<<1, Followers[i]>>] = "none"

\* The mark has been written and read.
MarkTaken == marked[1] /\ ~HasMark(out[1])

OneMark(s) == \A i, j \in 1..Len(s) : s[i] = "mark" /\ s[j] = "mark" => i = j

MarkInv ==
  /\ OneMark(out[1])
  /\ HasMark(out[1]) => marked[1]
  /\ ready \/ (\E t \in Tids : th[t] = "found") => MarkTaken
  /\ th[<<1, "monitor">>] \in {"off", "create", "assign", "ended"} =>
       MarkTaken \/ (proc[1] = "exited" /\ out[1] = <<>>)

\* A flag that is up belongs to a thread that has begun and not left its stream.
FlagInv == \A x \in KindSet : active[x] => th[<<1, x>>] \in {"fetch"} \cup Reading

\* The owner has still to look at the flag of t, or to wait for t.
Pending(t) ==
  /\ op \in Busy /\ step \in {"terminate", "check", "join", "wait", "clear"}
  /\ \E i \in k..Len(Kinds) : Kinds[i] = t[2] /\ ~(i = k /\ step = "clear")

WatchInv ==
  \A t \in watched :
    /\ handle[t[2]] = t[1]
    /\ \/ th[t] \in {"create", "assign", "ended"}
       \/ active[t[2]] /\ th[t] \in {"fetch"} \cup Reading /\ Pending(t)
       \/ step = "threw"

OneLife == LifeInv /\ OrderInv /\ MarkInv /\ FlagInv /\ WatchInv

-----------------------------------------------------------------------------
(* What the comments promise, and races refute                             *)

\* After reset() has returned, and until the next start(), no thread of an
\* earlier run is left ("Stop previously running process and thread").
ResetStopsThreads ==
  op = "idle" /\ step = "returned" /\ ~launched => \A t \in Tids : th[t] \in {"none", "ended"}

\* No thread uses a driver that has been destroyed ("Remove threads").
DestructorRemovesThreads == op = "dead" => \A t \in Tids : th[t] \in {"none", "ended"}

-----------------------------------------------------------------------------
(* Liveness                                                                *)

Gone == op \in {"dead", "aborted"}

\* reset(), start(), stop() and the destructor return: joining a reader does
\* not block, because the process it reads from has been terminated.
CallReturns == op \in Busy ~> op \notin Busy

\* Once the generator has announced the end of its ramp-up the driver gets
\* ready, also when the generator exits at once.
MarkMakesReady == (\E r \in Runs : marked[r]) ~> (ready \/ Gone)

\* The generator is never blocked for ever on a full pipe: somebody reads its standard output
\* before and after the mark, and its standard error after it.
PipesDrained ==
  \A r \in Runs :
    /\ (Len(out[r]) = PipeCap) ~> (Len(out[r]) < PipeCap \/ Gone)
    /\ (marked[r] /\ err[r] = PipeCap) ~> (err[r] < PipeCap \/ Gone)

\* After the generator has exited its threads end by themselves.
ThreadsEnd ==
  \A r \in Runs : (proc[r] = "exited") ~> (Gone \/ \A x \in KindSet : th[<<r, x>>] \in {"none", "ended"})

-----------------------------------------------------------------------------
(* Refinement: in one life cycle the driver is the one of DriverContract,   *)
(* which the application experiment is written against.                    *)

Alive == \E r \in Runs : proc[r] = "running"

Contract == INSTANCE DriverContract WITH alive <- Alive

ImplementsDriverContract == Contract!Spec
=============================================================================
