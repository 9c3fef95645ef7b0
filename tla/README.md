# dcsxx-testbed: a TLA+ verification project

dcsxx-testbed runs experiments on applications deployed in virtual machines. A
*workload driver* launches a generator (RAIN or YCSB, a Java process) that sends
requests to the application; once the generator has finished its ramp-up, an
*application manager* samples the application's performance and sets the CPU and
memory shares of its VMs; when the generator ends, the experiment gives the VMs
back the shares they had. Everything that makes this hard is concurrent: the
thread of the experiment, the two threads of the manager, the threads that read
the generator's output, the generator itself, and exceptions that leave any of
them half-way.

This directory holds the models of that program, what TLC checks of them, and
what TLAPS proves.

## 1. Inventory

Paths are relative to `src/`; `T/` stands for `inc/dcs/testbed/`.

| component | state | operations | hard part | what makes it correct |
|---|---|---|---|---|
| application experiment, `T/application_experiment.hpp` | `restore_state_`, `running_`, `vm_states_` (a stack of saved shares per VM), `mgr_run`, `mgr_mtx`, two threads | `run`, `save_app_state`, `restore_app_state`, destructor | threads against the main loop, interruption, exceptions in every call | the VMs get their shares back; the manager acts only between ready and done; `sample` and `control` exclude each other; `run` returns |
| workload driver interface, `T/base_workload_driver.hpp` | | `reset`, `start`, `stop`, `done`, `ready` | polled while it changes | `ready` is never early and never missed |
| RAIN and YCSB drivers, `T/rain/workload_driver.hpp`, `T/ycsb/workload_driver.hpp` | `ready_`, an active flag and a thread handle per thread, the process | the five above, the destructor; threads: monitor, logger, status dumper | flags raised by the threads themselves, handles assigned by another thread, blocking reads, full pipes | one reader per stream; calls return; the generator is not blocked; no thread outlives what it uses |
| system experiment, `T/system_experiment.hpp` | `running_`, experiments, VMMs | `run`: a thread per application experiment, then join | one experiment's exception ends all | all experiments are over when the stop handlers run; the threads share nothing but the gatherer |
| tracker and statistics gatherer, `T/base_experiment_tracker.hpp`, `T/experiment_stats_gatherer.hpp` | accumulators per application | handlers of start, stop, sample, control | several threads, no lock; experiments bound by value | statistics of one run, of the right application |
| application manager, `T/base_application_manager.hpp`, `T/dummy_application_manager.hpp` and the published controllers | sensors, estimators, smoothers, counters | `reset`, `sample`, `control` | stale or missing samples | a control step uses the samples since the last one |
| metrics sensors, `T/rain/sensors.hpp`, `T/ycsb/sensors.hpp` | file position, last observations | `sense`, `reset` | the file grows while it is read | each complete line is read once, in order |
| libvirt, `T/libvirt/*.hpp` | connection, domain, cached identifier | caps and shares, start, stop, migrate | rounding, 0 meaning "no cap", migration under sensors | a share written is the share read |
| netsnif, `src/netsnif.cpp` | packet queue, table of connections | sniffer thread, analyzer thread, data stores | end of the two threads, lost or repeated packets | counts match the connections |
| estimators, smoothers, signal generators, `T/data_*.hpp`, `T/*_signal_generator.hpp` | samples | `collect`, `estimate`, `reset`, ... | numerics | bounds, agreement with a definition |
| programs, configuration, system identification, tools, vendored code | | | glue, I/O, numerics | |

How they interact: `sysmgt.cpp` builds one system experiment; its `run` starts
one thread per application experiment (`T/detail/runnable.hpp`); each of these
resets the manager and the driver, calls the start handlers, starts the driver
and polls it every 5 seconds; when the driver is ready it creates the sampler and
the controller thread; when the driver is done it interrupts and joins both,
stops the driver, restores the shares and calls the stop handlers. The driver's
threads set the flags the poll reads. The manager's signals call the tracker.
The destructor of the experiment repeats the restoration for a run that was left
by an exception.

## 2. Plan

1. `ApplicationExperiment`, with `DriverContract` (what it assumes of a driver) and
   `ExperimentContract` (what it promises), with the proofs of its invariants and of
   the refinement. Done.
2. `WorkloadDriver`: RAIN and YCSB, and that they implement `DriverContract` in one
   life cycle, with the proofs of its invariants and of the refinement. Done.
3. `SystemExperiment`: several application experiments, the tracker and the statistics
   gatherer, over `VMShares`, the shares and caps of libvirt; with proofs, and with the
   refinement: each of its experiments keeps `ExperimentContract` to its own VM. Done.
4. `NetworkMonitor`: sniffer, analyser, queue, table of connections and statistics in
   three stores; with proofs. Done.
5. `MetricsSensor`: following a file that is written in pieces; with proofs. Done.
6. `ApplicationManager` with `ManagerProfiles`: the control loop of eighteen managers;
   with proofs. Done.
7. `DataEstimators`: thirteen estimators and four smoothers between sensor and control;
   with proofs. Done.

Left: the migration of VMs, should a program ever call it, and the composition of
`SystemExperiment` with the whole of `ApplicationExperiment`: the two meet in
`ExperimentContract`, which both implement.

## 3. The modules

`DriverContract`. Three flags: a generator has been launched since the last reset,
it is alive (`done()` is its negation), the driver is ready. `Reset`, `Launch`,
`RampUp` and `Exit` are the only ways they change. `ApplicationExperiment`
instantiates it as its driver; `WorkloadDriver` is shown to implement it.

`ExperimentContract`. The phases of an experiment and the shares of its VMs: only a
managed experiment changes shares, from the end of the management on they only
change to the noted values, and an experiment that asks for restoration ends with
all of them in place. `ApplicationExperiment` implements it by the shares that are read
and written, `SystemExperiment` by what the hypervisor makes of them.

`ApplicationExperiment`. `pc` is where `run()` or the destructor is; every call that
can throw, and every access to `vm_states_`, is a step of its own. `thr`, `lock` and
`interrupted` are the sampler and the controller thread, the owner of `mgr_mtx` and
the pending interruptions: a thread waits for the lock, samples or controls inside,
releases it and sleeps, and the sleep is the only interruption point. A VM is its
CPU and memory share; a controller may set them to any value (`Control`), which
stands for every controller of the repository. `Faults` lists the calls that may
throw. `SetRestoreState` happens between two runs only: the setter (326-329) does not look,
this is assumed of its caller, and `sysmgt.cpp` calls it before `run()` (:1334). Three ends are states of their own: `aborted` (an exception leaves a thread,
the program ends), `undefined` (`back()` of an empty vector) and `dangling` (an
exception leaves the polling loop and destroys the mutex its threads go on using).
`running_` starts with either value, because no constructor sets it.

`WorkloadDriver`. `op`, `step` and `k` are where the owner is in `reset`, `start`,
`stop` or the destructor, which share the cascade *terminate the process; for each
kind of thread: if its flag is up, interrupt and join it, lower the flag*. The
generator writes lines into two bounded pipes, one of them the *mark* that ends the
ramp-up ("Ramp up finished" for RAIN, "Command line:" for YCSB). A thread raises its
flag, fetches the stream of the current process, reads until the mark or the end,
lowers its flag; the monitor then creates its followers and assigns their handles,
creation and assignment being two steps. `Followers` selects RAIN (`logger`) or YCSB
(`logger`, `status_dumper`).

External, modelled from how the code uses them: the process class (`terminate()`
returns when the process is gone, `alive()` is true until then, streams end when the
process is gone and the pipe is empty), Boost threads (an uncaught exception ends
the program; joining a handle without a thread returns or throws, depending on
Boost's configuration; no interruption point in the drivers' threads), and the
generator.

`VMShares`. A share is counted in quarters of what it is rounded to, a hundredth of a
virtual CPU or a KiB, and the product that is rounded may be off by an eighth. The cap 0
stands for no cap, in both directions.

`SystemExperiment`. `main` is where `run()` is, `thread` where the thread of each
application experiment is: it saves the shares of its VM, announces its start, controls
(the manager sets CPU, memory or both, then the handlers are called), and restores memory
and CPU, in this order. The handlers of
the gatherer are two steps each, entry and update, so that two threads can meet inside;
`torn` notes that they did while one of them changed a map, and from then on anything
may happen (`Corrupt`). `tracked` are the experiments that were there when `track()` set
its handlers. `Abort` is an exception in a thread. `Contract(a)` is the promise of
`ExperimentContract` to the VM of one application: `Phase(a)` reads its phase off `main`
and `thread`, its shares are what the VM can use of CPU (no cap counts as all of it) and
memory. `restore_state_` is TRUE, its default, as in `sysmgt` without `--no-restore-vms`.

`ManagerProfiles` and `ApplicationManager`. The managers were written by copying, and
their `do_reset`, `do_sample` and `do_control` have the same phases. The phases are the
actions of `ApplicationManager`; a profile is the set of alternatives a manager takes in
each of them (which targets it looks at, whether it needs an earlier error, how its
solver may fail, which shares it writes and when, what it looks up for the line of
data). Of the numbers the model keeps who was observed, which shares were written, and
the counters. `cfg` is the manager with the options of its set-up; `struck` the faults
that happened; `thrown` and `undefined` end the program. Two pairs of history variables note
what an estimator still holds: `used` and `reused` whether observations decided a control and
then another one, `shown` and `repeated` whether they were in a line of data and then in
another. Every manager with an output file writes the estimates of its targets into its line
after it has decided; it has estimated, and in a build with
`DCS_TESTBED_EXP_RESET_ESTIMATION_EVERY_INTERVAL` reset, the targets before, except sysid: no
target decides what it does, its line (556-572) is the only place where it estimates, and its
reset (:573) is compiled for a misspelt macro. guazzone needs histories of its inputs too
(505-527); they grow with that of its outputs, so one window, the longest of the three,
stands for them.

| variables | in the code |
|---|---|
| `controls`, `skipped`, `failed`, `unidentified` | `ctl_count_`, `ctl_skip_count_`, `ctl_fail_count_`, `sysid_fail_count_` |
| `observed`, `smoothed` | `count()` of the estimators, `ready()` of the smoothers |
| `window`, `previous` | length of `out_perf_history_`, `last_err_` is a number |
| `trained`, `trainset`, `relFails` | `anfis_initialized_`, `anfis_trainset_`, `ctrl_rel_fail_count_` |
| `identified` | `p_sysid_alg_->count()` |
| `errors`, `slot`, `partial`, `written` | the local maps and vectors of `do_control()` |

`MetricsSensor`. The file is a sequence of units, a line being `LineLen` times its number
and a newline, so that a sensor may find half a line. `pc`, `stream`, `pos`, `fpos` and
`obs` are the loop of `do_sense()`, `ifs_`, its position, `fpos_` and `obs_`. The writer
is the status dumper of the YCSB driver, or RAIN, which begins the file anew for a run
while the sensor goes on. The file is empty at first, which a sensor cannot tell from a
missing one, and a writer of an earlier run may write in it before it is begun anew.

`DataEstimators`. Observations are numbered; an estimate is the set of observations that
its value may depend on, and whether it is a number, the default, or infinite. An
estimator is a set of traits (collects and uses later, completes its batch by a window of
the latest samples, keeps its quantiles, ...). `Control`, `ControlAndReset` and `Gather`
are the calls of a manager and of the gatherer after it.

`NetworkMonitor`. `build` is the data store and the queue the program is compiled with.
`sniffer`, `analyser`, `done` and `oneMore` are the two threads with `sniffer_done` and
`one_more_time`; packets are numbers in the order of their capture. The three stores
differ in what `save()` counts: MySQL counts a departure when a closed entry is written,
the store in memory when a closed entry is overwritten, SQLite's `save()` never
completes. A failing access throws, is rolled back and logged. MySQL's `save()` commits a
transaction of its own (874-923) inside that of the connection manager: when only the outer
`COMMIT` fails, the row is stored, the exception is caught and logged, and the thread goes on.
What the table then holds is what `Analyse` makes of it, so that this outcome is a step of
`Analyse`, and `failed` holds the packets whose statements did nothing. A frame without IPv4
and an address that cannot be looked up throw outside the `try` (1978-2000): `DecodeThrows`
ends the program.

External here: pcap (packets of any kind in any order), the queues of Boost and the SQL
servers; the fuzzy, neural and MATLAB solvers, which succeed, throw or, in the two Wang
managers, end without an answer; the hypervisor, which stores what it is given.

`ApplicationExperiment_proofs`, `ExperimentRefinement_proofs` (which extends it),
`WorkloadDriver_proofs`, `SystemExperiment_proofs`, `ApplicationManager_proofs`,
`NetworkMonitor_proofs`, `MetricsSensor_proofs` and `DataEstimators_proofs` hold the
theorems; the modules named `MC...` give the constants
their values for TLC.

A definition named `Bug...` is a wrong version of the definition after it; putting
it in its place makes a property fail, which shows the property notices.

## 4. The runs

| run | expected | bounds | shows |
|---|---|---|---|
| `experiment_safety` | pass | 2 VMs, shares 1 and 2, 2 runs, all faults but save, restore, on-stop | manager threads exist only in the polling loop, mutual exclusion, management only when ready, shares restored at every return and destruction, stacks never empty when used |
| `experiment_live` | pass | 1 VM, 2 runs, the same faults | `run()` returns when the driver is done, a ready driver gets managed, the experiment implements `ExperimentContract` |
| `experiment_faults` | violation | 1 VM, 1 run, restore may throw | the second restore of the destructor gives a VM its CPU share as memory share |
| `driver_safety` | pass | YCSB, 1 generator, pipes of 2 lines, all faults | readiness only after the mark was read, one reader per standard output, the mark is read by the monitor, calls wait for the threads they can see, the driver implements `DriverContract` |
| `driver_live` | pass | as above, no faults | calls return, the mark makes the driver ready, pipes are drained, threads end with the process |
| `system` | pass | 2 applications of one VM, 2 runs, 2 controls each, one or both tracked, exceptions | what is printed counts the controls of this run; CPU and memory survive saving and restoring; each experiment implements `ExperimentContract` |
| `manager` | pass | 18 managers, 1 or 2 targets and VMs, 4 controls, 2 resets, failing VM, file and model | which controls may act, that failed ones change nothing, observations used once and shown once, and by which managers not, counters that add up, what can end the program |
| `sensing` | pass | 3 sensors, lines of 2 units, 4 lines, the file begun anew twice, 1 reset | lines read whole, once, in order, all of them in the end, and by every pass all there are |
| `estimating` | pass | 13 estimators and 4 smoothers, windows of 2, 6 observations, 2 resets | on which observations an estimate depends, and that the gatherer records what was used |
| `monitor` | pass | 3 builds, 2 clients, 4 packets, queue of 2, failing store and device, undecodable packets | the table follows the packets, what the statistics count, order and loss in the queue, how the program ends |
| `driver_reset` | violation | RAIN, 2 generators | a thread of the previous run survives `reset()` |
| `driver_destroy` | violation | RAIN, 1 generator | a thread survives the driver |

Bounds. Two VMs let a loop over them fail between the first and the second; two
values tell a share from another one and a CPU share from a memory share; two runs
show what a run leaves to the next (saved shares, flags, threads). A driver is
launched once per object by `sysmgt.cpp` and `sysid.cpp`, so one generator is the
real life cycle; two show what reuse would do, and it is there that
`driver_reset` fails, so the properties of `driver_safety` are stated for one. Pipes
of two lines distinguish empty, filled and full. `EarlyErr`, the lines a generator
writes on standard error before the mark, equals the pipe's capacity, the largest
value for which YCSB's driver does not block its generator: nobody reads that pipe
before the mark.

In `system` two applications are enough for two threads to meet in the gatherer, and one
of them may be untracked; a second run shows what the first leaves. The shares asked for
round to every cap from none to all of a machine of two hundredths, which is where 0 and
"no cap" meet. In `manager` four controls pass the warm-up (1), fill the history of
outputs (2), gather the samples of a model (2) and fail often enough for the fallback
(2), in place of 5 to 200 in the code; a second reset finds all of that in place. In
`sensing` a line of two units can be read in the middle, and four lines can be divided
between what is there first and the two files begun after it. In `estimating` a window of two is passed by six
observations in two or three periods. In `monitor` four packets let one client come,
be answered, leave and come back while a second one is new, and overflow a queue of two.

`StatisticsOfThisRun` says nothing of the accumulators once two threads met in the gatherer
(`torn`): that is a data race, and the property states only that it takes two tracked
applications. Nor does it see `running_`, which `run()` sets late. `SharesGivenBack` is about
shares that were read; that a controller's small share becomes "no cap" is in the model and
allowed while the application is managed. `Joined` speaks of the threads whose flag and
handle the owner finds in place; those it misses are the subject of `driver_reset` and
`driver_destroy`. `ObservationsUsedOnce`, `EscapesExplained` and `EstimateOfThisPeriod` list their exceptions by name;
each of them was met by TLC when it was left out. The type invariants of
`SystemExperiment`, `ApplicationManager`, `NetworkMonitor`, `MetricsSensor` and
`DataEstimators` are proved, and no run repeats them.

Fairness. The operating system runs the thread of `run()` and the threads of the
manager, whose `sample()` and `control()` return and whose sleeps end: weak fairness
of each. The mutex is not assumed to be fair: `RunReturns` needs no more than that
one of the threads gets it while it is free, because an interrupted thread does not
come back to the lock. The controller step and everything that throws are never
forced. In the driver, weak fairness of the owner's next step and of each thread;
nothing is assumed of the generator, which may run for ever or stop writing, nor of
the order of the owner's calls. In `sensing` the sampler goes on sampling, nobody has to
write; in `monitor` the threads and `main()` are scheduled while the capture may last for
ever. All deadlock checks are on; the states where nothing
can happen (object destroyed, program ended) have an explicit stuttering step, `Over`.

## 5. What is proved

`ApplicationExperiment_proofs`, for every set of VMs and shares, every number of runs
and every set of faults, from `MaxRunsAssumption` (a natural number) and
`FaultsAssumption` (faults are fault points) alone:

- `TypeCorrect`: `Spec => []TypeOK`.
- `QuiescentOutsideLoop`: `Spec => []ManagerQuiescent`. Inductive as it stands: only
  `JoinAll` leaves the loop, and it waits for both threads.
- `ManagerExclusive`: `Spec => []SampleControlExclusive`.
- `ManagerNeedsReady`: `Spec => []ManagedOnlyWhenReady`, by the inductive `ReadySeen`: threads
  exist only after `ready()` was seen, and while they exist `run()` cannot reset the driver.
- `StateIsKept`: `Spec => []StateKept`, the inductive invariant of saving and restoring.
  "The shares are restored when run() returns" says nothing of the states in which the
  shares differ and the stacks hold the difference. `StateKept` says at every `pc` what
  is in the stack of each VM (nothing, the CPU share, both, the CPU share again) and
  which VMs have their shares back; it uses `ManagerQuiescent` so that no controller
  step falls outside the loop. `SaveKeeps`, `RestoreKeeps` and `OthersKeep` prove it
  step by step; `StackOfTwo` says what the stack operations do.
- `RunRestores`, `NothingSavedBetweenRuns`: from `StateKept`, for every set of faults.
- `DestructorRestores`, `StacksNeverEmpty`: with no fault in save, restore and the on-stop
  handlers the destructor restores every VM and no step takes a value from an empty
  stack. The hypothesis is needed: `experiment_faults` shows what happens without it.
- `RestoresOwnValues`: `Spec => RestoresWhatWasSaved` under the same hypothesis, so it is
  the fault alone that makes `experiment_faults` fail.

`ExperimentRefinement_proofs`, under the same assumptions:

- `KeepsContract`: `Spec => ImplementsContract` when `Faults` is clean (nothing in save,
  restore or the on-stop handlers throws). The abstract phase is a function of the
  concrete state, so each step is shown to be the abstract step its phases name, or a
  stutter: `RunSimulates` for the steps of `run()`, `RestoreSimulates` for the
  restoration, `OthersSimulate` for threads, driver and destructor. Besides `StateKept`
  and `ManagerQuiescent` it needs `SamplerFirst` (the controller thread exists only
  after the sampler), which says that the phase "managed" is entered once. A restore
  fault lets the destructor write a wrong share, which the contract forbids.

`WorkloadDriver_proofs`, for either driver's followers, every pipe capacity and every set
of faults, from `FollowersAssumption` and `BoundsAssumption`:

- `DriverTypeCorrect`: `Spec => []TypeOK`, for any number of generators.
- `DriverInvariant`: `Spec => []Known` (types, `CursorInv`, `OneLife`) when `MaxRuns = 1`. `OneLife` is the inductive
  invariant, a conjunction of `LifeInv` (`reset()` and `start()` find an unused driver),
  `OrderInv` (the monitor has left its stream before a follower exists), `MarkInv` (the
  mark is written at most once and it is the monitor that takes it), `FlagInv` (a raised
  flag belongs to a thread that has begun) and `WatchInv` (a thread the owner waits for
  is still pending or has left its stream).
- `ReadyIsEarned`, `OneReader`, `CallsWait`, `MonitorTakesMark`: the safety properties of
  `driver_safety`, from `OneLife`.
- `KeepsDriverContract`: the driver implements `DriverContract`, from `OneLife`.

`MaxRuns = 1` is a real hypothesis: a thread of the first generator that survives
`reset()` (`driver_reset`) raises its flag, or takes the mark, in the second.

`SystemExperiment_proofs`, for any number of applications, runs and controls, any sizes of
the VMs and any shares asked for, from `SystemAssumption` and `SharesAssumption`:

- `SystemTypes`, `SystemStatistics` and `SystemSharesGivenBack`, all from the inductive
  `Inv`. That the shares are given back says nothing of a running thread; `Given` says at
  every place of a thread what it has saved and what it has already given back, `Counted`
  what its accumulators hold, `Places` which threads there can be at every place of
  `run()`, and `Tracking` that only two tracked applications tear the maps. `RoundedOfRead`
  is the arithmetic: a share that was read rounds to the value it was read from, for every
  error of the product; `CpuShareKept` and `MemoryShareKept` carry it through the caps.
- `SystemKeepsContracts`: `Spec => ImplementsContracts`. Each step is one step of the
  contract of one application and a stutter of all others: `ThreadPromised` for the steps
  of a thread (`ControlPromised` and `RestorePromised` for those that set shares, from
  `Given`), `RunPromised` for those of `run()`, which begin and end all contracts.

`ApplicationManager_proofs`, for every set-up, from the assumptions on the constants:

- `ManagerTypes` (`Types`), `ManagerCountersAddUp` (`CountInv`: the counters at every place
  of a control), `ManagerSharesKept` (`ShareInv`: what is written where, and which profiles
  write while they solve), `ManagerUsesObservationsOnce` (`UsedInv` for the controls;
  `LinesInv` for the lines: with one target, and but for sysid and guazzone, a control leaves no
  observation in the estimator except those of the first error that mimo_v2 computes, and
  these only before any was in a line),
  `ManagerControlsInformed` (`KnowInv`: what is known once a control goes on to learn,
  solve and write) and `ManagerEscapesExplained`. What differs between the managers enters
  only through the profiles; `ResetProfiles`, `DecideProfiles`, `SolveProfiles` and
  `ApplyProfiles` are the facts about them, proved by cases over the eighteen.

`NetworkMonitor_proofs`, for any finite set of clients, any packets, queue and builds:

- `MonitorTypes` (`TypeInv`), `MonitorAnalysesInOrder` (`OrderInv`: what was analysed,
  followed by what is in the queue, is increasing and, with a lock, complete),
  `MonitorDoesNotDrain` (`ThreadInv`: the second pass is unreachable) and
  `MonitorStatisticsExplained` (`StatsInv`), with `SaveExplained` and `EraseExplained` for
  what a store does to the counts.
- `MonitorStatusFollowsPackets` (`StatusInv`: only analysed packets can have failed, and
  nothing is analysed before the store is opened). The reference is about the set of the
  places of a client's packets since its last SYN; `NextReference` says how the next packet
  changes it, `HandleSets` what `Handle` makes of the table, and `AnalyseKeepsStatus` that
  the two agree, case by case. A statement that fails changes neither (`ThrowKeepsStatus`).

`MetricsSensor_proofs`, for lines of every length, any number of lines, files and resets
and each kind of sensor:

- `SensorTypes` (`TypeInv`), `SensorReadsOnce` (`ReadInv`), `SensorReadsInOrder` (`CleanInv`,
  `DeliveryInv`) and `SensorPassReadsAll`. That no line is read twice holds for a file begun
  anew below the sensor because lines are numbered in the order of writing: `FileInv` says
  how the lines follow each other in the file, `ReadInv` that what was read is behind all
  that is to be read. `CleanInv` ties the lines read to the place of the sensor while the
  file only grows; `DeliveryInv` counts what was delivered and what was skipped.

`DataEstimators_proofs`, for any set of estimators, windows, observations and resets:

- `EstimatorTypes` (`TypeInv`), `EstimatesOfThisPeriod` and `GathererRecordsUsed`.
  `CollectedInv` says that a batch and a window hold the latest observations since the
  reset, `BaseInv` that they and what the estimate rests on cover everything since the
  estimate before, `ValueInv` when an estimate is a default or infinite, `GatherInv` what
  the gatherer is going to find. `Traits` says which traits exclude each other, by cases
  over the seventeen.

Only model-checked: the liveness properties `RunReturns`, `ReadyIsManaged`, `CallReturns`,
`MarkMakesReady`, `PipesDrained`, `ThreadsEnd`, `EveryLineRead` and `EndsOrHangs`, which
under fairness are out of reach of the prover. Every safety and action property of the
passing runs, and every refinement, is also proved. What the runs of section 6 refute is
not, of course.

## 6. Findings

1. `restore_app_state()` (`T/application_experiment.hpp:513`) pops the memory share
   before it has set the CPU share. If the latter throws, the destructor restores
   again and writes the saved CPU share into the memory share (`experiment_faults`).
2. `reset()` of the drivers does not stop a thread that has not raised its flag yet
   (`driver_reset`).
3. Nor does the destructor; the thread keeps a pointer to the destroyed driver
   (`driver_destroy`).

## 7. Not modelled

- What the controllers compute (fuzzy rules, MPC, neural models, MATLAB's genetic search),
  what the estimators compute, and system identification: real numbers, out of TLC's
  reach. The models keep which observations enter and which shares leave. So the errors of
  indices in the building of the matrices of lama2013 (:1299) and lama2015 (:1259) are not
  seen, nor is the wrap of `cpuTime` in the sensors of libvirt (`T/libvirt/sensors.hpp:153`).
- `lq_application_manager.hpp` and `guazzone2011_application_manager.hpp` reach the VMs by
  `this->app()->vms()`, where `app()` is a reference, and `albano2013v2` uses a name that is
  not declared: none of them can be instantiated, and no program does.
- Lifecycle and migration of libvirt's domains: nothing in `src/` calls them. The handlers
  of a tracker hold a copy of the experiment (`T/base_experiment_tracker.hpp:79`), which
  shares all its pointers.
- The status dumper of YCSB without its file blocks the generator: that is a fault of
  `driver_safety`, not of `driver_live`.
- Signal generators are pure functions of floating-point numbers. Option parsing and
  configuration files are I/O. `tools/` and `thirdparty/` are stand-alone or vendored.
