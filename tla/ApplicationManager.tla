------------------------- MODULE ApplicationManager -------------------------
(***************************************************************************)
(* An application manager (base_application_manager.hpp and the classes    *)
(* derived from it): reset(), sample() and control() as the threads of the *)
(* application experiment call them, one at a time.                        *)
(*                                                                         *)
(* control() estimates the outputs, decides whether to go on, trains its   *)
(* model, solves the control problem, writes the shares of the VMs one by  *)
(* one and exports a line of data; ManagerProfiles says which of this a    *)
(* manager does and how.  Outputs, errors and shares are real numbers in   *)
(* the code: what is left of them is who was observed, and which shares    *)
(* were written.  An exception that leaves a member function ends the      *)
(* program (ApplicationExperiment).                                        *)
(***************************************************************************)
EXTENDS Naturals, FiniteSets, ManagerProfiles

CONSTANTS
  Setups,       \* the managers considered, and how they are set up
  Warmup,       \* control_warmup_size
  OrderPlus,    \* output_order_ + 1; for guazzone the largest of that and its two input
                \* orders: its histories of inputs grow with that of the outputs
  TrainMin,     \* samples before a model is built
  BatchMin,     \* min_trainset_size_offline: samples before it is trained again
  RelFailMax,   \* failures before the fallback
  SysIdMin,     \* na + nb + nk - 1
  MaxControls,  \* bound: controls between two resets
  MaxResets,    \* bound: resets
  Faults        \* what may fail besides the solvers

ASSUME SetupsAssumption ==
  Setups \subseteq [kind : DOMAIN Managers, targets : 1..2, vms : 1..2, exporting : BOOLEAN,
                    resetEvery : BOOLEAN, prebuilt : BOOLEAN, extended : BOOLEAN]
ASSUME ManagerSizesAssumption ==
  /\ Warmup \in Nat /\ OrderPlus \in Nat \ {0} /\ TrainMin \in Nat \ {0}
  /\ BatchMin \in Nat \ {0}
  /\ RelFailMax \in Nat \ {0} /\ SysIdMin \in Nat
ASSUME ManagerBoundsAssumption == MaxControls \in Nat /\ MaxResets \in Nat
ASSUME ManagerFaultsAssumption == Faults \subseteq {"vm", "file", "model"}

VARIABLES
  cfg,         \* the manager and its set-up; it never changes
  pc,          \* idle, or what control() does next; thrown and undefined end the program
  controls, skipped, failed, unidentified,  \* the counters
  observed,    \* the targets whose estimator has observations
  smoothed,    \* every smoother has had an observation
  window,      \* length of the history of outputs
  previous,    \* last_err_ is a number
  trained,     \* anfis_initialized_
  trainset,    \* size of anfis_trainset_
  relFails,    \* ctrl_rel_fail_count_
  identified,  \* count() of the identification, up to SysIdMin + 1
  errors,      \* this control: the targets whose error was computed
  slot,        \* this control: the share it writes next
  partial,     \* this control: the changes of some shares were computed, of others not
  written,     \* this control: the shares that were changed
  outcome,     \* history: how this control ended
  applied, silent, negatives,  \* history: controls that wrote, that are not counted,
                               \* that are counted twice
  used,        \* history: targets whose estimator holds observations of an earlier control
  reused,      \* history: such observations were used again
  shown,       \* history: targets whose estimator holds observations of an earlier line of data
  repeated,    \* history: such observations were in a line again
  samples,     \* history: training samples since the reset
  struck,      \* history: the faults that happened
  resets

counterVars == <<controls, skipped, failed, unidentified, applied, silent, negatives>>
estimateVars == <<observed, smoothed, window, previous, used, reused, shown, repeated>>
modelVars == <<trained, trainset, samples>>
solverVars == <<relFails, identified>>
controlVars == <<errors, slot, partial, written, outcome>>
vars == <<cfg, pc, counterVars, estimateVars, modelVars, solverVars, controlVars, struck, resets>>

-----------------------------------------------------------------------------
Does(phase, what) == what \in Managers[cfg.kind][phase]

Targets == 1..cfg.targets
Slots == 1..(IF Does("apply", "memory") THEN 2 * cfg.vms ELSE cfg.vms)

\* The manager learns how its output depends on its input.
Learns == Does("learn", "learns")

\* The utilisation of the VMs is sensed.
SensesVMs ==
  Does("sample", "vms") /\ (Does("sample", "ifExporting") => cfg.exporting)

\* There are smoothers: data_smoother() of a VM without one throws.
HasSmoothers ==
  Does("reset", "smoothers") /\ (Does("reset", "ifExporting") => cfg.exporting)

TypeOK ==
  /\ cfg \in Setups
  /\ pc \in {"new", "idle", "learn", "solve", "write", "export", "thrown", "undefined"}
  /\ controls \in 0..MaxControls
  /\ {skipped, failed, unidentified, applied, silent, negatives} \subseteq Nat
  /\ observed \subseteq Targets /\ smoothed \in BOOLEAN /\ window \in 0..OrderPlus
  /\ previous \in BOOLEAN /\ used \subseteq Targets /\ reused \in BOOLEAN
  /\ shown \subseteq Targets /\ repeated \in BOOLEAN
  /\ trained \in BOOLEAN /\ samples \in Nat
  /\ trainset \in Nat /\ trainset < IF trained THEN BatchMin ELSE TrainMin
  /\ relFails \in 0..(RelFailMax - 1) /\ identified \in 0..(SysIdMin + 1)
  /\ errors \subseteq Targets /\ slot \in Nat /\ partial \in BOOLEAN
  /\ written \subseteq Slots
  /\ outcome \in {"none", "skipped", "failed", "unidentified", "silent", "applied"}
  /\ struck \subseteq Faults /\ resets \in 0..MaxResets

Cleared ==
  /\ errors = {} /\ slot = 1 /\ partial = FALSE /\ written = {} /\ outcome = "none"

Init ==
  /\ cfg \in Setups /\ pc = "new"
  /\ controls = 0 /\ skipped = 0 /\ failed = 0 /\ unidentified = 0
  /\ applied = 0 /\ silent = 0 /\ negatives = 0
  /\ observed = {} /\ smoothed = FALSE /\ window = 0 /\ previous = FALSE
  /\ used = {} /\ reused = FALSE /\ shown = {} /\ repeated = FALSE
  /\ trained = FALSE /\ trainset = 0 /\ samples = 0
  /\ relFails = 0 /\ identified = 0
  /\ Cleared
  /\ struck = {} /\ resets = 0

\* A fault of this kind happens now.
Strikes(fault) == fault \in Faults /\ struck' = struck \cup {fault}

-----------------------------------------------------------------------------
(* reset(): do_reset(), then every estimator and smoother is reset.        *)

Reset ==
  /\ pc \in {"new", "idle"} /\ resets < MaxResets
  /\ Does("reset", "oneTarget") => cfg.targets = 1
  /\ pc' = "idle" /\ resets' = resets + 1
  /\ controls' = 0 /\ skipped' = 0 /\ failed' = 0 /\ unidentified' = 0
  /\ applied' = 0 /\ silent' = 0 /\ negatives' = 0
  /\ observed' = {} /\ smoothed' = FALSE /\ window' = 0 /\ previous' = FALSE
  /\ used' = {} /\ reused' = FALSE /\ shown' = {} /\ repeated' = FALSE
  /\ trained' = (Learns /\ (cfg.prebuilt \/ Does("reset", "prebuilt")))
  /\ trainset' = 0 /\ samples' = 0
  /\ relFails' = 0 /\ identified' = 0
  /\ UNCHANGED <<cfg, controlVars, struck>>

ResetThrows ==
  /\ pc \in {"new", "idle"} /\ resets < MaxResets
  /\ pc' = "thrown"
  /\ \/ Does("reset", "oneTarget") /\ cfg.targets > 1 /\ struck' = struck
     \/ Does("reset", "model") /\ (cfg.prebuilt \/ Does("reset", "prebuilt")) /\ Strikes("model")
     \/ Does("reset", "shares") /\ Strikes("vm")
     \/ cfg.exporting /\ Strikes("file")
  /\ UNCHANGED <<cfg, counterVars, estimateVars, modelVars, solverVars, controlVars, resets>>

-----------------------------------------------------------------------------
(* sample(): the estimators collect what the sensors have observed.        *)

Sample ==
  /\ pc = "idle"
  /\ \E seen \in SUBSET Targets : observed' = observed \cup seen
  /\ smoothed' \in IF SensesVMs /\ HasSmoothers THEN {smoothed, TRUE} ELSE {smoothed}
  /\ UNCHANGED <<cfg, pc, counterVars, window, previous, used, reused, shown, repeated, modelVars,
                 solverVars, controlVars, struck, resets>>

\* A row is written for every observation, of any sensor; a VM without one has no column.
SampleThrows ==
  /\ pc = "idle" /\ pc' = "thrown"
  /\ \/ Does("sample", "rows") /\ cfg.exporting /\ cfg.extended /\ struck' = struck
     \/ SensesVMs /\ Strikes("vm")
  /\ UNCHANGED <<cfg, counterVars, estimateVars, modelVars, solverVars, controlVars, resets>>

-----------------------------------------------------------------------------
(* control(): the estimates, and whether there is a control at all         *)

\* The error of the first target is the first one since the reset: the loop is left.
Breaks == Does("decide", "previousError") /\ ~previous /\ 1 \in observed

\* The targets that the loops reach and estimate
Estimated ==
  IF Does("decide", "eachTarget")
  THEN {t \in Targets : (\A u \in 1..t : u \in observed) /\ (Breaks => t = 1)}
  ELSE IF Does("decide", "allTargets")
  THEN {t \in Targets : observed = Targets /\ (Does("decide", "ready") => smoothed)}
  ELSE {}

LooksAtTargets == Does("decide", "eachTarget") \/ Does("decide", "allTargets")

\* The estimators that the loop resets, in a build that resets them
BugResetEstimators == IF ~cfg.resetEvery \/ Breaks THEN {} ELSE Estimated \ {1}
ResetEstimators == IF ~cfg.resetEvery \/ Breaks THEN {} ELSE Estimated

\* The shares of the VMs are read, and the smoothers are asked for the utilisations.
ReadsShares ==
  Does("decide", "readsFirst") \/ (Does("decide", "readsAfter") /\ Estimated = Targets)

\* The smoothers that it asks for do not exist.
LacksSmoothers == ReadsShares /\ ~HasSmoothers

BugSkips ==
  LooksAtTargets /\
    \/ observed = {} \/ Breaks
    \/ Does("decide", "warmup") /\ controls' <= Warmup
    \/ Does("decide", "window") /\ window' < OrderPlus

Skips ==
  LooksAtTargets /\
    \/ Estimated # Targets \/ Breaks
    \/ Does("decide", "warmup") /\ controls' <= Warmup
    \/ Does("decide", "window") /\ window' < OrderPlus

Decide ==
  /\ pc = "idle" /\ controls < MaxControls /\ ~LacksSmoothers
  /\ controls' = controls + 1
  /\ errors' = Estimated
  /\ observed' = observed \ ResetEstimators
  /\ used' = (used \cup Estimated) \ ResetEstimators
  /\ reused' = (reused \/ Estimated \cap used # {})
  /\ shown' = shown \ ResetEstimators
  /\ window' = IF Does("decide", "window") /\ Estimated = Targets /\ window < OrderPlus
               THEN window + 1 ELSE window
  /\ previous' = (previous \/ Breaks)
  /\ IF Skips
     THEN /\ pc' = "export" /\ outcome' = "skipped" /\ skipped' = skipped + 1
     ELSE /\ pc' = IF Learns THEN "learn" ELSE "solve"
          /\ UNCHANGED <<outcome, skipped>>
  /\ UNCHANGED <<cfg, failed, unidentified, applied, silent, negatives, smoothed, repeated,
                 modelVars, solverVars, slot, partial, written, struck, resets>>

DecideThrows ==
  /\ pc = "idle" /\ controls < MaxControls
  /\ controls' = controls + 1 /\ pc' = "thrown"
  /\ \/ LacksSmoothers /\ struck' = struck
     \/ ReadsShares /\ Strikes("vm")
  /\ UNCHANGED <<cfg, skipped, failed, unidentified, applied, silent, negatives, estimateVars,
                 modelVars, solverVars, controlVars, resets>>

-----------------------------------------------------------------------------
(* control(): update_anfis_model()                                         *)

\* A sample is added; a model that exists is trained with what there is, by an online trainer
\* at once, by another once there is enough; else one is built once there are enough samples.
\* Without a model there is no control.
Learn ==
  /\ pc = "learn"
  /\ samples' = samples + 1
  /\ trained' = (trained \/ trainset + 1 >= TrainMin)
  /\ trainset' \in IF ~trained' THEN {trainset + 1}
                   ELSE IF trained /\ trainset + 1 < BatchMin THEN {0, trainset + 1}
                   ELSE {0}
  /\ IF trained'
     THEN pc' = "solve" /\ UNCHANGED <<outcome, skipped>>
     ELSE pc' = "export" /\ outcome' = "skipped" /\ skipped' = skipped + 1
  /\ UNCHANGED <<cfg, controls, failed, unidentified, applied, silent, negatives, estimateVars,
                 solverVars, errors, slot, partial, written, struck, resets>>

LearnThrows ==
  /\ pc = "learn" /\ Strikes("model") /\ pc' = "thrown"
  /\ UNCHANGED <<cfg, counterVars, estimateVars, modelVars, solverVars, controlVars, resets>>

-----------------------------------------------------------------------------
(* control(): the control problem                                          *)

May(end) == pc = "solve" /\ Does("solve", end)

\* The code can only manage one target, and says so.
OnlyOneTarget == Does("apply", "oneTarget") => cfg.targets = 1

Identifies == Does("solve", "unidentified")
Identify == identified' = IF Identifies /\ identified <= SysIdMin THEN identified + 1 ELSE identified

Solved ==
  /\ May("solved") /\ OnlyOneTarget
  /\ Identify /\ (Identifies => identified' > SysIdMin)
  /\ pc' = "write"
  /\ UNCHANGED <<cfg, counterVars, estimateVars, modelVars, relFails, controlVars, struck, resets>>

BugSolveFails ==
  /\ \/ May("failed") /\ partial' = FALSE
     \/ May("partly") /\ cfg.vms > 1 /\ partial' = TRUE
  /\ OnlyOneTarget
  /\ Identify /\ (Identifies => identified' > SysIdMin)
  /\ relFails' = IF Does("apply", "fallback") THEN relFails + 1 ELSE relFails
  /\ failed' = failed + 1 /\ outcome' = "failed" /\ pc' = "write"
  /\ UNCHANGED <<cfg, controls, skipped, unidentified, applied, silent, negatives, estimateVars,
                 modelVars, errors, slot, written, struck, resets>>

\* An exception of the solver is logged, and no share is written.
SolveFails ==
  /\ \/ May("failed") /\ partial' = FALSE
     \/ May("partly") /\ cfg.vms > 1 /\ partial' = TRUE
  /\ OnlyOneTarget
  /\ Identify /\ (Identifies => identified' > SysIdMin)
  /\ IF Does("apply", "fallback")
     THEN relFails + 1 < RelFailMax /\ relFails' = relFails + 1
     ELSE relFails' = relFails
  /\ failed' = failed + 1 /\ outcome' = "failed" /\ pc' = "export"
  /\ UNCHANGED <<cfg, controls, skipped, unidentified, applied, silent, negatives, estimateVars,
                 modelVars, errors, slot, written, struck, resets>>

\* After enough failures the utilisations are written instead.
FallBack ==
  /\ May("failed") /\ Does("apply", "fallback") /\ relFails + 1 >= RelFailMax
  /\ relFails' = 0 /\ pc' = "write"
  /\ UNCHANGED <<cfg, counterVars, estimateVars, modelVars, identified, controlVars, struck, resets>>

\* A negative optimum is no exception: it is counted where it is found and, as a failure,
\* once more.
SolvedNegative ==
  /\ May("negative") /\ Identify /\ identified' > SysIdMin
  /\ failed' = failed + 2 /\ negatives' = negatives + 1
  /\ outcome' = "failed" /\ pc' = "export"
  /\ UNCHANGED <<cfg, controls, skipped, unidentified, applied, silent, estimateVars, modelVars,
                 relFails, errors, slot, partial, written, struck, resets>>

\* The identification fails, and starts again.
NotIdentified ==
  /\ May("unidentified") /\ identified' = 0
  /\ unidentified' = unidentified + 1 /\ outcome' = "unidentified" /\ pc' = "export"
  /\ UNCHANGED <<cfg, controls, skipped, failed, applied, silent, negatives, estimateVars,
                 modelVars, relFails, errors, slot, partial, written, struck, resets>>

\* Too few samples to identify from, or nothing to control: no counter changes.
NothingToDo ==
  /\ \/ May("learning") /\ Identify /\ identified' <= SysIdMin
     \/ May("nothing") /\ identified' = identified
  /\ silent' = silent + 1 /\ outcome' = "silent" /\ pc' = "export"
  /\ UNCHANGED <<cfg, controls, skipped, failed, unidentified, applied, negatives, estimateVars,
                 modelVars, relFails, errors, slot, partial, written, struck, resets>>

\* MATLAB ends before its answer is read: an empty vector is taken for the shares.
SolvedShort ==
  /\ May("short") /\ pc' = "undefined"
  /\ UNCHANGED <<cfg, counterVars, estimateVars, modelVars, solverVars, controlVars, struck, resets>>

SolveThrows ==
  /\ pc = "solve" /\ ~OnlyOneTarget /\ pc' = "thrown"
  /\ UNCHANGED <<cfg, counterVars, estimateVars, modelVars, solverVars, controlVars, struck, resets>>

Solve ==
  \/ Solved \/ SolveFails \/ FallBack \/ SolvedNegative \/ NotIdentified \/ NothingToDo
  \/ SolvedShort \/ SolveThrows

-----------------------------------------------------------------------------
(* control(): the shares                                                   *)

\* A share is written if it is finite and differs from the one that the VM has.
Write ==
  /\ pc = "write"
  /\ written' \in {written, written \cup {slot}}
  /\ slot' = slot + 1
  /\ IF slot' \in Slots
     THEN UNCHANGED <<pc, applied, outcome>>
     ELSE pc' = "export" /\ applied' = applied + 1 /\ outcome' = "applied"
  /\ UNCHANGED <<cfg, controls, skipped, failed, unidentified, silent, negatives, estimateVars,
                 modelVars, solverVars, errors, partial, struck, resets>>

\* Where shares are written as they are solved, a failure leaves those that are written.
WriteFails ==
  /\ pc = "write" /\ Does("apply", "asSolved")
  /\ \/ partial' = (slot > 1) /\ struck' = struck
     \/ partial' = TRUE /\ Strikes("vm")
  /\ failed' = failed + 1 /\ outcome' = "failed" /\ pc' = "export"
  /\ UNCHANGED <<cfg, controls, skipped, unidentified, applied, silent, negatives, estimateVars,
                 modelVars, solverVars, errors, slot, written, resets>>

WriteThrows ==
  /\ pc = "write" /\ ~Does("apply", "asSolved") /\ Strikes("vm") /\ pc' = "thrown"
  /\ UNCHANGED <<cfg, counterVars, estimateVars, modelVars, solverVars, controlVars, resets>>

-----------------------------------------------------------------------------
(* control(): the line of data.  What could not be computed is replaced if *)
(* none of its values could.  The outputs are estimated for it once more,  *)
(* from what the estimators hold by then.                                  *)

BugErrorMissing == Does("export", "errors") /\ errors # Targets
ErrorMissing == Does("export", "errors") /\ errors # {} /\ errors # Targets

\* The targets whose observations are in the line; it resets none of their estimators.
Shown == IF cfg.exporting THEN observed ELSE {}

Export ==
  /\ pc = "export" /\ pc' = "idle"
  /\ cfg.exporting => ~ErrorMissing /\ ~(partial /\ Does("export", "deltas"))
  /\ shown' = shown \cup Shown
  /\ repeated' = (repeated \/ Shown \cap shown # {})
  /\ errors' = {} /\ slot' = 1 /\ partial' = FALSE /\ written' = {} /\ outcome' = "none"
  /\ UNCHANGED <<cfg, counterVars, observed, smoothed, window, previous, used, reused, modelVars,
                 solverVars, struck, resets>>

ExportThrows ==
  /\ pc = "export" /\ cfg.exporting /\ pc' = "thrown"
  /\ \/ ErrorMissing /\ struck' = struck
     \/ partial /\ Does("export", "deltas") /\ ~Does("export", "unchecked") /\ struck' = struck
     \/ Strikes("vm")
  /\ UNCHANGED <<cfg, counterVars, estimateVars, modelVars, solverVars, controlVars, resets>>

\* The vector of changes is read beyond its end.
ExportUndefined ==
  /\ pc = "export" /\ cfg.exporting /\ pc' = "undefined"
  /\ ~ErrorMissing /\ partial /\ Does("export", "unchecked")
  /\ UNCHANGED <<cfg, counterVars, estimateVars, modelVars, solverVars, controlVars, struck, resets>>

-----------------------------------------------------------------------------
Over == pc \in {"thrown", "undefined"} /\ UNCHANGED vars

Next ==
  \/ Reset \/ ResetThrows \/ Sample \/ SampleThrows
  \/ Decide \/ DecideThrows \/ Learn \/ LearnThrows \/ Solve
  \/ Write \/ WriteFails \/ WriteThrows
  \/ Export \/ ExportThrows \/ ExportUndefined
  \/ Over

Spec == Init /\ [][Next]_vars

-----------------------------------------------------------------------------
(* Properties *)

\* No share is changed but by a control that has estimated every target since the reset,
\* after the warm-up and with a full history of outputs; one that learns acts on a model
\* that was imported, or built from enough samples taken since the reset.  The excitation
\* of the VMs for an identification needs none of it.
InformedControl ==
  written # {} /\ cfg.kind # "sysid" =>
    /\ errors = Targets
    /\ Does("decide", "warmup") => controls > Warmup
    /\ Learns => /\ trained /\ window = OrderPlus
                 /\ cfg.prebuilt \/ Does("reset", "prebuilt") \/ samples >= TrainMin

\* A control that is counted as skipped or failed has changed no share, unless shares are
\* written while the next ones are still to be solved.
SharesKept ==
  outcome \in {"skipped", "failed", "unidentified", "silent"} /\ written # {} =>
    cfg.kind \in {"mimo_v4", "fcms"}

\* In a build that resets the estimators every interval no observation is used by two
\* controls, but for the first error of a manager that needs two; nor is one in two lines of
\* data, unless a control may leave it in its estimator: that of guazzone, which waits for
\* the smoothers; that of sysid, whose reset is compiled for a macro of another name; and
\* that of any manager with two targets, which stops at the first one without observations.
ObservationsUsedOnce ==
  cfg.resetEvery =>
    /\ reused => cfg.kind = "mimo_v2"
    /\ repeated => cfg.kind \in {"guazzone", "sysid"} \/ cfg.targets = 2

\* The exported counters add up: every control that was not applied is counted as skipped,
\* failed or not identified, except those that had nothing to do; a negative optimum counts
\* as two failures.
CountersAddUp ==
  pc = "idle" =>
    controls = applied + skipped + (failed - negatives) + unidentified + silent

\* What can end the program: with one target, no failing VM, file or model, and shares
\* that can all be solved or none of them, control() always returns -- but not that of a
\* manager that makes its smoothers only for the output file when there is no such file,
\* nor one that takes MATLAB's missing answer for an answer.
EscapesExplained ==
  pc \in {"thrown", "undefined"} =>
    \/ struck # {}
    \/ cfg.targets = 2 /\ cfg.kind \in {"dummy", "albano", "albano_v4", "albano_v5", "fc2q",
                                        "padala", "rao"}
    \/ cfg.exporting /\ partial
    \/ cfg.exporting /\ cfg.extended /\ cfg.kind = "sysid"
    \/ ~cfg.exporting /\ cfg.kind \in {"lama2013", "lama2015", "wang_fmpc", "wang_qos"}
    \/ cfg.kind \in {"wang_fmpc", "wang_qos"} /\ pc = "undefined"
=============================================================================
