--------------------------- MODULE DataEstimators ---------------------------
(***************************************************************************)
(* The estimators and smoothers (data_estimators.hpp, data_smoothers.hpp)  *)
(* between the sensors of a manager and its control(): sample() hands them *)
(* one observation at a time, control() asks for an estimate and, in some  *)
(* builds, resets the estimator, then the statistics gatherer asks again.  *)
(*                                                                         *)
(* Observations are numbered as they come.  Of an estimate the model keeps *)
(* the observations that its value may depend on, and whether it is a      *)
(* number at all.                                                          *)
(***************************************************************************)
EXTENDS Naturals, Sequences, FiniteSets, SequencesExt

CONSTANTS
  Kinds,       \* the estimators and smoothers considered
  WindowSize,  \* M, the capacity of sample_buf_
  MaxObs,      \* bound: observations
  MaxResets    \* bound: resets of the manager

(***************************************************************************)
(* Estimators:                                                             *)
(*   staged      collects observations, and uses them when it is asked     *)
(*   windowed    completes what it has collected by the latest ones ever   *)
(*   quartiles   needs several quantiles at once to begin with             *)
(*   gain        its gain is 1 / sqrt(updates before)                      *)
(*   keeps       does not forget its quantiles at a reset                  *)
(*   fifth       begins with the fifth observation                         *)
(*   latest      only knows the latest observation                         *)
(* Smoothers (they are not reset by control()):                            *)
(*   trend       the second observation only sets its trend                *)
(***************************************************************************)
Bakshi == {"staged", "windowed", "gain"}
BakshiNonstationary == {"staged", "windowed"}
Chambers == {"staged", "keeps"}
ChenEwma == {"staged", "windowed"}
ChenEwsa == {"staged", "windowed", "quartiles"}
ChenSa == {"staged", "windowed", "quartiles"}
Dunning == {}
Jain == {"fifth"}
MeanOf == {}
MostRecentlyObserved == {"latest"}
RecursiveQuantile == {"staged", "quartiles"}
TrueQuantile == {}
WelshEwma == {"staged"}
DummySmoother == {"smoother", "latest"}
BrownSingle == {"smoother"}
HoltWinters == {"smoother", "trend"}
BrownDouble == {"smoother"}

Estimators ==
  [bakshi |-> Bakshi, bakshi_nonstationary |-> BakshiNonstationary, chambers |-> Chambers,
   chen_ewma |-> ChenEwma, chen_ewsa |-> ChenEwsa, chen_sa |-> ChenSa, dunning |-> Dunning,
   jain |-> Jain, mean |-> MeanOf, most_recently_observed |-> MostRecentlyObserved,
   recursive |-> RecursiveQuantile, true_quantile |-> TrueQuantile, welsh |-> WelshEwma,
   dummy |-> DummySmoother, brown |-> BrownSingle, holt_winters |-> HoltWinters,
   brown_double |-> BrownDouble]

ASSUME EstimatorKindsAssumption == Kinds \subseteq DOMAIN Estimators
ASSUME EstimatorSizesAssumption ==
  WindowSize \in Nat \ {0} /\ MaxObs \in Nat /\ MaxResets \in Nat

VARIABLES
  kind, resetEvery,  \* the estimator, and whether the build resets it every interval
  pc,        \* idle, gather: control() is done and the gatherer is called, undefined
  seen,      \* observations so far
  since,     \* how many of them came before the last reset
  data,      \* data_: collected and not used yet
  window,    \* sample_buf_
  init,      \* init_
  base,      \* the observations that the estimate may depend on
  left,      \* those that qile_ may depend on, which a reset does not clear
  value,     \* default (0 or no number), number, infinite
  updates,   \* updates of the estimate since the reset
  resets,
  fresh,     \* history: observations since the last estimate
  used,      \* history: the estimate that control() used, or none
  gathered   \* history: the estimate that the gatherer got after it, or none

estVars == <<data, window, init, base, left, value, updates>>
vars == <<kind, resetEvery, pc, seen, since, estVars, resets, fresh, used, gathered>>

Is(trait) == trait \in Estimators[kind]

\* count(); a smoother is ready() when there was an observation, but for dummy_smoother, which
\* always is.
Count == seen - since

None == [base |-> {}, value |-> "none", updates |-> 0, since |-> 0, count |-> 0, fresh |-> {}]

Estimates ==
  [base : SUBSET (1..MaxObs), value : {"none", "default", "number", "infinite"}, updates : Nat,
   since : 0..MaxObs, count : 0..MaxObs, fresh : SUBSET (1..MaxObs)]

TypeOK ==
  /\ kind \in Kinds /\ resetEvery \in BOOLEAN /\ pc \in {"idle", "gather", "undefined"}
  /\ seen \in 0..MaxObs /\ since \in 0..seen
  /\ data \in Seq(1..MaxObs) /\ window \in Seq(1..MaxObs) /\ Len(window) <= WindowSize
  /\ init \in BOOLEAN /\ base \subseteq 1..seen /\ left \subseteq 1..seen
  /\ value \in {"default", "number", "infinite"} /\ updates \in Nat
  /\ resets \in 0..MaxResets /\ fresh \subseteq (since + 1)..seen
  /\ used \in Estimates /\ gathered \in Estimates

Init ==
  /\ kind \in Kinds /\ resetEvery \in BOOLEAN /\ pc = "idle"
  /\ seen = 0 /\ since = 0
  /\ data = <<>> /\ window = <<>> /\ init = TRUE
  /\ base = {} /\ left = {} /\ value = "default" /\ updates = 0
  /\ resets = 0 /\ fresh = {} /\ used = None /\ gathered = None

-----------------------------------------------------------------------------
(* collect() or smooth(), with the next observation                        *)

\* The latest observations, WindowSize of them
Windowed(o) ==
  IF ~Is("windowed") THEN window
  ELSE IF Len(window) = WindowSize THEN Append(Tail(window), o)
  ELSE Append(window, o)

\* What the estimate depends on with observation o.  Until there are five, Jain's estimate is
\* the third (and 0 without it); the second of Holt and Winters changes only the trend, which
\* forecast(0) leaves out.
BasedOn(o) ==
  IF Is("latest") THEN {o}
  ELSE IF Is("fifth") /\ Count < 4 THEN {since + 3} \cap 1..o
  ELSE IF Is("trend") /\ Count = 1 THEN base
  ELSE (since + 1)..o

Collect ==
  /\ pc = "idle" /\ seen < MaxObs
  /\ seen' = seen + 1 /\ fresh' = fresh \cup {seen'}
  /\ window' = Windowed(seen')
  /\ IF Is("staged")
     THEN data' = Append(data, seen') /\ UNCHANGED <<base, value>>
     ELSE /\ base' = BasedOn(seen') /\ data' = data
          /\ value' = IF base' = {} THEN "default" ELSE "number"
  /\ UNCHANGED <<kind, resetEvery, pc, since, init, left, updates, resets, used, gathered>>

-----------------------------------------------------------------------------
(* estimate() and forecast(0)                                              *)

\* What the estimate is updated with: too few observations are completed by older ones.
Batch == IF Is("windowed") /\ Len(data) <= Len(window) THEN window ELSE data

\* Several quantiles at once read hi[-1] as soon as one of them lies between two samples.
ReadsBeforeFirst == Is("quartiles") /\ init /\ Len(Batch) > 1

BugUpdate ==
  IF data = <<>>
  THEN UNCHANGED <<data, init, base, left, value, updates>>
  ELSE /\ init' = (init /\ Is("windowed") /\ Len(window) < WindowSize)
       /\ base' = (IF init THEN left ELSE base) \cup ToSet(Batch)
       /\ left' = IF Is("keeps") THEN base' ELSE left
       /\ value' = IF Is("gain") /\ ~init THEN "infinite" ELSE "number"
       /\ updates' = updates + 1
       /\ data' = data

\* What was collected is used up.
Update ==
  IF data = <<>>
  THEN UNCHANGED <<data, init, base, left, value, updates>>
  ELSE /\ init' = (init /\ Is("windowed") /\ Len(window) < WindowSize)
       /\ base' = (IF init THEN left ELSE base) \cup ToSet(Batch)
       /\ left' = IF Is("keeps") THEN base' ELSE left
       /\ value' = IF Is("gain") /\ ~init THEN "infinite" ELSE "number"
       /\ updates' = updates + 1
       /\ data' = <<>>

\* The estimate as a caller gets it
Estimate(b, v, u) ==
  [base |-> b, value |-> v, updates |-> u, since |-> since, count |-> Count, fresh |-> fresh]

BugClear ==
  /\ data' = <<>> /\ window' = window /\ init' = TRUE
  /\ base' = {} /\ value' = "default" /\ updates' = 0 /\ since' = seen /\ fresh' = {}

\* reset()
Clear ==
  /\ data' = <<>> /\ window' = <<>> /\ init' = TRUE
  /\ base' = {} /\ value' = "default" /\ updates' = 0 /\ since' = seen /\ fresh' = {}

-----------------------------------------------------------------------------
(* control(), the gatherer after it, and reset() of the manager            *)

\* Without observations an estimator is not asked, unless by the gatherer.
ControlWithout ==
  /\ pc = "idle" /\ Count = 0 /\ ~Is("smoother")
  /\ used' = None /\ gathered' = None /\ pc' = "gather"
  /\ UNCHANGED <<kind, resetEvery, seen, since, estVars, resets, fresh>>

\* A smoother is asked, ready() or not.
Forecast ==
  /\ pc = "idle" /\ Is("smoother")
  /\ used' = Estimate(base, value, updates) /\ gathered' = None /\ fresh' = {}
  /\ UNCHANGED <<kind, resetEvery, pc, seen, since, estVars, resets>>

\* In a build that goes on with the estimator
Control ==
  /\ pc = "idle" /\ Count > 0 /\ ~resetEvery /\ ~Is("smoother")
  /\ Update /\ fresh' = {}
  /\ used' = Estimate(base', value', updates') /\ gathered' = None /\ pc' = "gather"
  /\ UNCHANGED <<kind, resetEvery, seen, since, window, resets>>

\* In a build that resets the estimator once it has its estimate: of the update only qile_ is
\* left.
ControlAndReset ==
  /\ pc = "idle" /\ Count > 0 /\ resetEvery /\ ~Is("smoother")
  /\ LET b == IF data = <<>> THEN base ELSE (IF init THEN left ELSE base) \cup ToSet(Batch)
         v == IF data = <<>> THEN value ELSE IF Is("gain") /\ ~init THEN "infinite" ELSE "number"
     IN  /\ used' = Estimate(b, v, IF data = <<>> THEN updates ELSE updates + 1)
         /\ left' = IF Is("keeps") THEN b ELSE left
  /\ Clear
  /\ gathered' = None /\ pc' = "gather"
  /\ UNCHANGED <<kind, resetEvery, seen, resets>>

ControlUndefined ==
  /\ pc = "idle" /\ Count > 0 /\ data # <<>> /\ ReadsBeforeFirst /\ pc' = "undefined"
  /\ UNCHANGED <<kind, resetEvery, seen, since, estVars, resets, fresh, used, gathered>>

\* The handler of the gatherer asks for the estimate again.
Gather ==
  /\ pc = "gather" /\ pc' = "idle"
  /\ Update /\ fresh' = {}
  /\ gathered' = Estimate(base', value', updates')
  /\ UNCHANGED <<kind, resetEvery, seen, since, window, resets, used>>

Reset ==
  /\ pc = "idle" /\ resets < MaxResets
  /\ resets' = resets + 1
  /\ Clear /\ used' = None /\ gathered' = None
  /\ UNCHANGED <<kind, resetEvery, pc, seen, left>>

Over == pc = "undefined" /\ UNCHANGED vars

Next ==
  \/ Collect \/ ControlWithout \/ Forecast \/ Control \/ ControlAndReset \/ ControlUndefined
  \/ Gather \/ Reset \/ Over

Spec == Init /\ [][Next]_vars

-----------------------------------------------------------------------------
(* Properties *)

\* An estimate that a control uses depends on every observation collected since the estimate
\* before, and on none from before the reset; it is a number if there was one.  But Chambers'
\* quantiles survive a reset, the second update of Bakshi's stationary estimator is not
\* finite, Jain's estimate is no quantile before the fifth observation (0 before the third),
\* the second observation of Holt and Winters is not seen, and a smoother that is not ready
\* answers all the same.
EstimateOfThisPeriod ==
  used # None =>
    /\ ~Is("keeps") => \A o \in used.base : o > used.since
    /\ \/ used.fresh \subseteq used.base \/ Is("latest")
       \/ Is("fifth") /\ used.count < 5
       \/ Is("trend") /\ used.count = 2
    /\ CASE used.value = "number" -> used.count > 0
         [] used.value = "infinite" -> kind = "bakshi" /\ used.updates > 1
         [] used.value = "default" -> \/ Is("fifth") /\ used.count < 3
                                      \/ Is("smoother") /\ used.count = 0
         [] OTHER -> FALSE

\* The gatherer records the estimate that the control used: asking again changes nothing.
\* Where the control had none, or has reset the estimator, it records the default.
GatheredIsUsed ==
  gathered # None =>
    IF used = None \/ resetEvery
    THEN gathered.value = "default"
    ELSE /\ gathered.base = used.base /\ gathered.value = used.value
         /\ gathered.updates = used.updates
=============================================================================
