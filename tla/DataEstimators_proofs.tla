------------------------- MODULE DataEstimators_proofs -------------------------
(***************************************************************************)
(* Proofs about DataEstimators, for every set of estimators and smoothers, *)
(* every size of the window and any number of observations and resets.     *)
(***************************************************************************)
EXTENDS DataEstimators, SequenceTheorems, TLAPS

-----------------------------------------------------------------------------
(* The estimators                                                          *)

\* What the traits of an estimator say of each other.
LEMMA Traits ==
  ASSUME kind \in DOMAIN Estimators
  PROVE  /\ Is("windowed") \/ Is("keeps") \/ Is("gain") => Is("staged")
         /\ Is("staged") => ~Is("smoother") /\ ~Is("latest") /\ ~Is("fifth") /\ ~Is("trend")
         /\ Is("gain") => kind = "bakshi"
         /\ Is("fifth") => ~Is("latest") /\ ~Is("trend") /\ ~Is("smoother")
         /\ Is("trend") => ~Is("latest")
<1> USE DEF Is, Estimators
<1>1. CASE kind = "bakshi" \/ kind = "bakshi_nonstationary" \/ kind = "chambers"
  BY <1>1 DEF Bakshi, BakshiNonstationary, Chambers
<1>2. CASE kind = "chen_ewma" \/ kind = "chen_ewsa" \/ kind = "chen_sa"
  BY <1>2 DEF ChenEwma, ChenEwsa, ChenSa
<1>3. CASE kind = "dunning" \/ kind = "jain" \/ kind = "mean"
  BY <1>3 DEF Dunning, Jain, MeanOf
<1>4. CASE kind = "most_recently_observed" \/ kind = "recursive" \/ kind = "true_quantile"
  BY <1>4 DEF MostRecentlyObserved, RecursiveQuantile, TrueQuantile
<1>5. CASE kind = "welsh" \/ kind = "dummy" \/ kind = "brown"
  BY <1>5 DEF WelshEwma, DummySmoother, BrownSingle
<1>6. CASE kind = "holt_winters" \/ kind = "brown_double"
  BY <1>6 DEF HoltWinters, BrownDouble
<1>7. QED
  BY <1>1, <1>2, <1>3, <1>4, <1>5, <1>6

-----------------------------------------------------------------------------
(* Sequences of the latest observations                                    *)

\* s holds the latest observations up to the n-th, in their order.
Latest(s, n) ==
  /\ s \in Seq(1..MaxObs) /\ Len(s) <= n
  /\ \A k \in 1..Len(s) : s[k] = (n - Len(s)) + k

LEMMA LatestNone ==
  ASSUME NEW n \in Nat
  PROVE  Latest(<<>>, n)
BY EmptySeq DEF Latest

LEMMA LatestAppend ==
  ASSUME NEW n \in Nat, n < MaxObs, NEW s, Latest(s, n)
  PROVE  Latest(Append(s, n + 1), n + 1) /\ Len(Append(s, n + 1)) = Len(s) + 1
<1>1. n + 1 \in 1..MaxObs /\ s \in Seq(1..MaxObs) /\ Len(s) \in Nat
  BY EstimatorSizesAssumption, LenProperties DEF Latest
<1>2. /\ Append(s, n + 1) \in Seq(1..MaxObs)
      /\ Len(Append(s, n + 1)) = Len(s) + 1
      /\ \A k \in 1..Len(s) : Append(s, n + 1)[k] = s[k]
      /\ Append(s, n + 1)[Len(s) + 1] = n + 1
  BY <1>1, AppendProperties
<1>3. ASSUME NEW k \in 1..(Len(s) + 1)
      PROVE  Append(s, n + 1)[k] = ((n + 1) - (Len(s) + 1)) + k
  <2>1. CASE k \in 1..Len(s)
    BY <1>1, <1>2, <2>1 DEF Latest
  <2>2. CASE k = Len(s) + 1
    BY <1>1, <1>2, <2>2
  <2>3. QED
    BY <1>1, <2>1, <2>2
<1>4. QED
  BY <1>1, <1>2, <1>3 DEF Latest

LEMMA LatestTail ==
  ASSUME NEW n \in Nat, NEW s, Latest(s, n), s # <<>>
  PROVE  Latest(Tail(s), n) /\ Len(Tail(s)) = Len(s) - 1
<1>1. s \in Seq(1..MaxObs) /\ Len(s) \in Nat
  BY LenProperties DEF Latest
<1>2. /\ Tail(s) \in Seq(1..MaxObs) /\ Len(Tail(s)) = Len(s) - 1
      /\ \A k \in 1..Len(Tail(s)) : Tail(s)[k] = s[k + 1]
  BY <1>1, HeadTailProperties
<1>3. ASSUME NEW k \in 1..Len(Tail(s))
      PROVE  Tail(s)[k] = (n - Len(Tail(s))) + k
  <2>1. k + 1 \in 1..Len(s)
    BY <1>1, <1>2
  <2>2. QED
    BY <1>1, <1>2, <2>1 DEF Latest
<1>4. QED
  BY <1>1, <1>2, <1>3 DEF Latest

\* Their set is an interval.
LEMMA LatestSet ==
  ASSUME NEW n \in Nat, NEW s, Latest(s, n)
  PROVE  ToSet(s) = ((n - Len(s)) + 1)..n
<1>1. Len(s) \in Nat /\ Len(s) <= n /\ DOMAIN s = 1..Len(s)
  BY LenProperties DEF Latest
<1>2. ToSet(s) = {s[k] : k \in 1..Len(s)}
  BY <1>1 DEF ToSet
<1>3. ASSUME NEW o \in ((n - Len(s)) + 1)..n
      PROVE  o \in ToSet(s)
  <2>1. o - (n - Len(s)) \in 1..Len(s)
    BY <1>1
  <2>2. s[o - (n - Len(s))] = o
    BY <1>1, <2>1 DEF Latest
  <2>3. QED
    BY <1>2, <2>1, <2>2
<1>4. ASSUME NEW k \in 1..Len(s)
      PROVE  s[k] \in ((n - Len(s)) + 1)..n
  BY <1>1 DEF Latest
<1>5. QED
  BY <1>2, <1>3, <1>4

LEMMA NoneIsEmpty ==
  ASSUME NEW s, s \in Seq(1..MaxObs)
  PROVE  s = <<>> <=> Len(s) = 0
BY LenProperties, EmptySeq, SeqEqual

-----------------------------------------------------------------------------
(* The invariant                                                           *)

TypeInv ==
  /\ kind \in Kinds /\ resetEvery \in BOOLEAN /\ pc \in {"idle", "gather", "undefined"}
  /\ seen \in 0..MaxObs /\ since \in 0..seen /\ init \in BOOLEAN
  /\ base \subseteq 1..seen /\ left \subseteq 1..seen
  /\ value \in {"default", "number", "infinite"} /\ updates \in Nat
  /\ resets \in 0..MaxResets /\ fresh \subseteq (since + 1)..seen
  /\ used \in Estimates /\ gathered \in Estimates

\* What is collected, and what the window holds, are the latest observations since the reset.
CollectedInv ==
  /\ Latest(data, seen) /\ Len(data) <= Count
  /\ Latest(window, seen) /\ Len(window) <= Count /\ Len(window) <= WindowSize
  /\ ~Is("staged") => data = <<>>
  /\ ~Is("windowed") => window = <<>>

\* What the estimate depends on, and what it is yet to be updated with, cover everything since
\* the estimate before.
BaseInv ==
  /\ ~Is("keeps") => base \subseteq (since + 1)..seen /\ left = {}
  /\ Is("staged") => fresh \subseteq ((seen - Len(data)) + 1)..seen
  /\ \/ Is("staged") \/ Is("latest")
     \/ (since + 1)..seen \subseteq base
     \/ Is("fifth") /\ Count < 5
     \/ Is("trend") /\ Count = 2

\* An estimate is a default only before the first update.
ValueInv ==
  /\ value # "default" => Count > 0
  /\ value = "infinite" => Is("gain") /\ updates > 1
  /\ ~init => updates > 0
  /\ Is("staged") /\ value = "default" => Len(data) = Count
  /\ ~Is("staged") /\ value = "default" => Count = 0 \/ (Is("fifth") /\ Count < 3)

\* What the gatherer will find
GatherInv ==
  pc = "gather" =>
    /\ data = <<>>
    /\ used = None \/ resetEvery => value = "default"
    /\ used # None /\ ~resetEvery =>
         base = used.base /\ value = used.value /\ updates = used.updates

Inv ==
  /\ TypeInv /\ CollectedInv /\ BaseInv /\ ValueInv /\ GatherInv
  /\ EstimateOfThisPeriod /\ GatheredIsUsed

LEMMA Numbers ==
  ASSUME TypeInv
  PROVE  /\ kind \in DOMAIN Estimators
         /\ seen \in Nat /\ since \in Nat /\ Count \in Nat /\ Count = seen - since
         /\ MaxObs \in Nat /\ WindowSize \in Nat \ {0} /\ seen <= MaxObs
BY EstimatorKindsAssumption, EstimatorSizesAssumption DEF TypeInv, Count

LEMMA NoneIsEstimate == None \in Estimates
<1>1. 0 \in 0..MaxObs
  BY EstimatorSizesAssumption
<1>2. QED
  BY <1>1 DEF None, Estimates

LEMMA InitInv == Init => Inv
<1> SUFFICES ASSUME Init PROVE Inv
  OBVIOUS
<1>1. TypeInv
  BY NoneIsEstimate, EstimatorSizesAssumption DEF Init, TypeInv
<1>2. CollectedInv
  BY LatestNone, EmptySeq, EstimatorSizesAssumption DEF Init, CollectedInv, Count
<1>3. BaseInv /\ ValueInv
  <2>1. (since + 1)..seen = {}
    BY DEF Init
  <2>2. Len(data) = 0
    BY EmptySeq DEF Init
  <2>3. QED
    BY <2>1, <2>2 DEF Init, BaseInv, ValueInv, Count
<1>4. GatherInv /\ EstimateOfThisPeriod /\ GatheredIsUsed
  BY DEF Init, GatherInv, EstimateOfThisPeriod, GatheredIsUsed
<1>5. QED
  BY <1>1, <1>2, <1>3, <1>4 DEF Inv

-----------------------------------------------------------------------------
(* An estimate                                                             *)

\* The estimate once it is updated with what was collected
UpdatedBase == IF data = <<>> THEN base ELSE (IF init THEN left ELSE base) \cup ToSet(Batch)
UpdatedValue ==
  IF data = <<>> THEN value ELSE IF Is("gain") /\ ~init THEN "infinite" ELSE "number"
Updates == IF data = <<>> THEN updates ELSE updates + 1

\* An estimate that depends on what it should, and is a number when it should be one
Sound(b, v, u) ==
  /\ b \subseteq 1..seen /\ u \in Nat
  /\ ~Is("keeps") => b \subseteq (since + 1)..seen
  /\ \/ fresh \subseteq b \/ Is("latest")
     \/ Is("fifth") /\ Count < 5
     \/ Is("trend") /\ Count = 2
  /\ v \in {"default", "number", "infinite"}
  /\ v = "number" => Count > 0
  /\ v = "infinite" => Is("gain") /\ u > 1
  /\ v = "default" => (Is("fifth") /\ Count < 3) \/ (Is("smoother") /\ Count = 0)

\* The batch is made of observations since the reset, and holds all that was collected.
LEMMA BatchCovers ==
  ASSUME TypeInv, CollectedInv, data # <<>>
  PROVE  /\ ToSet(Batch) \subseteq (since + 1)..seen
         /\ ((seen - Len(data)) + 1)..seen \subseteq ToSet(Batch)
         /\ Count > 0
<1>1. /\ Latest(data, seen) /\ Len(data) <= Count /\ Len(data) \in Nat /\ Len(data) # 0
      /\ Latest(window, seen) /\ Len(window) <= Count /\ Len(window) \in Nat
  BY NoneIsEmpty, LenProperties DEF CollectedInv, Latest
<1>2. /\ ToSet(data) = ((seen - Len(data)) + 1)..seen
      /\ ToSet(window) = ((seen - Len(window)) + 1)..seen
  BY <1>1, LatestSet, Numbers
<1>3. CASE Batch = data
  BY <1>1, <1>2, <1>3, Numbers
<1>4. CASE Batch = window /\ Len(data) <= Len(window)
  BY <1>1, <1>2, <1>4, Numbers
<1>5. QED
  BY <1>3, <1>4, <1>1, Numbers DEF Batch

LEMMA UpdateSound ==
  ASSUME Inv, Count > 0
  PROVE  Sound(UpdatedBase, UpdatedValue, Updates)
<1>1. TypeInv /\ CollectedInv /\ BaseInv /\ ValueInv
  BY DEF Inv
<1>2. CASE data = <<>>
  <2>1. UpdatedBase = base /\ UpdatedValue = value /\ Updates = updates
    BY <1>2 DEF UpdatedBase, UpdatedValue, Updates
  <2>2. Len(data) = 0
    BY <1>2, EmptySeq
  <2>3. Is("staged") => fresh = {} /\ value # "default"
    BY <1>1, <2>2, Numbers DEF BaseInv, ValueInv
  <2>4. QED
    BY <1>1, <2>1, <2>3, Traits, Numbers DEF Sound, TypeInv, BaseInv, ValueInv
<1>3. CASE data # <<>>
  <2>1. Is("staged")
    BY <1>1, <1>3 DEF CollectedInv
  <2>2. /\ UpdatedBase = (IF init THEN left ELSE base) \cup ToSet(Batch)
        /\ UpdatedValue = IF Is("gain") /\ ~init THEN "infinite" ELSE "number"
        /\ Updates = updates + 1
    BY <1>3 DEF UpdatedBase, UpdatedValue, Updates
  <2>3. fresh \subseteq UpdatedBase
    BY <1>1, <1>3, <2>1, <2>2, BatchCovers DEF BaseInv
  <2>4. UpdatedBase \subseteq 1..seen /\ (~Is("keeps") => UpdatedBase \subseteq (since + 1)..seen)
    <3>1. ToSet(Batch) \subseteq (since + 1)..seen /\ (since + 1)..seen \subseteq 1..seen
      BY <1>1, <1>3, BatchCovers, Numbers
    <3>2. QED
      BY <1>1, <2>2, <3>1 DEF TypeInv, BaseInv
  <2>5. UpdatedValue = "infinite" => Is("gain") /\ Updates > 1
    BY <1>1, <2>2 DEF ValueInv, TypeInv
  <2>6. Updates \in Nat /\ UpdatedValue \in {"number", "infinite"}
    BY <1>1, <2>2 DEF TypeInv
  <2>7. QED
    BY <2>3, <2>4, <2>5, <2>6 DEF Sound
<1>4. QED
  BY <1>2, <1>3

\* What a caller gets of a sound estimate is as it should be.
LEMMA SoundUsed ==
  ASSUME TypeInv, NEW b, NEW v, NEW u, Sound(b, v, u),
         used' = Estimate(b, v, u), kind' = kind
  PROVE  EstimateOfThisPeriod' /\ used' \in Estimates /\ used' # None
<1>1. /\ used'.base = b /\ used'.value = v /\ used'.updates = u /\ used'.since = since
      /\ used'.count = Count /\ used'.fresh = fresh
  BY DEF Estimate
<1>2. used' # None
  BY <1>1 DEF None, Sound
<1>3. \A t : Is(t)' <=> Is(t)
  BY DEF Is
<1>4. ~Is("keeps") => \A o \in b : o > since
  BY Numbers DEF Sound
<1>5. v = "infinite" => kind = "bakshi" /\ u > 1
  BY Numbers, Traits DEF Sound
<1>6. EstimateOfThisPeriod'
  BY <1>1, <1>3, <1>4, <1>5 DEF EstimateOfThisPeriod, Sound
<1>7. used' \in Estimates
  <2>1. 1..seen \subseteq 1..MaxObs /\ since \in 0..MaxObs /\ Count \in 0..MaxObs
    BY Numbers
  <2>2. b \subseteq 1..MaxObs /\ fresh \subseteq 1..MaxObs /\ u \in Nat
    BY <2>1, Numbers DEF Sound, TypeInv
  <2>3. QED
    BY <2>1, <2>2 DEF Estimate, Estimates, Sound
<1>8. QED
  BY <1>2, <1>6, <1>7

\* What an update of the estimator does to its state
LEMMA UpdateIs ==
  ASSUME Inv, Update, UNCHANGED <<kind, resetEvery, seen, since, window, resets>>, fresh' = {},
         Count > 0 \/ data = <<>>
  PROVE  /\ base' = UpdatedBase /\ value' = UpdatedValue /\ updates' = Updates /\ data' = <<>>
         /\ base' \subseteq 1..seen /\ left' \subseteq 1..seen /\ updates' \in Nat
         /\ init' \in BOOLEAN /\ value' \in {"default", "number", "infinite"}
         /\ CollectedInv' /\ BaseInv' /\ ValueInv'
<1>1. TypeInv /\ CollectedInv /\ BaseInv /\ ValueInv
  BY DEF Inv
<1>2. /\ base' = UpdatedBase /\ value' = UpdatedValue /\ updates' = Updates /\ data' = <<>>
      /\ left' = (IF data # <<>> /\ Is("keeps") THEN base' ELSE left)
      /\ init' = (IF data = <<>> THEN init ELSE init /\ Is("windowed") /\ Len(window) < WindowSize)
  BY DEF Update, UpdatedBase, UpdatedValue, Updates
<1>3. Count' = Count /\ \A t : Is(t)' <=> Is(t)
  BY DEF Count, Is
<1>4. Len(<<>>) = 0
  BY EmptySeq
<1>5. CollectedInv'
  BY <1>1, <1>2, <1>3, <1>4, LatestNone, Numbers DEF CollectedInv
<1>6. CASE data = <<>>
  <2>1. base' = base /\ value' = value /\ updates' = updates /\ left' = left /\ init' = init
    BY <1>2, <1>6 DEF UpdatedBase, UpdatedValue, Updates
  <2>2. QED
    BY <1>1, <1>2, <1>3, <1>4, <1>5, <1>6, <2>1, Numbers DEF TypeInv, BaseInv, ValueInv
<1>7. CASE data # <<>>
  <2>1. Is("staged") /\ Count > 0
    BY <1>1, <1>7 DEF CollectedInv
  <2>2. Sound(base', value', updates')
    BY <1>2, <2>1, UpdateSound
  <2>3. base' \subseteq 1..seen /\ left' \subseteq 1..seen /\ init' \in BOOLEAN
    BY <1>1, <1>2, <2>2 DEF Sound, TypeInv
  <2>4. BaseInv'
    BY <1>1, <1>2, <1>3, <2>1, <2>2 DEF BaseInv, Sound
  <2>5. value' # "default" /\ updates' > 0
    BY <1>1, <1>2, <1>7 DEF UpdatedValue, Updates, TypeInv
  <2>6. ValueInv'
    BY <1>2, <1>3, <2>1, <2>2, <2>5 DEF ValueInv, Sound
  <2>7. QED
    BY <1>2, <1>5, <2>2, <2>3, <2>4, <2>6 DEF Sound
<1>8. QED
  BY <1>6, <1>7

\* A reset leaves nothing of the estimate but what Chambers' estimator keeps.
LEMMA ClearIs ==
  ASSUME TypeInv, Clear, UNCHANGED <<kind, seen>>, Is("keeps") \/ left' = {}
  PROVE  /\ CollectedInv' /\ BaseInv' /\ ValueInv'
         /\ data' = <<>> /\ value' = "default"
<1>1. /\ data' = <<>> /\ window' = <<>> /\ init' = TRUE /\ base' = {} /\ value' = "default"
      /\ updates' = 0 /\ since' = seen' /\ fresh' = {} /\ seen' = seen
  BY DEF Clear
<1>2. Len(<<>>) = 0 /\ Latest(<<>>, seen) /\ Count' = 0 /\ WindowSize >= 0 /\ seen \in Nat
  BY <1>1, EmptySeq, LatestNone, Numbers DEF Count
<1>3. (since' + 1)..seen' = {} /\ \A t : Is(t)' <=> Is(t)
  BY <1>1, <1>2 DEF Is
<1>4. CollectedInv'
  BY <1>1, <1>2 DEF CollectedInv
<1>5. BaseInv' /\ ValueInv'
  BY <1>1, <1>2, <1>3 DEF BaseInv, ValueInv
<1>6. QED
  BY <1>1, <1>4, <1>5

-----------------------------------------------------------------------------
(* The steps                                                               *)

LEMMA WindowedIs ==
  ASSUME TypeInv, CollectedInv, seen < MaxObs
  PROVE  /\ Latest(Windowed(seen + 1), seen + 1)
         /\ Len(Windowed(seen + 1)) <= Count + 1 /\ Len(Windowed(seen + 1)) <= WindowSize
         /\ ~Is("windowed") => Windowed(seen + 1) = <<>>
<1> DEFINE w == Windowed(seen + 1)
<1>1. /\ Latest(window, seen) /\ Len(window) <= Count /\ Len(window) <= WindowSize
      /\ Len(window) \in Nat /\ (window = <<>> <=> Len(window) = 0)
  BY NoneIsEmpty, LenProperties DEF CollectedInv, Latest
<1>2. ~Is("windowed") => w = <<>>
  BY DEF Windowed, CollectedInv
<1>3. CASE ~Is("windowed")
  <2>1. Len(<<>>) = 0 /\ Latest(<<>>, seen + 1)
    BY EmptySeq, LatestNone, Numbers
  <2>2. QED
    BY <1>2, <1>3, <2>1, Numbers
<1>4. CASE Is("windowed") /\ Len(window) = WindowSize
  <2>1. Latest(Tail(window), seen) /\ Len(Tail(window)) = Len(window) - 1
    BY <1>1, <1>4, LatestTail, Numbers
  <2>2. w = Append(Tail(window), seen + 1)
    BY <1>4 DEF Windowed
  <2>3. Latest(w, seen + 1) /\ Len(w) = Len(Tail(window)) + 1
    BY <2>1, <2>2, LatestAppend, Numbers
  <2> HIDE DEF w
  <2>4. Len(w) = Len(window)
    BY <1>1, <2>1, <2>3
  <2>5. Len(w) <= Count + 1 /\ Len(w) <= WindowSize
    BY <1>1, <2>4, Numbers
  <2>6. QED
    BY <1>4, <2>3, <2>5 DEF w
<1>5. CASE Is("windowed") /\ Len(window) # WindowSize
  <2>1. w = Append(window, seen + 1)
    BY <1>5 DEF Windowed
  <2>2. Latest(w, seen + 1) /\ Len(w) = Len(window) + 1
    BY <1>1, <2>1, LatestAppend, Numbers
  <2> HIDE DEF w
  <2>3. Len(w) <= Count + 1 /\ Len(w) <= WindowSize
    BY <1>1, <1>5, <2>2, Numbers
  <2>4. QED
    BY <1>5, <2>2, <2>3 DEF w
<1>6. QED
  BY <1>3, <1>4, <1>5

LEMMA CollectKeeps ==
  ASSUME Inv, Collect
  PROVE  Inv'
<1>1. TypeInv /\ CollectedInv /\ BaseInv /\ ValueInv
  BY DEF Inv
<1>2. /\ pc = "idle" /\ seen < MaxObs /\ seen' = seen + 1 /\ fresh' = fresh \cup {seen + 1}
      /\ window' = Windowed(seen + 1)
      /\ UNCHANGED <<kind, resetEvery, pc, since, init, left, updates, resets, used, gathered>>
  BY DEF Collect
<1>3. /\ Is("staged") => data' = Append(data, seen + 1) /\ base' = base /\ value' = value
      /\ ~Is("staged") => /\ data' = data /\ base' = BasedOn(seen + 1)
                          /\ value' = IF base' = {} THEN "default" ELSE "number"
  BY <1>2 DEF Collect
<1>4. /\ seen + 1 \in Nat /\ seen + 1 <= MaxObs /\ Count' = Count + 1 /\ Count \in Nat
      /\ \A t : Is(t)' <=> Is(t)
  BY <1>1, <1>2, Numbers DEF Count, Is
<1>5. CollectedInv' /\ (Is("staged") => Len(data') = Len(data) + 1)
  <2>1. /\ Latest(window', seen + 1) /\ Len(window') <= Count' /\ Len(window') <= WindowSize
        /\ ~Is("windowed") => window' = <<>>
    BY <1>1, <1>2, <1>4, WindowedIs
  <2>2. CASE Is("staged")
    <3>0. Latest(data, seen) /\ seen \in Nat
      BY <1>1, Numbers DEF CollectedInv
    <3>1. Latest(data', seen + 1) /\ Len(data') = Len(data) + 1
      BY <1>2, <1>3, <2>2, <3>0, LatestAppend
    <3>2. Len(data') <= Count'
      BY <1>1, <1>4, <3>1, LenProperties DEF CollectedInv, Latest
    <3>3. QED
      BY <1>2, <1>4, <2>1, <2>2, <3>1, <3>2 DEF CollectedInv
  <2>3. CASE ~Is("staged")
    <3>1. data' = <<>> /\ Len(<<>>) = 0 /\ Latest(<<>>, seen + 1)
      BY <1>1, <1>3, <1>4, <2>3, EmptySeq, LatestNone DEF CollectedInv
    <3>2. QED
      BY <1>2, <1>4, <2>1, <2>3, <3>1 DEF CollectedInv
  <2>4. QED
    BY <2>2, <2>3
<1>6. /\ ~Is("staged") => base' \subseteq (since + 1)..(seen + 1)
      /\ base' \subseteq 1..(seen + 1)
  <2>0. since \in Nat /\ seen \in Nat /\ since <= seen /\ base \subseteq 1..seen
    BY <1>1, Numbers DEF TypeInv
  <2>1. CASE Is("staged")
    <3>1. base' = base
      BY <1>3, <2>1
    <3>2. base' \subseteq 1..(seen + 1)
      BY <2>0, <3>1
    <3>3. QED
      BY <2>1, <3>2
  <2>2. CASE ~Is("staged")
    <3>1. \/ base' = base \/ base' = (since + 1)..(seen + 1) \/ base' = {seen + 1}
          \/ base' = {since + 3} \cap 1..(seen + 1)
      BY <1>3, <2>2 DEF BasedOn
    <3>2. base \subseteq (since + 1)..seen
      BY <1>1, <2>2, Traits, Numbers DEF BaseInv
    <3>3. \A o \in base' : o \in (since + 1)..(seen + 1)
      <4>1. CASE base' = base
        BY <2>0, <3>2, <4>1
      <4>2. CASE base' = (since + 1)..(seen + 1) \/ base' = {seen + 1}
        BY <2>0, <4>2
      <4>3. CASE base' = {since + 3} \cap 1..(seen + 1)
        BY <2>0, <4>3
      <4>4. QED
        BY <3>1, <4>1, <4>2, <4>3
    <3>4. QED
      BY <2>0, <2>2, <3>3
  <2>3. QED
    BY <2>1, <2>2
<1>7. TypeInv'
  <2>1. fresh' \subseteq (since + 1)..(seen + 1)
    BY <1>1, <1>2, Numbers DEF TypeInv
  <2>2. left \subseteq 1..(seen + 1) /\ seen + 1 \in 0..MaxObs /\ since \in 0..(seen + 1)
    BY <1>1, <1>4, Numbers DEF TypeInv
  <2>3. value' \in {"default", "number", "infinite"}
    BY <1>1, <1>3 DEF TypeInv
  <2>4. QED
    BY <1>1, <1>2, <1>6, <2>1, <2>2, <2>3 DEF TypeInv
<1>8. BaseInv'
  <2>1. ~Is("keeps") => base' \subseteq (since + 1)..(seen + 1) /\ left = {}
    <3>1. ~Is("keeps") => base \subseteq (since + 1)..(seen + 1)
      BY <1>1, Numbers DEF BaseInv
    <3>2. QED
      BY <1>1, <1>3, <1>6, <3>1 DEF BaseInv
  <2>2. Is("staged") => fresh' \subseteq (((seen + 1) - Len(data')) + 1)..(seen + 1)
    <3>1. Len(data) \in Nat /\ Len(data) <= Count
      BY <1>1, LenProperties DEF CollectedInv, Latest
    <3>2. Is("staged") => fresh' \subseteq ((seen - Len(data)) + 1)..(seen + 1)
      BY <1>1, <1>2, <3>1, Numbers DEF BaseInv
    <3>3. QED
      BY <1>1, <1>5, <3>1, <3>2, Numbers
  <2>3. \/ Is("staged") \/ Is("latest")
        \/ (since + 1)..(seen + 1) \subseteq base'
        \/ Is("fifth") /\ Count + 1 < 5
        \/ Is("trend") /\ Count + 1 = 2
    <3>1. CASE Is("fifth") /\ Count < 4
      BY <1>4, <3>1
    <3>2. CASE Is("trend") /\ Count = 1
      BY <3>2
    <3>3. CASE ~Is("latest") /\ ~(Is("fifth") /\ Count < 4) /\ ~(Is("trend") /\ Count = 1)
      BY <1>3, <3>3 DEF BasedOn
    <3>4. QED
      BY <3>1, <3>2, <3>3
  <2>4. QED
    BY <1>2, <1>4, <2>1, <2>2, <2>3 DEF BaseInv
<1>9. ValueInv'
  <2>1. value' # "default" => Count' > 0
    BY <1>4
  <2>2. value' = "infinite" => Is("gain") /\ updates > 1
    BY <1>1, <1>3 DEF ValueInv
  <2>3. Is("staged") /\ value' = "default" => Len(data') = Count'
    BY <1>1, <1>3, <1>4, <1>5 DEF ValueInv
  <2>4. ~Is("staged") /\ value' = "default" => Is("fifth") /\ Count' < 3
    <3>1. SUFFICES ASSUME ~Is("staged"), base' = {}
                   PROVE  Is("fifth") /\ Count' < 3
      BY <1>3
    <3>2. CASE Is("latest")
      BY <1>3, <3>1, <3>2 DEF BasedOn
    <3>3. CASE Is("fifth") /\ Count < 4 /\ ~Is("latest")
      <4>1. base' = {since + 3} \cap 1..(seen + 1)
        BY <1>3, <3>1, <3>3 DEF BasedOn
      <4>2. since + 3 > seen + 1
        BY <1>1, <3>1, <4>1, Numbers
      <4>3. QED
        BY <1>1, <1>4, <3>3, <4>2, Numbers
    <3>4. CASE Is("trend") /\ Count = 1
      <4>1. base' = base
        BY <1>1, <1>3, <3>1, <3>4, Traits, Numbers DEF BasedOn
      <4>2. (since + 1)..seen \subseteq base
        BY <1>1, <3>1, <3>4, Traits, Numbers DEF BaseInv
      <4>3. QED
        BY <1>1, <3>1, <3>4, <4>1, <4>2, Numbers
    <3>5. CASE ~Is("latest") /\ ~(Is("fifth") /\ Count < 4) /\ ~(Is("trend") /\ Count = 1)
      <4>1. base' = (since + 1)..(seen + 1)
        BY <1>3, <3>1, <3>5 DEF BasedOn
      <4>2. QED
        BY <1>1, <3>1, <4>1, Numbers
    <3>6. QED
      BY <3>2, <3>3, <3>4, <3>5
  <2>5. QED
    BY <1>1, <1>2, <1>4, <2>1, <2>2, <2>3, <2>4 DEF ValueInv
<1>10. GatherInv' /\ EstimateOfThisPeriod' /\ GatheredIsUsed'
  BY <1>2, <1>4 DEF Inv, GatherInv, EstimateOfThisPeriod, GatheredIsUsed
<1>11. QED
  BY <1>5, <1>7, <1>8, <1>9, <1>10 DEF Inv

\* Steps that leave the estimator alone
LEMMA SameEstimator ==
  ASSUME Inv, UNCHANGED <<kind, resetEvery, seen, since, estVars, resets>>, fresh' \subseteq fresh
  PROVE  CollectedInv' /\ BaseInv' /\ ValueInv'
<1>1. CollectedInv /\ BaseInv /\ ValueInv
  BY DEF Inv
<1>2. Count' = Count /\ \A t : Is(t)' <=> Is(t)
  BY DEF Count, Is
<1>3. QED
  BY <1>1, <1>2 DEF estVars, CollectedInv, BaseInv, ValueInv

LEMMA ControlWithoutKeeps ==
  ASSUME Inv, ControlWithout
  PROVE  Inv'
<1>1. /\ TypeInv /\ Count = 0 /\ used' = None /\ gathered' = None /\ pc' = "gather"
      /\ UNCHANGED <<kind, resetEvery, seen, since, estVars, resets, fresh>>
  BY DEF Inv, ControlWithout
<1>2. CollectedInv' /\ BaseInv' /\ ValueInv'
  BY <1>1, SameEstimator
<1>3. TypeInv'
  BY <1>1, NoneIsEstimate DEF TypeInv, estVars
<1>4. data = <<>> /\ value = "default"
  <2>1. data \in Seq(1..MaxObs) /\ Len(data) = 0
    BY <1>1, LenProperties DEF Inv, CollectedInv, Latest
  <2>2. QED
    BY <1>1, <2>1, NoneIsEmpty DEF Inv, ValueInv
<1>5. GatherInv' /\ EstimateOfThisPeriod' /\ GatheredIsUsed'
  BY <1>1, <1>4 DEF estVars, GatherInv, EstimateOfThisPeriod, GatheredIsUsed
<1>6. QED
  BY <1>2, <1>3, <1>5 DEF Inv

LEMMA ForecastKeeps ==
  ASSUME Inv, Forecast
  PROVE  Inv'
<1>1. /\ TypeInv /\ BaseInv /\ ValueInv /\ Is("smoother") /\ pc = "idle" /\ pc' = pc
      /\ used' = Estimate(base, value, updates) /\ gathered' = None /\ fresh' = {}
      /\ UNCHANGED <<kind, resetEvery, seen, since, estVars, resets>>
  BY DEF Inv, Forecast
<1>2. Sound(base, value, updates)
  <2>1. ~Is("staged") /\ ~Is("keeps") /\ ~Is("fifth")
    BY <1>1, Traits, Numbers
  <2>2. base \subseteq 1..seen /\ base \subseteq (since + 1)..seen /\ updates \in Nat
    BY <1>1, <2>1 DEF TypeInv, BaseInv
  <2>3. fresh \subseteq base \/ Is("latest") \/ (Is("trend") /\ Count = 2)
    BY <1>1, <2>1 DEF TypeInv, BaseInv
  <2>4. QED
    BY <1>1, <2>1, <2>2, <2>3 DEF Sound, TypeInv, ValueInv
<1>3. EstimateOfThisPeriod' /\ used' \in Estimates
  BY <1>1, <1>2, SoundUsed
<1>4. CollectedInv' /\ BaseInv' /\ ValueInv'
  BY <1>1, SameEstimator
<1>5. TypeInv' /\ GatherInv' /\ GatheredIsUsed'
  BY <1>1, <1>3, NoneIsEstimate DEF estVars, TypeInv, GatherInv, GatheredIsUsed
<1>6. QED
  BY <1>3, <1>4, <1>5 DEF Inv

LEMMA ControlKeeps ==
  ASSUME Inv, Control
  PROVE  Inv'
<1>1. /\ TypeInv /\ Count > 0 /\ ~resetEvery /\ Update /\ fresh' = {} /\ gathered' = None
      /\ used' = Estimate(base', value', updates') /\ pc' = "gather"
      /\ UNCHANGED <<kind, resetEvery, seen, since, window, resets>>
  BY DEF Inv, Control
<1>2. /\ base' = UpdatedBase /\ value' = UpdatedValue /\ updates' = Updates /\ data' = <<>>
      /\ base' \subseteq 1..seen /\ left' \subseteq 1..seen /\ updates' \in Nat
      /\ init' \in BOOLEAN /\ value' \in {"default", "number", "infinite"}
      /\ CollectedInv' /\ BaseInv' /\ ValueInv'
  BY <1>1, UpdateIs
<1>3. Sound(base', value', updates')
  BY <1>1, <1>2, UpdateSound
<1>4. EstimateOfThisPeriod' /\ used' \in Estimates /\ used' # None
  BY <1>1, <1>3, SoundUsed
<1>5. TypeInv'
  BY <1>1, <1>2, <1>4, NoneIsEstimate DEF TypeInv
<1>6. GatherInv' /\ GatheredIsUsed'
  BY <1>1, <1>2, <1>4 DEF GatherInv, GatheredIsUsed, Estimate
<1>7. QED
  BY <1>2, <1>4, <1>5, <1>6 DEF Inv

LEMMA ControlAndResetKeeps ==
  ASSUME Inv, ControlAndReset
  PROVE  Inv'
<1>1. /\ TypeInv /\ Count > 0 /\ resetEvery /\ Clear /\ gathered' = None /\ pc' = "gather"
      /\ used' = Estimate(UpdatedBase, UpdatedValue, Updates)
      /\ left' = IF Is("keeps") THEN UpdatedBase ELSE left
      /\ UNCHANGED <<kind, resetEvery, seen, resets>>
  BY DEF Inv, ControlAndReset, UpdatedBase, UpdatedValue, Updates
<1>2. Sound(UpdatedBase, UpdatedValue, Updates)
  BY <1>1, UpdateSound
<1>3. EstimateOfThisPeriod' /\ used' \in Estimates
  BY <1>1, <1>2, SoundUsed
<1>4. CollectedInv' /\ BaseInv' /\ ValueInv' /\ data' = <<>> /\ value' = "default"
  BY <1>1, ClearIs DEF Inv, BaseInv
<1>5. TypeInv'
  <2>1. left' \subseteq 1..seen
    BY <1>1, <1>2 DEF Sound, TypeInv
  <2>2. /\ init' = TRUE /\ base' = {} /\ updates' = 0 /\ since' = seen /\ fresh' = {}
        /\ seen \in 0..seen
    BY <1>1, Numbers DEF Clear
  <2>3. QED
    BY <1>1, <1>3, <1>4, <2>1, <2>2, NoneIsEstimate DEF TypeInv
<1>6. GatherInv' /\ GatheredIsUsed'
  BY <1>1, <1>4 DEF GatherInv, GatheredIsUsed
<1>7. QED
  BY <1>3, <1>4, <1>5, <1>6 DEF Inv

LEMMA GatherKeeps ==
  ASSUME Inv, Gather
  PROVE  Inv'
<1>1. /\ TypeInv /\ CollectedInv /\ BaseInv /\ ValueInv /\ GatherInv
      /\ pc = "gather" /\ pc' = "idle" /\ Update /\ fresh' = {}
      /\ gathered' = Estimate(base', value', updates')
      /\ UNCHANGED <<kind, resetEvery, seen, since, window, resets, used>>
  BY DEF Inv, Gather
<1>2. /\ base' = UpdatedBase /\ value' = UpdatedValue /\ updates' = Updates /\ data' = <<>>
      /\ base' \subseteq 1..seen /\ left' \subseteq 1..seen /\ updates' \in Nat
      /\ init' \in BOOLEAN /\ value' \in {"default", "number", "infinite"}
      /\ CollectedInv' /\ BaseInv' /\ ValueInv'
  BY <1>1, UpdateIs DEF GatherInv
<1>3. base' = base /\ value' = value /\ updates' = updates
  BY <1>1, <1>2 DEF GatherInv, UpdatedBase, UpdatedValue, Updates
<1>4. gathered'.base = base /\ gathered'.value = value /\ gathered'.updates = updates
  BY <1>1, <1>3 DEF Estimate
<1>5. GatheredIsUsed'
  BY <1>1, <1>4 DEF GatherInv, GatheredIsUsed
<1>6. gathered' \in Estimates
  <2>1. /\ base' \subseteq 1..MaxObs /\ fresh \subseteq 1..MaxObs
        /\ since \in 0..MaxObs /\ Count \in 0..MaxObs
    BY <1>1, <1>2, Numbers DEF TypeInv
  <2>2. QED
    BY <1>1, <1>2, <2>1 DEF Estimate, Estimates
<1>7. TypeInv'
  BY <1>1, <1>2, <1>6 DEF TypeInv
<1>8. GatherInv' /\ EstimateOfThisPeriod'
  <2>1. \A t : Is(t)' <=> Is(t)
    BY <1>1 DEF Is
  <2>2. QED
    BY <1>1, <2>1 DEF Inv, GatherInv, EstimateOfThisPeriod
<1>9. QED
  BY <1>2, <1>5, <1>7, <1>8 DEF Inv

LEMMA ResetKeeps ==
  ASSUME Inv, Reset
  PROVE  Inv'
<1>1. /\ TypeInv /\ pc = "idle" /\ resets < MaxResets /\ resets' = resets + 1
      /\ Clear /\ used' = None /\ gathered' = None
      /\ UNCHANGED <<kind, resetEvery, pc, seen, left>>
  BY DEF Inv, Reset
<1>2. CollectedInv' /\ BaseInv' /\ ValueInv'
  BY <1>1, ClearIs DEF Inv, BaseInv
<1>3. TypeInv'
  <2>1. /\ init' = TRUE /\ base' = {} /\ updates' = 0 /\ since' = seen /\ fresh' = {}
        /\ value' = "default" /\ seen \in 0..seen
    BY <1>1, Numbers DEF Clear
  <2>2. resets' \in 0..MaxResets
    BY <1>1, EstimatorSizesAssumption DEF TypeInv
  <2>3. QED
    BY <1>1, <2>1, <2>2, NoneIsEstimate DEF TypeInv
<1>4. GatherInv' /\ EstimateOfThisPeriod' /\ GatheredIsUsed'
  BY <1>1 DEF GatherInv, EstimateOfThisPeriod, GatheredIsUsed
<1>5. QED
  BY <1>2, <1>3, <1>4 DEF Inv

LEMMA InvKept == Inv /\ [Next]_vars => Inv'
<1> SUFFICES ASSUME Inv, [Next]_vars PROVE Inv'
  OBVIOUS
<1>1. CASE ControlUndefined \/ Over \/ UNCHANGED vars
  <2>1. /\ UNCHANGED <<kind, resetEvery, seen, since, estVars, resets, fresh, used, gathered>>
        /\ pc' \in {pc, "undefined"}
    BY <1>1 DEF ControlUndefined, Over, vars
  <2>2. CollectedInv' /\ BaseInv' /\ ValueInv'
    BY <2>1, SameEstimator
  <2>3. \A t : Is(t)' <=> Is(t)
    BY <2>1 DEF Is
  <2>4. TypeInv' /\ GatherInv' /\ EstimateOfThisPeriod' /\ GatheredIsUsed'
    BY <2>1, <2>3 DEF Inv, TypeInv, GatherInv, EstimateOfThisPeriod, GatheredIsUsed, estVars
  <2>5. QED
    BY <2>2, <2>4 DEF Inv
<1>2. QED
  BY <1>1, CollectKeeps, ControlWithoutKeeps, ForecastKeeps, ControlKeeps, ControlAndResetKeeps,
     GatherKeeps, ResetKeeps DEF Next

LEMMA InvInvariant == Spec => []Inv
BY InitInv, InvKept, PTL DEF Spec

-----------------------------------------------------------------------------
(* Theorems                                                                *)

\* Every reachable state is well typed: no estimate depends on an observation that was not
\* made, and the window never holds more than its size.
THEOREM EstimatorTypes == Spec => []TypeOK
<1>1. Inv => TypeOK
  BY DEF Inv, TypeInv, CollectedInv, Latest, TypeOK
<1>2. QED
  BY <1>1, InvInvariant, PTL

\* However many observations come between two controls, whatever the window, an estimate covers
\* all since the estimate before and none from before the reset, with the exceptions it names.
THEOREM EstimatesOfThisPeriod == Spec => []EstimateOfThisPeriod
<1>1. Inv => EstimateOfThisPeriod
  BY DEF Inv
<1>2. QED
  BY <1>1, InvInvariant, PTL

\* For every estimator and any number of observations, the gatherer records the estimate that
\* the control used, or the default.
THEOREM GathererRecordsUsed == Spec => []GatheredIsUsed
<1>1. Inv => GatheredIsUsed
  BY DEF Inv
<1>2. QED
  BY <1>1, InvInvariant, PTL
=============================================================================
