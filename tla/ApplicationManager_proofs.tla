----------------------- MODULE ApplicationManager_proofs -----------------------
(***************************************************************************)
(* Proofs about ApplicationManager: for all the managers, every set-up of  *)
(* them, all sizes of warm-up, histories and training sets, and any number *)
(* of controls and resets.                                                 *)
(***************************************************************************)
EXTENDS ApplicationManager, TLAPS

-----------------------------------------------------------------------------
(* The profiles                                                            *)

LEMMA Kinds ==
  DOMAIN Managers = {"dummy", "albano", "albano_v4", "albano_v5", "fc2q", "mimo", "mimo_v2",
                     "mimo_v3", "mimo_v4", "fcms", "padala", "rao", "sysid", "lama2013",
                     "lama2015", "wang_fmpc", "wang_qos", "guazzone"}
BY DEF Managers

\* Which managers do what tells them from the others
LEMMA ResetProfiles ==
  ASSUME NEW k \in DOMAIN Managers
  PROVE  /\ "oneTarget" \in Managers[k].reset => k = "padala"
         /\ "ifExporting" \in Managers[k].reset =>
              k \in {"lama2013", "lama2015", "wang_fmpc", "wang_qos"}
         /\ "smoothers" \in Managers[k].reset \/ k = "sysid"
         /\ "rows" \in Managers[k].sample => k = "sysid"
BY Kinds DEF Managers, Profile, DummyReset, AlbanoReset, AlbanoV4Reset, AlbanoV5Reset, Fc2qReset,
  MimoReset, MimoV2Reset, MimoV3Reset, MimoV4Reset, FcmsReset, PadalaReset, RaoReset, SysIdReset,
  Lama2013Reset, Lama2015Reset, WangFmpcReset, WangQosReset, GuazzoneReset, DummySample,
  AlbanoSample, AlbanoV4Sample, AlbanoV5Sample, Fc2qSample, MimoSample, MimoV2Sample,
  MimoV3Sample, MimoV4Sample, FcmsSample, PadalaSample, RaoSample, SysIdSample, Lama2013Sample,
  Lama2015Sample, WangFmpcSample, WangQosSample, GuazzoneSample

LEMMA DecideProfiles ==
  ASSUME NEW k \in DOMAIN Managers
  PROVE  /\ "previousError" \in Managers[k].decide => k = "mimo_v2"
         /\ k # "sysid" => "eachTarget" \in Managers[k].decide \/ "allTargets" \in Managers[k].decide
         /\ k = "sysid" => Managers[k].decide = {}
         /\ "ready" \in Managers[k].decide => k = "guazzone"
         /\ "learns" \in Managers[k].learn => "window" \in Managers[k].decide
BY Kinds DEF Managers, Profile, DummyDecide, AlbanoDecide, AlbanoV4Decide, AlbanoV5Decide,
  Fc2qDecide, MimoDecide, MimoV2Decide, MimoV3Decide, MimoV4Decide, FcmsDecide, PadalaDecide,
  RaoDecide, SysIdDecide, Lama2013Decide, Lama2015Decide, WangFmpcDecide, WangQosDecide,
  GuazzoneDecide

LEMMA SolveProfiles ==
  ASSUME NEW k \in DOMAIN Managers
  PROVE  "short" \in Managers[k].solve => k \in {"wang_fmpc", "wang_qos"}
BY Kinds DEF Managers, Profile, DummySolve, AlbanoSolve, AlbanoV4Solve, AlbanoV5Solve, Fc2qSolve,
  MimoSolve, MimoV2Solve, MimoV3Solve, MimoV4Solve, FcmsSolve, PadalaSolve, RaoSolve, SysIdSolve,
  Lama2013Solve, Lama2015Solve, WangFmpcSolve, WangQosSolve, GuazzoneSolve

LEMMA ApplyProfiles ==
  ASSUME NEW k \in DOMAIN Managers
  PROVE  /\ "asSolved" \in Managers[k].apply => k \in {"mimo_v4", "fcms"}
         /\ "oneTarget" \in Managers[k].apply =>
              k \in {"albano", "albano_v4", "albano_v5", "fc2q", "rao"}
         /\ "errors" \in Managers[k].export => k \in {"dummy", "fc2q"}
BY Kinds DEF Managers, Profile, DummyApply, AlbanoApply, AlbanoV4Apply, AlbanoV5Apply, Fc2qApply,
  MimoApply, MimoV2Apply, MimoV3Apply, MimoV4Apply, FcmsApply, PadalaApply, RaoApply, SysIdApply,
  Lama2013Apply, Lama2015Apply, WangFmpcApply, WangQosApply, GuazzoneApply, DummyExport,
  AlbanoExport, AlbanoV4Export, AlbanoV5Export, Fc2qExport, MimoExport, MimoV2Export,
  MimoV3Export, MimoV4Export, FcmsExport, PadalaExport, RaoExport, SysIdExport, Lama2013Export,
  Lama2015Export, WangFmpcExport, WangQosExport, GuazzoneExport

-----------------------------------------------------------------------------
(* Types                                                                   *)

\* The set-up, the counters and the current control
ControlTypes ==
  /\ cfg \in Setups
  /\ pc \in {"new", "idle", "learn", "solve", "write", "export", "thrown", "undefined"}
  /\ controls \in 0..MaxControls
  /\ skipped \in Nat /\ failed \in Nat /\ unidentified \in Nat
  /\ applied \in Nat /\ silent \in Nat /\ negatives \in Nat
  /\ outcome \in {"none", "skipped", "failed", "unidentified", "silent", "applied"}
  /\ struck \subseteq Faults /\ resets \in 0..MaxResets

\* What is known of the outputs
EstimateTypes ==
  /\ observed \subseteq Targets /\ smoothed \in BOOLEAN /\ window \in 0..OrderPlus
  /\ previous \in BOOLEAN /\ used \subseteq Targets /\ reused \in BOOLEAN
  /\ shown \subseteq Targets /\ repeated \in BOOLEAN
  /\ errors \subseteq Targets

\* The model
ModelTypes ==
  /\ trained \in BOOLEAN /\ samples \in Nat
  /\ trainset \in Nat /\ trainset < IF trained THEN BatchMin ELSE TrainMin

\* The solver and the shares: while shares are written there is one to be written next.
SolverTypes ==
  /\ relFails \in 0..(RelFailMax - 1) /\ identified \in 0..(SysIdMin + 1)
  /\ slot \in Nat /\ partial \in BOOLEAN /\ written \subseteq Slots
  /\ pc \in {"new", "idle", "learn", "solve", "write"} => slot \in Slots

Types == ControlTypes /\ EstimateTypes /\ ModelTypes /\ SolverTypes

LEMMA SetupFields ==
  ASSUME NEW c \in Setups
  PROVE  /\ c.kind \in DOMAIN Managers /\ c.targets \in 1..2 /\ c.vms \in 1..2
         /\ c.exporting \in BOOLEAN /\ c.resetEvery \in BOOLEAN
         /\ c.prebuilt \in BOOLEAN /\ c.extended \in BOOLEAN
BY SetupsAssumption

LEMMA TooManyTargets ==
  ASSUME Types, cfg.targets # 1
  PROVE  cfg.targets = 2
BY SetupFields DEF Types, ControlTypes

LEMMA KindIsKnown ==
  ASSUME Types
  PROVE  cfg.kind \in DOMAIN Managers
BY SetupFields DEF Types, ControlTypes

LEMMA FirstSlot ==
  ASSUME cfg \in Setups
  PROVE  1 \in Slots /\ Slots \subseteq Nat
<1>1. cfg.vms \in 1..2
  BY SetupFields
<1>2. QED
  BY <1>1 DEF Slots

LEMMA InitTypes == Init => Types
<1> SUFFICES ASSUME Init PROVE Types
  OBVIOUS
<1>1. ControlTypes
  BY ManagerBoundsAssumption DEF Init, ControlTypes, Cleared
<1>2. EstimateTypes
  <2>1. window \in 0..OrderPlus /\ observed \subseteq Targets /\ used \subseteq Targets
        /\ shown \subseteq Targets /\ errors \subseteq Targets
    BY ManagerSizesAssumption DEF Init, Cleared
  <2>2. smoothed = FALSE /\ previous = FALSE /\ reused = FALSE /\ repeated = FALSE
    BY DEF Init
  <2>3. QED
    BY <2>1, <2>2 DEF EstimateTypes
<1>3. ModelTypes
  <2>1. trained = FALSE /\ trainset = 0 /\ samples = 0
    BY DEF Init
  <2>2. trained \in BOOLEAN /\ (IF trained THEN BatchMin ELSE TrainMin) = TrainMin
    BY <2>1, Zenon
  <2>3. 0 < TrainMin
    BY ManagerSizesAssumption
  <2>4. QED
    BY <2>1, <2>2, <2>3 DEF ModelTypes
<1>4. SolverTypes
  <2>1. relFails = 0 /\ identified = 0 /\ slot = 1 /\ partial = FALSE /\ written = {}
    BY DEF Init, Cleared
  <2>2. slot \in Slots
    BY <2>1, FirstSlot DEF Init
  <2>3. relFails \in 0..(RelFailMax - 1) /\ identified \in 0..(SysIdMin + 1)
    BY <2>1, ManagerSizesAssumption
  <2>4. QED
    BY <2>1, <2>2, <2>3 DEF SolverTypes
<1>5. QED
  BY <1>1, <1>2, <1>3, <1>4 DEF Types

LEMMA ControlTypesKept ==
  ASSUME Types, [Next]_vars
  PROVE  ControlTypes'
<1>1. CASE Reset \/ ResetThrows
  BY <1>1, ManagerBoundsAssumption
  DEF Types, ControlTypes, Reset, ResetThrows, Strikes, counterVars, controlVars
<1>2. CASE Sample \/ SampleThrows \/ Over \/ UNCHANGED vars
  BY <1>2 DEF Types, ControlTypes, Sample, SampleThrows, Over, Strikes, vars, counterVars,
              controlVars
<1>3. CASE Decide \/ DecideThrows
  BY <1>3, ManagerBoundsAssumption DEF Types, ControlTypes, Decide, DecideThrows, Strikes, controlVars
<1>4. CASE Learn \/ LearnThrows
  BY <1>4 DEF Types, ControlTypes, Learn, LearnThrows, Strikes, counterVars, controlVars
<1>5. CASE Solve
  BY <1>5 DEF Types, ControlTypes, Solve, Solved, SolveFails, FallBack, SolvedNegative,
     NotIdentified, NothingToDo, SolvedShort, SolveThrows, counterVars, controlVars
<1>6. CASE Write \/ WriteFails \/ WriteThrows
  BY <1>6 DEF Types, ControlTypes, Write, WriteFails, WriteThrows, Strikes, counterVars, controlVars
<1>7. CASE Export \/ ExportThrows \/ ExportUndefined
  BY <1>7 DEF Types, ControlTypes, Export, ExportThrows, ExportUndefined, Strikes, counterVars,
              controlVars
<1>8. QED
  BY <1>1, <1>2, <1>3, <1>4, <1>5, <1>6, <1>7 DEF Next

\* Only these steps change the estimates; the errors are forgotten when control() returns.
LEMMA EstimateTypesKept ==
  ASSUME Types, [Next]_vars
  PROVE  EstimateTypes'
<1>1. cfg' = cfg
  BY DEF Next, Reset, ResetThrows, Sample, SampleThrows, Decide, DecideThrows, Learn, LearnThrows,
     Solve, Solved, SolveFails, FallBack, SolvedNegative, NotIdentified, NothingToDo, SolvedShort,
     SolveThrows, Write, WriteFails, WriteThrows, Export, ExportThrows, ExportUndefined, Over, vars
<1>2. Targets' = Targets
  BY <1>1 DEF Targets
<1>3. OrderPlus \in Nat
  BY ManagerSizesAssumption
<1>4. CASE UNCHANGED <<estimateVars, errors>>
  <2>1. /\ observed' = observed /\ smoothed' = smoothed /\ window' = window
        /\ previous' = previous /\ used' = used /\ reused' = reused /\ errors' = errors
        /\ shown' = shown /\ repeated' = repeated
    BY <1>4 DEF estimateVars
  <2>2. QED
    BY <1>2, <2>1, Zenon DEF Types, EstimateTypes
<1>5. CASE Reset
  <2>1. /\ observed' = {} /\ smoothed' = FALSE /\ previous' = FALSE
        /\ used' = {} /\ reused' = FALSE /\ shown' = {} /\ repeated' = FALSE /\ errors' = errors
    BY <1>5 DEF Reset, controlVars
  <2>2. window' \in 0..OrderPlus
    BY <1>3, <1>5 DEF Reset
  <2>3. QED
    BY <1>2, <2>1, <2>2, Zenon DEF Types, EstimateTypes
<1>6. CASE Sample
  <2>1. PICK seen \in SUBSET Targets : observed' = observed \cup seen
    BY <1>6 DEF Sample
  <2>2. smoothed' \in BOOLEAN
    BY <1>6 DEF Sample, Types, EstimateTypes
  <2>3. UNCHANGED <<window, previous, used, reused, shown, repeated, errors>>
    BY <1>6 DEF Sample, controlVars
  <2>4. QED
    BY <1>2, <2>1, <2>2, <2>3 DEF Types, EstimateTypes
<1>7. CASE Decide
  <2>1. Estimated \subseteq Targets
    BY DEF Estimated
  <2>2. window' \in 0..OrderPlus
    BY <1>3, <1>7 DEF Types, EstimateTypes, Decide
  <2>3. smoothed' = smoothed /\ errors' = Estimated /\ observed' = observed \ ResetEstimators
        /\ used' = (used \cup Estimated) \ ResetEstimators
        /\ shown' = shown \ ResetEstimators /\ repeated' = repeated
    BY <1>7 DEF Decide
  <2>4. previous' \in BOOLEAN /\ reused' \in BOOLEAN
    BY <1>7 DEF Decide
  <2>5. QED
    BY <1>2, <2>1, <2>2, <2>3, <2>4 DEF Types, EstimateTypes
<1>8. CASE Export
  <2>1. Shown \subseteq observed
    BY DEF Shown
  <2>2. /\ shown' = shown \cup Shown /\ repeated' \in BOOLEAN /\ errors' = {}
        /\ UNCHANGED <<observed, smoothed, window, previous, used, reused>>
    BY <1>8 DEF Export
  <2>3. QED
    BY <1>2, <2>1, <2>2 DEF Types, EstimateTypes
<1>9. CASE ResetThrows \/ SampleThrows \/ DecideThrows \/ Learn \/ LearnThrows
  BY <1>4, <1>9 DEF ResetThrows, SampleThrows, DecideThrows, Learn, LearnThrows, controlVars
<1>10. CASE Solve
  BY <1>4, <1>10 DEF Solve, Solved, SolveFails, FallBack, SolvedNegative, NotIdentified,
     NothingToDo, SolvedShort, SolveThrows, controlVars
<1>11. CASE Write \/ WriteFails \/ WriteThrows \/ ExportThrows \/ ExportUndefined \/ Over
            \/ UNCHANGED vars
  BY <1>4, <1>11 DEF Write, WriteFails, WriteThrows, ExportThrows, ExportUndefined, Over, vars,
                     controlVars
<1>12. QED
  BY <1>5, <1>6, <1>7, <1>8, <1>9, <1>10, <1>11 DEF Next

LEMMA ModelTypesKept ==
  ASSUME Types, [Next]_vars
  PROVE  ModelTypes'
<1>1. CASE UNCHANGED modelVars
  BY <1>1 DEF Types, ModelTypes, modelVars
<1>2. CASE Reset
  <2>1. trained' \in BOOLEAN /\ trainset' = 0 /\ samples' = 0
    BY <1>2 DEF Reset
  <2>2. 0 < TrainMin /\ 0 < BatchMin
    BY ManagerSizesAssumption
  <2>3. QED
    BY <2>1, <2>2 DEF ModelTypes
<1>3. CASE Learn
  <2>1. /\ samples' = samples + 1 /\ trained' = (trained \/ trainset + 1 >= TrainMin)
        /\ trainset' \in IF ~trained' THEN {trainset + 1}
                         ELSE IF trained /\ trainset + 1 < BatchMin THEN {0, trainset + 1}
                         ELSE {0}
    BY <1>3 DEF Learn
  <2>2. samples \in Nat /\ trainset \in Nat /\ TrainMin \in Nat \ {0} /\ BatchMin \in Nat \ {0}
    BY ManagerSizesAssumption DEF Types, ModelTypes
  <2>3. CASE trained'
    <3>1. trainset' \in Nat /\ trainset' < BatchMin
      BY <2>1, <2>2, <2>3
    <3>2. QED
      BY <2>1, <2>2, <2>3, <3>1 DEF ModelTypes
  <2>4. CASE ~trained'
    <3>1. trainset' \in {trainset + 1} /\ ~(trainset + 1 >= TrainMin)
      BY <2>1, <2>4, Zenon
    <3>2. trainset' \in Nat /\ trainset' < TrainMin
      BY <2>2, <3>1
    <3>3. QED
      BY <2>1, <2>2, <2>4, <3>2 DEF ModelTypes
  <2>5. QED
    BY <2>3, <2>4
<1>4. CASE ResetThrows \/ Sample \/ SampleThrows \/ Decide \/ DecideThrows \/ LearnThrows
  BY <1>1, <1>4 DEF ResetThrows, Sample, SampleThrows, Decide, DecideThrows, LearnThrows
<1>5. CASE Solve
  BY <1>1, <1>5 DEF Solve, Solved, SolveFails, FallBack, SolvedNegative, NotIdentified,
     NothingToDo, SolvedShort, SolveThrows
<1>6. CASE Write \/ WriteFails \/ WriteThrows \/ Export \/ ExportThrows \/ ExportUndefined
           \/ Over \/ UNCHANGED vars
  BY <1>1, <1>6 DEF Write, WriteFails, WriteThrows, Export, ExportThrows, ExportUndefined, Over,
                    vars
<1>7. QED
  BY <1>2, <1>3, <1>4, <1>5, <1>6 DEF Next

LEMMA SetupKept ==
  ASSUME [Next]_vars
  PROVE  cfg' = cfg /\ Targets' = Targets /\ Slots' = Slots
<1>1. cfg' = cfg
  BY DEF Next, Reset, ResetThrows, Sample, SampleThrows, Decide, DecideThrows, Learn, LearnThrows,
     Solve, Solved, SolveFails, FallBack, SolvedNegative, NotIdentified, NothingToDo, SolvedShort,
     SolveThrows, Write, WriteFails, WriteThrows, Export, ExportThrows, ExportUndefined, Over, vars
<1>2. QED
  BY <1>1 DEF Targets, Slots, Does

LEMMA SolverTypesKept ==
  ASSUME Types, [Next]_vars
  PROVE  SolverTypes'
<1>1. Slots' = Slots /\ 1 \in Slots /\ Slots \subseteq Nat
  BY SetupKept, FirstSlot DEF Types, ControlTypes
<1>2. RelFailMax \in Nat \ {0} /\ SysIdMin \in Nat
  BY ManagerSizesAssumption
<1>3. CASE /\ UNCHANGED <<solverVars, slot, partial, written>>
           /\ pc' \in {"new", "idle", "learn", "solve", "write"} =>
                pc \in {"new", "idle", "learn", "solve", "write"}
  BY <1>1, <1>3 DEF Types, SolverTypes, ControlTypes, solverVars
<1>4. CASE Reset
  BY <1>1, <1>2, <1>4 DEF Types, SolverTypes, Reset, controlVars
<1>5. CASE ResetThrows \/ Sample \/ SampleThrows \/ Decide \/ DecideThrows \/ Learn \/ LearnThrows
  BY <1>3, <1>5 DEF ResetThrows, Sample, SampleThrows, Decide, DecideThrows, Learn, LearnThrows,
                    controlVars
<1>6. CASE Solve
  <2>1. relFails' \in 0..(RelFailMax - 1)
    BY <1>2, <1>6 DEF Types, SolverTypes, Solve, Solved, SolveFails, FallBack, SolvedNegative,
       NotIdentified, NothingToDo, SolvedShort, SolveThrows, solverVars
  <2>2. identified' \in 0..(SysIdMin + 1)
    BY <1>2, <1>6 DEF Types, SolverTypes, Solve, Solved, SolveFails, FallBack, SolvedNegative,
       NotIdentified, NothingToDo, SolvedShort, SolveThrows, solverVars, Identify
  <2>3. partial' \in BOOLEAN /\ slot' = slot /\ written' = written /\ pc = "solve"
    BY <1>6 DEF Types, SolverTypes, Solve, Solved, SolveFails, FallBack, SolvedNegative,
       NotIdentified, NothingToDo, SolvedShort, SolveThrows, controlVars, May
  <2>4. QED
    BY <1>1, <2>1, <2>2, <2>3 DEF Types, SolverTypes
<1>7. CASE Write
  BY <1>1, <1>7 DEF Types, SolverTypes, Write, solverVars
<1>8. CASE WriteFails
  <2>1. partial' \in BOOLEAN
    <3>1. (slot > 1) \in BOOLEAN
      OBVIOUS
    <3>2. partial' = (slot > 1) \/ partial' = TRUE
      BY <1>8, Zenon DEF WriteFails
    <3>3. QED
      BY <3>1, <3>2, Zenon
  <2>2. QED
    BY <1>1, <1>8, <2>1 DEF Types, SolverTypes, WriteFails, solverVars
<1>9. CASE Export
  BY <1>1, <1>9 DEF Types, SolverTypes, Export, solverVars
<1>10. CASE WriteThrows \/ ExportThrows \/ ExportUndefined \/ Over \/ UNCHANGED vars
  BY <1>3, <1>10 DEF WriteThrows, ExportThrows, ExportUndefined, Over, vars, controlVars
<1>11. QED
  BY <1>4, <1>5, <1>6, <1>7, <1>8, <1>9, <1>10 DEF Next

LEMMA TypesInvariant == Spec => []Types
<1>1. Types /\ [Next]_vars => Types'
  BY ControlTypesKept, EstimateTypesKept, ModelTypesKept, SolverTypesKept DEF Types
<1>2. QED
  BY <1>1, InitTypes, PTL DEF Spec

\* Every reachable state is well typed: no share is written that the VMs do not have, and the
\* training set never holds as many samples as a model is built from.
THEOREM ManagerTypes == Spec => []TypeOK
<1>1. Types => TypeOK
  BY DEF Types, ControlTypes, EstimateTypes, ModelTypes, SolverTypes, TypeOK
<1>2. QED
  BY <1>1, TypesInvariant, PTL

-----------------------------------------------------------------------------
(* The counters                                                            *)

Counted == applied + skipped + (failed - negatives) + unidentified + silent

\* A control is counted when it is over, and only then.
CountInv ==
  /\ pc \in {"new", "idle", "export"} => controls = Counted
  /\ pc \in {"learn", "solve", "write"} => controls = Counted + 1

LEMMA CountKept ==
  ASSUME Types, CountInv, [Next]_vars
  PROVE  CountInv'
<1>1. /\ controls \in Nat /\ skipped \in Nat /\ failed \in Nat /\ unidentified \in Nat
      /\ applied \in Nat /\ silent \in Nat /\ negatives \in Nat
  BY ManagerBoundsAssumption DEF Types, ControlTypes
<1>2. CASE UNCHANGED counterVars /\ (pc' = pc \/ pc' \in {"thrown", "undefined"})
  BY <1>2 DEF CountInv, Counted, counterVars
<1>3. CASE Reset
  BY <1>3 DEF CountInv, Counted, Reset
<1>4. CASE Decide
  BY <1>1, <1>4 DEF CountInv, Counted, Decide
<1>5. CASE Learn
  BY <1>1, <1>5 DEF CountInv, Counted, Learn
<1>6. CASE Solve
  <2>1. pc = "solve" /\ controls = Counted + 1
    BY <1>6 DEF CountInv, Solve, Solved, SolveFails, FallBack, SolvedNegative, NotIdentified,
       NothingToDo, SolvedShort, SolveThrows, May
  <2>2. CASE Solved \/ FallBack \/ SolvedShort \/ SolveThrows
    BY <2>1, <2>2 DEF CountInv, Counted, Solved, FallBack, SolvedShort, SolveThrows, counterVars
  <2>3. CASE SolveFails \/ SolvedNegative \/ NotIdentified \/ NothingToDo
    BY <1>1, <2>1, <2>3
    DEF CountInv, Counted, SolveFails, SolvedNegative, NotIdentified, NothingToDo
  <2>4. QED
    BY <1>6, <2>2, <2>3 DEF Solve
<1>7. CASE Write
  BY <1>1, <1>7 DEF CountInv, Counted, Write
<1>8. CASE WriteFails
  BY <1>1, <1>8 DEF CountInv, Counted, WriteFails
<1>9. CASE Export
  BY <1>9 DEF CountInv, Counted, Export, counterVars
<1>10. CASE ResetThrows \/ Sample \/ SampleThrows \/ LearnThrows \/ WriteThrows \/ ExportThrows
            \/ ExportUndefined \/ Over \/ UNCHANGED vars
  BY <1>2, <1>10 DEF ResetThrows, Sample, SampleThrows, LearnThrows, WriteThrows, ExportThrows,
                     ExportUndefined, Over, vars
<1>11. CASE DecideThrows
  BY <1>11 DEF CountInv, DecideThrows
<1>12. QED
  BY <1>3, <1>4, <1>5, <1>6, <1>7, <1>8, <1>9, <1>10, <1>11 DEF Next

\* However many controls there are, the exported counters account for each of them.
THEOREM ManagerCountersAddUp == Spec => []CountersAddUp
<1>1. Init => CountInv
  BY DEF Init, CountInv, Counted
<1>2. Types /\ CountInv /\ [Next]_vars => CountInv'
  BY CountKept
<1>3. CountInv => CountersAddUp
  BY DEF CountInv, Counted, CountersAddUp
<1>4. QED
  BY <1>1, <1>2, <1>3, TypesInvariant, PTL DEF Spec

-----------------------------------------------------------------------------
(* The shares                                                              *)

\* Nothing is written before the shares are, and what fails afterwards solves as it writes.
ShareInv ==
  /\ pc \in {"new", "idle", "learn", "solve"} => written = {}
  /\ pc \in {"new", "idle", "learn", "solve", "write"} => outcome = "none"
  /\ written # {} => outcome \in {"none", "applied"} \/ Does("apply", "asSolved")

LEMMA ShareKept ==
  ASSUME Types, ShareInv, [Next]_vars
  PROVE  ShareInv'
<1>1. \A what : Does("apply", what)' <=> Does("apply", what)
  BY SetupKept DEF Does
<1>2. CASE UNCHANGED <<written, outcome>> /\ pc' \in {pc, "thrown", "undefined"}
  BY <1>1, <1>2 DEF ShareInv
<1>3. CASE Reset \/ Decide \/ Learn
  BY <1>1, <1>3 DEF ShareInv, Reset, Decide, Learn, controlVars
<1>4. CASE Solve
  <2>1. pc = "solve" /\ written' = written
    BY <1>4 DEF Solve, Solved, SolveFails, FallBack, SolvedNegative, NotIdentified, NothingToDo,
       SolvedShort, SolveThrows, May, controlVars
  <2>2. pc' = "export" \/ (outcome' = outcome /\ pc' \in {"write", "thrown", "undefined"})
    BY <1>4 DEF Solve, Solved, SolveFails, FallBack, SolvedNegative, NotIdentified, NothingToDo,
       SolvedShort, SolveThrows, controlVars
  <2>3. QED
    BY <2>1, <2>2 DEF ShareInv
<1>5. CASE Write
  BY <1>1, <1>5 DEF ShareInv, Write
<1>6. CASE WriteFails
  BY <1>1, <1>6 DEF ShareInv, WriteFails
<1>7. CASE Export
  BY <1>7 DEF ShareInv, Export
<1>8. CASE ResetThrows \/ Sample \/ SampleThrows \/ DecideThrows \/ LearnThrows \/ WriteThrows
           \/ ExportThrows \/ ExportUndefined \/ Over \/ UNCHANGED vars
  BY <1>2, <1>8 DEF ResetThrows, Sample, SampleThrows, DecideThrows, LearnThrows, WriteThrows,
                    ExportThrows, ExportUndefined, Over, vars, controlVars
<1>9. QED
  BY <1>3, <1>4, <1>5, <1>6, <1>7, <1>8 DEF Next

LEMMA ShareInvariant == Spec => []ShareInv
<1>1. Init => ShareInv
  BY DEF Init, ShareInv, Cleared
<1>2. Types /\ ShareInv /\ [Next]_vars => ShareInv'
  BY ShareKept
<1>3. QED
  BY <1>1, <1>2, TypesInvariant, PTL DEF Spec

\* Of all the managers only the two that solve as they write leave shares behind a failure.
THEOREM ManagerSharesKept == Spec => []SharesKept
<1>1. Types /\ ShareInv => SharesKept
  <2>1. SUFFICES ASSUME Types, ShareInv, written # {},
                        outcome \in {"skipped", "failed", "unidentified", "silent"}
                 PROVE  cfg.kind \in {"mimo_v4", "fcms"}
    BY DEF SharesKept
  <2>2. Does("apply", "asSolved")
    BY <2>1 DEF ShareInv
  <2>3. cfg.kind \in DOMAIN Managers
    BY <2>1, SetupFields DEF Types, ControlTypes
  <2>4. QED
    BY <2>2, <2>3, ApplyProfiles DEF Does
<1>2. QED
  BY <1>1, TypesInvariant, ShareInvariant, PTL

-----------------------------------------------------------------------------
(* The observations                                                        *)

\* The estimators that a control has used are empty.
UsedInv == cfg.resetEvery /\ cfg.kind # "mimo_v2" => used = {} /\ reused = FALSE

LEMMA UsedKept ==
  ASSUME Types, UsedInv, [Next]_vars
  PROVE  UsedInv'
<1>1. cfg' = cfg
  BY SetupKept
<1>2. CASE UNCHANGED <<used, reused>>
  BY <1>1, <1>2 DEF UsedInv
<1>3. CASE Reset
  BY <1>3 DEF UsedInv, Reset
<1>4. CASE Decide
  <2>1. SUFFICES ASSUME cfg.resetEvery, cfg.kind # "mimo_v2"
                 PROVE  used' = {} /\ reused' = FALSE
    BY <1>1 DEF UsedInv
  <2>2. ~Breaks
    BY <2>1, KindIsKnown, DecideProfiles DEF Breaks, Does
  <2>3. ResetEstimators = Estimated
    BY <2>1, <2>2 DEF ResetEstimators
  <2>4. used = {} /\ reused = FALSE
    BY <2>1 DEF UsedInv
  <2>5. used' = (used \cup Estimated) \ ResetEstimators
        /\ reused' = (reused \/ Estimated \cap used # {})
    BY <1>4 DEF Decide
  <2>6. QED
    BY <2>3, <2>4, <2>5
<1>5. CASE ResetThrows \/ Sample \/ SampleThrows \/ DecideThrows \/ Learn \/ LearnThrows
  BY <1>2, <1>5 DEF ResetThrows, Sample, SampleThrows, DecideThrows, Learn, LearnThrows,
                    estimateVars
<1>6. CASE Solve
  BY <1>2, <1>6 DEF Solve, Solved, SolveFails, FallBack, SolvedNegative, NotIdentified,
     NothingToDo, SolvedShort, SolveThrows, estimateVars
<1>7. CASE Write \/ WriteFails \/ WriteThrows \/ Export \/ ExportThrows \/ ExportUndefined
           \/ Over \/ UNCHANGED vars
  BY <1>2, <1>7 DEF Write, WriteFails, WriteThrows, Export, ExportThrows, ExportUndefined, Over,
                    vars, estimateVars
<1>8. QED
  BY <1>3, <1>4, <1>5, <1>6, <1>7 DEF Next

\* With one target a control leaves no observation in an estimator but those of the first
\* error that mimo_v2 computes, and only before any of them is in a line of data.
LinesInv ==
  cfg.resetEvery /\ cfg.kind \notin {"guazzone", "sysid"} /\ cfg.targets = 1 =>
    /\ repeated = FALSE
    /\ shown # {} => previous
    /\ pc \in {"learn", "solve", "write", "export"} => observed = {} \/ (shown = {} /\ previous)

\* The loop over the only target reaches it if it has been observed.
LEMMA OneTargetEstimated ==
  ASSUME Types, cfg.targets = 1, cfg.kind \notin {"guazzone", "sysid"}
  PROVE  /\ Targets = {1} /\ observed \subseteq {1} /\ shown \subseteq {1}
         /\ 1 \in observed => 1 \in Estimated
<1>1. Targets = {1}
  BY DEF Targets
<1>2. observed \subseteq {1} /\ shown \subseteq {1}
  BY <1>1 DEF Types, EstimateTypes
<1>3. ASSUME 1 \in observed
      PROVE  1 \in Estimated
  <2>1. cfg.kind \in DOMAIN Managers
    BY KindIsKnown
  <2>2. ~Does("decide", "ready")
    BY <2>1, DecideProfiles DEF Does
  <2>3. Does("decide", "eachTarget") \/ Does("decide", "allTargets")
    BY <2>1, DecideProfiles DEF Does
  <2>4. observed = Targets /\ \A u \in 1..1 : u \in observed
    <3>1. observed = {1}
      BY <1>2, <1>3
    <3>2. 1..1 = {1}
      OBVIOUS
    <3>3. QED
      BY <1>1, <3>1, <3>2
  <2>5. QED
    BY <1>1, <2>2, <2>3, <2>4 DEF Estimated
<1>4. QED
  BY <1>1, <1>2, <1>3

LEMMA LinesKept ==
  ASSUME Types, LinesInv, [Next]_vars
  PROVE  LinesInv'
<1>1. cfg' = cfg
  BY SetupKept
<1>2. CASE /\ UNCHANGED <<observed, previous, shown, repeated>>
           /\ pc' \in {"learn", "solve", "write", "export"} =>
                pc \in {"learn", "solve", "write", "export"}
  BY <1>1, <1>2 DEF LinesInv
<1>3. CASE Reset
  BY <1>3 DEF LinesInv, Reset
<1>4. CASE Sample
  <2>1. pc = "idle" /\ UNCHANGED <<pc, previous, shown, repeated>>
    BY <1>4 DEF Sample
  <2>2. QED
    BY <1>1, <2>1 DEF LinesInv
<1>5. SUFFICES ASSUME cfg.resetEvery, cfg.kind \notin {"guazzone", "sysid"}, cfg.targets = 1,
                      Decide \/ Export
               PROVE  LinesInv'
  <2>1. CASE ResetThrows \/ SampleThrows \/ DecideThrows \/ Learn \/ LearnThrows
    BY <1>2, <2>1 DEF ResetThrows, SampleThrows, DecideThrows, Learn, LearnThrows, estimateVars
  <2>2. CASE Solve
    BY <1>2, <2>2 DEF Solve, Solved, SolveFails, FallBack, SolvedNegative, NotIdentified,
       NothingToDo, SolvedShort, SolveThrows, May, estimateVars
  <2>3. CASE Write \/ WriteFails \/ WriteThrows \/ ExportThrows \/ ExportUndefined \/ Over
             \/ UNCHANGED vars
    BY <1>2, <2>3 DEF Write, WriteFails, WriteThrows, ExportThrows, ExportUndefined, Over, vars,
                      estimateVars
  <2>4. QED
    BY <1>1, <1>3, <1>4, <1>5, <2>1, <2>2, <2>3 DEF Next, LinesInv
<1>6. /\ repeated = FALSE
      /\ shown # {} => previous
      /\ pc = "export" => observed = {} \/ (shown = {} /\ previous)
  BY <1>5 DEF LinesInv
<1>7. /\ observed \subseteq {1} /\ shown \subseteq {1}
      /\ 1 \in observed => 1 \in Estimated
  BY <1>5, OneTargetEstimated
<1>8. CASE Decide
  <2>1. /\ observed' = observed \ ResetEstimators /\ shown' = shown \ ResetEstimators
        /\ previous' = (previous \/ Breaks) /\ repeated' = repeated
    BY <1>8 DEF Decide
  <2>2. CASE Breaks
    <3>1. ~previous /\ shown = {}
      BY <1>6, <2>2 DEF Breaks
    <3>2. previous' /\ shown' = {}
      BY <2>1, <2>2, <3>1
    <3>3. QED
      BY <1>6, <2>1, <3>2 DEF LinesInv
  <2>3. CASE ~Breaks
    <3>1. ResetEstimators = Estimated
      BY <1>5, <2>3 DEF ResetEstimators
    <3>2. observed' = {}
      BY <1>7, <2>1, <3>1
    <3>3. shown' # {} => previous'
      BY <1>6, <2>1
    <3>4. QED
      BY <1>6, <2>1, <3>2, <3>3 DEF LinesInv
  <2>4. QED
    BY <2>2, <2>3
<1>9. CASE Export
  <2>1. /\ pc = "export" /\ pc' = "idle" /\ previous' = previous
        /\ shown' = shown \cup Shown /\ repeated' = (repeated \/ Shown \cap shown # {})
    BY <1>9 DEF Export
  <2>2. Shown \subseteq observed
    BY DEF Shown
  <2>3. Shown \cap shown = {} /\ (shown' # {} => previous)
    BY <1>6, <2>1, <2>2
  <2>4. QED
    BY <1>6, <2>1, <2>3 DEF LinesInv
<1>10. QED
  BY <1>5, <1>8, <1>9

\* Over any number of controls no manager but one uses an observation twice in a build that
\* resets the estimators; and of those with one target only guazzone and sysid, which may
\* leave it in its estimator, put it into two lines of data.
THEOREM ManagerUsesObservationsOnce == Spec => []ObservationsUsedOnce
<1>1. Init => UsedInv /\ LinesInv
  BY DEF Init, UsedInv, LinesInv
<1>2. Types /\ UsedInv /\ LinesInv /\ [Next]_vars => UsedInv' /\ LinesInv'
  BY UsedKept, LinesKept
<1>3. Types /\ UsedInv /\ LinesInv => ObservationsUsedOnce
  BY TooManyTargets DEF UsedInv, LinesInv, ObservationsUsedOnce
<1>4. QED
  BY <1>1, <1>2, <1>3, TypesInvariant, PTL DEF Spec

-----------------------------------------------------------------------------
(* What a control knows                                                    *)

\* The control goes on, or has gone on, to the shares.
Goes == pc \in {"learn", "solve", "write"} \/ written # {}

\* The model was not learnt from this application alone.
Imported == cfg.prebuilt \/ Does("reset", "prebuilt")

\* A control that goes on has looked at every target; a model that was not imported has
\* been built from the samples since the reset.
KnowInv ==
  /\ Goes /\ LooksAtTargets =>
       /\ errors = Targets
       /\ Does("decide", "warmup") => controls > Warmup
       /\ Does("decide", "window") => window = OrderPlus
  /\ Learns /\ (pc \in {"solve", "write"} \/ written # {}) => trained
  /\ ~Imported =>
       /\ trained => samples >= TrainMin
       /\ ~trained => samples = trainset

LEMMA ProfileKept ==
  ASSUME [Next]_vars
  PROVE  /\ \A phase, what : Does(phase, what)' <=> Does(phase, what)
         /\ LooksAtTargets' <=> LooksAtTargets
         /\ Learns' <=> Learns
         /\ Imported' <=> Imported
BY SetupKept DEF Does, LooksAtTargets, Learns, Imported

LEMMA KnowKept ==
  ASSUME Types, ShareInv, KnowInv, [Next]_vars
  PROVE  KnowInv'
<1>0. /\ \A phase, what : Does(phase, what)' <=> Does(phase, what)
      /\ LooksAtTargets' <=> LooksAtTargets
      /\ Learns' <=> Learns
      /\ Imported' <=> Imported
      /\ Targets' = Targets
  BY ProfileKept, SetupKept
<1>1. /\ controls \in Nat /\ samples \in Nat /\ trainset \in Nat /\ trained \in BOOLEAN
      /\ TrainMin \in Nat \ {0} /\ Warmup \in Nat /\ OrderPlus \in Nat \ {0}
      /\ window \in 0..OrderPlus
  BY ManagerSizesAssumption, ManagerBoundsAssumption
  DEF Types, ControlTypes, ModelTypes, EstimateTypes
<1>2. CASE /\ UNCHANGED <<controls, errors, window, trained, samples, trainset>>
           /\ Goes' => Goes
           /\ pc' \in {"solve", "write"} \/ written' # {} =>
                pc \in {"solve", "write"} \/ written # {}
  BY <1>0, <1>2 DEF KnowInv
<1>3. CASE Reset
  <2>1. pc' = "idle" /\ written' = {} /\ trainset' = 0 /\ samples' = 0
        /\ trained' = (Learns /\ Imported)
    BY <1>3 DEF Reset, ShareInv, controlVars, Imported
  <2>2. ~Goes'
    BY <2>1 DEF Goes
  <2>3. QED
    BY <1>0, <2>1, <2>2 DEF KnowInv
<1>4. CASE Decide
  <2>1. pc = "idle" /\ written' = {} /\ errors' = Estimated /\ controls' = controls + 1
        /\ UNCHANGED modelVars
    BY <1>4 DEF Decide, ShareInv
  <2>2. CASE Skips
    <3>1. ~Goes' /\ pc' = "export"
      BY <1>4, <2>1, <2>2 DEF Decide, Goes
    <3>2. QED
      BY <1>0, <2>1, <3>1 DEF KnowInv, modelVars
  <2>3. CASE ~Skips
    <3>1. pc' = IF Learns THEN "learn" ELSE "solve"
      BY <1>4, <2>3 DEF Decide
    <3>2. LooksAtTargets => /\ Estimated = Targets
                            /\ Does("decide", "warmup") => ~(controls' <= Warmup)
                            /\ Does("decide", "window") => ~(window' < OrderPlus)
      BY <2>3 DEF Skips
    <3>3. window' \in 0..OrderPlus
      BY <1>1, <1>4 DEF Decide
    <3>4. LooksAtTargets =>
            /\ Does("decide", "warmup") => controls' > Warmup
            /\ Does("decide", "window") => window' = OrderPlus
      BY <1>1, <2>1, <3>2, <3>3
    <3>5. UNCHANGED <<trained, samples, trainset>>
      BY <2>1 DEF modelVars
    <3>6. QED
      BY <1>0, <2>1, <3>1, <3>2, <3>4, <3>5 DEF KnowInv
  <2>4. QED
    BY <2>2, <2>3
<1>5. CASE Learn
  <2>1. /\ pc = "learn" /\ samples' = samples + 1
        /\ trained' = (trained \/ trainset + 1 >= TrainMin)
        /\ ~trained' => trainset' \in {trainset + 1}
        /\ IF trained' THEN pc' = "solve" ELSE pc' = "export"
        /\ UNCHANGED <<controls, window, errors, written>>
    BY <1>5 DEF Learn, estimateVars
  <2>2. written' = {}
    BY <2>1 DEF ShareInv
  <2>3. Goes
    BY <2>1 DEF Goes
  <2>4. ~Imported => /\ trained' => samples' >= TrainMin
                     /\ ~trained' => samples' = trainset'
    BY <1>1, <2>1 DEF KnowInv
  <2>5. pc' \in {"solve", "write"} => trained'
    BY <2>1
  <2>6. QED
    BY <1>0, <2>1, <2>2, <2>3, <2>4, <2>5 DEF KnowInv
<1>6. CASE Solve
  <2>1. pc = "solve" /\ written' = written
        /\ UNCHANGED <<controls, errors, window, trained, samples, trainset>>
    BY <1>6 DEF Solve, Solved, SolveFails, FallBack, SolvedNegative, NotIdentified, NothingToDo,
       SolvedShort, SolveThrows, May, controlVars, counterVars, estimateVars, modelVars
  <2>2. QED
    BY <1>2, <2>1 DEF Goes
<1>7. CASE Write \/ WriteFails \/ WriteThrows
  <2>1. pc = "write" /\ UNCHANGED <<controls, errors, window, trained, samples, trainset>>
    BY <1>7 DEF Write, WriteFails, WriteThrows, counterVars, controlVars, estimateVars, modelVars
  <2>2. QED
    BY <1>2, <2>1 DEF Goes
<1>8. CASE Export
  <2>1. pc' = "idle" /\ written' = {} /\ UNCHANGED <<trained, samples, trainset>>
    BY <1>8 DEF Export, modelVars
  <2>2. QED
    BY <1>0, <2>1 DEF KnowInv, Goes
<1>9. CASE DecideThrows
  <2>1. pc = "idle" /\ pc' = "thrown" /\ written' = {} /\ UNCHANGED <<trained, samples, trainset>>
    BY <1>9 DEF DecideThrows, ShareInv, modelVars, controlVars
  <2>2. QED
    BY <1>0, <2>1 DEF KnowInv, Goes
<1>10. CASE ResetThrows \/ Sample \/ SampleThrows \/ LearnThrows \/ ExportThrows
            \/ ExportUndefined \/ Over \/ UNCHANGED vars
  BY <1>2, <1>10 DEF ResetThrows, Sample, SampleThrows, LearnThrows, ExportThrows,
     ExportUndefined, Over, vars, counterVars, controlVars, estimateVars, modelVars, Goes
<1>11. QED
  BY <1>3, <1>4, <1>5, <1>6, <1>7, <1>8, <1>9, <1>10 DEF Next

\* For every manager, warm-up, history and training set: no share is changed by a control
\* that does not know enough.
THEOREM ManagerControlsInformed == Spec => []InformedControl
<1>1. Init => KnowInv
  BY DEF Init, Cleared, KnowInv, Goes
<1>2. Types /\ ShareInv /\ KnowInv /\ [Next]_vars => KnowInv'
  BY KnowKept
<1>3. Types /\ KnowInv => InformedControl
  <2>1. SUFFICES ASSUME Types, KnowInv, written # {}, cfg.kind # "sysid"
                 PROVE  /\ errors = Targets
                        /\ Does("decide", "warmup") => controls > Warmup
                        /\ Learns => /\ trained /\ window = OrderPlus
                                     /\ cfg.prebuilt \/ Does("reset", "prebuilt")
                                          \/ samples >= TrainMin
    BY DEF InformedControl
  <2>2. cfg.kind \in DOMAIN Managers
    BY <2>1, SetupFields DEF Types, ControlTypes
  <2>3. LooksAtTargets /\ (Learns => Does("decide", "window"))
    BY <2>1, <2>2, DecideProfiles DEF LooksAtTargets, Learns, Does
  <2>4. QED
    BY <2>1, <2>3 DEF KnowInv, Goes, Imported
<1>4. QED
  BY <1>1, <1>2, <1>3, TypesInvariant, ShareInvariant, PTL DEF Spec

-----------------------------------------------------------------------------
(* How control() and the others end the program                            *)

OneTargetKinds == {"dummy", "albano", "albano_v4", "albano_v5", "fc2q", "padala", "rao"}
LearningKinds == {"lama2013", "lama2015", "wang_fmpc", "wang_qos"}

\* What EscapesExplained says of a member function that is left by an exception.
Why ==
  \/ struck # {}
  \/ cfg.targets = 2 /\ cfg.kind \in OneTargetKinds
  \/ cfg.exporting /\ partial
  \/ cfg.exporting /\ cfg.extended /\ cfg.kind = "sysid"
  \/ ~cfg.exporting /\ cfg.kind \in LearningKinds

LEMMA StruckIsSomething ==
  ASSUME NEW fault, Strikes(fault)
  PROVE  struck' # {}
BY DEF Strikes

\* The smoothers are only missing without an output file.
LEMMA LacksSmoothersWhy ==
  ASSUME Types, LacksSmoothers
  PROVE  ~cfg.exporting /\ cfg.kind \in LearningKinds
<1>1. cfg.kind \in DOMAIN Managers
  BY KindIsKnown
<1>2. ReadsShares /\ ~HasSmoothers
  BY DEF LacksSmoothers
<1>3. "readsFirst" \in Managers[cfg.kind].decide \/ "readsAfter" \in Managers[cfg.kind].decide
  BY <1>2 DEF ReadsShares, Does
<1>4. cfg.kind # "sysid"
  BY <1>1, <1>3, DecideProfiles
<1>5. "smoothers" \in Managers[cfg.kind].reset
  BY <1>1, <1>4, ResetProfiles
<1>6. "ifExporting" \in Managers[cfg.kind].reset /\ ~cfg.exporting
  BY <1>2, <1>5 DEF HasSmoothers, Does
<1>7. QED
  BY <1>1, <1>6, ResetProfiles DEF LearningKinds

\* Some errors are only missing if there is more than one target.
LEMMA ErrorMissingWhy ==
  ASSUME Types, ErrorMissing
  PROVE  cfg.targets = 2 /\ cfg.kind \in OneTargetKinds
<1>1. errors \subseteq Targets /\ errors # {} /\ errors # Targets
  BY DEF Types, EstimateTypes, ErrorMissing
<1>2. cfg.targets # 1
  <2>1. SUFFICES ASSUME cfg.targets = 1 PROVE FALSE
    OBVIOUS
  <2>2. Targets = {1}
    BY <2>1 DEF Targets
  <2>3. QED
    BY <1>1, <2>2
<1>3. cfg.kind \in {"dummy", "fc2q"}
  BY KindIsKnown, ApplyProfiles DEF ErrorMissing, Does
<1>4. QED
  BY <1>2, <1>3, TooManyTargets DEF OneTargetKinds

\* Every step that ends the program has a cause.
LEMMA EndsForAReason ==
  ASSUME Types, [Next]_vars, pc \notin {"thrown", "undefined"}, pc' \in {"thrown", "undefined"}
  PROVE  Why' \/ (cfg'.kind \in {"wang_fmpc", "wang_qos"} /\ pc' = "undefined")
<1>1. cfg' = cfg /\ cfg.kind \in DOMAIN Managers
  BY SetupKept, KindIsKnown
<1>2. CASE ResetThrows
  <2>1. CASE Does("reset", "oneTarget") /\ cfg.targets > 1
    <3>1. cfg.kind = "padala" /\ cfg.targets = 2
      BY <1>1, <2>1, ResetProfiles, TooManyTargets DEF Does
    <3>2. QED
      BY <1>1, <3>1 DEF Why, OneTargetKinds
  <2>2. CASE \E fault : Strikes(fault)
    BY <2>2, StruckIsSomething DEF Why
  <2>3. QED
    BY <1>2, <2>1, <2>2 DEF ResetThrows
<1>3. CASE SampleThrows
  <2>1. CASE Does("sample", "rows") /\ cfg.exporting /\ cfg.extended
    <3>1. cfg.kind = "sysid"
      BY <1>1, <2>1, ResetProfiles DEF Does
    <3>2. QED
      BY <1>1, <2>1, <3>1 DEF Why
  <2>2. CASE \E fault : Strikes(fault)
    BY <2>2, StruckIsSomething DEF Why
  <2>3. QED
    BY <1>3, <2>1, <2>2 DEF SampleThrows
<1>4. CASE DecideThrows
  <2>1. CASE LacksSmoothers
    BY <1>1, <2>1, LacksSmoothersWhy DEF Why
  <2>2. CASE \E fault : Strikes(fault)
    BY <2>2, StruckIsSomething DEF Why
  <2>3. QED
    BY <1>4, <2>1, <2>2 DEF DecideThrows
<1>5. CASE LearnThrows \/ WriteThrows
  BY <1>5, StruckIsSomething DEF LearnThrows, WriteThrows, Why
<1>6. CASE Solve
  <2>1. CASE SolvedShort
    <3>1. cfg.kind \in {"wang_fmpc", "wang_qos"} /\ pc' = "undefined"
      BY <1>1, <2>1, SolveProfiles DEF SolvedShort, May, Does
    <3>2. QED
      BY <1>1, <3>1
  <2>2. CASE SolveThrows
    <3>1. Does("apply", "oneTarget") /\ cfg.targets # 1
      BY <2>2 DEF SolveThrows, OnlyOneTarget
    <3>2. cfg.targets = 2 /\ cfg.kind \in OneTargetKinds
      BY <1>1, <3>1, ApplyProfiles, TooManyTargets DEF Does, OneTargetKinds
    <3>3. QED
      BY <1>1, <3>2 DEF Why
  <2>3. QED
    BY <1>6, <2>1, <2>2
    DEF Solve, Solved, SolveFails, FallBack, SolvedNegative, NotIdentified, NothingToDo
<1>7. CASE ExportThrows
  <2>1. CASE ErrorMissing
    BY <1>1, <2>1, ErrorMissingWhy DEF Why
  <2>2. CASE partial
    <3>1. partial' /\ cfg.exporting
      BY <1>7, <2>2 DEF ExportThrows, controlVars
    <3>2. QED
      BY <1>1, <3>1 DEF Why
  <2>3. CASE \E fault : Strikes(fault)
    BY <2>3, StruckIsSomething DEF Why
  <2>4. QED
    BY <1>7, <2>1, <2>2, <2>3 DEF ExportThrows
<1>8. CASE ExportUndefined
  <2>1. partial' /\ cfg.exporting
    BY <1>8 DEF ExportUndefined, controlVars
  <2>2. QED
    BY <1>1, <2>1 DEF Why
<1>9. QED
  BY <1>2, <1>3, <1>4, <1>5, <1>6, <1>7, <1>8
  DEF Next, Reset, Sample, Decide, Learn, Write, WriteFails, Export, Over, vars

\* For all managers and set-ups: nothing else ends the program.
THEOREM ManagerEscapesExplained == Spec => []EscapesExplained
<1>1. EscapesExplained <=>
        (pc \in {"thrown", "undefined"} =>
           Why \/ (cfg.kind \in {"wang_fmpc", "wang_qos"} /\ pc = "undefined"))
  BY DEF EscapesExplained, Why, OneTargetKinds, LearningKinds
<1>2. Init => EscapesExplained
  BY DEF Init, EscapesExplained
<1>3. Types /\ EscapesExplained /\ [Next]_vars => EscapesExplained'
  <2>1. SUFFICES ASSUME Types, EscapesExplained, [Next]_vars, pc' \in {"thrown", "undefined"}
                 PROVE  Why' \/ (cfg'.kind \in {"wang_fmpc", "wang_qos"} /\ pc' = "undefined")
    BY DEF EscapesExplained, Why, OneTargetKinds, LearningKinds
  <2>2. CASE pc \in {"thrown", "undefined"}
    <3>1. UNCHANGED vars
      BY <2>1, <2>2 DEF Next, Reset, ResetThrows, Sample, SampleThrows, Decide, DecideThrows,
         Learn, LearnThrows, Solve, Solved, SolveFails, FallBack, SolvedNegative, NotIdentified,
         NothingToDo, SolvedShort, SolveThrows, Write, WriteFails, WriteThrows, Export,
         ExportThrows, ExportUndefined, Over, May
    <3>2. struck' = struck /\ cfg' = cfg /\ partial' = partial /\ pc' = pc
      BY <3>1 DEF vars, controlVars
    <3>3. QED
      BY <1>1, <2>1, <2>2, <3>2 DEF Why
  <2>3. CASE pc \notin {"thrown", "undefined"}
    BY <2>1, <2>3, EndsForAReason
  <2>4. QED
    BY <2>2, <2>3
<1>4. QED
  BY <1>2, <1>3, TypesInvariant, PTL DEF Spec
=============================================================================
