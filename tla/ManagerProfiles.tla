-------------------------- MODULE ManagerProfiles --------------------------
(***************************************************************************)
(* What each of the application managers does in the phases that all of    *)
(* them have: do_reset(), do_sample(), and the parts of do_control().  The *)
(* phases themselves are the actions of ApplicationManager; a profile says *)
(* which of their alternatives the code of a manager takes.                *)
(*                                                                         *)
(*   Reset   oneTarget      throws unless there is one target              *)
(*           shares         writes the initial shares to the VMs           *)
(*           smoothers      makes a smoother per VM and resource           *)
(*           ifExporting    ... but only if there is an output file        *)
(*           model          forgets the model, or imports a prebuilt one   *)
(*           prebuilt       ... always imports it                          *)
(*   Sample  vms            senses and smooths the utilisation of the VMs  *)
(*           ifExporting    ... but only if there is an output file        *)
(*           rows           writes a row per observation                   *)
(*   Decide  readsFirst     reads the shares before it looks at a target   *)
(*           readsAfter     ... once every target has observations         *)
(*           eachTarget     estimates targets up to the first unobserved   *)
(*           allTargets     estimates none unless all are observed         *)
(*           previousError  needs the error of an earlier estimate         *)
(*           ready          needs an utilisation of every VM               *)
(*           window         needs a full history of outputs                *)
(*           warmup         skips the first controls                       *)
(*   Learn   learns         trains its model before the control            *)
(*   Solve   how solving the control problem may end                       *)
(*   Apply   oneTarget      throws unless there is one target              *)
(*           memory         writes memory shares after the CPU shares      *)
(*           asSolved       writes each share when it is solved            *)
(*           fallback       writes the utilisations after repeated failure *)
(*   Export  errors         looks up the error of every target             *)
(*           deltas         looks up the change of every share             *)
(*           unchecked      ... without checking that it is there          *)
(* With an output file every manager also writes into its line what the   *)
(* estimators of its targets say then (ApplicationManager!Shown).          *)
(***************************************************************************)

\* dummy: never writes a share
DummyReset == {"smoothers"}
DummySample == {"vms"}
DummyDecide == {"readsFirst", "eachTarget"}
DummySolve == {"nothing"}
DummyApply == {"memory"}
DummyExport == {"errors"}

\* albano2013_fuzzyqe
AlbanoReset == {"smoothers"}
AlbanoSample == {"vms"}
AlbanoDecide == {"readsFirst", "eachTarget"}
AlbanoSolve == {"solved", "failed", "partly"}
AlbanoApply == {"oneTarget"}
AlbanoExport == {}

\* albano2013v4_fuzzyqe: other membership functions
AlbanoV4Reset == AlbanoReset
AlbanoV4Sample == AlbanoSample
AlbanoV4Decide == AlbanoDecide
AlbanoV4Solve == AlbanoSolve
AlbanoV4Apply == AlbanoApply
AlbanoV4Export == AlbanoExport

\* albano2013v5_fuzzyqe: other membership functions
AlbanoV5Reset == AlbanoReset
AlbanoV5Sample == AlbanoSample
AlbanoV5Decide == AlbanoDecide
AlbanoV5Solve == AlbanoSolve
AlbanoV5Apply == AlbanoApply
AlbanoV5Export == AlbanoExport

\* anglano2014_fc2q
Fc2qReset == {"smoothers"}
Fc2qSample == {"vms"}
Fc2qDecide == {"readsFirst", "eachTarget", "warmup"}
Fc2qSolve == {"solved", "failed", "partly"}
Fc2qApply == {"oneTarget"}
Fc2qExport == {"errors", "deltas", "unchecked"}

\* anglano2014_fc2q_mimo
MimoReset == {"smoothers"}
MimoSample == {"vms"}
MimoDecide == {"readsFirst", "eachTarget", "warmup"}
MimoSolve == {"solved", "failed", "partly"}
MimoApply == {"memory"}
MimoExport == {"deltas"}

\* anglano2014_fc2q_mimo_v2
MimoV2Reset == {"smoothers"}
MimoV2Sample == {"vms"}
MimoV2Decide == {"readsFirst", "eachTarget", "previousError", "warmup"}
MimoV2Solve == {"solved", "failed", "partly"}
MimoV2Apply == {"memory"}
MimoV2Export == {"deltas"}

\* anglano2014_fc2q_mimo_v3
MimoV3Reset == {"smoothers"}
MimoV3Sample == {"vms"}
MimoV3Decide == {"readsFirst", "eachTarget", "warmup"}
MimoV3Solve == {"solved", "failed", "partly"}
MimoV3Apply == {"memory"}
MimoV3Export == {"deltas"}

\* anglano2014_fc2q_mimo_v4
MimoV4Reset == {"smoothers"}
MimoV4Sample == {"vms"}
MimoV4Decide == {"readsFirst", "eachTarget", "warmup"}
MimoV4Solve == {"solved"}
MimoV4Apply == {"memory", "asSolved"}
MimoV4Export == {"deltas"}

\* anglano2016_fcms
FcmsReset == {"smoothers"}
FcmsSample == {"vms"}
FcmsDecide == {"readsFirst", "eachTarget", "warmup"}
FcmsSolve == {"solved"}
FcmsApply == {"memory", "asSolved"}
FcmsExport == {"deltas"}

\* padala2009_autocontrol
PadalaReset == {"oneTarget", "smoothers"}
PadalaSample == {"vms"}
PadalaDecide == {"readsAfter", "eachTarget"}
PadalaSolve == {"unidentified", "learning", "solved", "failed", "negative"}
PadalaApply == {}
PadalaExport == {}

\* rao2013_dynaqos
RaoReset == {"smoothers"}
RaoSample == {"vms"}
RaoDecide == {"eachTarget"}
RaoSolve == {"solved", "failed"}
RaoApply == {"oneTarget"}
RaoExport == {}

\* sysid: excites the VMs for the identification of their model.  No target decides what it
\* does, but its line shows every observed one, and the reset there is compiled for a misspelt
\* macro: it has no part in ResetEstimators, whatever the build.
SysIdReset == {"shares"}
SysIdSample == {"vms", "rows"}
SysIdDecide == {}
SysIdSolve == {"solved"}
SysIdApply == {"memory"}
SysIdExport == {}

\* lama2013_appleware
Lama2013Reset == {"smoothers", "ifExporting", "model"}
Lama2013Sample == {"vms", "ifExporting"}
Lama2013Decide == {"readsAfter", "allTargets", "window", "warmup"}
Lama2013Learn == {"learns"}
Lama2013Solve == {"solved", "failed"}
Lama2013Apply == {"memory", "fallback"}
Lama2013Export == {}

\* lama2015_appleware
Lama2015Reset == {"smoothers", "ifExporting", "model"}
Lama2015Sample == {"vms", "ifExporting"}
Lama2015Decide == {"readsAfter", "allTargets", "window", "warmup"}
Lama2015Learn == {"learns"}
Lama2015Solve == {"solved", "failed"}
Lama2015Apply == {"memory"}
Lama2015Export == {}

\* wang2015_fmpc
WangFmpcReset == {"smoothers", "ifExporting", "model"}
WangFmpcSample == {"vms", "ifExporting"}
WangFmpcDecide == {"readsAfter", "allTargets", "window", "warmup"}
WangFmpcLearn == {"learns"}
WangFmpcSolve == {"solved", "failed", "short"}
WangFmpcApply == {"memory"}
WangFmpcExport == {}

\* wang2015_qoscloud
WangQosReset == {"smoothers", "ifExporting", "model"}
WangQosSample == {"vms", "ifExporting"}
WangQosDecide == {"readsAfter", "allTargets", "window", "warmup"}
WangQosLearn == {"learns"}
WangQosSolve == {"solved", "failed", "short"}
WangQosApply == {"memory"}
WangQosExport == {}

\* guazzone2015_anfis_ssmpc: needs full histories of inputs too, which grow with that of the
\* outputs, so that its window is the longest of the three.
GuazzoneReset == {"smoothers", "model", "prebuilt"}
GuazzoneSample == {"vms"}
GuazzoneDecide == {"readsAfter", "allTargets", "ready", "window", "warmup"}
GuazzoneLearn == {"learns"}
GuazzoneSolve == {"solved", "failed"}
GuazzoneApply == {"memory"}
GuazzoneExport == {}

-----------------------------------------------------------------------------
Profile(reset, sample, decide, learn, solve, apply, export) ==
  [reset |-> reset, sample |-> sample, decide |-> decide, learn |-> learn,
   solve |-> solve, apply |-> apply, export |-> export]

\* The managers by name
Managers ==
  [dummy |-> Profile(DummyReset, DummySample, DummyDecide, {},
                    DummySolve, DummyApply, DummyExport),
   albano |-> Profile(AlbanoReset, AlbanoSample, AlbanoDecide, {},
                     AlbanoSolve, AlbanoApply, AlbanoExport),
   albano_v4 |-> Profile(AlbanoV4Reset, AlbanoV4Sample, AlbanoV4Decide, {},
                        AlbanoV4Solve, AlbanoV4Apply, AlbanoV4Export),
   albano_v5 |-> Profile(AlbanoV5Reset, AlbanoV5Sample, AlbanoV5Decide, {},
                        AlbanoV5Solve, AlbanoV5Apply, AlbanoV5Export),
   fc2q |-> Profile(Fc2qReset, Fc2qSample, Fc2qDecide, {},
                   Fc2qSolve, Fc2qApply, Fc2qExport),
   mimo |-> Profile(MimoReset, MimoSample, MimoDecide, {},
                   MimoSolve, MimoApply, MimoExport),
   mimo_v2 |-> Profile(MimoV2Reset, MimoV2Sample, MimoV2Decide, {},
                      MimoV2Solve, MimoV2Apply, MimoV2Export),
   mimo_v3 |-> Profile(MimoV3Reset, MimoV3Sample, MimoV3Decide, {},
                      MimoV3Solve, MimoV3Apply, MimoV3Export),
   mimo_v4 |-> Profile(MimoV4Reset, MimoV4Sample, MimoV4Decide, {},
                      MimoV4Solve, MimoV4Apply, MimoV4Export),
   fcms |-> Profile(FcmsReset, FcmsSample, FcmsDecide, {},
                   FcmsSolve, FcmsApply, FcmsExport),
   padala |-> Profile(PadalaReset, PadalaSample, PadalaDecide, {},
                     PadalaSolve, PadalaApply, PadalaExport),
   rao |-> Profile(RaoReset, RaoSample, RaoDecide, {},
                  RaoSolve, RaoApply, RaoExport),
   sysid |-> Profile(SysIdReset, SysIdSample, SysIdDecide, {},
                    SysIdSolve, SysIdApply, SysIdExport),
   lama2013 |-> Profile(Lama2013Reset, Lama2013Sample, Lama2013Decide, Lama2013Learn,
                       Lama2013Solve, Lama2013Apply, Lama2013Export),
   lama2015 |-> Profile(Lama2015Reset, Lama2015Sample, Lama2015Decide, Lama2015Learn,
                       Lama2015Solve, Lama2015Apply, Lama2015Export),
   wang_fmpc |-> Profile(WangFmpcReset, WangFmpcSample, WangFmpcDecide, WangFmpcLearn,
                        WangFmpcSolve, WangFmpcApply, WangFmpcExport),
   wang_qos |-> Profile(WangQosReset, WangQosSample, WangQosDecide, WangQosLearn,
                       WangQosSolve, WangQosApply, WangQosExport),
   guazzone |-> Profile(GuazzoneReset, GuazzoneSample, GuazzoneDecide, GuazzoneLearn,
                       GuazzoneSolve, GuazzoneApply, GuazzoneExport)]
=============================================================================
