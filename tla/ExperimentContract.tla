------------------------- MODULE ExperimentContract -------------------------
(***************************************************************************)
(* What an application experiment promises about the virtual machines of   *)
(* its application: it takes note of their shares when it begins, only a   *)
(* managed experiment changes them, and it ends with the noted shares in   *)
(* place when the restoration of the state is asked for (the comment of    *)
(* application_experiment::restore_state).                                 *)
(***************************************************************************)
CONSTANTS VMs, Shares

VARIABLES
  phase,         \* of the experiment
  restoreState,  \* whether the shares are to be restored
  shares,        \* current shares of each VM
  before         \* the shares noted when the experiment began

vars == <<phase, restoreState, shares, before>>

ShareRec == [cpu : Shares, mem : Shares]

Phases == {"idle", "unmanaged", "managed", "settling", "leaving", "over"}

Init == /\ phase = "idle"
        /\ restoreState \in BOOLEAN
        /\ shares \in [VMs -> ShareRec]
        /\ before = shares

Configure == /\ phase = "idle"
             /\ restoreState' \in BOOLEAN
             /\ UNCHANGED <<phase, shares, before>>

Begin == /\ phase = "idle"
         /\ phase' = "unmanaged"
         /\ before' = shares
         /\ UNCHANGED <<restoreState, shares>>

Manage == /\ phase = "unmanaged"
          /\ phase' = "managed"
          /\ UNCHANGED <<restoreState, shares, before>>

\* The manager sets the shares of a VM.
Control(v) == /\ phase = "managed"
              /\ \E r \in ShareRec : shares' = [shares EXCEPT ![v] = r]
              /\ UNCHANGED <<phase, restoreState, before>>

Settle == /\ phase \in {"unmanaged", "managed"}
          /\ phase' = "settling"
          /\ UNCHANGED <<restoreState, shares, before>>

\* A share gets back its noted value.
Restore(v) == /\ phase \in {"settling", "leaving"} /\ restoreState
              /\ \/ shares' = [shares EXCEPT ![v].cpu = before[v].cpu]
                 \/ shares' = [shares EXCEPT ![v].mem = before[v].mem]
              /\ UNCHANGED <<phase, restoreState, before>>

End == /\ phase = "settling"
       /\ restoreState => shares = before
       /\ phase' = "idle"
       /\ UNCHANGED <<restoreState, shares, before>>

\* The experiment fails or its object is destroyed: nothing manages it any more.
Leave == /\ phase # "over"
         /\ phase' \in {"leaving", "over"}
         /\ UNCHANGED <<restoreState, shares, before>>

Next == \/ Configure \/ Begin \/ Manage \/ Settle \/ End \/ Leave
        \/ \E v \in VMs : Control(v) \/ Restore(v)

Spec == Init /\ [][Next]_vars
=============================================================================
