--------------------------- MODULE DriverContract ---------------------------
(***************************************************************************)
(* What a workload driver promises to the experiment that runs it          *)
(* (base_workload_driver.hpp): after a reset it is neither launched nor    *)
(* ready, start() launches a live workload generator, the generator may    *)
(* finish its ramp-up, which makes the driver ready, and it ends by itself *)
(* or because stop() ends it.                                              *)
(*                                                                         *)
(* WorkloadDriver shows that the RAIN and YCSB drivers keep this promise   *)
(* in one life cycle; ApplicationExperiment is written against it.         *)
(***************************************************************************)

VARIABLES
  launched,  \* start() has launched a generator since the last reset
  alive,     \* the generator is running: done() == !alive
  ready      \* what ready() returns

vars == <<launched, alive, ready>>

TypeOK == /\ launched \in BOOLEAN
          /\ alive \in BOOLEAN
          /\ ready \in BOOLEAN

Init == launched = FALSE /\ alive = FALSE /\ ready = FALSE

\* base_workload_driver::reset()
Reset == launched' = FALSE /\ alive' = FALSE /\ ready' = FALSE

\* base_workload_driver::start(), once its own reset is over
Launch == /\ ~launched /\ ~ready
          /\ launched' = TRUE /\ alive' = TRUE
          /\ UNCHANGED ready

\* The generator announces the end of its ramp-up phase.  The announcement
\* may be read after the generator has ended.
RampUp == /\ launched
          /\ ready' = TRUE
          /\ UNCHANGED <<launched, alive>>

\* The generator ends by itself or is terminated by stop().
Exit == alive' = FALSE /\ UNCHANGED <<launched, ready>>

Next == Reset \/ Launch \/ RampUp \/ Exit

Spec == Init /\ [][Next]_vars
=============================================================================
