----------------------- MODULE MCApplicationExperiment -----------------------
(* Finite instances of ApplicationExperiment.                              *)
EXTENDS ApplicationExperiment, TLC

CONSTANTS v1, v2

\* Two VMs, so that a loop over them can fail between the first and the second.
MCVMs == {v1, v2}

\* The VMs are interchangeable.
MCSymmetry == Permutations(MCVMs)

\* run() may throw anywhere except where the saved shares are half written or
\* already used up: in save, in restore and in an on-stop handler.
MCCleanFaults == FaultPoints \ {"save", "restore", "on_stop"}
=============================================================================
