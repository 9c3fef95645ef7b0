-------------------------- MODULE MCWorkloadDriver --------------------------
(* Instances of WorkloadDriver for TLC. *)
EXTENDS WorkloadDriver

MCRain == <<"logger">>
MCYcsb == <<"logger", "status_dumper">>
=============================================================================
