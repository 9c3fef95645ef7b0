------------------------ MODULE MCApplicationManager ------------------------
EXTENDS ApplicationManager

\* Every manager, with one target and with two; the set-up options where they matter.
MCSetups ==
  {s \in [kind : DOMAIN Managers, targets : 1..2, vms : 1..2, exporting : BOOLEAN,
          resetEvery : BOOLEAN, prebuilt : BOOLEAN, extended : BOOLEAN] :
     /\ s.extended => s.kind = "sysid"
     /\ s.prebuilt => s.kind \in {"lama2013", "lama2015", "wang_fmpc", "wang_qos"}
     /\ s.vms = 2 => s.kind \notin {"lama2013", "lama2015", "wang_fmpc", "wang_qos", "guazzone"}
     /\ s.vms = 1 => s.kind \notin {"albano_v4", "albano_v5", "mimo_v3"}}
=============================================================================
