------------------------- MODULE MCSystemExperiment -------------------------
EXTENDS SystemExperiment
=============================================================================
