-------------------------- MODULE MCDataEstimators --------------------------
EXTENDS DataEstimators

MCKinds == DOMAIN Estimators
=============================================================================
