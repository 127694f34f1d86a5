----------------------------- MODULE MCEventBus -----------------------------
(***************************************************************************)
(* Instances of EventBus for TLC.  The workers are not permuted: the runs  *)
(* check liveness properties, for which symmetry is not sound.             *)
(***************************************************************************)
EXTENDS EventBus

=============================================================================
