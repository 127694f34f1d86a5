--------------------------- MODULE MCIdempotency ---------------------------
(***************************************************************************)
(* Instances of Idempotency for TLC.  The requests are not permuted: the   *)
(* run checks a liveness property, for which symmetry is not sound.        *)
(***************************************************************************)
EXTENDS Idempotency

=============================================================================
