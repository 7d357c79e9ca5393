--------------------------- MODULE MCIdempotency ---------------------------
(***************************************************************************)
(* A small instance of Idempotency for TLC.  It declares no symmetry: one  *)
(* of its properties is about liveness.                                    *)
(***************************************************************************)
EXTENDS Idempotency

=============================================================================
