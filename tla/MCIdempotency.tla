--------------------------- MODULE MCIdempotency ---------------------------
(* Instances of Idempotency for the two runs that show where it differs    *)
(* from its documentation.  Calls are interchangeable; the runs check      *)
(* invariants only.                                                        *)
EXTENDS Idempotency, TLC

CallSymmetry == Permutations(Call)
=============================================================================
