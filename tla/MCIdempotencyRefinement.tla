---------------------- MODULE MCIdempotencyRefinement -----------------------
(* The instance of Idempotency, with the abstract key it implements, for    *)
(* TLC.  Calls and payloads are interchangeable; nothing that the run       *)
(* checks is a liveness property.                                           *)
EXTENDS IdempotencyRefinement, TLC

MCSymmetry == Permutations(Call) \cup Permutations(Payload)
=============================================================================
