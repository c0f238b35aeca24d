----------------------------- MODULE MCSessions -----------------------------
(* The instance of Sessions, with the contract it implements, for TLC.      *)
(* Calls are interchangeable; nothing that the run checks is a liveness     *)
(* property.                                                                *)
EXTENDS SessionsRefinement, TLC

CallSymmetry == Permutations(Call)
=============================================================================
