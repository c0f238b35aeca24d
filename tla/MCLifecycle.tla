---------------------------- MODULE MCLifecycle -----------------------------
(* The instance of Lifecycle for TLC: more requests than connections.  The  *)
(* run checks liveness, so it uses no symmetry.                             *)
EXTENDS Lifecycle
=============================================================================
