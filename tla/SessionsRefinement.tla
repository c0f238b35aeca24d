------------------------- MODULE SessionsRefinement -------------------------
(***************************************************************************)
(* Sessions implements RotatingSession: the row of auth_sessions is the    *)
(* session, and the statements of a call that precede its last one change  *)
(* nothing that a client could tell.                                       *)
(***************************************************************************)
EXTENDS Sessions

Chain == [owner : User, last : Call, till : Nat, ended : BOOLEAN]

ASSUME ChainAssumption == Nil \notin Chain

MappedGone == {u \in User : user[u] = "deleted"}

MappedChain ==
    [s \in Call |->
        IF sessions[s] = Nil THEN Nil
        ELSE [owner |-> sessions[s].user,
              last  |-> sessions[s].token,
              till  |-> sessions[s].expiresAt,
              ended |-> sessions[s].revokedAt # Nil]]

MappedPhase ==
    [c \in Call |->
        IF pc[c] \in {"done", "crashed"} THEN "over"
        ELSE IF kind[c] = "refresh" THEN "refreshing"
        ELSE IF kind[c] = "logout" THEN "leaving"
        ELSE "new"]

(* Only a call that presents a token is bound to the time it read first. *)
MappedBegan ==
    [c \in Call |-> IF kind[c] \in {"refresh", "logout"} THEN now[c] ELSE 0]

Contract == INSTANCE RotatingSession WITH
                gone <- MappedGone,
                chain <- MappedChain,
                phase <- MappedPhase,
                asks <- token,
                began <- MappedBegan,
                answer <- reply,
                known <- Delivered,
                failed <- fault

(* Every behaviour of the service and its session table is one of sessions *)
(* that change in single steps: of all calls that present a token at once, *)
(* one at most exchanges it; one that presents the usable token exchanges  *)
(* it or ends the session, so the token is not refused and left usable     *)
(* unless a statement failed; and a Logout ends the session of no token    *)
(* but its own.                                                            *)
ImplementsContract == Contract!Spec

=============================================================================
