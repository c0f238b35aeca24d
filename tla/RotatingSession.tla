-------------------------- MODULE RotatingSession ---------------------------
(***************************************************************************)
(* What a login session promises, without the statements that keep the     *)
(* promise: a session has one refresh token that can be exchanged, the     *)
(* last one; a Refresh or a Logout acts on it in a single step.  A Refresh *)
(* that presents it in time exchanges it or ends the session (whether the  *)
(* user may go on is not the contract's affair); any other is refused.     *)
(*                                                                         *)
(* A session goes by the call that opened it and a token by the call that  *)
(* generated it.  A call that crashes or meets an error promises nothing   *)
(* to its client, but does no other step than these.                       *)
(*                                                                         *)
(* This is the contract of auth.Service and its session repository that    *)
(* SessionsRefinement shows Sessions to implement.                         *)
(***************************************************************************)
EXTENDS Integers

CONSTANTS
    Call,        \* RPC invocations
    User,        \* users
    RefreshTTL,  \* JWT_REFRESH_TOKEN_TTL
    Nil          \* no session, no token, no answer

VARIABLES
    clock,   \* wall clock
    gone,    \* users that were deleted
    chain,   \* what there is of each session
    phase,   \* "new", "refreshing", "leaving" or "over", for each call
    asks,    \* the token a Refresh or a Logout presents
    began,   \* the time it arrived
    answer,  \* what a client received
    known,   \* the tokens that clients received
    failed   \* calls that crashed or met an error

vars == <<clock, gone, chain, phase, asks, began, answer, known, failed>>

Init ==
    /\ clock = 0
    /\ gone = {}
    /\ chain = [s \in Call |-> Nil]
    /\ phase = [c \in Call |-> "new"]
    /\ asks = [c \in Call |-> Nil]
    /\ began = [c \in Call |-> 0]
    /\ answer = [c \in Call |-> Nil]
    /\ known = {}
    /\ failed = {}

Holding(t) == {s \in Call : chain[s] # Nil /\ chain[s].last = t}

(* What the token of call c would be exchanged in. *)
Usable(c) ==
    {s \in Holding(asks[c]) : ~chain[s].ended /\ began[c] < chain[s].till}

Ended(S) ==
    [s \in Call |->
        IF s \in S THEN [chain[s] EXCEPT !.ended = TRUE] ELSE chain[s]]

End(c, a) ==
    /\ phase' = [phase EXCEPT ![c] = "over"]
    /\ answer' = [answer EXCEPT ![c] = a]
    /\ UNCHANGED <<clock, gone, asks, began>>

Tell(c, a) == End(c, a) /\ UNCHANGED <<known, failed>>

Hand(c) == End(c, "ok") /\ known' = known \cup {c} /\ UNCHANGED failed

Err(c, a) == End(c, a) /\ failed' = failed \cup {c} /\ UNCHANGED known

-----------------------------------------------------------------------------

Tick ==
    /\ clock' = clock + 1
    /\ UNCHANGED <<gone, chain, phase, asks, began, answer, known, failed>>

(* A user goes, with all sessions. *)
Delete(u) ==
    /\ gone' = gone \cup {u}
    /\ chain' = [s \in Call |->
            IF chain[s] # Nil /\ chain[s].owner = u THEN Nil ELSE chain[s]]
    /\ UNCHANGED <<clock, phase, asks, began, answer, known, failed>>

(* A login; the session's life is counted from some moment during it. *)
Open(c) ==
    /\ phase[c] = "new"
    /\ \E u \in User \ gone, t \in 0..clock :
           chain' = [chain EXCEPT ![c] =
               [owner |-> u, last |-> c, till |-> t + RefreshTTL, ended |-> FALSE]]
    /\ Hand(c) \/ Err(c, "internal")

Ask(c) ==
    /\ phase[c] = "new"
    /\ \E p \in {"refreshing", "leaving"} : phase' = [phase EXCEPT ![c] = p]
    /\ \E t \in known : asks' = [asks EXCEPT ![c] = t]
    /\ began' = [began EXCEPT ![c] = clock]
    /\ UNCHANGED <<clock, gone, chain, answer, known, failed>>

Exchange(c) ==
    /\ phase[c] = "refreshing"
    /\ \E s \in Usable(c) : chain' = [chain EXCEPT ![s].last = c]
    /\ Hand(c) \/ Err(c, "internal")

Refuse(c) ==
    /\ phase[c] = "refreshing"
    /\ Usable(c) = {}
    /\ Tell(c, "invalid")
    /\ UNCHANGED chain

(* The user may not have sessions any more. *)
Dismiss(c) ==
    /\ phase[c] = "refreshing"
    /\ chain' = Ended(Holding(asks[c]))
    /\ Tell(c, "invalid")

Leave(c) ==
    /\ phase[c] = "leaving"
    /\ chain' = Ended(Holding(asks[c]))
    /\ Tell(c, "ok") \/ Err(c, "internal")

(* RevokeSession ends one session. *)
Revoke(c) ==
    /\ phase[c] = "new"
    /\ \E s \in Call :
           /\ chain[s] # Nil
           /\ ~chain[s].ended
           /\ chain' = Ended({s})
    /\ Tell(c, "ok") \/ Err(c, "internal")

(* A Login or a RevokeSession that is turned down. *)
Decline(c) ==
    /\ phase[c] = "new"
    /\ \E a \in {"denied", "notfound", "internal"} : Tell(c, a)
    /\ UNCHANGED chain

(* Only the error of a dismissal is kept from the client. *)
Fail(c) ==
    /\ phase[c] # "over"
    /\ \/ \E a \in {"internal", Nil} : Err(c, a)
       \/ phase[c] = "refreshing" /\ Err(c, "invalid")
    /\ UNCHANGED chain

Next ==
    \/ Tick
    \/ \E u \in User : Delete(u)
    \/ \E c \in Call :
           \/ Open(c) \/ Ask(c) \/ Exchange(c) \/ Refuse(c) \/ Dismiss(c)
           \/ Leave(c) \/ Revoke(c) \/ Decline(c) \/ Fail(c)

Spec == Init /\ [][Next]_vars

=============================================================================
