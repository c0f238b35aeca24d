------------------------------ MODULE Sessions ------------------------------
(***************************************************************************)
(* Local login sessions: rotating refresh tokens, revocation and stateless *)
(* access tokens (application/auth.Service over the PostgreSQL             *)
(* SessionRepository, the JWT issuer, and Authenticate).                   *)
(*                                                                         *)
(* One action is one SQL statement, one token signature, or the reading of *)
(* the clock that precedes them.  A login creates the session named after  *)
(* it; every login and refresh generates one refresh token and one access  *)
(* token, both named after the call.  A client presents any refresh token  *)
(* that was ever returned to a client, used ones included.                 *)
(***************************************************************************)
EXTENDS Integers, FiniteSets

CONSTANTS
    Call,        \* RPC invocations
    User,        \* rows of the users table
    RefreshTTL,  \* JWT_REFRESH_TOKEN_TTL
    AccessTTL,   \* JWT_ACCESS_TOKEN_TTL
    MaxClock,    \* bound on time
    MaxFaults,   \* bound on the calls that crash or see an error
    Nil          \* SQL NULL, no row, no answer

ASSUME TTLAssumption ==
    /\ RefreshTTL \in Nat /\ 0 < RefreshTTL
    /\ AccessTTL \in Nat /\ 0 < AccessTTL

SessionRow ==
    [user : User, token : Call, expiresAt : Nat,
     lastUsedAt : Nat \cup {Nil}, revokedAt : Nat \cup {Nil}]

Answer == {"ok", "denied", "invalid", "notfound", "internal"}

ASSUME AbsenceAssumption ==
    /\ Nil \notin Answer
    /\ Nil \notin Call
    /\ Nil \notin User
    /\ Nil \notin Nat
    /\ Nil \notin SessionRow

ASSUME SessionBounds == MaxClock \in Nat /\ MaxFaults \in Nat

VARIABLES
    clock,     \* wall clock
    user,      \* state of each user
    sessions,  \* auth_sessions, by id
    pc,        \* where each call is
    kind,      \* which RPC it is
    who,       \* the user it acts for
    token,     \* the refresh token it presents
    sess,      \* the session it found, creates or revokes
    now,       \* the time it read
    access,    \* expiry of the access token it signed
    reply,     \* what its client received
    fault,     \* history: calls that crashed or saw an error
    rotated,   \* history: calls whose RotateToken took effect
    revokedOn  \* history: wall clock at which each session was revoked

vars == <<clock, user, sessions, pc, kind, who, token, sess, now, access,
          reply, fault, rotated, revokedOn>>

Kind == {"none", "login", "refresh", "logout", "revoke"}
UserState == {"local", "disabled", "oidc", "deleted"}
Working == {"verify", "issue", "create", "find", "load", "stale", "rotate",
            "logout", "revoke"}

TypeOK ==
    /\ clock \in Nat
    /\ user \in [User -> UserState]
    /\ sessions \in [Call -> SessionRow \cup {Nil}]
    /\ pc \in [Call -> {"idle", "done", "crashed"} \cup Working]
    /\ kind \in [Call -> Kind]
    /\ who \in [Call -> User \cup {Nil}]
    /\ token \in [Call -> Call \cup {Nil}]
    /\ sess \in [Call -> Call \cup {Nil}]
    /\ now \in [Call -> Nat]
    /\ access \in [Call -> Nat \cup {Nil}]
    /\ reply \in [Call -> Answer \cup {Nil}]
    /\ fault \in SUBSET Call
    /\ rotated \in SUBSET Call
    /\ revokedOn \in [Call -> Nat \cup {Nil}]

Init ==
    /\ clock = 0
    /\ user = [u \in User |-> "local"]
    /\ sessions = [s \in Call |-> Nil]
    /\ pc = [c \in Call |-> "idle"]
    /\ kind = [c \in Call |-> "none"]
    /\ who = [c \in Call |-> Nil]
    /\ token = [c \in Call |-> Nil]
    /\ sess = [c \in Call |-> Nil]
    /\ now = [c \in Call |-> 0]
    /\ access = [c \in Call |-> Nil]
    /\ reply = [c \in Call |-> Nil]
    /\ fault = {}
    /\ rotated = {}
    /\ revokedOn = [s \in Call |-> Nil]

-----------------------------------------------------------------------------
(* Helpers *)

(* Calls whose tokens reached a client. *)
Delivered == {c \in Call : kind[c] \in {"login", "refresh"} /\ reply[c] = "ok"}

(* revoked_at IS NULL AND expires_at > t *)
ActiveAt(r, t) == r.revokedAt = Nil /\ t < r.expiresAt

(* Mutant: a token also finds its session after it was exchanged. *)
HoldersEver(t) == {s \in Call : sessions[s] # Nil /\ s = sess[t]}

(* The session row holding a token; refresh_token_hash is UNIQUE. *)
HoldersOf(t) == {s \in Call : sessions[s] # Nil /\ sessions[s].token = t}

(* The access token check of Authenticate for a local identity: signature  *)
(* and expiry, then the user row, whatever its auth_provider.              *)
Authenticated(u) ==
    /\ user[u] \in {"local", "oidc"}
    /\ \E c \in Delivered : who[c] = u /\ clock < access[c]

MayFault(c) == Cardinality(fault \cup {c}) <= MaxFaults

Finish(c, answer) ==
    /\ pc' = [pc EXCEPT ![c] = "done"]
    /\ reply' = [reply EXCEPT ![c] = answer]

Begin(c, k, step) ==
    /\ pc[c] = "idle"
    /\ kind' = [kind EXCEPT ![c] = k]
    /\ now' = [now EXCEPT ![c] = clock]
    /\ pc' = [pc EXCEPT ![c] = step]

(* Mutant: revoked_at IS NULL is missing, a second revocation moves it. *)
RevokeRowsAgain(c, S) ==
    /\ sessions' = [s \in Call |->
            IF s \in S THEN [sessions[s] EXCEPT !.revokedAt = now[c]]
                       ELSE sessions[s]]
    /\ revokedOn' = [s \in Call |-> IF s \in S THEN clock ELSE revokedOn[s]]

(* Sets revoked_at of the given sessions that are not revoked yet. *)
RevokeRows(c, S) ==
    LET live == {s \in S : sessions[s].revokedAt = Nil}
    IN  /\ sessions' = [s \in Call |->
                IF s \in live THEN [sessions[s] EXCEPT !.revokedAt = now[c]]
                              ELSE sessions[s]]
        /\ revokedOn' = [s \in Call |->
                IF s \in live THEN clock ELSE revokedOn[s]]

-----------------------------------------------------------------------------
(* Environment *)

Tick ==
    /\ clock < MaxClock
    /\ clock' = clock + 1
    /\ UNCHANGED <<user, sessions, pc, kind, who, token, sess, now, access,
                   reply, fault, rotated, revokedOn>>

(* An operator disables, enables or links a user in the database. *)
OperatorUpdatesUser(u) ==
    /\ user[u] # "deleted"
    /\ \E x \in {"local", "disabled", "oidc"} \ {user[u]} :
           user' = [user EXCEPT ![u] = x]
    /\ UNCHANGED <<clock, sessions, pc, kind, who, token, sess, now, access,
                   reply, fault, rotated, revokedOn>>

(* ON DELETE CASCADE removes the sessions with the user. *)
OperatorDeletesUser(u) ==
    /\ user[u] # "deleted"
    /\ user' = [user EXCEPT ![u] = "deleted"]
    /\ sessions' = [s \in Call |->
            IF sessions[s] # Nil /\ sessions[s].user = u THEN Nil
                                                         ELSE sessions[s]]
    /\ UNCHANGED <<clock, pc, kind, who, token, sess, now, access, reply,
                   fault, rotated, revokedOn>>

-----------------------------------------------------------------------------
(* Login *)

(* The user is enabled and local. *)
LoginLookup(c) ==
    /\ pc[c] = "idle"
    /\ pc' = [pc EXCEPT ![c] = "verify"]
    /\ kind' = [kind EXCEPT ![c] = "login"]
    /\ \E u \in User :
           /\ user[u] = "local"
           /\ who' = [who EXCEPT ![c] = u]
    /\ sess' = [sess EXCEPT ![c] = c]
    /\ UNCHANGED <<clock, user, sessions, token, now, access, reply, fault,
                   rotated, revokedOn>>

(* The password matches; the session's times are counted from here. *)
LoginVerified(c) ==
    /\ pc[c] = "verify"
    /\ now' = [now EXCEPT ![c] = clock]
    /\ pc' = [pc EXCEPT ![c] = "issue"]
    /\ UNCHANGED <<clock, user, sessions, kind, who, token, sess, access,
                   reply, fault, rotated, revokedOn>>

(* Unknown or disabled user, other provider, or wrong password; a failing  *)
(* query or hash comparison counts as one.                                 *)
LoginDenied(c) ==
    /\ pc[c] \in {"idle", "verify"}
    /\ kind' = [kind EXCEPT ![c] = "login"]
    /\ Finish(c, "denied")
    /\ UNCHANGED <<clock, user, sessions, who, token, sess, now, access,
                   fault, rotated, revokedOn>>

(* Issue reads the clock again; it precedes the write of both RPCs. *)
Issue(c) ==
    /\ pc[c] = "issue"
    /\ access' = [access EXCEPT ![c] = clock + AccessTTL]
    /\ pc' = [pc EXCEPT ![c] =
                IF kind[c] = "login" THEN "create" ELSE "rotate"]
    /\ UNCHANGED <<clock, user, sessions, kind, who, token, sess, now, reply,
                   fault, rotated, revokedOn>>

(* Mutant: ExpiresAt is left at zero time, before every clock reading. *)
CreateWithoutExpiry(c) ==
    /\ user[who[c]] # "deleted"
    /\ sessions' = [sessions EXCEPT ![c] =
            [user |-> who[c], token |-> c, expiresAt |-> -1,
             lastUsedAt |-> Nil, revokedAt |-> Nil]]

(* user_id references users(id). *)
CreateEffect(c) ==
    /\ user[who[c]] # "deleted"
    /\ sessions' = [sessions EXCEPT ![c] =
            [user |-> who[c], token |-> c, expiresAt |-> now[c] + RefreshTTL,
             lastUsedAt |-> Nil, revokedAt |-> Nil]]

Create(c) ==
    /\ pc[c] = "create"
    /\ CreateEffect(c)
    /\ Finish(c, "ok")
    /\ UNCHANGED <<clock, user, kind, who, token, sess, now, access, fault,
                   rotated, revokedOn>>

(* Mutant: the error of Create is dropped and the tokens are returned. *)
CreateErrorIgnored(c) ==
    /\ pc[c] = "create"
    /\ MayFault(c)
    /\ fault' = fault \cup {c}
    /\ CreateEffect(c) \/ UNCHANGED sessions
    /\ Finish(c, "ok")
    /\ UNCHANGED <<clock, user, kind, who, token, sess, now, access, rotated,
                   revokedOn>>

(* The INSERT violates the foreign key, fails, or loses its answer. *)
CreateFails(c) ==
    /\ pc[c] = "create"
    /\ \/ user[who[c]] = "deleted" /\ UNCHANGED <<sessions, fault>>
       \/ /\ MayFault(c)
          /\ fault' = fault \cup {c}
          /\ CreateEffect(c) \/ UNCHANGED sessions
    /\ Finish(c, "internal")
    /\ UNCHANGED <<clock, user, kind, who, token, sess, now, access, rotated,
                   revokedOn>>

-----------------------------------------------------------------------------
(* Refresh *)

RefreshStart(c) ==
    /\ Begin(c, "refresh", "find")
    /\ \E t \in Delivered : token' = [token EXCEPT ![c] = t]
    /\ UNCHANGED <<clock, user, sessions, who, sess, access, reply, fault,
                   rotated, revokedOn>>

FindActive(c) ==
    /\ pc[c] = "find"
    /\ \E s \in HoldersOf(token[c]) :
           /\ ActiveAt(sessions[s], now[c])
           /\ sess' = [sess EXCEPT ![c] = s]
           /\ who' = [who EXCEPT ![c] = sessions[s].user]
    /\ pc' = [pc EXCEPT ![c] = "load"]
    /\ UNCHANGED <<clock, user, sessions, kind, token, now, access, reply,
                   fault, rotated, revokedOn>>

FindNone(c) ==
    /\ pc[c] = "find"
    /\ \A s \in HoldersOf(token[c]) : ~ActiveAt(sessions[s], now[c])
    /\ Finish(c, "invalid")
    /\ UNCHANGED <<clock, user, sessions, kind, who, token, sess, now, access,
                   fault, rotated, revokedOn>>

LoadUser(c) ==
    /\ pc[c] = "load"
    /\ pc' = [pc EXCEPT ![c] =
                IF user[who[c]] = "local" THEN "issue" ELSE "stale"]
    /\ UNCHANGED <<clock, user, sessions, kind, who, token, sess, now, access,
                   reply, fault, rotated, revokedOn>>

(* Mutant: a refused user keeps the session. *)
RevokeStaleSkipped(c) ==
    /\ pc[c] = "stale"
    /\ Finish(c, "invalid")
    /\ UNCHANGED <<clock, user, sessions, kind, who, token, sess, now, access,
                   fault, rotated, revokedOn>>

(* The user is gone, disabled or no longer local: revoke the session by    *)
(* the presented token.                                                    *)
RevokeStale(c) ==
    /\ pc[c] = "stale"
    /\ RevokeRows(c, HoldersOf(token[c]))
    /\ Finish(c, "invalid")
    /\ UNCHANGED <<clock, user, kind, who, token, sess, now, access, fault,
                   rotated>>

(* The error of that revocation is ignored. *)
RevokeStaleFails(c) ==
    /\ pc[c] = "stale"
    /\ MayFault(c)
    /\ fault' = fault \cup {c}
    /\ Finish(c, "invalid")
    /\ UNCHANGED <<clock, user, sessions, kind, who, token, sess, now, access,
                   rotated, revokedOn>>

(* A query, the random source or the signature fails. *)
StepFails(c) ==
    /\ pc[c] \in {"find", "load", "issue"}
    /\ MayFault(c)
    /\ fault' = fault \cup {c}
    /\ Finish(c, "internal")
    /\ UNCHANGED <<clock, user, sessions, kind, who, token, sess, now, access,
                   rotated, revokedOn>>

(* Mutant: the old hash is not compared. *)
RotateMatchesAnyToken(c) ==
    LET r == sessions[sess[c]]
    IN  r # Nil /\ ActiveAt(r, now[c])

(* Mutant: the revocation is not checked again. *)
RotateMatchesRevoked(c) ==
    LET r == sessions[sess[c]]
    IN  r # Nil /\ r.token = token[c] /\ now[c] < r.expiresAt

(* The WHERE of RotateToken. *)
RotateMatches(c) ==
    LET r == sessions[sess[c]]
    IN  r # Nil /\ r.token = token[c] /\ ActiveAt(r, now[c])

RotateEffect(c) ==
    /\ RotateMatches(c)
    /\ sessions' = [sessions EXCEPT ![sess[c]].token = c,
                                    ![sess[c]].lastUsedAt = now[c]]
    /\ rotated' = rotated \cup {c}

(* Mutant: the test of RowsAffected is inverted. *)
RotateMiscounted(c) ==
    /\ pc[c] = "rotate"
    /\ RotateEffect(c)
    /\ Finish(c, "invalid")
    /\ UNCHANGED <<clock, user, kind, who, token, sess, now, access, fault,
                   revokedOn>>

Rotate(c) ==
    /\ pc[c] = "rotate"
    /\ RotateEffect(c)
    /\ Finish(c, "ok")
    /\ UNCHANGED <<clock, user, kind, who, token, sess, now, access, fault,
                   revokedOn>>

RotateMiss(c) ==
    /\ pc[c] = "rotate"
    /\ ~RotateMatches(c)
    /\ Finish(c, "invalid")
    /\ UNCHANGED <<clock, user, sessions, kind, who, token, sess, now, access,
                   fault, rotated, revokedOn>>

RotateFails(c) ==
    /\ pc[c] = "rotate"
    /\ MayFault(c)
    /\ fault' = fault \cup {c}
    /\ RotateEffect(c) \/ UNCHANGED <<sessions, rotated>>
    /\ Finish(c, "internal")
    /\ UNCHANGED <<clock, user, kind, who, token, sess, now, access,
                   revokedOn>>

-----------------------------------------------------------------------------
(* Logout and RevokeSession *)

LogoutStart(c) ==
    /\ Begin(c, "logout", "logout")
    /\ \E t \in Delivered : token' = [token EXCEPT ![c] = t]
    /\ UNCHANGED <<clock, user, sessions, who, sess, access, reply, fault,
                   rotated, revokedOn>>

(* Succeeds whether or not a row matched. *)
Logout(c) ==
    /\ pc[c] = "logout"
    /\ RevokeRows(c, HoldersOf(token[c]))
    /\ Finish(c, "ok")
    /\ UNCHANGED <<clock, user, kind, who, token, sess, now, access, fault,
                   rotated>>

(* Mutant: the error of the revocation is dropped. *)
LogoutErrorIgnored(c) ==
    /\ pc[c] = "logout"
    /\ MayFault(c)
    /\ fault' = fault \cup {c}
    /\ UNCHANGED <<sessions, revokedOn>>
    /\ Finish(c, "ok")
    /\ UNCHANGED <<clock, user, kind, who, token, sess, now, access, rotated>>

LogoutFails(c) ==
    /\ pc[c] = "logout"
    /\ MayFault(c)
    /\ fault' = fault \cup {c}
    /\ \/ RevokeRows(c, HoldersOf(token[c]))
       \/ UNCHANGED <<sessions, revokedOn>>
    /\ Finish(c, "internal")
    /\ UNCHANGED <<clock, user, kind, who, token, sess, now, access, rotated>>

(* An authenticated user names any session. *)
RevokeStart(c) ==
    /\ Begin(c, "revoke", "revoke")
    /\ \E u \in User, s \in Call :
           /\ Authenticated(u)
           /\ who' = [who EXCEPT ![c] = u]
           /\ sess' = [sess EXCEPT ![c] = s]
    /\ UNCHANGED <<clock, user, sessions, token, access, reply, fault,
                   rotated, revokedOn>>

RevokeMatches(c) ==
    LET r == sessions[sess[c]]
    IN  r # Nil /\ r.user = who[c] /\ r.revokedAt = Nil

Revoke(c) ==
    /\ pc[c] = "revoke"
    /\ RevokeMatches(c)
    /\ RevokeRows(c, {sess[c]})
    /\ Finish(c, "ok")
    /\ UNCHANGED <<clock, user, kind, who, token, sess, now, access, fault,
                   rotated>>

RevokeMiss(c) ==
    /\ pc[c] = "revoke"
    /\ ~RevokeMatches(c)
    /\ Finish(c, "notfound")
    /\ UNCHANGED <<clock, user, sessions, kind, who, token, sess, now, access,
                   fault, rotated, revokedOn>>

RevokeFails(c) ==
    /\ pc[c] = "revoke"
    /\ MayFault(c)
    /\ fault' = fault \cup {c}
    /\ \/ RevokeMatches(c) /\ RevokeRows(c, {sess[c]})
       \/ UNCHANGED <<sessions, revokedOn>>
    /\ Finish(c, "internal")
    /\ UNCHANGED <<clock, user, kind, who, token, sess, now, access, rotated>>

(* The server process dies under the call. *)
Crash(c) ==
    /\ pc[c] \in Working
    /\ MayFault(c)
    /\ fault' = fault \cup {c}
    /\ pc' = [pc EXCEPT ![c] = "crashed"]
    /\ UNCHANGED <<clock, user, sessions, kind, who, token, sess, now, access,
                   reply, rotated, revokedOn>>

-----------------------------------------------------------------------------

Step(c) ==
    \/ LoginLookup(c) \/ LoginVerified(c) \/ LoginDenied(c)
    \/ Create(c) \/ CreateFails(c)
    \/ Issue(c) \/ StepFails(c)
    \/ RefreshStart(c) \/ FindActive(c) \/ FindNone(c) \/ LoadUser(c)
    \/ RevokeStale(c) \/ RevokeStaleFails(c)
    \/ Rotate(c) \/ RotateMiss(c) \/ RotateFails(c)
    \/ LogoutStart(c) \/ Logout(c) \/ LogoutFails(c)
    \/ RevokeStart(c) \/ Revoke(c) \/ RevokeMiss(c) \/ RevokeFails(c)
    \/ Crash(c)

Operator(u) == OperatorUpdatesUser(u) \/ OperatorDeletesUser(u)

Quiescent ==
    /\ \A c \in Call : pc[c] \in {"done", "crashed"}
    /\ \A u \in User : user[u] = "deleted"
    /\ clock = MaxClock
    /\ UNCHANGED vars

Next ==
    \/ Tick
    \/ Quiescent
    \/ \E u \in User : Operator(u)
    \/ \E c \in Call : Step(c)

Spec == Init /\ [][Next]_vars

-----------------------------------------------------------------------------
(* Properties *)

(* A refresh token is exchanged at most once, however many calls present   *)
(* it concurrently and whether or not their answers arrive.                *)
SingleUse ==
    \A c, d \in rotated : token[c] = token[d] => c = d

(* Access tokens of a revoked session are gone AccessTTL after the         *)
(* revocation took effect, also when a refresh was in flight.              *)
AccessEndsAfterRevocation ==
    \A c \in Delivered :
        revokedOn[sess[c]] # Nil => access[c] <= revokedOn[sess[c]] + AccessTTL

(* Once Logout answered, the token it was given is dead for good: it was   *)
(* rotated away or its session is revoked.                                 *)
LoggedOutTokenDead ==
    \A c \in Call :
        kind[c] = "logout" /\ reply[c] = "ok" =>
            \A s \in HoldersOf(token[c]) : sessions[s].revokedAt # Nil

(* REFRESH_TOKEN_INVALID is a final verdict: unless an error was swallowed *)
(* on the way, the refused token is rotated away, or its session is        *)
(* revoked or expired, so the client loses nothing by discarding it.       *)
RefusedTokenDead ==
    \A c \in Call \ fault :
        kind[c] = "refresh" /\ reply[c] = "invalid" =>
            \A s \in HoldersOf(token[c]) :
                sessions[s].revokedAt # Nil \/ sessions[s].expiresAt <= clock

(* A session's life never gets longer or starts again: its expiry is       *)
(* fixed, a revoked row is frozen, and the time of its last refresh        *)
(* advances and lies before the expiry.                                    *)
SessionOnlyAges ==
    [][\A s \in Call :
          sessions[s] # Nil /\ sessions'[s] # Nil =>
              /\ sessions'[s].user = sessions[s].user
              /\ sessions'[s].expiresAt = sessions[s].expiresAt
              /\ sessions[s].revokedAt # Nil => sessions'[s] = sessions[s]
              /\ sessions'[s].lastUsedAt # sessions[s].lastUsedAt =>
                     /\ sessions'[s].lastUsedAt < sessions'[s].expiresAt
                     /\ sessions[s].lastUsedAt # Nil =>
                            sessions[s].lastUsedAt <= sessions'[s].lastUsedAt
      ]_vars

(* A client that holds an access token holds one of a stored session of    *)
(* its user, unless the user was deleted: no token escapes a login whose   *)
(* session was not written.                                                *)
SessionBehindToken ==
    \A c \in Delivered :
        \/ user[who[c]] = "deleted"
        \/ sessions[sess[c]] # Nil /\ sessions[sess[c]].user = who[c]

(* The token a session holds reached its client, or the call that          *)
(* generated it failed: no healthy client is locked out of its session.    *)
CurrentTokenKnown ==
    \A s \in Call :
        sessions[s] # Nil =>
            sessions[s].token \in Delivered \cup fault

=============================================================================
