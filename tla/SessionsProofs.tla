--------------------------- MODULE SessionsProofs ---------------------------
(***************************************************************************)
(* The invariants of Sessions, for any number of calls, users and faults   *)
(* and any positive lifetimes.                                             *)
(*                                                                         *)
(* The argument rests on the lineage of refresh tokens: the token in a     *)
(* session row was generated by a call of that session that is over        *)
(* (RowInv), whereas the token a row is about to receive belongs to a call *)
(* that is still running.  A token that left a row therefore never comes   *)
(* back, and a refresh in flight began after its token was generated.      *)
(* The last part shows that Sessions implements RotatingSession.           *)
(***************************************************************************)
EXTENDS SessionsRefinement, TLAPS

Over == {"done", "crashed"}

(* What the program counter and the kind of a call say about it. *)
CallInv ==
    \A c \in Call :
        /\ now[c] <= clock
        /\ access[c] # Nil => access[c] <= clock + AccessTTL
        /\ pc[c] = "idle" => kind[c] = "none"
        /\ reply[c] # Nil => pc[c] = "done"
        /\ pc[c] \in {"verify", "create"} => kind[c] = "login"
        /\ pc[c] = "issue" => kind[c] \in {"login", "refresh"}
        /\ pc[c] \in {"find", "load", "stale", "rotate"} => kind[c] = "refresh"
        /\ pc[c] = "logout" => kind[c] = "logout"
        /\ pc[c] = "revoke" => kind[c] = "revoke" /\ sess[c] # Nil
        /\ pc[c] \in {"create", "rotate"} => access[c] # Nil
        /\ kind[c] = "login" /\ pc[c] # "done" => sess[c] = c /\ who[c] # Nil
        /\ kind[c] \in {"refresh", "logout"} => token[c] # Nil

(* The tokens calls present were delivered before the calls began. *)
TokenInv ==
    \A c \in Call :
        /\ token[c] # Nil =>
               token[c] \in Delivered /\ now[token[c]] <= now[c]
        /\ kind[c] = "refresh" /\ pc[c] \in {"load", "stale", "issue", "rotate"} =>
               sess[c] = sess[token[c]] /\ who[c] = who[token[c]]
        /\ c \in Delivered => access[c] # Nil /\ sess[c] # Nil /\ who[c] # Nil

(* A row and the call that generated its token. *)
RowInv ==
    \A s \in Call :
        sessions[s] # Nil =>
            LET r == sessions[s]
            IN  /\ r.token \in Delivered \cup fault
                /\ pc[r.token] \in Over
                /\ sess[r.token] = s
                /\ who[r.token] = r.user
                /\ r.revokedAt = Nil => revokedOn[s] = Nil
                /\ r.lastUsedAt # Nil => r.lastUsedAt = now[r.token]

(* A session is written by the last step of its login. *)
FreshInv ==
    \A s \in Call : pc[s] \notin Over => sessions[s] = Nil /\ revokedOn[s] = Nil

(* A token that was exchanged is in no row. *)
RotatedInv ==
    \A d \in rotated :
        /\ pc[d] = "done"
        /\ token[d] # Nil
        /\ \A s \in Call : sessions[s] # Nil => sessions[s].token # token[d]

IndInv ==
    /\ TypeOK /\ CallInv /\ TokenInv /\ RowInv /\ FreshInv /\ RotatedInv
    /\ SingleUse /\ AccessEndsAfterRevocation /\ LoggedOutTokenDead
    /\ RefusedTokenDead /\ SessionBehindToken

-----------------------------------------------------------------------------
(* Rows *)

(* The columns of a session row. *)
LEMMA RowType ==
    ASSUME NEW r \in SessionRow
    PROVE  /\ r.user \in User /\ r.token \in Call /\ r.expiresAt \in Nat
           /\ r.lastUsedAt \in Nat \cup {Nil} /\ r.revokedAt \in Nat \cup {Nil}
           /\ r # Nil
  BY AbsenceAssumption DEF SessionRow

(* What the INSERT of a login leaves in the table. *)
CreatedRow(c) ==
    /\ sessions' \in [Call -> SessionRow \cup {Nil}]
    /\ sessions'[c] # Nil
    /\ sessions'[c].user = who[c] /\ sessions'[c].token = c
    /\ sessions'[c].lastUsedAt = Nil /\ sessions'[c].revokedAt = Nil
    /\ \A s \in Call \ {c} : sessions'[s] = sessions[s]

(* What a login does to the table. *)
LEMMA CreateRow ==
    ASSUME TypeOK, NEW c \in Call, who[c] # Nil, CreateEffect(c)
    PROVE  CreatedRow(c)
<1>1. [user |-> who[c], token |-> c, expiresAt |-> now[c] + RefreshTTL,
       lastUsedAt |-> Nil, revokedAt |-> Nil] \in SessionRow
  BY TTLAssumption DEF TypeOK, SessionRow
<1>2. QED
  BY <1>1, RowType DEF TypeOK, CreateEffect, CreatedRow

(* What the UPDATE of a refresh leaves in the table. *)
RotatedRow(c) ==
    LET s == sess[c]
    IN  /\ sessions' \in [Call -> SessionRow \cup {Nil}]
        /\ sessions[s] # Nil /\ sessions[s].token = token[c]
        /\ sessions[s].revokedAt = Nil /\ now[c] < sessions[s].expiresAt
        /\ sessions'[s] # Nil
        /\ sessions'[s].user = sessions[s].user /\ sessions'[s].token = c
        /\ sessions'[s].expiresAt = sessions[s].expiresAt
        /\ sessions'[s].lastUsedAt = now[c] /\ sessions'[s].revokedAt = Nil
        /\ \A x \in Call \ {s} : sessions'[x] = sessions[x]

(* What a rotation does to it. *)
LEMMA RotateRow ==
    ASSUME TypeOK, NEW c \in Call, sess[c] # Nil, RotateEffect(c)
    PROVE  RotatedRow(c)
<1> DEFINE s == sess[c]
           r == [sessions[s] EXCEPT !.token = c, !.lastUsedAt = now[c]]
<1>1. s \in Call /\ sessions[s] \in SessionRow
  BY DEF TypeOK, RotateEffect, RotateMatches
<1>2. /\ sessions[s].token = token[c] /\ sessions[s].revokedAt = Nil
      /\ now[c] < sessions[s].expiresAt /\ sessions[s] # Nil
  BY DEF RotateEffect, RotateMatches, ActiveAt
<1>3. /\ r \in SessionRow /\ r.user = sessions[s].user /\ r.token = c
      /\ r.expiresAt = sessions[s].expiresAt
      /\ r.lastUsedAt = now[c] /\ r.revokedAt = sessions[s].revokedAt
  BY <1>1 DEF TypeOK, SessionRow
<1>4. sessions' = [sessions EXCEPT ![s] = r]
  BY <1>1 DEF TypeOK, RotateEffect
<1>5. r # Nil
  BY <1>3, RowType
<1> HIDE DEF r
<1>6. QED
  BY <1>1, <1>2, <1>3, <1>4, <1>5 DEF TypeOK, RotatedRow

(* What a revocation of the rows in S leaves in the table. *)
RevokedRow(c, S) ==
    /\ sessions' \in [Call -> SessionRow \cup {Nil}]
    /\ revokedOn' \in [Call -> Nat \cup {Nil}]
    /\ \A s \in Call :
           /\ sessions'[s] = Nil <=> sessions[s] = Nil
           /\ s \notin S => sessions'[s] = sessions[s] /\ revokedOn'[s] = revokedOn[s]
           /\ s \in S /\ sessions[s].revokedAt # Nil =>
                  sessions'[s] = sessions[s] /\ revokedOn'[s] = revokedOn[s]
           /\ s \in S /\ sessions[s].revokedAt = Nil =>
                  /\ sessions'[s].user = sessions[s].user
                  /\ sessions'[s].token = sessions[s].token
                  /\ sessions'[s].expiresAt = sessions[s].expiresAt
                  /\ sessions'[s].lastUsedAt = sessions[s].lastUsedAt
                  /\ sessions'[s].revokedAt # Nil
                  /\ revokedOn'[s] = clock

(* What a revocation does to it. *)
LEMMA RevokeRow ==
    ASSUME TypeOK, NEW c \in Call, NEW S \in SUBSET Call,
           \A s \in S : sessions[s] # Nil, RevokeRows(c, S)
    PROVE  RevokedRow(c, S)
<1> DEFINE r(s) == [sessions[s] EXCEPT !.revokedAt = now[c]]
<1>1. ASSUME NEW s \in S
      PROVE  /\ r(s) \in SessionRow /\ r(s) # Nil
             /\ r(s).user = sessions[s].user /\ r(s).token = sessions[s].token
             /\ r(s).expiresAt = sessions[s].expiresAt
             /\ r(s).lastUsedAt = sessions[s].lastUsedAt
             /\ r(s).revokedAt # Nil
  <2>1. sessions[s] \in SessionRow
    BY DEF TypeOK
  <2>2. r(s) \in SessionRow
    BY <2>1 DEF TypeOK, SessionRow
  <2>3. QED
    BY <2>1, <2>2, RowType, AbsenceAssumption DEF TypeOK, SessionRow
<1>2. \A s \in Call :
          /\ sessions'[s] = IF s \in S /\ sessions[s].revokedAt = Nil
                               THEN r(s) ELSE sessions[s]
          /\ revokedOn'[s] = IF s \in S /\ sessions[s].revokedAt = Nil
                                THEN clock ELSE revokedOn[s]
  BY DEF RevokeRows
<1>3. /\ sessions' = [s \in Call |-> sessions'[s]]
      /\ revokedOn' = [s \in Call |-> revokedOn'[s]]
  BY DEF RevokeRows
<1> HIDE DEF r
<1>4. sessions' \in [Call -> SessionRow \cup {Nil}]
  BY <1>1, <1>2, <1>3 DEF TypeOK
<1>5. revokedOn' \in [Call -> Nat \cup {Nil}]
  BY <1>2, <1>3 DEF TypeOK
<1>6. QED
  BY <1>1, <1>2, <1>4, <1>5 DEF RevokedRow

-----------------------------------------------------------------------------
(* Typing and the state of a call *)

(* The holders of a token are rows of the table. *)
LEMMA HoldersType ==
    ASSUME NEW t
    PROVE  HoldersOf(t) \in SUBSET Call /\ \A s \in HoldersOf(t) : sessions[s] # Nil
  BY DEF HoldersOf

(* Every step keeps the variables in their types. *)
LEMMA TypeStep ==
    ASSUME TypeOK, CallInv, TokenInv, NEW c \in Call, Step(c)
    PROVE  TypeOK'
<1> USE DEF TypeOK, CallInv, Kind, UserState, Working, Answer, Finish, Begin
<1>1. CASE LoginLookup(c) \/ LoginVerified(c) \/ LoginDenied(c)
  BY <1>1 DEF LoginLookup, LoginVerified, LoginDenied
<1>2. CASE Create(c) \/ CreateFails(c)
  <2>1. CASE CreateEffect(c)
    BY <1>2, <2>1, CreateRow DEF Create, CreateFails, CreatedRow
  <2>2. CASE ~CreateEffect(c)
    BY <1>2, <2>2 DEF Create, CreateFails
  <2>3. QED
    BY <2>1, <2>2
<1>3. CASE Issue(c) \/ StepFails(c) \/ LoadUser(c)
  BY <1>3, TTLAssumption DEF Issue, StepFails, LoadUser
<1>4. CASE RefreshStart(c) \/ LogoutStart(c)
  BY <1>4 DEF RefreshStart, LogoutStart, Delivered
<1>5. CASE FindActive(c)
  BY <1>5, RowType DEF FindActive, HoldersOf
<1>6. CASE FindNone(c) \/ RevokeStaleFails(c) \/ RotateMiss(c) \/ RevokeMiss(c)
  BY <1>6 DEF FindNone, RevokeStaleFails, RotateMiss, RevokeMiss
<1>7. CASE RevokeStale(c) \/ Logout(c) \/ LogoutFails(c)
  <2>1. CASE RevokeRows(c, HoldersOf(token[c]))
    <3>1. RevokedRow(c, HoldersOf(token[c]))
      BY <2>1, RevokeRow, HoldersType
    <3>2. QED
      BY <1>7, <3>1 DEF RevokeStale, Logout, LogoutFails, RevokedRow
  <2>2. CASE ~RevokeRows(c, HoldersOf(token[c]))
    BY <1>7, <2>2 DEF RevokeStale, Logout, LogoutFails
  <2>3. QED
    BY <2>1, <2>2
<1>8. CASE Rotate(c) \/ RotateFails(c)
  <2>1. CASE RotateEffect(c)
    <3>1. RotatedRow(c)
      BY <1>8, <2>1, RotateRow DEF Rotate, RotateFails, TokenInv
    <3>2. QED
      BY <1>8, <2>1, <3>1 DEF Rotate, RotateFails, RotateEffect, RotatedRow
  <2>2. CASE ~RotateEffect(c)
    BY <1>8, <2>2 DEF Rotate, RotateFails
  <2>3. QED
    BY <2>1, <2>2
<1>9. CASE RevokeStart(c) \/ Crash(c)
  BY <1>9 DEF RevokeStart, Crash
<1>10. CASE Revoke(c) \/ RevokeFails(c)
  <2>1. CASE RevokeMatches(c) /\ RevokeRows(c, {sess[c]})
    <3>1. {sess[c]} \in SUBSET Call /\ \A s \in {sess[c]} : sessions[s] # Nil
      BY <1>10, <2>1 DEF Revoke, RevokeFails, RevokeMatches
    <3>2. RevokedRow(c, {sess[c]})
      BY <2>1, <3>1, RevokeRow
    <3>3. QED
      BY <1>10, <3>2 DEF Revoke, RevokeFails, RevokedRow
  <2>2. CASE ~(RevokeMatches(c) /\ RevokeRows(c, {sess[c]}))
    BY <1>10, <2>2 DEF Revoke, RevokeFails
  <2>3. QED
    BY <2>1, <2>2
<1>11. QED
  BY <1>1, <1>2, <1>3, <1>4, <1>5, <1>6, <1>7, <1>8, <1>9, <1>10 DEF Step

(* Every step keeps what the program counter says about a call. *)
LEMMA CallStep ==
    ASSUME TypeOK, CallInv, NEW c \in Call, Step(c)
    PROVE  CallInv'
<1> USE AbsenceAssumption, TTLAssumption
    DEF TypeOK, CallInv, Kind, Working, Answer, Finish, Begin
<1>1. CASE LoginLookup(c) \/ LoginVerified(c) \/ LoginDenied(c)
  BY <1>1 DEF LoginLookup, LoginVerified, LoginDenied
<1>2. CASE Create(c) \/ CreateFails(c)
  BY <1>2 DEF Create, CreateFails
<1>3. CASE Issue(c) \/ StepFails(c) \/ LoadUser(c)
  BY <1>3 DEF Issue, StepFails, LoadUser
<1>4. CASE RefreshStart(c) \/ LogoutStart(c)
  BY <1>4 DEF RefreshStart, LogoutStart, Delivered
<1>5. CASE FindActive(c) \/ FindNone(c)
  BY <1>5 DEF FindActive, FindNone, HoldersOf
<1>6. CASE RevokeStale(c) \/ RevokeStaleFails(c) \/ Logout(c) \/ LogoutFails(c)
  BY <1>6 DEF RevokeStale, RevokeStaleFails, Logout, LogoutFails
<1>7. CASE Rotate(c) \/ RotateMiss(c) \/ RotateFails(c)
  BY <1>7 DEF Rotate, RotateMiss, RotateFails
<1>8. CASE RevokeStart(c) \/ Revoke(c) \/ RevokeMiss(c) \/ RevokeFails(c)
  BY <1>8 DEF RevokeStart, Revoke, RevokeMiss, RevokeFails
<1>9. CASE Crash(c)
  BY <1>9 DEF Crash
<1>10. QED
  BY <1>1, <1>2, <1>3, <1>4, <1>5, <1>6, <1>7, <1>8, <1>9 DEF Step

-----------------------------------------------------------------------------
(* What a step of one call may change *)

(* The other calls, the clock and the users stand still; a call that is    *)
(* over takes no step.                                                     *)
Frame(c) ==
    /\ clock' = clock /\ user' = user
    /\ fault \subseteq fault' /\ fault' \subseteq fault \cup {c}
    /\ \A d \in Call \ {c} :
           /\ pc'[d] = pc[d] /\ kind'[d] = kind[d] /\ who'[d] = who[d]
           /\ token'[d] = token[d] /\ sess'[d] = sess[d] /\ now'[d] = now[d]
           /\ access'[d] = access[d] /\ reply'[d] = reply[d]
    /\ pc[c] \notin Over /\ c \notin Delivered

(* The table is left alone or changed by one of three statements, the last *)
(* step of their call.                                                     *)
Ends(c) ==
    /\ pc'[c] = "done"
    /\ UNCHANGED <<kind, who, token, sess, now, access>>

Untouched(c) ==
    /\ UNCHANGED <<sessions, revokedOn, rotated>>
    /\ c \notin Delivered'

Created(c) ==
    /\ pc[c] = "create" /\ Ends(c)
    /\ user[who[c]] # "deleted" /\ CreatedRow(c)
    /\ UNCHANGED <<revokedOn, rotated>>
    /\ c \in Delivered' \cup fault'

Rotates(c) ==
    /\ pc[c] = "rotate" /\ Ends(c)
    /\ RotatedRow(c) /\ rotated' = rotated \cup {c}
    /\ UNCHANGED revokedOn
    /\ c \in Delivered' \cup fault'

Revokes(c) ==
    /\ Ends(c)
    /\ \E S \in SUBSET Call :
           (\A s \in S : sessions[s] # Nil) /\ RevokedRow(c, S)
    /\ UNCHANGED rotated
    /\ c \notin Delivered'

Writes(c) == Untouched(c) \/ Created(c) \/ Rotates(c) \/ Revokes(c)

(* Every step of a call stays in its frame. *)
LEMMA StepFrame ==
    ASSUME TypeOK, CallInv, NEW c \in Call, Step(c)
    PROVE  Frame(c)
<1> USE AbsenceAssumption
    DEF TypeOK, CallInv, Working, Over, Answer, Delivered, Frame, Finish, Begin
<1>1. CASE LoginLookup(c) \/ LoginVerified(c) \/ LoginDenied(c)
  BY <1>1 DEF LoginLookup, LoginVerified, LoginDenied
<1>2. CASE Create(c) \/ CreateFails(c)
  BY <1>2 DEF Create, CreateFails
<1>3. CASE Issue(c) \/ StepFails(c) \/ LoadUser(c)
  BY <1>3 DEF Issue, StepFails, LoadUser
<1>4. CASE RefreshStart(c) \/ LogoutStart(c)
  BY <1>4 DEF RefreshStart, LogoutStart
<1>5. CASE FindActive(c) \/ FindNone(c)
  BY <1>5 DEF FindActive, FindNone
<1>6. CASE RevokeStale(c) \/ RevokeStaleFails(c) \/ Logout(c) \/ LogoutFails(c)
  BY <1>6 DEF RevokeStale, RevokeStaleFails, Logout, LogoutFails
<1>7. CASE Rotate(c) \/ RotateMiss(c) \/ RotateFails(c)
  BY <1>7 DEF Rotate, RotateMiss, RotateFails
<1>8. CASE RevokeStart(c) \/ Revoke(c) \/ RevokeMiss(c) \/ RevokeFails(c)
  BY <1>8 DEF RevokeStart, Revoke, RevokeMiss, RevokeFails
<1>9. CASE Crash(c)
  BY <1>9 DEF Crash
<1>10. QED
  BY <1>1, <1>2, <1>3, <1>4, <1>5, <1>6, <1>7, <1>8, <1>9 DEF Step

(* Every step of a call leaves the table alone or writes it in one of the  *)
(* three ways.                                                             *)
LEMMA StepWrites ==
    ASSUME TypeOK, CallInv, TokenInv, NEW c \in Call, Step(c)
    PROVE  Writes(c)
<1> USE AbsenceAssumption
    DEF TypeOK, CallInv, Working, Answer, Delivered, Finish, Begin
<1>1. CASE LoginLookup(c) \/ LoginVerified(c) \/ LoginDenied(c)
  BY <1>1 DEF LoginLookup, LoginVerified, LoginDenied, Writes, Untouched
<1>2. CASE Create(c) \/ CreateFails(c)
  <2>1. CASE CreateEffect(c)
    <3>1. CreatedRow(c)
      BY <1>2, <2>1, CreateRow DEF Create, CreateFails
    <3>2. QED
      BY <1>2, <2>1, <3>1 DEF Create, CreateFails, CreateEffect, Writes, Created, Ends
  <2>2. CASE ~CreateEffect(c)
    BY <1>2, <2>2 DEF Create, CreateFails, Writes, Untouched
  <2>3. QED
    BY <2>1, <2>2
<1>3. CASE Issue(c) \/ StepFails(c) \/ LoadUser(c)
  BY <1>3 DEF Issue, StepFails, LoadUser, Writes, Untouched
<1>4. CASE RefreshStart(c) \/ LogoutStart(c) \/ RevokeStart(c)
  BY <1>4 DEF RefreshStart, LogoutStart, RevokeStart, Writes, Untouched
<1>5. CASE FindActive(c) \/ FindNone(c) \/ RevokeStaleFails(c) \/ RotateMiss(c)
  BY <1>5 DEF FindActive, FindNone, RevokeStaleFails, RotateMiss, Writes, Untouched
<1>6. CASE RevokeStale(c) \/ Logout(c) \/ LogoutFails(c)
  <2>1. CASE RevokeRows(c, HoldersOf(token[c]))
    <3>1. RevokedRow(c, HoldersOf(token[c]))
      BY <2>1, RevokeRow, HoldersType
    <3>2. QED
      BY <1>6, <3>1, HoldersType
         DEF RevokeStale, Logout, LogoutFails, Writes, Revokes, Ends
  <2>2. CASE ~RevokeRows(c, HoldersOf(token[c]))
    BY <1>6, <2>2 DEF RevokeStale, Logout, LogoutFails, Writes, Untouched
  <2>3. QED
    BY <2>1, <2>2
<1>7. CASE Rotate(c) \/ RotateFails(c)
  <2>1. CASE RotateEffect(c)
    <3>1. RotatedRow(c)
      BY <1>7, <2>1, RotateRow DEF Rotate, RotateFails, TokenInv
    <3>2. QED
      BY <1>7, <2>1, <3>1 DEF Rotate, RotateFails, RotateEffect, Writes, Rotates, Ends
  <2>2. CASE ~RotateEffect(c)
    BY <1>7, <2>2 DEF Rotate, RotateFails, Writes, Untouched
  <2>3. QED
    BY <2>1, <2>2
<1>8. CASE Revoke(c) \/ RevokeFails(c)
  <2>1. CASE RevokeMatches(c) /\ RevokeRows(c, {sess[c]})
    <3>1. {sess[c]} \in SUBSET Call /\ \A s \in {sess[c]} : sessions[s] # Nil
      BY <1>8, <2>1 DEF Revoke, RevokeFails, RevokeMatches
    <3>2. RevokedRow(c, {sess[c]})
      BY <2>1, <3>1, RevokeRow
    <3>3. QED
      BY <1>8, <3>1, <3>2 DEF Revoke, RevokeFails, Writes, Revokes, Ends
  <2>2. CASE ~(RevokeMatches(c) /\ RevokeRows(c, {sess[c]}))
    BY <1>8, <2>2 DEF Revoke, RevokeFails, Writes, Untouched
  <2>3. QED
    BY <2>1, <2>2
<1>9. CASE RevokeMiss(c) \/ Crash(c)
  BY <1>9 DEF RevokeMiss, Crash, Writes, Untouched
<1>10. QED
  BY <1>1, <1>2, <1>3, <1>4, <1>5, <1>6, <1>7, <1>8, <1>9 DEF Step

-----------------------------------------------------------------------------
(* Each part of the invariant is kept by a step of a call *)

(* Deliveries are not taken back. *)
LEMMA DeliveredGrows ==
    ASSUME NEW c \in Call, Frame(c)
    PROVE  /\ Delivered \subseteq Delivered' /\ Delivered' \subseteq Delivered \cup {c}
           /\ Delivered \subseteq Call /\ c \notin Delivered
  BY DEF Frame, Delivered

(* A token is presented after it was delivered; the session it was found   *)
(* in is the one it was generated for.                                     *)
LEMMA TokenStep ==
    ASSUME TypeOK, CallInv, TokenInv, RowInv, NEW c \in Call, Step(c), Frame(c)
    PROVE  TokenInv'
<1>1. /\ Delivered \subseteq Delivered' /\ Delivered' \subseteq Delivered \cup {c}
      /\ Delivered \subseteq Call /\ c \notin Delivered
  BY DeliveredGrows
<1>2. ASSUME NEW d \in Call, d # c
      PROVE  /\ token'[d] # Nil =>
                    token'[d] \in Delivered' /\ now'[token'[d]] <= now'[d]
             /\ kind'[d] = "refresh" /\ pc'[d] \in {"load", "stale", "issue", "rotate"} =>
                    sess'[d] = sess'[token'[d]] /\ who'[d] = who'[token'[d]]
             /\ d \in Delivered' => access'[d] # Nil /\ sess'[d] # Nil /\ who'[d] # Nil
  BY <1>1, <1>2 DEF CallInv, TokenInv, Frame
<1>3. /\ token'[c] # Nil =>
             token'[c] \in Delivered' /\ now'[token'[c]] <= now'[c]
      /\ kind'[c] = "refresh" /\ pc'[c] \in {"load", "stale", "issue", "rotate"} =>
             sess'[c] = sess'[token'[c]] /\ who'[c] = who'[token'[c]]
      /\ c \in Delivered' => access'[c] # Nil /\ sess'[c] # Nil /\ who'[c] # Nil
  <2> USE <1>1, AbsenceAssumption
      DEF TypeOK, CallInv, TokenInv, Frame, Working, Answer, Finish, Begin
  <2>1. CASE LoginLookup(c) \/ LoginVerified(c) \/ LoginDenied(c)
    BY <2>1 DEF LoginLookup, LoginVerified, LoginDenied, Delivered
  <2>2. CASE Create(c) \/ CreateFails(c)
    BY <2>2 DEF Create, CreateFails, Delivered
  <2>3. CASE Issue(c) \/ StepFails(c) \/ LoadUser(c)
    BY <2>3 DEF Issue, StepFails, LoadUser, Delivered
  <2>4. CASE RefreshStart(c) \/ LogoutStart(c)
    BY <2>4 DEF RefreshStart, LogoutStart, Delivered
  <2>5. CASE FindActive(c)
    BY <2>5 DEF FindActive, HoldersOf, RowInv, Delivered
  <2>6. CASE FindNone(c) \/ RevokeStale(c) \/ RevokeStaleFails(c)
    BY <2>6 DEF FindNone, RevokeStale, RevokeStaleFails, Delivered
  <2>7. CASE Rotate(c) \/ RotateMiss(c) \/ RotateFails(c)
    BY <2>7 DEF Rotate, RotateMiss, RotateFails, Delivered
  <2>8. CASE Logout(c) \/ LogoutFails(c) \/ Crash(c)
    BY <2>8 DEF Logout, LogoutFails, Crash, Delivered
  <2>9. CASE RevokeStart(c) \/ Revoke(c) \/ RevokeMiss(c) \/ RevokeFails(c)
    BY <2>9 DEF RevokeStart, Revoke, RevokeMiss, RevokeFails, Delivered
  <2>10. QED
    BY <2>1, <2>2, <2>3, <2>4, <2>5, <2>6, <2>7, <2>8, <2>9 DEF Step
<1>4. QED
  BY <1>2, <1>3 DEF TokenInv

(* A row is created or rotated by the last step of a call of its session.  *)
LEMMA RowStep ==
    ASSUME TypeOK, CallInv, TokenInv, RowInv, FreshInv, NEW c \in Call,
           Frame(c), Writes(c), TypeOK'
    PROVE  RowInv'
<1>1. /\ Delivered \subseteq Delivered' /\ c \notin Delivered
  BY DeliveredGrows
<1>2. ASSUME NEW s \in Call, sessions[s] # Nil, sessions'[s] # Nil,
             sessions'[s].token = sessions[s].token,
             sessions'[s].user = sessions[s].user,
             sessions'[s].lastUsedAt = sessions[s].lastUsedAt,
             sessions'[s].revokedAt = Nil => sessions[s].revokedAt = Nil,
             sessions'[s].revokedAt = Nil => revokedOn'[s] = revokedOn[s]
      PROVE  /\ sessions'[s].token \in Delivered' \cup fault'
             /\ pc'[sessions'[s].token] \in Over
             /\ sess'[sessions'[s].token] = s
             /\ who'[sessions'[s].token] = sessions'[s].user
             /\ sessions'[s].revokedAt = Nil => revokedOn'[s] = Nil
             /\ sessions'[s].lastUsedAt # Nil =>
                    sessions'[s].lastUsedAt = now'[sessions'[s].token]
  <2> DEFINE t == sessions[s].token
  <2>1. t \in Call /\ t # c
    BY <1>2, RowType DEF TypeOK, RowInv, Frame
  <2>2. /\ pc'[t] = pc[t] /\ sess'[t] = sess[t] /\ who'[t] = who[t]
        /\ now'[t] = now[t] /\ fault \subseteq fault'
    BY <2>1 DEF Frame
  <2>3. QED
    BY <1>1, <1>2, <2>2 DEF RowInv
<1>3. CASE Untouched(c)
  BY <1>2, <1>3 DEF Untouched, RowInv
<1>4. CASE Created(c)
  <2>1. /\ sessions'[c].token = c /\ sessions'[c].user = who'[c]
        /\ sess'[c] = c /\ pc'[c] \in Over /\ revokedOn'[c] = Nil
        /\ sessions'[c].lastUsedAt = Nil /\ c \in Delivered' \cup fault'
    BY <1>4 DEF Created, CreatedRow, Ends, CallInv, FreshInv, Over
  <2>2. \A s \in Call \ {c} :
            sessions'[s] = sessions[s] /\ revokedOn'[s] = revokedOn[s]
    BY <1>4 DEF Created, CreatedRow
  <2>3. QED
    BY <1>2, <2>1, <2>2 DEF RowInv
<1>5. CASE Rotates(c)
  <2> DEFINE x == sess[c]
  <2>1. x \in Call
    BY <1>5 DEF Rotates, TypeOK, CallInv, TokenInv
  <2>2. who[c] = who[token[c]] /\ x = sess[token[c]]
    BY <1>5 DEF Rotates, CallInv, TokenInv
  <2>3. /\ sessions'[x].token = c /\ sessions'[x].user = sessions[x].user
        /\ sess'[c] = x /\ pc'[c] \in Over /\ who'[c] = who[c]
        /\ sessions'[x].lastUsedAt = now'[c] /\ c \in Delivered' \cup fault'
        /\ revokedOn'[x] = revokedOn[x]
        /\ sessions[x] # Nil /\ sessions[x].token = token[c]
        /\ sessions[x].revokedAt = Nil
    BY <1>5 DEF Rotates, RotatedRow, Ends, Over
  <2>4. who[c] = sessions[x].user /\ revokedOn[x] = Nil
    BY <2>1, <2>2, <2>3 DEF RowInv
  <2>5. \A s \in Call \ {x} :
            sessions'[s] = sessions[s] /\ revokedOn'[s] = revokedOn[s]
    BY <1>5 DEF Rotates, RotatedRow
  <2>6. QED
    BY <1>2, <2>1, <2>3, <2>4, <2>5 DEF RowInv
<1>6. CASE Revokes(c)
  <2>1. PICK S \in SUBSET Call :
            (\A s \in S : sessions[s] # Nil) /\ RevokedRow(c, S)
    BY <1>6 DEF Revokes
  <2>2. ASSUME NEW s \in Call, sessions'[s] # Nil
        PROVE  /\ sessions[s] # Nil
               /\ sessions'[s].token = sessions[s].token
               /\ sessions'[s].user = sessions[s].user
               /\ sessions'[s].lastUsedAt = sessions[s].lastUsedAt
               /\ sessions'[s].revokedAt = Nil =>
                      sessions[s].revokedAt = Nil /\ revokedOn'[s] = revokedOn[s]
    BY <2>1, <2>2 DEF RevokedRow
  <2>3. QED
    BY <1>2, <2>2 DEF RowInv
<1>7. QED
  BY <1>3, <1>4, <1>5, <1>6 DEF Writes

(* A login that has not ended has no session. *)
LEMMA FreshStep ==
    ASSUME TypeOK, CallInv, TokenInv, RowInv, FreshInv, NEW c \in Call,
           Frame(c), Writes(c)
    PROVE  FreshInv'
<1> SUFFICES ASSUME NEW s \in Call, pc'[s] \notin Over
             PROVE  sessions'[s] = Nil /\ revokedOn'[s] = Nil
  BY DEF FreshInv
<1>1. sessions[s] = Nil /\ revokedOn[s] = Nil
  BY DEF Frame, FreshInv
<1>2. CASE Untouched(c)
  BY <1>1, <1>2 DEF Untouched
<1>3. CASE Created(c)
  BY <1>1, <1>3 DEF Created, CreatedRow, Ends, Over
<1>4. CASE Rotates(c)
  BY <1>1, <1>4 DEF Rotates, RotatedRow, Ends, Over
<1>5. CASE Revokes(c)
  BY <1>1, <1>5 DEF Revokes, RevokedRow
<1>6. QED
  BY <1>2, <1>3, <1>4, <1>5 DEF Writes

(* A rotation takes the old token out of the only row that held it, and    *)
(* the new one was never presented.                                        *)
LEMMA RotatedStep ==
    ASSUME TypeOK, CallInv, TokenInv, RowInv, RotatedInv, NEW c \in Call,
           Frame(c), Writes(c)
    PROVE  RotatedInv'
<1>1. c \notin Delivered /\ \A d \in rotated : d \in Call /\ d # c
  BY DeliveredGrows DEF TypeOK, RotatedInv, Frame, Over
<1>2. \A d \in rotated :
          /\ pc'[d] = "done" /\ token'[d] # Nil /\ token'[d] = token[d]
          /\ token[d] \in Delivered
  BY <1>1 DEF RotatedInv, Frame, TokenInv
<1>3. CASE Untouched(c)
  BY <1>2, <1>3 DEF Untouched, RotatedInv
<1>4. CASE Created(c)
  BY <1>1, <1>2, <1>4 DEF Created, CreatedRow, RotatedInv
<1>5. CASE Rotates(c)
  <2>1. /\ rotated' = rotated \cup {c} /\ pc'[c] = "done" /\ token'[c] = token[c]
        /\ token[c] # Nil /\ token[c] \in Delivered /\ sess[c] = sess[token[c]]
    BY <1>5 DEF Rotates, Ends, CallInv, TokenInv
  <2>2. /\ sessions'[sess[c]].token = c
        /\ \A s \in Call \ {sess[c]} : sessions'[s] = sessions[s]
    BY <1>5 DEF Rotates, RotatedRow
  <2>3. ASSUME NEW s \in Call, sessions'[s] # Nil
        PROVE  sessions'[s].token # token[c]
    BY <1>1, <2>1, <2>2, <2>3 DEF RowInv
  <2>4. ASSUME NEW s \in Call, sessions'[s] # Nil, NEW d \in rotated
        PROVE  sessions'[s].token # token[d]
    BY <1>1, <1>2, <2>2, <2>4 DEF RotatedInv
  <2>5. QED
    BY <1>2, <2>1, <2>3, <2>4 DEF RotatedInv
<1>6. CASE Revokes(c)
  <2>1. \A s \in Call : sessions'[s] # Nil =>
            sessions[s] # Nil /\ sessions'[s].token = sessions[s].token
    BY <1>6 DEF Revokes, RevokedRow
  <2>2. QED
    BY <1>2, <1>6, <2>1 DEF Revokes, RotatedInv
<1>7. QED
  BY <1>3, <1>4, <1>5, <1>6 DEF Writes

(* A second exchange of a token finds it in no row. *)
LEMMA SingleUseStep ==
    ASSUME TypeOK, CallInv, TokenInv, RotatedInv, SingleUse, NEW c \in Call,
           Frame(c), Writes(c)
    PROVE  SingleUse'
<1>1. \A d \in rotated : d \in Call /\ d # c /\ token'[d] = token[d]
  BY DEF TypeOK, RotatedInv, Frame, Over
<1>2. CASE Rotates(c)
  <2>1. sess[c] \in Call
    BY <1>2 DEF Rotates, TypeOK, CallInv, TokenInv
  <2>2. \A d \in rotated : token[d] # token[c]
    BY <1>2, <2>1 DEF Rotates, RotatedRow, RotatedInv
  <2>3. rotated' = rotated \cup {c} /\ token'[c] = token[c]
    BY <1>2 DEF Rotates, Ends
  <2>4. QED
    BY <1>1, <2>2, <2>3 DEF SingleUse
<1>3. CASE ~Rotates(c)
  BY <1>1, <1>3 DEF Writes, Untouched, Created, Revokes, SingleUse
<1>4. QED
  BY <1>2, <1>3

(* A revocation comes after every access token of the session was signed,  *)
(* and no access token is delivered for a revoked session.                 *)
LEMMA AccessEndsStep ==
    ASSUME TypeOK, CallInv, TokenInv, RowInv, FreshInv, AccessEndsAfterRevocation,
           NEW c \in Call, Frame(c), Writes(c)
    PROVE  AccessEndsAfterRevocation'
<1> SUFFICES ASSUME NEW d \in Call, d \in Delivered', revokedOn'[sess'[d]] # Nil
             PROVE  access'[d] <= revokedOn'[sess'[d]] + AccessTTL
  BY DEF AccessEndsAfterRevocation, Delivered
<1>1. d = c \/ (d \in Delivered /\ d # c)
  BY DeliveredGrows
<1>2. CASE d = c
  <2>1. CASE Created(c)
    BY <1>2, <2>1 DEF Created, Ends, CallInv, FreshInv, Frame
  <2>2. CASE Rotates(c)
    <3>1. sess[c] \in Call
      BY <2>2 DEF Rotates, TypeOK, CallInv, TokenInv
    <3>2. revokedOn'[sess'[c]] = Nil
      BY <2>2, <3>1 DEF Rotates, RotatedRow, Ends, RowInv
    <3>3. QED
      BY <1>2, <3>2
  <2>3. QED
    BY <1>2, <2>1, <2>2 DEF Writes, Untouched, Revokes
<1>3. CASE d \in Delivered /\ d # c
  <2>1. access'[d] = access[d] /\ sess'[d] = sess[d] /\ sess[d] \in Call
    BY <1>3 DEF Frame, TokenInv, TypeOK
  <2>2. access[d] \in Nat /\ access[d] <= clock + AccessTTL
    BY <1>3 DEF TypeOK, TokenInv, CallInv
  <2>3. revokedOn'[sess[d]] = revokedOn[sess[d]] \/ revokedOn'[sess[d]] = clock
    BY <2>1 DEF Writes, Untouched, Created, Rotates, Revokes, RevokedRow
  <2>4. QED
    BY <1>3, <2>1, <2>2, <2>3 DEF AccessEndsAfterRevocation
<1>4. QED
  BY <1>1, <1>2, <1>3

(* A row that holds a delivered token held it before: the tokens that are  *)
(* written belong to the call that takes the step.                         *)
LEMMA HoldersStep ==
    ASSUME NEW c \in Call, Frame(c), Writes(c), NEW s \in Call,
           sessions'[s] # Nil, sessions'[s].token \in Delivered
    PROVE  /\ sessions[s] # Nil /\ sessions[s].token = sessions'[s].token
           /\ sessions'[s].expiresAt = sessions[s].expiresAt
           /\ sessions[s].revokedAt # Nil => sessions'[s].revokedAt # Nil
<1>1. sessions'[s].token # c
  BY DeliveredGrows
<1>2. CASE Untouched(c)
  BY <1>2 DEF Untouched
<1>3. CASE Created(c)
  BY <1>1, <1>3 DEF Created, CreatedRow
<1>4. CASE Rotates(c)
  BY <1>1, <1>4 DEF Rotates, RotatedRow
<1>5. CASE Revokes(c)
  BY <1>5 DEF Revokes, RevokedRow
<1>6. QED
  BY <1>2, <1>3, <1>4, <1>5 DEF Writes

(* The UPDATE of a logout leaves no holder of its token unrevoked. *)
LEMMA LoggedOutStep ==
    ASSUME TypeOK, CallInv, TokenInv, LoggedOutTokenDead, NEW c \in Call,
           Step(c), Frame(c), Writes(c)
    PROVE  LoggedOutTokenDead'
<1> SUFFICES ASSUME NEW k \in Call, kind'[k] = "logout", reply'[k] = "ok",
                    NEW s \in Call, sessions'[s] # Nil,
                    sessions'[s].token = token'[k]
             PROVE  sessions'[s].revokedAt # Nil
  BY DEF LoggedOutTokenDead, HoldersOf
<1>1. CASE k # c
  <2>1. /\ kind[k] = "logout" /\ reply[k] = "ok" /\ token'[k] = token[k]
        /\ token[k] \in Delivered
    BY <1>1 DEF Frame, CallInv, TokenInv
  <2>2. QED
    BY <2>1, HoldersStep DEF LoggedOutTokenDead, HoldersOf
<1>2. CASE k = c
  <2>1. Logout(c)
    BY <1>2, AbsenceAssumption
       DEF TypeOK, CallInv, Working, Answer, Finish, Begin, Step, LoginLookup,
           LoginVerified, LoginDenied, Create, CreateFails, Issue, StepFails,
           RefreshStart, FindActive, FindNone, LoadUser, RevokeStale,
           RevokeStaleFails, Rotate, RotateMiss, RotateFails, LogoutStart,
           LogoutFails, RevokeStart, Revoke, RevokeMiss, RevokeFails, Crash
  <2>2. token'[c] = token[c] /\ token[c] \in Delivered
    BY <2>1 DEF Logout, CallInv, TokenInv
  <2>3. s \in HoldersOf(token[c])
    BY <1>2, <2>2, HoldersStep DEF HoldersOf
  <2>4. RevokedRow(c, HoldersOf(token[c]))
    BY <2>1, RevokeRow, HoldersType DEF Logout
  <2>5. QED
    BY <2>3, <2>4, HoldersType DEF RevokedRow
<1>3. QED
  BY <1>1, <1>2

(* A refusal comes from a look at the row that holds the token, if there   *)
(* is one, or from its revocation.                                         *)
LEMMA RefusedStep ==
    ASSUME TypeOK, CallInv, TokenInv, RowInv, RefusedTokenDead, NEW c \in Call,
           Step(c), Frame(c), Writes(c)
    PROVE  RefusedTokenDead'
<1> SUFFICES ASSUME NEW k \in Call, k \notin fault', kind'[k] = "refresh",
                    reply'[k] = "invalid", NEW s \in Call,
                    sessions'[s] # Nil, sessions'[s].token = token'[k]
             PROVE  sessions'[s].revokedAt # Nil \/ sessions'[s].expiresAt <= clock'
  BY DEF RefusedTokenDead, HoldersOf
<1>1. CASE k # c
  <2>1. /\ kind[k] = "refresh" /\ reply[k] = "invalid" /\ token'[k] = token[k]
        /\ token[k] \in Delivered /\ k \notin fault /\ clock' = clock
    BY <1>1 DEF Frame, CallInv, TokenInv
  <2>2. QED
    BY <2>1, HoldersStep DEF RefusedTokenDead, HoldersOf
<1>2. CASE k = c
  <2>1. FindNone(c) \/ RotateMiss(c) \/ RevokeStale(c)
    BY <1>2, AbsenceAssumption
       DEF TypeOK, CallInv, Working, Answer, Finish, Begin, Step, LoginLookup,
           LoginVerified, LoginDenied, Create, CreateFails, Issue, StepFails,
           RefreshStart, FindActive, LoadUser, RevokeStaleFails, Rotate,
           RotateFails, LogoutStart, Logout, LogoutFails, RevokeStart, Revoke,
           RevokeMiss, RevokeFails, Crash
  <2>2. /\ token'[c] = token[c] /\ token[c] \in Delivered /\ now[c] <= clock
        /\ clock' = clock
    BY <2>1 DEF FindNone, RotateMiss, RevokeStale, CallInv, TokenInv
  <2>3. s \in HoldersOf(token[c])
    BY <1>2, <2>2, HoldersStep DEF HoldersOf
  <2>4. sessions[s] \in SessionRow /\ sessions[s].expiresAt \in Nat
    BY <2>3, RowType DEF TypeOK, HoldersOf
  <2>5. CASE RevokeStale(c)
    <3>1. RevokedRow(c, HoldersOf(token[c]))
      BY <2>5, RevokeRow, HoldersType DEF RevokeStale
    <3>2. QED
      BY <2>3, <3>1, HoldersType DEF RevokedRow
  <2>6. CASE FindNone(c) \/ RotateMiss(c)
    <3>1. ~ActiveAt(sessions[s], now[c])
      <4>1. CASE FindNone(c)
        BY <2>3, <4>1 DEF FindNone
      <4>2. CASE RotateMiss(c)
        <5>1. s = sess[token[c]] /\ sess[token[c]] = sess[c]
          BY <2>3, <4>2 DEF RotateMiss, HoldersOf, RowInv, CallInv, TokenInv
        <5>2. QED
          BY <2>3, <4>2, <5>1 DEF RotateMiss, RotateMatches, HoldersOf
      <4>3. QED
        BY <2>6, <4>1, <4>2
    <3>2. sessions'[s] = sessions[s]
      BY <2>6 DEF FindNone, RotateMiss
    <3>3. now[c] \in Nat /\ clock \in Nat
      BY DEF TypeOK
    <3>4. QED
      BY <2>2, <2>4, <3>1, <3>2, <3>3 DEF ActiveAt
  <2>7. QED
    BY <2>1, <2>5, <2>6
<1>3. QED
  BY <1>1, <1>2

(* A token is delivered after its session was written. *)
LEMMA BehindStep ==
    ASSUME TypeOK, CallInv, TokenInv, RowInv, FreshInv, SessionBehindToken,
           NEW c \in Call, Frame(c), Writes(c)
    PROVE  SessionBehindToken'
<1> SUFFICES ASSUME NEW d \in Call, d \in Delivered', user'[who'[d]] # "deleted"
             PROVE  sessions'[sess'[d]] # Nil /\ sessions'[sess'[d]].user = who'[d]
  BY DEF SessionBehindToken, Delivered
<1>1. d = c \/ (d \in Delivered /\ d # c)
  BY DeliveredGrows
<1>2. CASE d = c
  <2>1. CASE Created(c)
    BY <1>2, <2>1 DEF Created, CreatedRow, Ends, CallInv
  <2>2. CASE Rotates(c)
    <3>1. sess[c] \in Call /\ who[c] = who[token[c]] /\ sess[c] = sess[token[c]]
      BY <2>2 DEF Rotates, TypeOK, CallInv, TokenInv
    <3>2. sessions[sess[c]].user = who[c]
      BY <2>2, <3>1 DEF Rotates, RotatedRow, RowInv
    <3>3. QED
      BY <1>2, <2>2, <3>2 DEF Rotates, RotatedRow, Ends
  <2>3. QED
    BY <1>2, <2>1, <2>2 DEF Writes, Untouched, Revokes
<1>3. CASE d \in Delivered /\ d # c
  <2>1. /\ who'[d] = who[d] /\ sess'[d] = sess[d] /\ sess[d] \in Call
        /\ user' = user
    BY <1>3 DEF Frame, TokenInv, TypeOK
  <2>2. sessions[sess[d]] # Nil /\ sessions[sess[d]].user = who[d]
    BY <1>3, <2>1 DEF SessionBehindToken
  <2>3. sessions'[sess[d]] # Nil /\ sessions'[sess[d]].user = sessions[sess[d]].user
    <3>1. CASE Untouched(c)
      BY <2>2, <3>1 DEF Untouched
    <3>2. CASE Created(c)
      BY <2>1, <2>2, <3>2 DEF Created, CreatedRow, FreshInv, Frame
    <3>3. CASE Rotates(c)
      BY <2>1, <2>2, <3>3 DEF Rotates, RotatedRow
    <3>4. CASE Revokes(c)
      BY <2>1, <2>2, <3>4 DEF Revokes, RevokedRow
    <3>5. QED
      BY <3>1, <3>2, <3>3, <3>4 DEF Writes
  <2>4. QED
    BY <2>1, <2>2, <2>3
<1>4. QED
  BY <1>1, <1>2, <1>3

-----------------------------------------------------------------------------
(* Theorems *)

(* An empty table and idle calls satisfy the invariant. *)
LEMMA InitInv == Init => IndInv
<1> SUFFICES ASSUME Init PROVE IndInv
  OBVIOUS
<1> USE AbsenceAssumption DEF Init
<1>1. TypeOK
  BY DEF TypeOK, Kind, UserState, Working
<1>2. Delivered = {}
  BY DEF Delivered
<1>3. CallInv /\ TokenInv
  BY <1>2 DEF CallInv, TokenInv
<1>4. RowInv /\ FreshInv /\ RotatedInv
  BY DEF RowInv, FreshInv, RotatedInv
<1>5. SingleUse /\ AccessEndsAfterRevocation /\ SessionBehindToken
  BY <1>2 DEF SingleUse, AccessEndsAfterRevocation, SessionBehindToken
<1>6. LoggedOutTokenDead /\ RefusedTokenDead
  BY DEF LoggedOutTokenDead, RefusedTokenDead
<1>7. QED
  BY <1>1, <1>3, <1>4, <1>5, <1>6 DEF IndInv

(* Time only weakens what the invariant demands. *)
LEMMA TickInv == IndInv /\ Tick => IndInv'
<1> SUFFICES ASSUME IndInv, Tick PROVE IndInv'
  OBVIOUS
<1> USE DEF IndInv, Tick
<1>1. TypeOK'
  BY DEF TypeOK
<1>2. CallInv'
  BY TTLAssumption DEF TypeOK, CallInv
<1>3. TokenInv' /\ RowInv' /\ FreshInv' /\ RotatedInv'
  BY DEF TokenInv, RowInv, FreshInv, RotatedInv, Delivered
<1>4. SingleUse' /\ AccessEndsAfterRevocation' /\ SessionBehindToken'
  BY DEF SingleUse, AccessEndsAfterRevocation, SessionBehindToken, Delivered
<1>5. LoggedOutTokenDead'
  BY DEF LoggedOutTokenDead, HoldersOf
<1>6. RefusedTokenDead'
  BY RowType DEF TypeOK, RefusedTokenDead, HoldersOf
<1>7. QED
  BY <1>1, <1>2, <1>3, <1>4, <1>5, <1>6

(* An operator removes rows and never brings a user back. *)
LEMMA OperatorInv ==
    ASSUME IndInv, NEW u \in User, Operator(u)
    PROVE  IndInv'
<1>1. /\ UNCHANGED <<clock, pc, kind, who, token, sess, now, access, reply,
                     fault, rotated, revokedOn>>
      /\ user' \in [User -> UserState]
      /\ sessions' \in [Call -> SessionRow \cup {Nil}]
      /\ \A v \in User : user[v] = "deleted" => user'[v] = "deleted"
      /\ \A s \in Call :
             \/ sessions'[s] = sessions[s]
             \/ /\ sessions'[s] = Nil /\ sessions[s] # Nil
                /\ user'[sessions[s].user] = "deleted"
  BY DEF Operator, OperatorUpdatesUser, OperatorDeletesUser, IndInv, TypeOK,
         UserState
<1> USE DEF IndInv
<1>2. TypeOK'
  BY <1>1 DEF TypeOK
<1>3. CallInv' /\ TokenInv'
  BY <1>1 DEF CallInv, TokenInv, Delivered
<1>4. RowInv' /\ FreshInv' /\ RotatedInv'
  BY <1>1 DEF RowInv, FreshInv, RotatedInv, Delivered
<1>5. SingleUse' /\ AccessEndsAfterRevocation'
  BY <1>1 DEF SingleUse, AccessEndsAfterRevocation, Delivered
<1>6. LoggedOutTokenDead' /\ RefusedTokenDead'
  BY <1>1 DEF LoggedOutTokenDead, RefusedTokenDead, HoldersOf
<1>7. SessionBehindToken'
  <2> SUFFICES ASSUME NEW d \in Call, d \in Delivered', user'[who'[d]] # "deleted"
               PROVE  sessions'[sess'[d]] # Nil /\ sessions'[sess'[d]].user = who'[d]
    BY DEF SessionBehindToken, Delivered
  <2>1. d \in Delivered /\ who'[d] = who[d] /\ sess'[d] = sess[d]
    BY <1>1 DEF Delivered
  <2>2. who[d] \in User /\ sess[d] \in Call
    BY <2>1 DEF TypeOK, TokenInv
  <2>3. QED
    BY <1>1, <2>1, <2>2 DEF SessionBehindToken
<1>8. QED
  BY <1>2, <1>3, <1>4, <1>5, <1>6, <1>7

(* Stuttering keeps the invariant. *)
LEMMA StutterInv == IndInv /\ UNCHANGED vars => IndInv'
  BY DEF IndInv, vars, TypeOK, CallInv, TokenInv, RowInv, FreshInv, RotatedInv,
         SingleUse, AccessEndsAfterRevocation, LoggedOutTokenDead,
         RefusedTokenDead, SessionBehindToken, Delivered, HoldersOf

(* The invariant is inductive. *)
LEMMA NextInv == IndInv /\ [Next]_vars => IndInv'
<1> SUFFICES ASSUME IndInv, [Next]_vars PROVE IndInv'
  OBVIOUS
<1>1. CASE Tick
  BY <1>1, TickInv
<1>2. CASE UNCHANGED vars \/ Quiescent
  BY <1>2, StutterInv DEF Quiescent
<1>3. ASSUME NEW u \in User, Operator(u) PROVE IndInv'
  BY <1>3, OperatorInv
<1>4. ASSUME NEW c \in Call, Step(c) PROVE IndInv'
  <2>1. TypeOK' /\ CallInv' /\ Frame(c) /\ Writes(c)
    BY <1>4, TypeStep, CallStep, StepFrame, StepWrites DEF IndInv
  <2>2. TokenInv' /\ RowInv' /\ FreshInv' /\ RotatedInv'
    BY <1>4, <2>1, TokenStep, RowStep, FreshStep, RotatedStep DEF IndInv
  <2>3. SingleUse' /\ AccessEndsAfterRevocation'
    BY <2>1, SingleUseStep, AccessEndsStep DEF IndInv
  <2>4. LoggedOutTokenDead' /\ RefusedTokenDead' /\ SessionBehindToken'
    BY <1>4, <2>1, LoggedOutStep, RefusedStep, BehindStep DEF IndInv
  <2>5. QED
    BY <2>1, <2>2, <2>3, <2>4 DEF IndInv
<1>5. QED
  BY <1>1, <1>2, <1>3, <1>4 DEF Next

(* Every reachable state satisfies the invariant. *)
THEOREM Invariance == Spec => []IndInv
  BY InitInv, NextInv, PTL DEF Spec

(* The variables keep their types. *)
THEOREM TypeCorrect == Spec => []TypeOK
<1>1. IndInv => TypeOK
  BY DEF IndInv
<1>2. QED
  BY <1>1, Invariance, PTL

(* A refresh token is exchanged at most once, for any number of concurrent *)
(* Refresh calls, retries, lost answers and crashes.                       *)
THEOREM ExchangedOnce == Spec => []SingleUse
<1>1. IndInv => SingleUse
  BY DEF IndInv
<1>2. QED
  BY <1>1, Invariance, PTL

(* Revocation bounds the life of every access token of the session, one    *)
(* that Issue signed while the revocation was under way included.          *)
THEOREM AccessEnds == Spec => []AccessEndsAfterRevocation
<1>1. IndInv => AccessEndsAfterRevocation
  BY DEF IndInv
<1>2. QED
  BY <1>1, Invariance, PTL

(* A token whose Logout was answered is dead, although a Refresh of it may *)
(* have been in flight.                                                    *)
THEOREM LogoutHolds == Spec => []LoggedOutTokenDead
<1>1. IndInv => LoggedOutTokenDead
  BY DEF IndInv
<1>2. QED
  BY <1>1, Invariance, PTL

(* A token that Refresh called invalid stays invalid. *)
THEOREM RefusalFinal == Spec => []RefusedTokenDead
<1>1. IndInv => RefusedTokenDead
  BY DEF IndInv
<1>2. QED
  BY <1>1, Invariance, PTL

(* Login and Refresh deliver tokens of stored sessions only. *)
THEOREM NoTokenWithoutSession == Spec => []SessionBehindToken
<1>1. IndInv => SessionBehindToken
  BY DEF IndInv
<1>2. QED
  BY <1>1, Invariance, PTL

(* Only a failed call leaves a session whose token no client has. *)
THEOREM TokenReachedClient == Spec => []CurrentTokenKnown
<1>1. IndInv => CurrentTokenKnown
  BY DEF IndInv, RowInv, CurrentTokenKnown
<1>2. QED
  BY <1>1, Invariance, PTL

(* A session only ages: RotateToken and the revocations never extend it,   *)
(* revive it or move its last use back, whatever order the calls take.     *)
THEOREM SessionAges == Spec => SessionOnlyAges
<1> DEFINE Ages(s) ==
        /\ sessions'[s].user = sessions[s].user
        /\ sessions'[s].expiresAt = sessions[s].expiresAt
        /\ sessions[s].revokedAt # Nil => sessions'[s] = sessions[s]
        /\ sessions'[s].lastUsedAt # sessions[s].lastUsedAt =>
               /\ sessions'[s].lastUsedAt < sessions'[s].expiresAt
               /\ sessions[s].lastUsedAt # Nil =>
                      sessions[s].lastUsedAt <= sessions'[s].lastUsedAt
<1> DEFINE AllAge ==
        \A s \in Call : sessions[s] # Nil /\ sessions'[s] # Nil => Ages(s)
<1>1. IndInv /\ [Next]_vars => [AllAge]_vars
  <2> SUFFICES ASSUME IndInv, Next, NEW s \in Call, sessions[s] # Nil,
                      sessions'[s] # Nil
               PROVE  Ages(s)
    OBVIOUS
  <2>1. CASE sessions'[s] = sessions[s]
    BY <2>1
  <2>2. ASSUME NEW c \in Call, Step(c)
        PROVE  Ages(s)
    <3>1. Frame(c) /\ Writes(c)
      BY <2>2, StepFrame, StepWrites DEF IndInv
    <3>2. CASE Created(c)
      BY <2>1, <3>1, <3>2 DEF Created, CreatedRow, Frame, IndInv, FreshInv
    <3>3. CASE Rotates(c)
      <4>1. /\ token[c] \in Call /\ now[token[c]] <= now[c]
            /\ sessions[sess[c]].lastUsedAt # Nil /\ s = sess[c] =>
                   sessions[s].lastUsedAt = now[token[c]]
        BY <3>3 DEF Rotates, RotatedRow, IndInv, TypeOK, CallInv, TokenInv, RowInv
      <4>2. CASE s = sess[c]
        BY <3>3, <4>1, <4>2 DEF Rotates, RotatedRow
      <4>3. CASE s # sess[c]
        BY <2>1, <3>3, <4>3 DEF Rotates, RotatedRow
      <4>4. QED
        BY <4>2, <4>3
    <3>4. CASE Revokes(c)
      BY <3>4 DEF Revokes, RevokedRow
    <3>5. CASE Untouched(c)
      BY <2>1, <3>5 DEF Untouched
    <3>6. QED
      BY <3>1, <3>2, <3>3, <3>4, <3>5 DEF Writes
  <2>3. ASSUME NEW u \in User, Operator(u)
        PROVE  sessions'[s] = sessions[s]
    BY <2>3 DEF Operator, OperatorUpdatesUser, OperatorDeletesUser
  <2>4. CASE Tick \/ Quiescent
    BY <2>1, <2>4 DEF Tick, Quiescent, vars
  <2>5. QED
    BY <2>1, <2>2, <2>3, <2>4 DEF Next
<1>2. QED
  BY <1>1, Invariance, PTL DEF Spec, SessionOnlyAges

-----------------------------------------------------------------------------
(* Refinement: the mapping *)

(* The two updates of a session. *)
LEMMA ChainUpdates ==
    ASSUME NEW k \in Chain, NEW x
    PROVE  /\ [k EXCEPT !.ended = x] =
                  [owner |-> k.owner, last |-> k.last, till |-> k.till, ended |-> x]
           /\ [k EXCEPT !.last = x] =
                  [owner |-> k.owner, last |-> x, till |-> k.till, ended |-> k.ended]
  BY DEF Chain

(* What is left of a row in the abstract session. *)
LEMMA ChainOfRow ==
    ASSUME TypeOK, NEW s \in Call, sessions[s] # Nil
    PROVE  LET k == MappedChain[s]
           IN  /\ k # Nil /\ k \in Chain
               /\ k.owner = sessions[s].user /\ k.last = sessions[s].token
               /\ k.till = sessions[s].expiresAt
               /\ k.ended <=> sessions[s].revokedAt # Nil
<1> DEFINE e == sessions[s].revokedAt # Nil
<1>1. sessions[s] \in SessionRow
  BY DEF TypeOK
<1>2. e \in BOOLEAN
  BY Zenon
<1>3. MappedChain[s] = [owner |-> sessions[s].user, last |-> sessions[s].token,
                        till |-> sessions[s].expiresAt, ended |-> e]
  BY DEF MappedChain
<1> HIDE DEF e
<1>4. MappedChain[s] \in Chain
  BY <1>1, <1>2, <1>3, RowType DEF Chain
<1>5. MappedChain[s].ended = e
  BY <1>3
<1>6. MappedChain[s].ended <=> sessions[s].revokedAt # Nil
  BY <1>5, Zenon DEF e
<1>7. QED
  BY <1>3, <1>4, <1>6, ChainAssumption

(* A session that was not opened, or was deleted, has none. *)
LEMMA ChainOfNone ==
    ASSUME NEW s \in Call, sessions[s] = Nil
    PROVE  MappedChain[s] = Nil
  BY DEF MappedChain

(* The holders of a token are the same. *)
LEMMA HoldingOf ==
    ASSUME TypeOK, NEW t
    PROVE  Contract!Holding(t) = HoldersOf(t)
<1>1. \A s \in Call :
          /\ MappedChain[s] # Nil <=> sessions[s] # Nil
          /\ sessions[s] # Nil => MappedChain[s].last = sessions[s].token
  BY ChainOfRow, ChainOfNone
<1>2. QED
  BY <1>1 DEF Contract!Holding, HoldersOf

(* A row that did not change maps to what it did. *)
LEMMA ChainFrame ==
    ASSUME NEW S \in SUBSET Call, \A s \in Call \ S : sessions'[s] = sessions[s]
    PROVE  \A s \in Call \ S : MappedChain'[s] = MappedChain[s]
  BY DEF MappedChain

(* A revocation of rows ends their sessions. *)
LEMMA ChainEnds ==
    ASSUME TypeOK, TypeOK', NEW c \in Call, NEW S \in SUBSET Call,
           \A s \in S : sessions[s] # Nil, RevokedRow(c, S)
    PROVE  MappedChain' = Contract!Ended(S)
<1>1. ASSUME NEW s \in S
      PROVE  MappedChain'[s] = [MappedChain[s] EXCEPT !.ended = TRUE]
  <2>1. /\ sessions'[s] # Nil /\ sessions'[s].revokedAt # Nil
        /\ sessions'[s].user = sessions[s].user
        /\ sessions'[s].token = sessions[s].token
        /\ sessions'[s].expiresAt = sessions[s].expiresAt
    BY DEF RevokedRow
  <2> DEFINE e == sessions'[s].revokedAt # Nil
  <2>2. e = TRUE
    BY <2>1, Zenon
  <2>3. MappedChain'[s] = [owner |-> sessions[s].user, last |-> sessions[s].token,
                           till |-> sessions[s].expiresAt, ended |-> e]
    BY <2>1 DEF MappedChain
  <2>4. /\ MappedChain[s] \in Chain /\ MappedChain[s].owner = sessions[s].user
        /\ MappedChain[s].last = sessions[s].token
        /\ MappedChain[s].till = sessions[s].expiresAt
    BY ChainOfRow
  <2> HIDE DEF e
  <2>5. [MappedChain[s] EXCEPT !.ended = e] =
            [owner |-> MappedChain[s].owner, last |-> MappedChain[s].last,
             till |-> MappedChain[s].till, ended |-> e]
    BY <2>4, ChainUpdates, Zenon
  <2>6. QED
    BY <2>2, <2>3, <2>4, <2>5, Zenon
<1>2. \A s \in Call \ S : MappedChain'[s] = MappedChain[s]
  BY ChainFrame DEF RevokedRow
<1>3. MappedChain' = [s \in Call |-> MappedChain'[s]]
  BY DEF MappedChain
<1>4. QED
  BY <1>1, <1>2, <1>3 DEF Contract!Ended

(* A step of c moves its own entries only. *)
LEMMA MappedFrame ==
    ASSUME NEW c \in Call, Frame(c)
    PROVE  /\ MappedGone' = MappedGone
           /\ MappedPhase' = [MappedPhase EXCEPT ![c] = MappedPhase'[c]]
           /\ MappedBegan' = [MappedBegan EXCEPT ![c] = MappedBegan'[c]]
           /\ c \notin Delivered' => Delivered' = Delivered
           /\ c \in Delivered' => Delivered' = Delivered \cup {c}
<1>1. MappedGone' = MappedGone
  BY DEF MappedGone, Frame
<1>2. \A d \in Call \ {c} : MappedPhase'[d] = MappedPhase[d]
  BY DEF MappedPhase, Frame
<1>3. \A d \in Call \ {c} : MappedBegan'[d] = MappedBegan[d]
  BY DEF MappedBegan, Frame
<1>4. /\ MappedPhase' = [MappedPhase EXCEPT ![c] = MappedPhase'[c]]
      /\ MappedBegan' = [MappedBegan EXCEPT ![c] = MappedBegan'[c]]
  BY <1>2, <1>3 DEF MappedPhase, MappedBegan
<1>5. QED
  BY <1>1, <1>4, DeliveredGrows

(* Where the positions of a call lie. *)
LEMMA PhaseOf ==
    ASSUME TypeOK, CallInv, NEW c \in Call
    PROVE  /\ pc[c] \in Over => MappedPhase[c] = "over"
           /\ pc[c] \in {"idle", "verify", "create", "revoke"} =>
                  MappedPhase[c] = "new"
           /\ pc[c] \in {"find", "load", "stale", "rotate"} =>
                  MappedPhase[c] = "refreshing"
           /\ pc[c] = "logout" => MappedPhase[c] = "leaving"
           /\ pc[c] \notin Over => MappedPhase[c] # "over"
  BY DEF TypeOK, CallInv, Kind, Working, Over, MappedPhase

(* A call that ends in the service ends in the contract. *)
LEMMA EndOfCall ==
    ASSUME NEW c \in Call, NEW a, Frame(c), pc'[c] \in Over,
           reply' = [reply EXCEPT ![c] = a], token' = token,
           MappedBegan'[c] = MappedBegan[c]
    PROVE  Contract!End(c, a)
<1>1. MappedPhase' = [MappedPhase EXCEPT ![c] = "over"]
  <2>1. MappedPhase'[c] = "over"
    BY DEF MappedPhase, Over
  <2>2. QED
    BY <2>1, MappedFrame
<1>2. MappedBegan' = MappedBegan
  <2>1. MappedBegan = [d \in Call |-> MappedBegan[d]]
    BY DEF MappedBegan
  <2>2. QED
    BY <2>1, MappedFrame
<1>3. clock' = clock /\ MappedGone' = MappedGone
  BY MappedFrame DEF Frame
<1>4. QED
  BY <1>1, <1>2, <1>3 DEF Contract!End

(* It does so with tokens, with an answer, or with an error. *)
LEMMA Endings ==
    ASSUME TypeOK, NEW c \in Call, NEW a, Frame(c), Contract!End(c, a)
    PROVE  /\ c \in Delivered' /\ a = "ok" /\ fault' = fault => Contract!Hand(c)
           /\ c \notin Delivered' /\ fault' = fault => Contract!Tell(c, a)
           /\ c \notin Delivered' /\ fault' = fault \cup {c} => Contract!Err(c, a)
  BY MappedFrame DEF Contract!Hand, Contract!Tell, Contract!Err

-----------------------------------------------------------------------------
(* Refinement: each step of a call is a step of the contract, or none *)

(* Statements that no client can tell. *)
LEMMA HiddenSteps ==
    ASSUME TypeOK, CallInv, NEW c \in Call, Frame(c),
           \/ LoginLookup(c) \/ LoginVerified(c) \/ Issue(c)
           \/ FindActive(c) \/ LoadUser(c) \/ RevokeStart(c)
    PROVE  UNCHANGED Contract!vars
<1> USE DEF LoginLookup, LoginVerified, Issue, FindActive, LoadUser, RevokeStart,
            Begin
<1>1. /\ clock' = clock /\ sessions' = sessions /\ token' = token
      /\ reply' = reply /\ fault' = fault
  OBVIOUS
<1>2. /\ MappedPhase'[c] = MappedPhase[c]
      /\ MappedBegan'[c] = MappedBegan[c]
  BY DEF TypeOK, CallInv, MappedPhase, MappedBegan
<1>3. MappedPhase' = MappedPhase /\ MappedBegan' = MappedBegan
  <2>1. /\ MappedPhase = [d \in Call |-> MappedPhase[d]]
        /\ MappedBegan = [d \in Call |-> MappedBegan[d]]
    BY DEF MappedPhase, MappedBegan
  <2>2. QED
    BY <1>2, <2>1, MappedFrame
<1>4. Delivered' = Delivered /\ MappedGone' = MappedGone
  <2>1. c \notin Delivered'
    BY <1>1, AbsenceAssumption DEF TypeOK, CallInv, Delivered, Answer
  <2>2. QED
    BY <2>1, MappedFrame
<1>5. MappedChain' = MappedChain
  BY <1>1 DEF MappedChain
<1>6. QED
  BY <1>1, <1>3, <1>4, <1>5 DEF Contract!vars

(* A Refresh or a Logout arrives. *)
LEMMA StartAsks ==
    ASSUME TypeOK, CallInv, NEW c \in Call, Frame(c),
           RefreshStart(c) \/ LogoutStart(c)
    PROVE  Contract!Ask(c)
<1> USE DEF RefreshStart, LogoutStart, Begin
<1>1. /\ pc[c] = "idle" /\ kind[c] = "none" /\ MappedPhase[c] = "new"
  BY PhaseOf DEF CallInv
<1>2. /\ clock' = clock /\ sessions' = sessions /\ reply' = reply
      /\ fault' = fault /\ MappedChain' = MappedChain
      /\ MappedGone' = MappedGone
  BY MappedFrame DEF MappedChain
<1>3. Delivered' = Delivered
  <2>1. c \notin Delivered'
    BY <1>1, <1>2, AbsenceAssumption DEF TypeOK, CallInv, Delivered, Answer
  <2>2. QED
    BY <2>1, MappedFrame
<1>4. /\ MappedPhase'[c] \in {"refreshing", "leaving"}
      /\ MappedBegan'[c] = clock
  BY DEF TypeOK, MappedPhase, MappedBegan
<1>5. \E t \in Delivered : token' = [token EXCEPT ![c] = t]
  OBVIOUS
<1>6. QED
  BY <1>1, <1>2, <1>3, <1>4, <1>5, MappedFrame DEF Contract!Ask

(* Every other step is the last of its call. *)
LEMMA LastSteps ==
    ASSUME TypeOK, CallInv, NEW c \in Call, Frame(c), NEW a,
           Finish(c, a) \/ (pc' = [pc EXCEPT ![c] = "crashed"] /\ reply' = reply
                              /\ a = Nil),
           token' = token, now' = now,
           kind'[c] = kind[c] \/ {kind[c], kind'[c]} \subseteq {"none", "login"}
    PROVE  Contract!End(c, a)
<1>1. pc'[c] \in Over
  BY DEF TypeOK, Finish, Over
<1>2. reply' = [reply EXCEPT ![c] = a]
  <2>1. CASE Finish(c, a)
    BY <2>1 DEF Finish
  <2>2. CASE reply' = reply /\ a = Nil
    <3>1. reply[c] = Nil
      BY DEF CallInv, Frame, Over
    <3>2. QED
      BY <2>2, <3>1 DEF TypeOK
  <2>3. QED
    BY <2>1, <2>2
<1>3. MappedBegan'[c] = MappedBegan[c]
  BY DEF MappedBegan
<1>4. QED
  BY <1>1, <1>2, <1>3, EndOfCall

(* The INSERT of a login opens the session. *)
LEMMA CreateOpens ==
    ASSUME TypeOK, TypeOK', CallInv, NEW c \in Call, Frame(c), CreateEffect(c),
           Create(c) \/ CreateFails(c)
    PROVE  Contract!Open(c)
<1> USE DEF Create, CreateFails
<1>1. /\ pc[c] = "create" /\ kind[c] = "login" /\ who[c] \in User
      /\ user[who[c]] # "deleted" /\ now[c] \in 0..clock
  BY DEF TypeOK, CallInv, CreateEffect
<1>2. MappedPhase[c] = "new"
  BY <1>1, PhaseOf
<1>3. who[c] \in User \ MappedGone
  BY <1>1 DEF MappedGone
<1> DEFINE k == [owner |-> who[c], last |-> c, till |-> now[c] + RefreshTTL,
                 ended |-> FALSE]
<1>4. MappedChain' = [MappedChain EXCEPT ![c] = k]
  <2> DEFINE r == [user |-> who[c], token |-> c, expiresAt |-> now[c] + RefreshTTL,
                   lastUsedAt |-> Nil, revokedAt |-> Nil]
             e == sessions'[c].revokedAt # Nil
  <2>1. sessions' = [sessions EXCEPT ![c] = r] /\ CreatedRow(c)
    BY <1>1, CreateRow, AbsenceAssumption DEF CreateEffect
  <2>2. sessions'[c] = r
    BY <2>1 DEF TypeOK
  <2>3. e = FALSE
    <3>1. sessions'[c].revokedAt = Nil
      BY <2>1 DEF CreatedRow
    <3>2. QED
      BY <3>1, Zenon
  <2>4. MappedChain'[c] = [owner |-> who[c], last |-> c,
                           till |-> now[c] + RefreshTTL, ended |-> e]
    BY <2>1, <2>2 DEF MappedChain, CreatedRow
  <2> HIDE DEF e
  <2>5. MappedChain'[c] = k
    BY <2>3, <2>4, Zenon
  <2> HIDE DEF k
  <2>6. \A s \in Call \ {c} : MappedChain'[s] = MappedChain[s]
    BY <2>1, ChainFrame DEF CreatedRow
  <2>7. /\ MappedChain = [s \in Call |-> MappedChain[s]]
        /\ MappedChain' = [s \in Call |-> MappedChain'[s]]
    BY DEF MappedChain
  <2>8. QED
    BY <2>5, <2>6, <2>7
<1>5. Contract!Hand(c) \/ Contract!Err(c, "internal")
  <2>1. CASE Create(c)
    <3>1. Contract!End(c, "ok")
      BY <2>1, LastSteps
    <3>2. c \in Delivered'
      BY <1>1, <2>1 DEF TypeOK, Delivered, Finish
    <3>3. QED
      BY <2>1, <3>1, <3>2, Endings
  <2>2. CASE CreateFails(c)
    <3>1. Contract!End(c, "internal")
      BY <2>2, LastSteps
    <3>2. c \notin Delivered'
      BY <2>2 DEF TypeOK, Delivered, Finish
    <3>3. fault' = fault \cup {c}
      BY <1>1, <2>2
    <3>4. QED
      BY <3>1, <3>2, <3>3, Endings
  <2>3. QED
    BY <2>1, <2>2
<1>6. QED
  BY <1>1, <1>2, <1>3, <1>4, <1>5 DEF Contract!Open

(* The UPDATE of a Refresh exchanges the token. *)
LEMMA RotateExchanges ==
    ASSUME TypeOK, TypeOK', CallInv, TokenInv, NEW c \in Call, Frame(c),
           RotateEffect(c), Rotate(c) \/ RotateFails(c)
    PROVE  Contract!Exchange(c)
<1> USE DEF Rotate, RotateFails
<1> DEFINE s == sess[c]
<1>1. pc[c] = "rotate" /\ kind[c] = "refresh" /\ s \in Call /\ RotatedRow(c)
  BY RotateRow DEF TypeOK, CallInv, TokenInv
<1>2. MappedPhase[c] = "refreshing" /\ MappedBegan[c] = now[c]
  BY <1>1, PhaseOf DEF MappedBegan
<1>3. /\ sessions[s] # Nil /\ sessions[s].token = token[c]
      /\ sessions[s].revokedAt = Nil /\ now[c] < sessions[s].expiresAt
  BY <1>1 DEF RotatedRow
<1>4. /\ MappedChain[s] # Nil /\ MappedChain[s] \in Chain
      /\ MappedChain[s].owner = sessions[s].user
      /\ MappedChain[s].last = sessions[s].token
      /\ MappedChain[s].till = sessions[s].expiresAt
      /\ ~MappedChain[s].ended
  BY <1>1, <1>3, ChainOfRow
<1>5. s \in Contract!Usable(c)
  BY <1>1, <1>2, <1>3, <1>4 DEF Contract!Usable, Contract!Holding
<1>6. MappedChain' = [MappedChain EXCEPT ![s].last = c]
  <2> DEFINE e == sessions'[s].revokedAt # Nil
  <2>1. /\ sessions'[s] # Nil /\ sessions'[s].user = sessions[s].user
        /\ sessions'[s].token = c /\ sessions'[s].revokedAt = Nil
        /\ sessions'[s].expiresAt = sessions[s].expiresAt
    BY <1>1 DEF RotatedRow
  <2>2. MappedChain'[s] = [owner |-> sessions[s].user, last |-> c,
                           till |-> sessions[s].expiresAt, ended |-> e]
    BY <1>1, <2>1 DEF MappedChain
  <2>3. e = MappedChain[s].ended
    <3>1. MappedChain[s].ended \in BOOLEAN
      BY <1>4 DEF Chain
    <3>2. MappedChain[s].ended = FALSE
      BY <1>4, <3>1
    <3>3. e = FALSE
      BY <2>1, Zenon
    <3>4. QED
      BY <3>2, <3>3, Zenon
  <2> HIDE DEF e
  <2>4. [MappedChain[s] EXCEPT !.last = c] =
            [owner |-> MappedChain[s].owner, last |-> c,
             till |-> MappedChain[s].till, ended |-> MappedChain[s].ended]
    BY <1>4, ChainUpdates, Zenon
  <2>5. MappedChain'[s] = [MappedChain[s] EXCEPT !.last = c]
    BY <1>4, <2>2, <2>3, <2>4, Zenon
  <2>6. \A x \in Call \ {s} : MappedChain'[x] = MappedChain[x]
    BY <1>1, ChainFrame DEF RotatedRow
  <2>7. /\ MappedChain = [x \in Call |-> MappedChain[x]]
        /\ MappedChain' = [x \in Call |-> MappedChain'[x]]
    BY DEF MappedChain
  <2>8. QED
    BY <1>1, <2>5, <2>6, <2>7
<1>7. Contract!Hand(c) \/ Contract!Err(c, "internal")
  <2>1. CASE Rotate(c)
    <3>1. Contract!End(c, "ok")
      BY <2>1, LastSteps
    <3>2. c \in Delivered'
      BY <1>1, <2>1 DEF TypeOK, Delivered, Finish
    <3>3. QED
      BY <2>1, <3>1, <3>2, Endings
  <2>2. CASE RotateFails(c)
    <3>1. Contract!End(c, "internal")
      BY <2>2, LastSteps
    <3>2. c \notin Delivered'
      BY <2>2 DEF TypeOK, Delivered, Finish
    <3>3. QED
      BY <2>2, <3>1, <3>2, Endings
  <2>3. QED
    BY <2>1, <2>2
<1> HIDE DEF s
<1>8. QED
  BY <1>2, <1>5, <1>6, <1>7 DEF Contract!Exchange

(* A Refresh that finds no row, or whose UPDATE matches none, is refused:  *)
(* the row it looks at is the only one that can hold its token.            *)
LEMMA MissRefuses ==
    ASSUME TypeOK, CallInv, TokenInv, RowInv, NEW c \in Call, Frame(c),
           FindNone(c) \/ RotateMiss(c)
    PROVE  Contract!Refuse(c)
<1> USE DEF FindNone, RotateMiss
<1>1. pc[c] \in {"find", "rotate"} /\ kind[c] = "refresh"
  BY DEF CallInv
<1>2. MappedPhase[c] = "refreshing" /\ MappedBegan[c] = now[c]
  BY <1>1, PhaseOf DEF MappedBegan
<1>3. ASSUME NEW s \in HoldersOf(token[c])
      PROVE  ~ActiveAt(sessions[s], now[c])
  <2>1. CASE FindNone(c)
    BY <2>1
  <2>2. CASE RotateMiss(c)
    <3>1. s = sess[token[c]] /\ sess[token[c]] = sess[c]
      BY <1>1, <2>2 DEF HoldersOf, RowInv, CallInv, TokenInv
    <3>2. QED
      BY <2>2, <3>1 DEF RotateMatches, HoldersOf
  <2>3. QED
    BY <2>1, <2>2
<1>4. Contract!Usable(c) = {}
  <2> SUFFICES ASSUME NEW s \in HoldersOf(token[c]), ~MappedChain[s].ended,
                      MappedBegan[c] < MappedChain[s].till
               PROVE  FALSE
    BY HoldingOf DEF Contract!Usable
  <2>1. s \in Call /\ sessions[s] # Nil
    BY HoldersType
  <2>2. sessions[s].revokedAt = Nil /\ now[c] < sessions[s].expiresAt
    BY <1>2, <2>1, ChainOfRow
  <2>3. QED
    BY <1>3, <2>2 DEF ActiveAt
<1>5. Contract!Tell(c, "invalid")
  <2>1. Contract!End(c, "invalid")
    BY LastSteps
  <2>2. c \notin Delivered'
    BY DEF TypeOK, Delivered, Finish
  <2>3. QED
    BY <2>1, <2>2, Endings
<1>6. MappedChain' = MappedChain
  BY DEF MappedChain
<1>7. QED
  BY <1>2, <1>4, <1>5, <1>6 DEF Contract!Refuse

(* A revocation by token ends the session that holds it: the user was      *)
(* refused, or left.                                                       *)
LEMMA RevokeByTokenEnds ==
    ASSUME TypeOK, TypeOK', CallInv, NEW c \in Call, Frame(c),
           RevokeRows(c, HoldersOf(token[c])),
           RevokeStale(c) \/ Logout(c) \/ LogoutFails(c)
    PROVE  Contract!Dismiss(c) \/ Contract!Leave(c)
<1> USE DEF RevokeStale, Logout, LogoutFails
<1>1. MappedChain' = Contract!Ended(Contract!Holding(token[c]))
  <2>1. RevokedRow(c, HoldersOf(token[c]))
    BY RevokeRow, HoldersType
  <2>2. MappedChain' = Contract!Ended(HoldersOf(token[c]))
    BY <2>1, ChainEnds, HoldersType
  <2>3. QED
    BY <2>2, HoldingOf
<1>2. CASE RevokeStale(c)
  <2>1. Contract!End(c, "invalid") /\ MappedPhase[c] = "refreshing"
    BY <1>2, LastSteps, PhaseOf
  <2>2. c \notin Delivered'
    BY <1>2 DEF TypeOK, Delivered, Finish
  <2>3. QED
    BY <1>1, <1>2, <2>1, <2>2, Endings DEF Contract!Dismiss
<1>3. CASE Logout(c)
  <2>1. Contract!End(c, "ok") /\ MappedPhase[c] = "leaving"
    BY <1>3, LastSteps, PhaseOf
  <2>2. c \notin Delivered'
    BY <1>3 DEF TypeOK, CallInv, Delivered, Finish
  <2>3. QED
    BY <1>1, <1>3, <2>1, <2>2, Endings DEF Contract!Leave
<1>4. CASE LogoutFails(c)
  <2>1. Contract!End(c, "internal") /\ MappedPhase[c] = "leaving"
    BY <1>4, LastSteps, PhaseOf
  <2>2. c \notin Delivered'
    BY <1>4 DEF TypeOK, Delivered, Finish
  <2>3. QED
    BY <1>1, <1>4, <2>1, <2>2, Endings DEF Contract!Leave
<1>5. QED
  BY <1>2, <1>3, <1>4

(* RevokeSession ends the session it names. *)
LEMMA RevokeByIdEnds ==
    ASSUME TypeOK, TypeOK', CallInv, NEW c \in Call, Frame(c), RevokeMatches(c),
           RevokeRows(c, {sess[c]}), Revoke(c) \/ RevokeFails(c)
    PROVE  Contract!Revoke(c)
<1> USE DEF Revoke, RevokeFails
<1> DEFINE s == sess[c]
<1>1. /\ pc[c] = "revoke" /\ kind[c] = "revoke" /\ s \in Call
      /\ sessions[s] # Nil /\ sessions[s].revokedAt = Nil
      /\ MappedPhase[c] = "new"
  BY PhaseOf DEF TypeOK, CallInv, RevokeMatches
<1>2. MappedChain[s] # Nil /\ ~MappedChain[s].ended
  BY <1>1, ChainOfRow
<1>3. MappedChain' = Contract!Ended({s})
  <2>1. {s} \in SUBSET Call /\ \A x \in {s} : sessions[x] # Nil
    BY <1>1
  <2>2. RevokedRow(c, {s})
    BY <2>1, RevokeRow
  <2>3. QED
    BY <2>1, <2>2, ChainEnds
<1>4. Contract!Tell(c, "ok") \/ Contract!Err(c, "internal")
  <2>1. c \notin Delivered'
    BY <1>1 DEF TypeOK, Delivered, Finish
  <2>2. CASE Revoke(c)
    BY <2>1, <2>2, LastSteps, Endings
  <2>3. CASE RevokeFails(c)
    BY <2>1, <2>3, LastSteps, Endings
  <2>4. QED
    BY <2>2, <2>3
<1> HIDE DEF s
<1>5. QED
  BY <1>1, <1>2, <1>3, <1>4 DEF Contract!Revoke

(* A Login or a RevokeSession that is turned down changes nothing. *)
LEMMA MissDeclines ==
    ASSUME TypeOK, CallInv, NEW c \in Call, Frame(c),
           \/ LoginDenied(c) \/ RevokeMiss(c)
           \/ CreateFails(c) /\ sessions' = sessions /\ fault' = fault
    PROVE  Contract!Decline(c)
<1> USE DEF LoginDenied, RevokeMiss, CreateFails
<1>1. MappedPhase[c] = "new" /\ MappedChain' = MappedChain
  BY PhaseOf DEF MappedChain
<1>2. c \notin Delivered' /\ fault' = fault
  BY DEF TypeOK, Delivered, Finish
<1>3. CASE LoginDenied(c)
  <2>1. {kind[c], kind'[c]} \subseteq {"none", "login"}
    BY <1>3 DEF TypeOK, CallInv
  <2>2. Contract!End(c, "denied")
    BY <1>3, <2>1, LastSteps
  <2>3. QED
    BY <1>1, <1>2, <2>2, Endings DEF Contract!Decline
<1>4. CASE RevokeMiss(c)
  <2>1. Contract!End(c, "notfound")
    BY <1>4, LastSteps
  <2>2. QED
    BY <1>1, <1>2, <2>1, Endings DEF Contract!Decline
<1>5. CASE CreateFails(c)
  <2>1. Contract!End(c, "internal")
    BY <1>5, LastSteps
  <2>2. QED
    BY <1>1, <1>2, <2>1, Endings DEF Contract!Decline
<1>6. QED
  BY <1>3, <1>4, <1>5

(* So does a call that fails before its write, or whose write fails. *)
LEMMA ErrorFails ==
    ASSUME TypeOK, CallInv, NEW c \in Call, Frame(c),
           sessions' = sessions, fault' = fault \cup {c},
           \/ RevokeStaleFails(c) \/ StepFails(c) \/ Crash(c) \/ CreateFails(c)
           \/ RotateFails(c) \/ LogoutFails(c) \/ RevokeFails(c)
    PROVE  Contract!Fail(c)
<1> USE DEF RevokeStaleFails, StepFails, Crash, CreateFails, RotateFails,
            LogoutFails, RevokeFails
<1>1. MappedPhase[c] # "over" /\ MappedChain' = MappedChain
  BY PhaseOf DEF Frame, MappedChain
<1>2. c \notin Delivered'
  BY AbsenceAssumption DEF TypeOK, CallInv, Frame, Over, Delivered, Finish, Answer
<1>3. CASE RevokeStaleFails(c)
  <2>1. Contract!End(c, "invalid") /\ MappedPhase[c] = "refreshing"
    BY <1>3, LastSteps, PhaseOf
  <2>2. QED
    BY <1>1, <1>2, <2>1, Endings DEF Contract!Fail
<1>4. CASE Crash(c)
  <2>1. Contract!End(c, Nil)
    BY <1>4, LastSteps
  <2>2. QED
    BY <1>1, <1>2, <2>1, Endings DEF Contract!Fail
<1>5. CASE \/ StepFails(c) \/ CreateFails(c) \/ RotateFails(c)
           \/ LogoutFails(c) \/ RevokeFails(c)
  <2>1. Contract!End(c, "internal")
    BY <1>5, LastSteps
  <2>2. QED
    BY <1>1, <1>2, <2>1, Endings DEF Contract!Fail
<1>6. QED
  BY <1>3, <1>4, <1>5

(* Every step of a call is a step of the contract, or hidden. *)
LEMMA StepRefines ==
    ASSUME IndInv, TypeOK', NEW c \in Call, Step(c)
    PROVE  [Contract!Next]_Contract!vars
<1> USE DEF IndInv
<1>1. Frame(c)
  BY StepFrame
<1>2. CASE \/ LoginLookup(c) \/ LoginVerified(c) \/ Issue(c)
           \/ FindActive(c) \/ LoadUser(c) \/ RevokeStart(c)
  BY <1>1, <1>2, HiddenSteps
<1>3. CASE RefreshStart(c) \/ LogoutStart(c)
  BY <1>1, <1>3, StartAsks DEF Contract!Next
<1>4. CASE LoginDenied(c) \/ RevokeMiss(c)
  BY <1>1, <1>4, MissDeclines DEF Contract!Next
<1>5. CASE FindNone(c) \/ RotateMiss(c)
  BY <1>1, <1>5, MissRefuses DEF Contract!Next
<1>6. CASE RevokeStaleFails(c) \/ StepFails(c) \/ Crash(c)
  <2>1. sessions' = sessions /\ fault' = fault \cup {c}
    BY <1>6 DEF RevokeStaleFails, StepFails, Crash
  <2>2. QED
    BY <1>1, <1>6, <2>1, ErrorFails DEF Contract!Next
<1>7. CASE Create(c) \/ CreateFails(c)
  <2>1. CASE CreateEffect(c)
    BY <1>1, <1>7, <2>1, CreateOpens DEF Contract!Next
  <2>2. CASE ~CreateEffect(c)
    <3>1. CreateFails(c) /\ sessions' = sessions
      BY <1>7, <2>2 DEF Create, CreateFails
    <3>2. fault' = fault \/ fault' = fault \cup {c}
      BY <3>1 DEF CreateFails
    <3>3. QED
      BY <1>1, <3>1, <3>2, MissDeclines, ErrorFails DEF Contract!Next
  <2>3. QED
    BY <2>1, <2>2
<1>8. CASE Rotate(c) \/ RotateFails(c)
  <2>1. CASE RotateEffect(c)
    BY <1>1, <1>8, <2>1, RotateExchanges DEF Contract!Next
  <2>2. CASE ~RotateEffect(c)
    <3>1. RotateFails(c) /\ sessions' = sessions /\ fault' = fault \cup {c}
      BY <1>8, <2>2 DEF Rotate, RotateFails
    <3>2. QED
      BY <1>1, <3>1, ErrorFails DEF Contract!Next
  <2>3. QED
    BY <2>1, <2>2
<1>9. CASE RevokeStale(c) \/ Logout(c) \/ LogoutFails(c)
  <2>1. CASE RevokeRows(c, HoldersOf(token[c]))
    BY <1>1, <1>9, <2>1, RevokeByTokenEnds DEF Contract!Next
  <2>2. CASE ~RevokeRows(c, HoldersOf(token[c]))
    <3>1. LogoutFails(c) /\ sessions' = sessions /\ fault' = fault \cup {c}
      BY <1>9, <2>2 DEF RevokeStale, Logout, LogoutFails
    <3>2. QED
      BY <1>1, <3>1, ErrorFails DEF Contract!Next
  <2>3. QED
    BY <2>1, <2>2
<1>10. CASE Revoke(c) \/ RevokeFails(c)
  <2>1. CASE RevokeMatches(c) /\ RevokeRows(c, {sess[c]})
    BY <1>1, <1>10, <2>1, RevokeByIdEnds DEF Contract!Next
  <2>2. CASE ~(RevokeMatches(c) /\ RevokeRows(c, {sess[c]}))
    <3>1. RevokeFails(c) /\ sessions' = sessions /\ fault' = fault \cup {c}
      BY <1>10, <2>2 DEF Revoke, RevokeFails
    <3>2. QED
      BY <1>1, <3>1, ErrorFails DEF Contract!Next
  <2>3. QED
    BY <2>1, <2>2
<1>11. QED
  BY <1>2, <1>3, <1>4, <1>5, <1>6, <1>7, <1>8, <1>9, <1>10 DEF Step

(* An operator deletes a user with all sessions, or is not noticed. *)
LEMMA OperatorRefines ==
    ASSUME TypeOK, NEW u \in User, Operator(u)
    PROVE  [Contract!Next]_Contract!vars
<1>1. /\ UNCHANGED <<clock, token, reply, fault>>
      /\ MappedPhase' = MappedPhase /\ MappedBegan' = MappedBegan
      /\ Delivered' = Delivered
  BY DEF Operator, OperatorUpdatesUser, OperatorDeletesUser, MappedPhase,
         MappedBegan, Delivered
<1>2. CASE OperatorUpdatesUser(u)
  <2>1. MappedChain' = MappedChain /\ MappedGone' = MappedGone
    BY <1>2 DEF TypeOK, OperatorUpdatesUser, MappedChain, MappedGone
  <2>2. QED
    BY <1>1, <2>1 DEF Contract!vars
<1>3. CASE OperatorDeletesUser(u)
  <2>1. MappedGone' = MappedGone \cup {u}
    BY <1>3 DEF TypeOK, OperatorDeletesUser, MappedGone
  <2>2. ASSUME NEW s \in Call
        PROVE  MappedChain'[s] =
                   IF MappedChain[s] # Nil /\ MappedChain[s].owner = u
                   THEN Nil ELSE MappedChain[s]
    <3>1. sessions'[s] = IF sessions[s] # Nil /\ sessions[s].user = u
                            THEN Nil ELSE sessions[s]
      BY <1>3 DEF OperatorDeletesUser
    <3>2. CASE sessions[s] = Nil
      BY <3>1, <3>2 DEF MappedChain
    <3>3. CASE sessions[s] # Nil
      <4>1. MappedChain[s] # Nil /\ MappedChain[s].owner = sessions[s].user
        BY <3>3, ChainOfRow
      <4>2. CASE sessions[s].user = u
        BY <3>1, <3>3, <4>1, <4>2 DEF MappedChain
      <4>3. CASE sessions[s].user # u
        <5>1. MappedChain'[s] = MappedChain[s]
          BY <3>1, <4>3 DEF MappedChain
        <5>2. QED
          BY <4>1, <4>3, <5>1
      <4>4. QED
        BY <4>2, <4>3
    <3>4. QED
      BY <3>2, <3>3
  <2>3. MappedChain' = [s \in Call |-> MappedChain'[s]]
    BY DEF MappedChain
  <2>4. Contract!Delete(u)
    BY <1>1, <2>1, <2>2, <2>3 DEF Contract!Delete
  <2>5. QED
    BY <2>4 DEF Contract!Next
<1>4. QED
  BY <1>2, <1>3 DEF Operator

(* Every step of the service is a step of the contract, or none. *)
LEMMA NextRefines == IndInv /\ IndInv' /\ [Next]_vars => [Contract!Next]_Contract!vars
<1> SUFFICES ASSUME IndInv, IndInv', [Next]_vars
             PROVE  [Contract!Next]_Contract!vars
  OBVIOUS
<1>1. CASE Tick
  <2>1. Contract!Tick
    BY <1>1 DEF Tick, Contract!Tick, MappedGone, MappedChain, MappedPhase,
                MappedBegan, Delivered
  <2>2. QED
    BY <2>1 DEF Contract!Next
<1>2. CASE UNCHANGED vars \/ Quiescent
  BY <1>2 DEF Quiescent, vars, Contract!vars, MappedGone, MappedChain,
              MappedPhase, MappedBegan, Delivered
<1>3. ASSUME NEW u \in User, Operator(u)
      PROVE  [Contract!Next]_Contract!vars
  BY <1>3, OperatorRefines DEF IndInv
<1>4. ASSUME NEW c \in Call, Step(c)
      PROVE  [Contract!Next]_Contract!vars
  BY <1>4, StepRefines DEF IndInv
<1>5. QED
  BY <1>1, <1>2, <1>3, <1>4 DEF Next

(* The login service and its table implement the contract of a session:    *)
(* Login, Refresh, Logout and RevokeSession take effect in one step each,  *)
(* although they are several statements that interleave, fail and crash.   *)
THEOREM Refinement == Spec => ImplementsContract
<1>1. Init => Contract!Init
  BY AbsenceAssumption DEF Init, Contract!Init, MappedGone, MappedChain,
         MappedPhase, MappedBegan, Delivered
<1>2. QED
  BY <1>1, NextRefines, Invariance, PTL DEF Spec, ImplementsContract, Contract!Spec

=============================================================================
