---------------------------- MODULE Idempotency ----------------------------
(***************************************************************************)
(* Idempotent execution of mutation RPCs: the gRPC interceptor             *)
(* IdempotencyUnary, the PostgreSQL store it reserves keys in, and the     *)
(* audit interceptor that runs between it and the handler.                 *)
(*                                                                         *)
(* Calls run concurrently, on any number of server instances, against one  *)
(* table.  One action is one SQL statement (each is its own transaction,   *)
(* READ COMMITTED) or one step of the interceptor.  The cleanup DELETE is  *)
(* two actions, because PostgreSQL evaluates its sub-select on a snapshot  *)
(* and deletes by id afterwards.                                           *)
(*                                                                         *)
(* A call generates a record id, an owner token and a response that nobody *)
(* else generates; all three are represented by the call itself.           *)
(***************************************************************************)
EXTENDS Integers, FiniteSets

CONSTANTS
    Call,          \* RPC invocations
    Scope,         \* triples (actor_id, rpc_method, key_hash)
    Payload,       \* request hashes
    TTL,           \* IDEMPOTENCY_TTL
    LockTimeout,   \* IDEMPOTENCY_LOCK_TIMEOUT
    CleanupLimit,  \* the LIMIT of cleanupExpired
    MaxClock,      \* bound on time
    MaxFaults,     \* bound on the calls that crash or see a store error
    Nil            \* SQL NULL, no row, no key, no answer

InProgressRow ==
    [id : Call, hash : Payload, state : {"in_progress"}, owner : Call,
     response : {Nil}, lockedUntil : Nat, expiresAt : Nat]

(* What encodeIdempotencyResult stores: the status code class and the      *)
(* payload, represented by the call that produced it.                      *)
Response == [code : {"ok", "stable"}, by : Call]

CompletedRow ==
    [id : Call, hash : Payload, state : {"completed"}, owner : Call,
     response : Response, lockedUntil : {Nil}, expiresAt : Nat]

Row == InProgressRow \cup CompletedRow

Reply ==
    [code : {"ok", "stable", "transient", "invalid", "unavailable",
             "conflict", "busy"},
     by : Call \cup {Nil}, replayed : BOOLEAN]

ASSUME TimeoutAssumption ==
    /\ TTL \in Nat
    /\ LockTimeout \in Nat
    /\ 0 < LockTimeout
    /\ LockTimeout < TTL

ASSUME NilAssumption ==
    /\ Nil \notin Call
    /\ Nil \notin Scope
    /\ Nil \notin Payload
    /\ Nil \notin Row
    /\ Nil \notin Response
    /\ Nil \notin Reply

ASSUME BoundAssumption ==
    /\ CleanupLimit \in Nat \ {0}
    /\ MaxClock \in Nat
    /\ MaxFaults \in Nat

VARIABLES
    clock,    \* wall clock of the deployment
    table,    \* idempotency_records, indexed by its unique scope
    pc,       \* where each call is
    scope,    \* its scope, Nil when it carries no key
    hash,     \* its request hash
    now,      \* the time it read before Acquire
    picked,   \* ids its cleanup sub-select returned
    row,      \* id of the record it found or reserved
    result,   \* outcome class of its handler
    reply,    \* what its client received
    audited,  \* audit_events: the calls with an event in it
    unrecorded, \* history: calls whose event could not be written
    fault,    \* history: calls that crashed or saw a store or codec error
    settled,  \* history: calls whose Complete took effect
    revived   \* history: ids taken over when already expired on the clock

vars == <<clock, table, pc, scope, hash, now, picked, row, result, reply,
          audited, unrecorded, fault, settled, revived>>

request == <<scope, hash, now>>
trail == <<audited, unrecorded>>

Acquiring == {"cleanup", "sweep", "insert", "find", "takeover", "refind"}
Executing == {"handler", "audit", "settle"}
Ended == {"done", "crashed"}

TypeOK ==
    /\ clock \in Nat
    /\ table \in [Scope -> Row \cup {Nil}]
    /\ pc \in [Call -> {"idle"} \cup Acquiring \cup Executing \cup Ended]
    /\ scope \in [Call -> Scope \cup {Nil}]
    /\ hash \in [Call -> Payload \cup {Nil}]
    /\ now \in [Call -> Nat]
    /\ picked \in [Call -> SUBSET Call]
    /\ row \in [Call -> Call]
    /\ result \in [Call -> {"none", "ok", "stable", "transient"}]
    /\ reply \in [Call -> Reply \cup {Nil}]
    /\ audited \in SUBSET Call
    /\ unrecorded \in SUBSET Call
    /\ fault \in SUBSET Call
    /\ settled \in SUBSET Call
    /\ revived \in SUBSET Call

Init ==
    /\ clock = 0
    /\ table = [s \in Scope |-> Nil]
    /\ pc = [c \in Call |-> "idle"]
    /\ scope = [c \in Call |-> Nil]
    /\ hash = [c \in Call |-> Nil]
    /\ now = [c \in Call |-> 0]
    /\ picked = [c \in Call |-> {}]
    /\ row = [c \in Call |-> c]
    /\ result = [c \in Call |-> "none"]
    /\ reply = [c \in Call |-> Nil]
    /\ audited = {}
    /\ unrecorded = {}
    /\ fault = {}
    /\ settled = {}
    /\ revived = {}

-----------------------------------------------------------------------------
(* Helpers *)

(* A call that holds a reservation, or believes it does. *)
Holding(c) == pc[c] \in Executing /\ scope[c] # Nil

(* The expiry test of Acquire, in Go and in the WHERE of the takeover.     *)
Lapsed(r, t) ==
    \/ r.expiresAt <= t
    \/ r.state = "in_progress" /\ r.lockedUntil <= t

(* Mutant: expires_at computed from the lock timeout. *)
ReservationShortLived(c, i) ==
    [id |-> i, hash |-> hash[c], state |-> "in_progress", owner |-> c,
     response |-> Nil, lockedUntil |-> now[c] + LockTimeout,
     expiresAt |-> now[c] + LockTimeout]

(* The record c reserves, under the id it inserts or takes over. *)
Reservation(c, i) ==
    [id |-> i, hash |-> hash[c], state |-> "in_progress", owner |-> c,
     response |-> Nil, lockedUntil |-> now[c] + LockTimeout,
     expiresAt |-> now[c] + TTL]

(* Mutant: WHERE id only, as if the record could not change hands. *)
OwnsRowById(c) ==
    LET r == table[scope[c]]
    IN  r # Nil /\ r.id = row[c]

(* The WHERE of Complete and Release: id, owner_token and state. *)
OwnsRow(c) ==
    LET r == table[scope[c]]
    IN  /\ r # Nil
        /\ r.id = row[c]
        /\ r.owner = c
        /\ r.state = "in_progress"

(* Mutant: locked_until is not reset to NULL. *)
FinishedStillLocked(c) ==
    LET r == table[scope[c]]
    IN  [id |-> r.id, hash |-> r.hash, state |-> "completed",
         owner |-> r.owner, response |-> [code |-> result[c], by |-> c],
         lockedUntil |-> r.lockedUntil, expiresAt |-> r.expiresAt]

(* The record c completes with its result; expires_at is left alone. *)
Finished(c) ==
    LET r == table[scope[c]]
    IN  [id |-> r.id, hash |-> r.hash, state |-> "completed",
         owner |-> r.owner, response |-> [code |-> result[c], by |-> c],
         lockedUntil |-> Nil, expiresAt |-> r.expiresAt]

(* Mutant: the request hashes are not compared. *)
DispositionAnyPayload(c, r) ==
    IF r.state = "completed"
    THEN [code |-> r.response.code, by |-> r.response.by, replayed |-> TRUE]
    ELSE [code |-> "busy", by |-> Nil, replayed |-> FALSE]

(* The answer rebuilt from a completed record. *)
Replay(r) ==
    [code |-> r.response.code, by |-> r.response.by, replayed |-> TRUE]

(* What the client is told about a live record found under its key. *)
Disposition(c, r) ==
    IF r.hash # hash[c]
    THEN [code |-> "conflict", by |-> Nil, replayed |-> FALSE]
    ELSE IF r.state = "completed"
         THEN Replay(r)
         ELSE [code |-> "busy", by |-> Nil, replayed |-> FALSE]

Unavailable == [code |-> "unavailable", by |-> Nil, replayed |-> FALSE]

HandlerReply(c) == [code |-> result[c], by |-> c, replayed |-> FALSE]

Finish(c, answer) ==
    /\ pc' = [pc EXCEPT ![c] = "done"]
    /\ reply' = [reply EXCEPT ![c] = answer]

MayFault(c) == Cardinality(fault \cup {c}) <= MaxFaults

(* The rows an ORDER BY expires_at LIMIT CleanupLimit may return. *)
Expired(t) == {s \in Scope : table[s] # Nil /\ table[s].expiresAt <= t}

Batches(t) ==
    {B \in SUBSET Expired(t) :
        /\ \/ B = Expired(t)
           \/ Cardinality(B) = CleanupLimit
        /\ Cardinality(B) <= CleanupLimit
        /\ \A s \in B, u \in Expired(t) \ B :
               table[s].expiresAt <= table[u].expiresAt}

-----------------------------------------------------------------------------
(* Arrival *)

Tick ==
    /\ clock < MaxClock
    /\ clock' = clock + 1
    /\ UNCHANGED <<table, pc, request, picked, row, result, reply, trail,
                   fault, settled, revived>>

(* A keyed mutation: fingerprint the request and read the clock. *)
Arrive(c) ==
    /\ pc[c] = "idle"
    /\ \E s \in Scope, h \in Payload :
           /\ scope' = [scope EXCEPT ![c] = s]
           /\ hash' = [hash EXCEPT ![c] = h]
    /\ now' = [now EXCEPT ![c] = clock]
    /\ pc' = [pc EXCEPT ![c] = "cleanup"]
    /\ UNCHANGED <<clock, table, picked, row, result, reply, trail, fault,
                   settled, revived>>

(* No key, or the feature is disabled: straight to the handler. *)
PassThrough(c) ==
    /\ pc[c] = "idle"
    /\ pc' = [pc EXCEPT ![c] = "handler"]
    /\ UNCHANGED <<clock, table, request, picked, row, result, reply, trail,
                   fault, settled, revived>>

(* A malformed key. *)
RejectKey(c) ==
    /\ pc[c] = "idle"
    /\ Finish(c, [code |-> "invalid", by |-> Nil, replayed |-> FALSE])
    /\ UNCHANGED <<clock, table, request, picked, row, result, trail, fault,
                   settled, revived>>

(* What the request metadata holds under idempotency-key. *)
KeyForm == {"absent", "malformed", "usable"}

Receive(c) ==
    \E form \in KeyForm :
        \/ form = "absent" /\ PassThrough(c)
        \/ form = "malformed" /\ RejectKey(c)
        \/ form = "usable" /\ Arrive(c)

-----------------------------------------------------------------------------
(* Acquire: incremental cleanup *)

CleanupSelect(c) ==
    /\ pc[c] = "cleanup"
    /\ \E B \in Batches(now[c]) :
           /\ picked' = [picked EXCEPT ![c] = {table[s].id : s \in B}]
           /\ pc' = [pc EXCEPT ![c] = IF B = {} THEN "insert" ELSE "sweep"]
    /\ UNCHANGED <<clock, table, request, row, result, reply, trail, fault,
                   settled, revived>>

(* Deletes by id: a row updated since the sub-select is re-checked only    *)
(* against the ids already selected.                                       *)
CleanupDelete(c) ==
    /\ pc[c] = "sweep"
    /\ table' = [s \in Scope |->
                    IF table[s] # Nil /\ table[s].id \in picked[c]
                    THEN Nil ELSE table[s]]
    /\ picked' = [picked EXCEPT ![c] = {}]
    /\ pc' = [pc EXCEPT ![c] = "insert"]
    /\ UNCHANGED <<clock, request, row, result, reply, trail, fault,
                   settled, revived>>

(* The error of the cleanup is ignored. *)
CleanupFails(c) ==
    /\ pc[c] \in {"cleanup", "sweep"}
    /\ picked' = [picked EXCEPT ![c] = {}]
    /\ pc' = [pc EXCEPT ![c] = "insert"]
    /\ UNCHANGED <<clock, table, request, row, result, reply, trail, fault,
                   settled, revived>>

-----------------------------------------------------------------------------
(* Acquire: reservation *)

InsertEffect(c) ==
    /\ table[scope[c]] = Nil
    /\ table' = [table EXCEPT ![scope[c]] = Reservation(c, c)]

Insert(c) ==
    /\ pc[c] = "insert"
    /\ InsertEffect(c)
    /\ row' = [row EXCEPT ![c] = c]
    /\ pc' = [pc EXCEPT ![c] = "handler"]
    /\ UNCHANGED <<clock, request, picked, result, reply, trail, fault,
                   settled, revived>>

(* ON CONFLICT DO NOTHING returned no row. *)
InsertConflict(c) ==
    /\ pc[c] = "insert"
    /\ table[scope[c]] # Nil
    /\ pc' = [pc EXCEPT ![c] = "find"]
    /\ UNCHANGED <<clock, table, request, picked, row, result, reply, trail,
                   fault, settled, revived>>

(* The statement fails, or commits and its answer is lost. *)
InsertFails(c) ==
    /\ pc[c] = "insert"
    /\ MayFault(c)
    /\ fault' = fault \cup {c}
    /\ InsertEffect(c) \/ UNCHANGED table
    /\ Finish(c, Unavailable)
    /\ UNCHANGED <<clock, request, picked, row, result, trail, settled,
                   revived>>

(* The row that blocked the INSERT or the takeover is gone. *)
FindAbsent(c) ==
    /\ pc[c] \in {"find", "refind"}
    /\ table[scope[c]] = Nil
    /\ Finish(c, Unavailable)
    /\ UNCHANGED <<clock, table, request, picked, row, result, trail, fault,
                   settled, revived>>

FindLapsed(c) ==
    /\ pc[c] = "find"
    /\ table[scope[c]] # Nil
    /\ Lapsed(table[scope[c]], now[c])
    /\ row' = [row EXCEPT ![c] = table[scope[c]].id]
    /\ pc' = [pc EXCEPT ![c] = "takeover"]
    /\ UNCHANGED <<clock, table, request, picked, result, reply, trail,
                   fault, settled, revived>>

(* Conflict, replay or in progress.  The second find is not re-tested for  *)
(* expiry.                                                                 *)
FindLive(c) ==
    /\ pc[c] \in {"find", "refind"}
    /\ table[scope[c]] # Nil
    /\ pc[c] = "find" => ~Lapsed(table[scope[c]], now[c])
    /\ Finish(c, Disposition(c, table[scope[c]]))
    /\ UNCHANGED <<clock, table, request, picked, row, result, trail, fault,
                   settled, revived>>

FindFails(c) ==
    /\ pc[c] \in {"find", "refind"}
    /\ MayFault(c)
    /\ fault' = fault \cup {c}
    /\ Finish(c, Unavailable)
    /\ UNCHANGED <<clock, table, request, picked, row, result, trail,
                   settled, revived>>

(* Mutant: WHERE id only, trusting the expiry test done in Go. *)
TakeoverMatchesById(c) ==
    LET r == table[scope[c]]
    IN  r # Nil /\ r.id = row[c]

(* The WHERE of the takeover, evaluated on the current row version. *)
TakeoverMatches(c) ==
    LET r == table[scope[c]]
    IN  r # Nil /\ r.id = row[c] /\ Lapsed(r, now[c])

TakeoverEffect(c) ==
    LET r == table[scope[c]]
    IN  /\ TakeoverMatches(c)
        /\ table' = [table EXCEPT ![scope[c]] = Reservation(c, row[c])]
        /\ revived' = IF r.expiresAt <= clock THEN revived \cup {row[c]}
                                              ELSE revived

Takeover(c) ==
    /\ pc[c] = "takeover"
    /\ TakeoverEffect(c)
    /\ pc' = [pc EXCEPT ![c] = "handler"]
    /\ UNCHANGED <<clock, request, picked, row, result, reply, trail, fault,
                   settled>>

TakeoverMiss(c) ==
    /\ pc[c] = "takeover"
    /\ ~TakeoverMatches(c)
    /\ pc' = [pc EXCEPT ![c] = "refind"]
    /\ UNCHANGED <<clock, table, request, picked, row, result, reply, trail,
                   fault, settled, revived>>

TakeoverFails(c) ==
    /\ pc[c] = "takeover"
    /\ MayFault(c)
    /\ fault' = fault \cup {c}
    /\ TakeoverEffect(c) \/ UNCHANGED <<table, revived>>
    /\ Finish(c, Unavailable)
    /\ UNCHANGED <<clock, request, picked, row, result, trail, settled>>

-----------------------------------------------------------------------------
(* Execution *)

(* How transientIdempotencyError sorts what the handler returns: success,  *)
(* an error worth storing, or one that releases the reservation.           *)
Outcome == {"ok", "stable", "transient"}

(* Mutant: the audit interceptor is chained outside this one. *)
ExecuteBeforeAudit(c) ==
    /\ pc[c] = "handler"
    /\ \E outcome \in Outcome :
           result' = [result EXCEPT ![c] = outcome]
    /\ pc' = [pc EXCEPT ![c] = IF scope[c] = Nil THEN "audit" ELSE "settle"]
    /\ UNCHANGED <<clock, table, request, picked, row, reply, trail, fault,
                   settled, revived>>

(* The handler, with the metrics, logging and recovery interceptors around *)
(* it; a panic becomes a transient error.                                  *)
Execute(c) ==
    /\ pc[c] = "handler"
    /\ \E outcome \in Outcome :
           result' = [result EXCEPT ![c] = outcome]
    /\ pc' = [pc EXCEPT ![c] = "audit"]
    /\ UNCHANGED <<clock, table, request, picked, row, reply, trail, fault,
                   settled, revived>>

(* One INSERT into audit_events. *)
RecordEvent(c) ==
    /\ audited' = audited \cup {c}
    /\ UNCHANGED unrecorded

(* The INSERT fails or times out: logged, and the result is kept. *)
RecordFails(c) ==
    /\ Cardinality(unrecorded) < MaxFaults
    /\ unrecorded' = unrecorded \cup {c}
    /\ UNCHANGED audited

(* AuditUnary records the outcome on the way out.  A call without a key    *)
(* then answers its client.                                                *)
Audit(c) ==
    /\ pc[c] = "audit"
    /\ RecordEvent(c) \/ RecordFails(c)
    /\ IF scope[c] = Nil
       THEN Finish(c, HandlerReply(c))
       ELSE pc' = [pc EXCEPT ![c] = "settle"] /\ UNCHANGED reply
    /\ UNCHANGED <<clock, table, request, picked, row, result, fault, settled,
                   revived>>

CompleteEffect(c) ==
    /\ result[c] # "transient"
    /\ OwnsRow(c)
    /\ table' = [table EXCEPT ![scope[c]] = Finished(c)]
    /\ settled' = settled \cup {c}

Complete(c) ==
    /\ pc[c] = "settle"
    /\ CompleteEffect(c)
    /\ Finish(c, HandlerReply(c))
    /\ UNCHANGED <<clock, request, picked, row, result, trail, fault,
                   revived>>

(* Mutant: a transient failure keeps its reservation. *)
ReleaseForgotten(c) ==
    /\ result[c] = "transient"
    /\ OwnsRow(c)
    /\ UNCHANGED <<table, settled>>

ReleaseEffect(c) ==
    /\ result[c] = "transient"
    /\ OwnsRow(c)
    /\ table' = [table EXCEPT ![scope[c]] = Nil]
    /\ UNCHANGED settled

Release(c) ==
    /\ pc[c] = "settle"
    /\ ReleaseEffect(c)
    /\ Finish(c, HandlerReply(c))
    /\ UNCHANGED <<clock, request, picked, row, result, trail, fault,
                   revived>>

(* ErrReservationLost, or a DELETE of no row: logged at most. *)
SettleLost(c) ==
    /\ pc[c] = "settle"
    /\ ~OwnsRow(c)
    /\ Finish(c, HandlerReply(c))
    /\ UNCHANGED <<clock, table, request, picked, row, result, trail, fault,
                   settled, revived>>

(* The result cannot be encoded, or the final statement fails or loses its *)
(* answer: logged, and the client still gets the handler's result.         *)
SettleFails(c) ==
    /\ pc[c] = "settle"
    /\ MayFault(c)
    /\ fault' = fault \cup {c}
    /\ \/ CompleteEffect(c)
       \/ ReleaseEffect(c)
       \/ UNCHANGED <<table, settled>>
    /\ Finish(c, HandlerReply(c))
    /\ UNCHANGED <<clock, request, picked, row, result, trail, revived>>

(* The server process dies under the call. *)
Crash(c) ==
    /\ pc[c] \in Acquiring \cup Executing
    /\ MayFault(c)
    /\ fault' = fault \cup {c}
    /\ pc' = [pc EXCEPT ![c] = "crashed"]
    /\ picked' = [picked EXCEPT ![c] = {}]
    /\ UNCHANGED <<clock, table, request, row, result, reply, trail,
                   settled, revived>>

-----------------------------------------------------------------------------

Step(c) ==
    \/ Receive(c)
    \/ CleanupSelect(c) \/ CleanupDelete(c) \/ CleanupFails(c)
    \/ Insert(c) \/ InsertConflict(c) \/ InsertFails(c)
    \/ FindAbsent(c) \/ FindLapsed(c) \/ FindLive(c) \/ FindFails(c)
    \/ Takeover(c) \/ TakeoverMiss(c) \/ TakeoverFails(c)
    \/ Execute(c) \/ Audit(c)
    \/ Complete(c) \/ Release(c) \/ SettleLost(c) \/ SettleFails(c)
    \/ Crash(c)

(* Every call has ended and time has run out: the only legitimate stop. *)
Quiescent ==
    /\ \A c \in Call : pc[c] \in Ended
    /\ clock = MaxClock
    /\ UNCHANGED vars

Next == Tick \/ Quiescent \/ \E c \in Call : Step(c)

Spec == Init /\ [][Next]_vars

-----------------------------------------------------------------------------
(* Properties *)

(* A record that expired and was then taken over may still be in the batch *)
(* of a cleanup that selected it before; this is the one way to lose a     *)
(* reservation early, and `revived' names the records exposed to it.       *)
Exposed(i) == i \in revived

(* While the lock timeout of the call's own clock reading has not passed,  *)
(* a call in its handler, audit or completion step still owns an           *)
(* in_progress record under its key, whatever other calls, cleanups,       *)
(* takeovers and failures do.                                              *)
HeldReservation ==
    \A c \in Call :
        Holding(c) /\ ~Exposed(row[c]) /\ clock < now[c] + LockTimeout
            => OwnsRow(c)

(* Replayed answers are the stored result of an execution of the same key  *)
(* with the same payload, the class of that result included, and never a   *)
(* transient failure.                                                      *)
ReplayFidelity ==
    \A c \in Call :
        reply[c] # Nil /\ reply[c].replayed =>
            LET b == reply[c].by
            IN  /\ b \in settled
                /\ scope[b] = scope[c]
                /\ hash[b] = hash[c]
                /\ result[b] = reply[c].code

(* A stored result stays in the table until its TTL has passed: no late    *)
(* owner, release, takeover or cleanup with an old clock reading removes or *)
(* replaces it.                                                            *)
StoredResultStays ==
    \A a \in settled :
        \/ Exposed(row[a])
        \/ now[a] + TTL <= clock
        \/ /\ table[scope[a]] # Nil
           /\ table[scope[a]].state = "completed"
           /\ table[scope[a]].response = [code |-> result[a], by |-> a]

(* No call enters the handler for a key whose result was stored less than  *)
(* TTL after the request that stored it began.                             *)
NoReexecutionInWindow ==
    [][\A a \in settled, c \in Call :
          /\ pc[c] # "handler" /\ pc'[c] = "handler"
          /\ scope[c] = scope[a] /\ scope[c] # Nil
          => Exposed(row[a]) \/ now[a] + TTL <= clock]_vars

(* An in_progress record always has a live holder or the excuse of a crash *)
(* or an error: a call that ended normally never leaves its key locked.    *)
NoAbandonedReservation ==
    \A s \in Scope :
        table[s] # Nil /\ table[s].state = "in_progress" =>
            \/ Holding(table[s].owner) /\ row[table[s].owner] = table[s].id
            \/ table[s].owner \in fault

(* Every result a client is given, at first hand or replayed, is that of   *)
(* an execution with an event in the audit trail, or one whose event could *)
(* not be written (AuditUnary logs that and goes on); and a call that did  *)
(* not execute leaves none: a retry that is replayed, refused or told to   *)
(* wait adds nothing to the trail, and none is replayed ahead of it.       *)
EventPerExecution ==
    \A c \in Call :
        reply[c] # Nil =>
            /\ reply[c].by # Nil => reply[c].by \in audited \cup unrecorded
            /\ reply[c].by # c => c \notin audited

(* A call is told the store is unavailable only when a store statement     *)
(* failed under it.  README.md says that a concurrent request with the     *)
(* same key gets IDEMPOTENCY_REQUEST_IN_PROGRESS; a holder that releases   *)
(* between the INSERT and the find of another call breaks this.            *)
UnavailableOnlyOnFault ==
    \A c \in Call :
        reply[c] # Nil /\ reply[c].code = "unavailable" => c \in fault

(* Two calls are never in the handler for one key while both are within    *)
(* the lock timeout, expired records included.  README.md promises the     *)
(* second one IDEMPOTENCY_REQUEST_IN_PROGRESS; a cleanup that selected the  *)
(* record before it was taken over breaks this.                            *)
ExclusiveWithinLock ==
    \A c, d \in Call :
        /\ Holding(c) /\ clock < now[c] + LockTimeout
        /\ Holding(d) /\ clock < now[d] + LockTimeout
        /\ scope[c] = scope[d]
        => c = d

=============================================================================
