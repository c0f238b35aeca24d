------------------------- MODULE IdempotencyProofs -------------------------
(***************************************************************************)
(* The invariants of Idempotency, for any number of calls, keys and        *)
(* payloads, any timeouts with 0 < LockTimeout < TTL, any cleanup limit    *)
(* and any number of faults.                                               *)
(*                                                                         *)
(* A call whose reservation was lost early would have to have its record   *)
(* deleted or overwritten by somebody else.  Overwriting needs a clock     *)
(* reading past the record's deadlines, which are computed from the        *)
(* owner's own reading (RowOfOwner); deleting needs the record's id in a   *)
(* cleanup batch, and ids in a batch belong to records that are expired    *)
(* on the clock, or were when they were taken over (BatchExpired).         *)
(***************************************************************************)
EXTENDS Idempotency, TLAPS

Past == Executing \cup Ended

(* What a call's program counter says about its other state. *)
CallState ==
    \A c \in Call :
        /\ now[c] <= clock
        /\ scope[c] # Nil => hash[c] # Nil
        /\ pc[c] = "idle" => scope[c] = Nil
        /\ pc[c] \in Acquiring \cup {"settle"} => scope[c] # Nil
        /\ pc[c] \in {"audit", "settle"} => result[c] # "none"
        /\ reply[c] # Nil => pc[c] = "done"

(* A record agrees with the call that owns it and the call that created it. *)
RowOfOwner ==
    \A s \in Scope :
        table[s] # Nil =>
            LET r == table[s]
            IN  /\ scope[r.owner] = s
                /\ hash[r.owner] = r.hash
                /\ pc[r.owner] \in Past
                /\ pc[r.owner] \in Executing => row[r.owner] = r.id
                /\ r.expiresAt = now[r.owner] + TTL
                /\ r.state = "in_progress" =>
                       r.lockedUntil = now[r.owner] + LockTimeout
                /\ scope[r.id] = s
                /\ pc[r.id] \in Past

(* Ids waiting to be deleted belong to expired or revived records. *)
BatchExpired ==
    \A c \in Call : \A i \in picked[c] :
        /\ pc[i] \in Past
        /\ \A s \in Scope :
               table[s] # Nil /\ table[s].id = i =>
                   table[s].expiresAt <= clock \/ i \in revived

(* A completed record holds the result of the call that owns it. *)
RowOfResult ==
    \A s \in Scope :
        table[s] # Nil /\ table[s].state = "completed" =>
            LET r == table[s]
            IN  /\ r.owner \in settled
                /\ r.response = [code |-> result[r.owner], by |-> r.owner]

(* A call whose Complete took effect is over, and its record stays. *)
SettledCall ==
    \A a \in settled :
        /\ pc[a] \in Ended
        /\ scope[a] # Nil
        /\ result[a] \in {"ok", "stable"}
        /\ \/ Exposed(row[a])
           \/ now[a] + TTL <= clock
           \/ /\ table[scope[a]] # Nil
              /\ table[scope[a]].state = "completed"
              /\ table[scope[a]].owner = a
              /\ table[scope[a]].id = row[a]

(* The audit comes before the settlement, and for those that execute only. *)
Recording ==
    /\ \A c \in Call :
           /\ pc[c] = "settle" => c \in audited \cup unrecorded
           /\ c \in audited => pc[c] \in {"settle"} \cup Ended
    /\ settled \subseteq audited \cup unrecorded

IndInv ==
    /\ TypeOK
    /\ CallState
    /\ RowOfOwner
    /\ BatchExpired
    /\ HeldReservation
    /\ NoAbandonedReservation
    /\ RowOfResult
    /\ SettledCall
    /\ ReplayFidelity
    /\ Recording
    /\ EventPerExecution

-----------------------------------------------------------------------------
(* Records *)

(* The columns of a record in the table. *)
LEMMA RowType ==
    ASSUME NEW r \in Row
    PROVE  /\ r.id \in Call /\ r.owner \in Call /\ r.hash \in Payload
           /\ r.expiresAt \in Nat
           /\ r.state \in {"in_progress", "completed"}
           /\ r.state = "in_progress" => r.lockedUntil \in Nat
           /\ r.state = "completed" => r.response \in Response
  BY DEF Row, InProgressRow, CompletedRow

(* A reservation is a well-formed in_progress record. *)
LEMMA ReservationType ==
    ASSUME TypeOK, NEW c \in Call, NEW i \in Call, hash[c] # Nil
    PROVE  /\ Reservation(c, i) \in Row
           /\ Reservation(c, i).id = i
           /\ Reservation(c, i).hash = hash[c]
           /\ Reservation(c, i).state = "in_progress"
           /\ Reservation(c, i).owner = c
           /\ Reservation(c, i).lockedUntil = now[c] + LockTimeout
           /\ Reservation(c, i).expiresAt = now[c] + TTL
  BY TimeoutAssumption DEF TypeOK, Reservation, Row, InProgressRow

(* A result written over the in_progress record of its owner. *)
LEMMA FinishedType ==
    ASSUME TypeOK, NEW c \in Call, scope[c] # Nil, OwnsRow(c),
           result[c] \in {"ok", "stable"}
    PROVE  /\ Finished(c) \in Row
           /\ Finished(c).id = table[scope[c]].id
           /\ Finished(c).hash = table[scope[c]].hash
           /\ Finished(c).state = "completed"
           /\ Finished(c).owner = c
           /\ Finished(c).response = [code |-> result[c], by |-> c]
           /\ Finished(c).expiresAt = table[scope[c]].expiresAt
<1>1. table[scope[c]] \in Row
  BY DEF TypeOK, OwnsRow
<1>2. QED
  BY <1>1, RowType DEF Finished, OwnsRow, Row, CompletedRow, Response

(* The answers of the interceptor are replies. *)
LEMMA ReplyType ==
    ASSUME TypeOK, NEW c \in Call
    PROVE  /\ Unavailable \in Reply
           /\ [code |-> "invalid", by |-> Nil, replayed |-> FALSE] \in Reply
           /\ result[c] # "none" => HandlerReply(c) \in Reply
           /\ \A r \in Row : Disposition(c, r) \in Reply
<1>1. ASSUME NEW r \in Row
      PROVE  Disposition(c, r) \in Reply
  <2>1. CASE r.state = "completed"
    BY <2>1, RowType DEF Disposition, Replay, Reply, Response
  <2>2. CASE r.state # "completed"
    BY <2>2 DEF Disposition, Reply
  <2>3. QED
    BY <2>1, <2>2
<1>2. result[c] # "none" => HandlerReply(c) \in Reply
  BY DEF TypeOK, HandlerReply, Reply
<1>3. QED
  BY <1>1, <1>2 DEF Unavailable, Reply


-----------------------------------------------------------------------------
(* Typing and the state of a call *)

(* Every step keeps the variables in their types. *)
LEMMA TypeStep ==
    ASSUME TypeOK, CallState, NEW c \in Call, Step(c)
    PROVE  TypeOK'
<1> USE DEF TypeOK, CallState, Acquiring, Executing, Ended, request,
           trail
<1>a. pc[c] \in {"audit", "settle"} => HandlerReply(c) \in Reply
  BY ReplyType
<1>b. pc[c] = "settle" /\ OwnsRow(c) /\ result[c] # "transient"
          => Finished(c) \in Row
  BY FinishedType
<1>1. CASE Arrive(c) \/ PassThrough(c)
  BY <1>1 DEF Arrive, PassThrough
<1>2. CASE RejectKey(c)
  BY <1>2, ReplyType DEF RejectKey, Finish
<1>3. CASE CleanupSelect(c)
  <2>1. PICK B \in Batches(now[c]) :
            picked' = [picked EXCEPT ![c] = {table[s].id : s \in B}]
    BY <1>3 DEF CleanupSelect
  <2>2. \A s \in B : s \in Scope /\ table[s] \in Row
    BY DEF Batches, Expired
  <2>3. {table[s].id : s \in B} \in SUBSET Call
    BY <2>2, RowType
  <2>4. QED
    BY <1>3, <2>1, <2>3 DEF CleanupSelect
<1>4. CASE CleanupDelete(c) \/ CleanupFails(c)
  BY <1>4 DEF CleanupDelete, CleanupFails
<1>5. CASE Insert(c)
  BY <1>5, ReservationType DEF Insert, InsertEffect
<1>6. CASE InsertConflict(c) \/ FindLapsed(c) \/ TakeoverMiss(c)
  BY <1>6, RowType DEF InsertConflict, FindLapsed, TakeoverMiss
<1>7. CASE InsertFails(c)
  BY <1>7, ReplyType, ReservationType DEF InsertFails, InsertEffect, Finish
<1>8. CASE FindAbsent(c) \/ FindFails(c)
  BY <1>8, ReplyType DEF FindAbsent, FindFails, Finish
<1>9. CASE FindLive(c)
  BY <1>9, ReplyType, RowType DEF FindLive, Finish
<1>10. CASE Takeover(c)
  BY <1>10, ReservationType DEF Takeover, TakeoverEffect
<1>11. CASE TakeoverFails(c)
  BY <1>11, ReplyType, ReservationType
     DEF TakeoverFails, TakeoverEffect, Finish
<1>12. CASE Execute(c) \/ Crash(c)
  BY <1>12 DEF Execute, Outcome, Crash
<1>13. CASE Audit(c)
  BY <1>13, <1>a DEF Audit, RecordEvent, RecordFails, Finish
<1>14. CASE Complete(c)
  BY <1>14, <1>a, <1>b DEF Complete, CompleteEffect, Finish
<1>15. CASE Release(c) \/ SettleLost(c)
  BY <1>15, <1>a DEF Release, ReleaseEffect, SettleLost, Finish
<1>16. CASE SettleFails(c)
  BY <1>16, <1>a, <1>b
     DEF SettleFails, CompleteEffect, ReleaseEffect, Finish
<1>17. QED
  BY <1>1, <1>2, <1>3, <1>4, <1>5, <1>6, <1>7, <1>8, <1>9, <1>10, <1>11,
     <1>12, <1>13, <1>14, <1>15, <1>16 DEF Step, Receive

(* Every step keeps what the program counter says about a call. *)
LEMMA CallStateStep ==
    ASSUME TypeOK, CallState, NEW c \in Call, Step(c)
    PROVE  CallState'
<1> USE DEF TypeOK, CallState, Acquiring, Executing, Ended, request,
           trail
<1>1. CASE Arrive(c) \/ PassThrough(c)
  BY <1>1, NilAssumption DEF Arrive, PassThrough
<1>2. CASE RejectKey(c) \/ FindAbsent(c) \/ FindFails(c) \/ FindLive(c)
  BY <1>2 DEF RejectKey, FindAbsent, FindFails, FindLive, Finish
<1>3. CASE CleanupSelect(c) \/ CleanupDelete(c) \/ CleanupFails(c)
  BY <1>3 DEF CleanupSelect, CleanupDelete, CleanupFails
<1>4. CASE Insert(c) \/ InsertConflict(c) \/ InsertFails(c)
  BY <1>4 DEF Insert, InsertConflict, InsertFails, Finish
<1>5. CASE FindLapsed(c) \/ Takeover(c) \/ TakeoverMiss(c) \/ TakeoverFails(c)
  BY <1>5 DEF FindLapsed, Takeover, TakeoverMiss, TakeoverFails, Finish
<1>6. CASE Execute(c) \/ Audit(c) \/ Crash(c)
  BY <1>6 DEF Execute, Outcome, Audit, RecordEvent, RecordFails, Crash, Finish
<1>7. CASE Complete(c) \/ Release(c) \/ SettleLost(c) \/ SettleFails(c)
  BY <1>7 DEF Complete, Release, SettleLost, SettleFails, Finish
<1>8. QED
  BY <1>1, <1>2, <1>3, <1>4, <1>5, <1>6, <1>7 DEF Step, Receive


-----------------------------------------------------------------------------
(* What a step of one call may change *)

(* The other calls stand still, a call past Acquire keeps its request and  *)
(* its record id, and a call that has ended keeps everything.              *)
Frame(c) ==
    /\ clock' = clock
    /\ revived \subseteq revived'
    /\ settled \subseteq settled'
    /\ fault \subseteq fault'
    /\ \A d \in Call \ {c} :
           /\ pc'[d] = pc[d] /\ scope'[d] = scope[d] /\ hash'[d] = hash[d]
           /\ now'[d] = now[d] /\ row'[d] = row[d] /\ result'[d] = result[d]
           /\ reply'[d] = reply[d] /\ picked'[d] = picked[d]
    /\ pc[c] # "idle" =>
           scope'[c] = scope[c] /\ hash'[c] = hash[c] /\ now'[c] = now[c]
    /\ pc[c] \in Past => pc'[c] \in Past /\ row'[c] = row[c]
    /\ pc[c] \notin Ended

(* The record table, and with it the histories settled and revived, is     *)
(* left alone or changed by one of the statements that write it.  A call   *)
(* that leaves the table alone gives up no record and gains none.          *)
Untouched(c) ==
    /\ table' = table /\ settled' = settled /\ revived' = revived
    /\ pc[c] \in Executing /\ scope[c] # Nil /\ pc'[c] \notin Executing =>
           ~OwnsRow(c) \/ c \in fault'
    /\ pc[c] \notin Executing /\ pc'[c] \in Executing => scope'[c] = Nil

Inserted(c) ==
    /\ pc[c] = "insert" /\ InsertEffect(c)
    /\ settled' = settled /\ revived' = revived /\ picked' = picked
    /\ \/ pc'[c] = "handler" /\ row'[c] = c
       \/ pc'[c] = "done" /\ c \in fault'

TakenOver(c) ==
    /\ pc[c] = "takeover" /\ TakeoverEffect(c)
    /\ settled' = settled /\ row' = row /\ picked' = picked
    /\ pc'[c] = "handler" \/ (pc'[c] = "done" /\ c \in fault')

Settled(c) ==
    /\ pc[c] = "settle" /\ pc'[c] = "done"
    /\ CompleteEffect(c) \/ ReleaseEffect(c)
    /\ revived' = revived /\ row' = row /\ picked' = picked
    /\ result' = result

Writes(c) ==
    Untouched(c) \/ CleanupDelete(c) \/ Inserted(c) \/ TakenOver(c) \/ Settled(c)

(* Every step of a call stays in its frame. *)
LEMMA StepFrame ==
    ASSUME TypeOK, CallState, NEW c \in Call, Step(c)
    PROVE  Frame(c)
<1> USE DEF TypeOK, CallState, Acquiring, Executing, Ended, Past, request, trail,
           Frame
<1>1. CASE Arrive(c) \/ PassThrough(c) \/ RejectKey(c)
  BY <1>1 DEF Arrive, PassThrough, RejectKey, Finish
<1>2. CASE CleanupSelect(c) \/ CleanupDelete(c) \/ CleanupFails(c)
  BY <1>2 DEF CleanupSelect, CleanupDelete, CleanupFails
<1>3. CASE Insert(c) \/ InsertConflict(c) \/ InsertFails(c)
  BY <1>3 DEF Insert, InsertConflict, InsertFails, Finish
<1>4. CASE FindAbsent(c) \/ FindLapsed(c) \/ FindLive(c) \/ FindFails(c)
  BY <1>4 DEF FindAbsent, FindLapsed, FindLive, FindFails, Finish
<1>5. CASE Takeover(c) \/ TakeoverMiss(c) \/ TakeoverFails(c)
  BY <1>5 DEF Takeover, TakeoverMiss, TakeoverFails, TakeoverEffect, Finish
<1>6. CASE Execute(c) \/ Audit(c) \/ Crash(c)
  BY <1>6 DEF Execute, Outcome, Audit, RecordEvent, RecordFails, Crash, Finish
<1>7. CASE Complete(c) \/ Release(c) \/ SettleLost(c) \/ SettleFails(c)
  BY <1>7 DEF Complete, Release, SettleLost, SettleFails, CompleteEffect,
              ReleaseEffect, Finish
<1>8. QED
  BY <1>1, <1>2, <1>3, <1>4, <1>5, <1>6, <1>7 DEF Step, Receive

(* Every step of a call leaves the table alone or writes it in one of the  *)
(* four ways.                                                              *)
LEMMA StepWrites ==
    ASSUME TypeOK, CallState, NEW c \in Call, Step(c)
    PROVE  Writes(c)
<1> USE DEF TypeOK, CallState, Acquiring, Executing, Ended, request, trail,
           Writes, Untouched, Inserted, TakenOver, Settled
<1>1. CASE Arrive(c) \/ PassThrough(c) \/ RejectKey(c)
  BY <1>1 DEF Arrive, PassThrough, RejectKey, Finish
<1>2. CASE CleanupSelect(c) \/ CleanupDelete(c) \/ CleanupFails(c)
  BY <1>2 DEF CleanupSelect, CleanupDelete, CleanupFails
<1>3. CASE Insert(c) \/ InsertConflict(c) \/ InsertFails(c)
  BY <1>3 DEF Insert, InsertConflict, InsertFails, Finish
<1>4. CASE FindAbsent(c) \/ FindLapsed(c) \/ FindLive(c) \/ FindFails(c)
  BY <1>4 DEF FindAbsent, FindLapsed, FindLive, FindFails, Finish
<1>5. CASE Takeover(c) \/ TakeoverMiss(c) \/ TakeoverFails(c)
  BY <1>5 DEF Takeover, TakeoverMiss, TakeoverFails, Finish
<1>6. CASE Execute(c) \/ Audit(c) \/ Crash(c)
  BY <1>6 DEF Execute, Outcome, Audit, RecordEvent, RecordFails, Crash, Finish
<1>7. CASE Complete(c) \/ Release(c) \/ SettleLost(c)
  BY <1>7 DEF Complete, Release, SettleLost, Finish
<1>8. CASE SettleFails(c)
  BY <1>8 DEF SettleFails, Finish
<1>9. QED
  BY <1>1, <1>2, <1>3, <1>4, <1>5, <1>6, <1>7, <1>8 DEF Step, Receive


(* The record a successful Complete writes over its reservation. *)
Completion(c, r) ==
    /\ scope[c] \in Scope
    /\ table[scope[c]] \in Row
    /\ table[scope[c]].id = row[c]
    /\ table[scope[c]].owner = c
    /\ table[scope[c]].state = "in_progress"
    /\ table' = [table EXCEPT ![scope[c]] = r]
    /\ r.id = row[c]
    /\ r.hash = table[scope[c]].hash
    /\ r.state = "completed"
    /\ r.owner = c
    /\ r.response = [code |-> result[c], by |-> c]
    /\ r.expiresAt = table[scope[c]].expiresAt
    /\ result[c] \in {"ok", "stable"}
    /\ settled' = settled \cup {c}

(* Complete takes effect only on the caller's own in_progress record. *)
LEMMA CompleteWrites ==
    ASSUME TypeOK, CallState, NEW c \in Call, pc[c] = "settle", CompleteEffect(c)
    PROVE  \E r \in Row : Completion(c, r)
<1>1. scope[c] # Nil /\ scope[c] \in Scope /\ result[c] \in {"ok", "stable"}
  BY DEF TypeOK, CallState, CompleteEffect
<1>2. OwnsRow(c) /\ table[scope[c]] \in Row
  BY <1>1 DEF TypeOK, CompleteEffect, OwnsRow
<1>3. QED
  <2>1. Finished(c) \in Row
    BY <1>1, <1>2, FinishedType
  <2>2. Completion(c, Finished(c))
    BY <1>1, <1>2, FinishedType DEF Completion, CompleteEffect, OwnsRow
  <2>3. QED
    BY <2>1, <2>2

-----------------------------------------------------------------------------
(* Each part of the invariant is kept by every step of a call *)

(* Records keep agreeing with their owners: a record is only ever written  *)
(* from the request of the call that writes it.                            *)
LEMMA RowOfOwnerStep ==
    ASSUME TypeOK, TypeOK', CallState, RowOfOwner,
           NEW c \in Call, Frame(c), Writes(c)
    PROVE  RowOfOwner'
<1> USE DEF TypeOK, CallState, RowOfOwner, Frame, Past, Acquiring, Executing, Ended
<1>1. CASE Untouched(c)
  BY <1>1, RowType, NilAssumption DEF Untouched
<1>2. CASE CleanupDelete(c)
  BY <1>2, RowType, NilAssumption DEF CleanupDelete
<1>3. CASE Inserted(c)
  BY <1>3, RowType, ReservationType DEF Inserted, InsertEffect
<1>4. CASE TakenOver(c)
  BY <1>4, RowType, ReservationType DEF TakenOver, TakeoverEffect, TakeoverMatches
<1>5. CASE Settled(c) /\ CompleteEffect(c)
  <2>1. PICK r \in Row : Completion(c, r)
    BY <1>5, CompleteWrites DEF Settled
  <2>2. ASSUME NEW s \in Scope, table'[s] # Nil
        PROVE  /\ table[s] # Nil
               /\ table'[s].id = table[s].id
               /\ table'[s].hash = table[s].hash
               /\ table'[s].owner = table[s].owner
               /\ table'[s].expiresAt = table[s].expiresAt
               /\ table'[s].state = "in_progress" =>
                      table'[s] = table[s]
    BY <2>1, <2>2, NilAssumption DEF Completion
  <2>3. \A s \in Scope : table[s] # Nil => table[s] \in Row
    OBVIOUS
  <2>4. QED
    BY <1>5, <2>2, <2>3, RowType DEF Settled
<1>6. CASE Settled(c) /\ ReleaseEffect(c)
  BY <1>6, RowType DEF Settled, ReleaseEffect
<1>7. QED
  BY <1>1, <1>2, <1>3, <1>4, <1>5, <1>6 DEF Writes, Settled


(* A record can only leave an expired batch by being revived, and no       *)
(* record gets the id of a batch: ids are fresh.                           *)
LEMMA BatchExpiredStep ==
    ASSUME TypeOK, TypeOK', CallState, RowOfOwner, BatchExpired,
           NEW c \in Call, Step(c), Frame(c), Writes(c)
    PROVE  BatchExpired'
<1> USE DEF TypeOK, CallState, BatchExpired, Frame, Past, Acquiring, Executing, Ended
<1>1. CASE Untouched(c)
  <2>1. CASE CleanupSelect(c)
    <3>1. \A s \in Expired(now[c]) :
              /\ s \in Scope /\ table[s] # Nil /\ table[s].expiresAt <= clock
              /\ table[s].id \in Call /\ scope[table[s].id] = s
              /\ pc[table[s].id] \in Past
      BY RowType DEF Expired, RowOfOwner
    <3>2. picked'[c] \subseteq {table[s].id : s \in Expired(now[c])}
      BY <2>1 DEF CleanupSelect, Batches
    <3>3. \A i \in picked'[c] :
              /\ pc[i] \in Past
              /\ \A s \in Scope : table[s] # Nil /\ table[s].id = i =>
                     table[s].expiresAt <= clock
      <4> SUFFICES ASSUME NEW i \in picked'[c]
                   PROVE  /\ pc[i] \in Past
                          /\ \A s \in Scope : table[s] # Nil /\ table[s].id = i =>
                                 table[s].expiresAt <= clock
        OBVIOUS
      <4>1. PICK t \in Expired(now[c]) : i = table[t].id
        BY <3>2
      <4>2. \A s \in Scope : table[s] # Nil => scope[table[s].id] = s
        BY DEF RowOfOwner
      <4>3. QED
        BY <3>1, <4>1, <4>2
    <3>4. QED
      BY <1>1, <2>1, <3>3 DEF Untouched, CleanupSelect
  <2>2. CASE ~CleanupSelect(c)
    <3>1. picked'[c] \in {picked[c], {}}
      BY <2>2 DEF Step, Receive, Arrive, PassThrough, RejectKey, CleanupDelete,
            CleanupFails, Insert, InsertConflict, InsertFails, FindAbsent,
            FindLapsed, FindLive, FindFails, Takeover, TakeoverMiss,
            TakeoverFails, Execute, Audit, Complete, Release, SettleLost,
            SettleFails, Crash
    <3>2. QED
      BY <1>1, <3>1 DEF Untouched
  <2>3. QED
    BY <2>1, <2>2
<1>2. CASE CleanupDelete(c)
  BY <1>2 DEF CleanupDelete
<1>3. CASE Inserted(c)
  BY <1>3, RowType, ReservationType DEF Inserted, InsertEffect
<1>4. CASE TakenOver(c)
  BY <1>4, RowType, ReservationType DEF TakenOver, TakeoverEffect, TakeoverMatches
<1>5. CASE Settled(c) /\ CompleteEffect(c)
  <2>1. PICK r \in Row : Completion(c, r)
    BY <1>5, CompleteWrites DEF Settled
  <2>2. \A s \in Scope : table'[s] # Nil =>
            /\ table[s] # Nil
            /\ table'[s].id = table[s].id
            /\ table'[s].expiresAt = table[s].expiresAt
    BY <2>1, NilAssumption DEF Completion
  <2>3. QED
    BY <1>5, <2>2 DEF Settled
<1>6. CASE Settled(c) /\ ReleaseEffect(c)
  BY <1>6, RowType DEF Settled, ReleaseEffect
<1>7. QED
  BY <1>1, <1>2, <1>3, <1>4, <1>5, <1>6 DEF Writes, Settled


(* A live reservation survives every step: nobody else can match its       *)
(* record before its lock timeout.                                         *)
LEMMA HeldReservationStep ==
    ASSUME TypeOK, TypeOK', CallState, RowOfOwner, BatchExpired,
           HeldReservation, NEW c \in Call, Frame(c), Writes(c)
    PROVE  HeldReservation'
<1> USE DEF TypeOK, CallState, RowOfOwner, Frame, Past, Acquiring, Executing,
            Ended, Holding, Exposed, OwnsRow
<1> SUFFICES ASSUME NEW d \in Call, Holding(d)', row'[d] \notin revived',
                    clock' < now'[d] + LockTimeout
             PROVE  OwnsRow(d)'
  BY DEF HeldReservation
<1>1. CASE Untouched(c)
  BY <1>1 DEF Untouched, HeldReservation
<1>2. CASE CleanupDelete(c)
  <2>1. Holding(d) /\ OwnsRow(d)
    BY <1>2 DEF CleanupDelete, HeldReservation
  <2>2. table[scope[d]].id \notin picked[c]
    BY <1>2, <2>1, TimeoutAssumption DEF CleanupDelete, BatchExpired
  <2>3. QED
    BY <1>2, <2>1, <2>2 DEF CleanupDelete
<1>3. CASE Inserted(c)
  <2>1. CASE d = c
    BY <1>3, <2>1, ReservationType, NilAssumption DEF Inserted, InsertEffect
  <2>2. CASE d # c
    BY <1>3, <2>2 DEF Inserted, InsertEffect, HeldReservation
  <2>3. QED
    BY <2>1, <2>2
<1>4. CASE TakenOver(c)
  <2>1. CASE d = c
    BY <1>4, <2>1, ReservationType, NilAssumption DEF TakenOver, TakeoverEffect
  <2>2. CASE d # c
    <3>1. Holding(d) /\ OwnsRow(d)
      BY <1>4, <2>2 DEF TakenOver, HeldReservation
    <3>2. scope[c] # scope[d]
      BY <1>4, <3>1, <2>2, TimeoutAssumption
         DEF TakenOver, TakeoverEffect, TakeoverMatches, Lapsed
    <3>3. QED
      BY <1>4, <2>2, <3>1, <3>2 DEF TakenOver, TakeoverEffect
  <2>3. QED
    BY <2>1, <2>2
<1>5. CASE Settled(c)
  <2>1. d # c /\ Holding(d) /\ OwnsRow(d)
    BY <1>5 DEF Settled, HeldReservation
  <2>2. scope[c] # scope[d]
    BY <1>5, <2>1 DEF Settled, CompleteEffect, ReleaseEffect
  <2>3. QED
    BY <1>5, <2>1, <2>2 DEF Settled, CompleteEffect, ReleaseEffect
<1>6. QED
  BY <1>1, <1>2, <1>3, <1>4, <1>5 DEF Writes

(* An in_progress record keeps its holder, or its excuse. *)
LEMMA NoAbandonedReservationStep ==
    ASSUME TypeOK, TypeOK', CallState, RowOfOwner, NoAbandonedReservation,
           NEW c \in Call, Frame(c), Writes(c)
    PROVE  NoAbandonedReservation'
<1> USE DEF TypeOK, CallState, RowOfOwner, Frame, Past, Acquiring, Executing,
            Ended, Holding
<1> SUFFICES ASSUME NEW s \in Scope, table'[s] # Nil,
                    table'[s].state = "in_progress"
             PROVE  \/ /\ Holding(table[s].owner)'
                       /\ (row[table[s].owner] = table[s].id)'
                    \/ (table[s].owner \in fault)'
  BY DEF NoAbandonedReservation
<1>0. table[s] # Nil => table[s].owner \in Call /\ table[s].id \in Call
  BY RowType
<1>1. CASE Untouched(c)
  BY <1>0, <1>1 DEF Untouched, NoAbandonedReservation, OwnsRow
<1>2. CASE CleanupDelete(c)
  BY <1>0, <1>2, NilAssumption DEF CleanupDelete, NoAbandonedReservation
<1>3. CASE Inserted(c)
  BY <1>0, <1>3, ReservationType DEF Inserted, InsertEffect, NoAbandonedReservation
<1>4. CASE TakenOver(c)
  BY <1>0, <1>4, ReservationType
     DEF TakenOver, TakeoverEffect, NoAbandonedReservation
<1>5. CASE Settled(c) /\ CompleteEffect(c)
  <2>1. PICK r \in Row : Completion(c, r)
    BY <1>5, CompleteWrites DEF Settled
  <2>2. s # scope[c] /\ table'[s] = table[s]
    BY <2>1 DEF Completion
  <2>3. table[s].owner # c
    BY <2>2
  <2>4. QED
    BY <1>0, <1>5, <2>2, <2>3 DEF Settled, NoAbandonedReservation
<1>6. CASE Settled(c) /\ ReleaseEffect(c)
  <2>1. s # scope[c] /\ table'[s] = table[s]
    BY <1>6 DEF Settled, ReleaseEffect
  <2>2. table[s].owner # c
    BY <2>1
  <2>3. QED
    BY <1>0, <1>6, <2>1, <2>2 DEF Settled, NoAbandonedReservation
<1>7. QED
  BY <1>1, <1>2, <1>3, <1>4, <1>5, <1>6 DEF Writes, Settled


(* Completed records keep the result of the call that completed them. *)
LEMMA RowOfResultStep ==
    ASSUME TypeOK, TypeOK', CallState, RowOfResult, SettledCall,
           NEW c \in Call, Frame(c), Writes(c)
    PROVE  RowOfResult'
<1> SUFFICES ASSUME NEW s \in Scope, table'[s] # Nil,
                    table'[s].state = "completed"
             PROVE  /\ table'[s].owner \in settled'
                    /\ table'[s].response =
                           [code |-> result'[table'[s].owner],
                            by |-> table'[s].owner]
  BY DEF RowOfResult
<1>a. ASSUME table'[s] = table[s]
      PROVE  /\ table'[s].owner \in settled'
             /\ table'[s].response =
                    [code |-> result'[table'[s].owner], by |-> table'[s].owner]
  <2>1. /\ table[s].owner \in settled
        /\ table[s].response =
               [code |-> result[table[s].owner], by |-> table[s].owner]
    BY <1>a DEF RowOfResult
  <2>2. table[s].owner \in Call /\ table[s].owner # c
    BY <2>1 DEF SettledCall, TypeOK, Frame
  <2>3. QED
    BY <1>a, <2>1, <2>2 DEF Frame
<1>1. CASE Untouched(c)
  BY <1>a, <1>1 DEF Untouched
<1>2. CASE CleanupDelete(c)
  BY <1>a, <1>2 DEF CleanupDelete
<1>3. CASE Inserted(c)
  BY <1>a, <1>3, ReservationType
     DEF Inserted, InsertEffect, TypeOK, CallState, Acquiring
<1>4. CASE TakenOver(c)
  BY <1>a, <1>4, ReservationType
     DEF TakenOver, TakeoverEffect, TypeOK, CallState, Acquiring
<1>5. CASE Settled(c) /\ CompleteEffect(c)
  <2>1. PICK r \in Row : Completion(c, r)
    BY <1>5, CompleteWrites DEF Settled
  <2>2. CASE s = scope[c]
    BY <1>5, <2>1, <2>2 DEF Completion, Settled, TypeOK
  <2>3. CASE s # scope[c]
    BY <1>a, <2>1, <2>3 DEF Completion, TypeOK
  <2>4. QED
    BY <2>2, <2>3
<1>6. CASE Settled(c) /\ ReleaseEffect(c)
  BY <1>a, <1>6 DEF Settled, ReleaseEffect, TypeOK
<1>7. QED
  BY <1>1, <1>2, <1>3, <1>4, <1>5, <1>6 DEF Writes, Settled

(* A stored result stays: takeover and cleanup need it expired, Complete   *)
(* and Release need it in progress.                                        *)
LEMMA SettledCallStep ==
    ASSUME TypeOK, TypeOK', CallState, RowOfOwner, BatchExpired, SettledCall,
           NEW c \in Call, Frame(c), Writes(c)
    PROVE  SettledCall'
<1> USE DEF TypeOK, CallState, RowOfOwner, Frame, Acquiring, Ended, Exposed
<1> SUFFICES ASSUME NEW a \in settled'
             PROVE  /\ pc'[a] \in Ended /\ scope'[a] # Nil
                    /\ result'[a] \in {"ok", "stable"}
                    /\ \/ row'[a] \in revived'
                       \/ now'[a] + TTL <= clock'
                       \/ /\ table'[scope'[a]] # Nil
                          /\ table'[scope'[a]].state = "completed"
                          /\ table'[scope'[a]].owner = a
                          /\ table'[scope'[a]].id = row'[a]
  BY DEF SettledCall
<1>0. ASSUME a \in settled
      PROVE  /\ a # c /\ a \in Call /\ scope[a] \in Scope
             /\ pc'[a] \in Ended /\ scope'[a] # Nil
             /\ result'[a] \in {"ok", "stable"}
             /\ scope'[a] = scope[a] /\ row'[a] = row[a] /\ now'[a] = now[a]
  BY <1>0 DEF SettledCall
<1>1. CASE Untouched(c)
  BY <1>0, <1>1 DEF Untouched, SettledCall
<1>2. CASE CleanupDelete(c)
  <2>1. a \in settled /\ settled' = settled /\ revived' = revived
    BY <1>2 DEF CleanupDelete
  <2>2. CASE row[a] \in revived \/ now[a] + TTL <= clock
    BY <1>0, <2>1, <2>2
  <2>3. CASE ~(row[a] \in revived \/ now[a] + TTL <= clock)
    <3>1. /\ table[scope[a]] # Nil
          /\ table[scope[a]].state = "completed"
          /\ table[scope[a]].owner = a
          /\ table[scope[a]].id = row[a]
      BY <2>1, <2>3 DEF SettledCall
    <3>2. table[scope[a]].expiresAt = now[a] + TTL
      BY <1>0, <2>1, <3>1
    <3>3. row[a] \notin picked[c]
      BY <1>0, <2>1, <2>3, <3>1, <3>2 DEF BatchExpired
    <3>4. table'[scope[a]] = table[scope[a]]
      BY <1>0, <1>2, <2>1, <3>1, <3>3 DEF CleanupDelete
    <3>5. QED
      BY <1>0, <2>1, <3>1, <3>4
  <2>4. QED
    BY <2>2, <2>3
<1>3. CASE Inserted(c)
  BY <1>0, <1>3 DEF Inserted, InsertEffect, SettledCall
<1>4. CASE TakenOver(c)
  <2>1. a \in settled
    BY <1>4 DEF TakenOver
  <2>2. CASE row[a] \in revived \/ now[a] + TTL <= clock
    BY <1>0, <2>1, <2>2
  <2>3. CASE ~(row[a] \in revived \/ now[a] + TTL <= clock)
    <3>1. /\ table[scope[a]] # Nil
          /\ table[scope[a]].state = "completed"
          /\ table[scope[a]].owner = a
          /\ table[scope[a]].id = row[a]
      BY <2>1, <2>3 DEF SettledCall
    <3>2. table[scope[a]].expiresAt = now[a] + TTL
      BY <1>0, <2>1, <3>1
    <3>3. scope[c] # scope[a]
      BY <1>0, <1>4, <2>1, <2>3, <3>1, <3>2, TimeoutAssumption
         DEF TakenOver, TakeoverEffect, TakeoverMatches, Lapsed
    <3>4. QED
      BY <1>0, <1>4, <2>1, <3>1, <3>3 DEF TakenOver, TakeoverEffect
  <2>4. QED
    BY <2>2, <2>3
<1>5. CASE Settled(c) /\ CompleteEffect(c)
  <2>1. PICK r \in Row : Completion(c, r)
    BY <1>5, CompleteWrites DEF Settled
  <2>2. CASE a = c
    BY <1>5, <2>1, <2>2, NilAssumption DEF Completion, Settled
  <2>3. CASE a # c
    <3>1. a \in settled
      BY <2>1, <2>3 DEF Completion
    <3>2. QED
      BY <1>0, <1>5, <2>1, <3>1 DEF Completion, Settled, SettledCall
  <2>4. QED
    BY <2>2, <2>3
<1>6. CASE Settled(c) /\ ReleaseEffect(c)
  BY <1>0, <1>6 DEF Settled, ReleaseEffect, OwnsRow, SettledCall
<1>7. QED
  BY <1>1, <1>2, <1>3, <1>4, <1>5, <1>6 DEF Writes, Settled

(* A replay copies a completed record of its own key and payload. *)
LEMMA ReplayFidelityStep ==
    ASSUME TypeOK, TypeOK', CallState, RowOfOwner, RowOfResult, SettledCall,
           ReplayFidelity, NEW c \in Call, Step(c), Frame(c)
    PROVE  ReplayFidelity'
<1> USE DEF TypeOK, CallState, Frame, Ended
<1> SUFFICES ASSUME NEW d \in Call, reply'[d] # Nil, reply'[d].replayed
             PROVE  /\ reply'[d].by \in settled'
                    /\ scope'[reply'[d].by] = scope'[d]
                    /\ hash'[reply'[d].by] = hash'[d]
                    /\ result'[reply'[d].by] = reply'[d].code
  BY DEF ReplayFidelity
<1>1. ASSUME NEW b \in settled
      PROVE  /\ scope'[b] = scope[b] /\ hash'[b] = hash[b]
             /\ result'[b] = result[b] /\ b \in settled'
  BY DEF SettledCall
<1>2. CASE d # c
  BY <1>1, <1>2 DEF ReplayFidelity
<1>3. CASE d = c
  <2>1. FindLive(c)
    BY <1>3 DEF Step, Receive, Arrive, PassThrough, RejectKey, CleanupSelect,
          CleanupDelete, CleanupFails, Insert, InsertConflict, InsertFails,
          FindAbsent, FindLapsed, FindFails, Takeover, TakeoverMiss,
          TakeoverFails, Execute, Audit, Complete, Release, SettleLost,
          SettleFails, Crash, Finish, Unavailable, HandlerReply
  <2>2. scope[c] \in Scope /\ table[scope[c]] # Nil /\ table[scope[c]] \in Row
    BY <2>1 DEF FindLive, Acquiring
  <2>3. reply'[c] = Disposition(c, table[scope[c]])
    BY <2>1 DEF FindLive, Finish
  <2>4. /\ table[scope[c]].hash = hash[c]
        /\ table[scope[c]].state = "completed"
        /\ reply'[c].by = table[scope[c]].response.by
        /\ reply'[c].code = table[scope[c]].response.code
    BY <1>3, <2>3 DEF Disposition, Replay
  <2> DEFINE b == table[scope[c]].owner
  <2>5. /\ b \in settled
        /\ table[scope[c]].response = [code |-> result[b], by |-> b]
    BY <2>2, <2>4 DEF RowOfResult
  <2>6. scope[b] = scope[c] /\ hash[b] = hash[c]
    BY <2>2, <2>4, <2>5 DEF RowOfOwner
  <2>7. scope'[c] = scope[c] /\ hash'[c] = hash[c]
    BY <2>1 DEF FindLive, request
  <2>8. reply'[c].by = b /\ reply'[c].code = result[b]
    BY <2>4, <2>5
  <2>9. /\ b \in settled' /\ scope'[b] = scope[b] /\ hash'[b] = hash[b]
        /\ result'[b] = result[b]
    BY <1>1, <2>5
  <2> HIDE DEF b
  <2>10. QED
    BY <1>3, <2>6, <2>7, <2>8, <2>9
<1>4. QED
  BY <1>2, <1>3

(* The trail loses nothing, and a step adds the call's own event or none. *)
Records(c) ==
    /\ audited \subseteq audited' /\ audited' \subseteq audited \cup {c}
    /\ unrecorded \subseteq unrecorded'

(* Only Audit writes the trail, and only the event of its call. *)
LEMMA StepRecords ==
    ASSUME NEW c \in Call, Step(c)
    PROVE  Records(c)
<1>1. CASE Audit(c)
  BY <1>1 DEF Audit, RecordEvent, RecordFails, Records
<1>2. CASE ~Audit(c)
  <2>1. trail' = trail
    BY <1>2 DEF Step, Receive, Arrive, PassThrough, RejectKey, CleanupSelect,
          CleanupDelete, CleanupFails, Insert, InsertConflict, InsertFails,
          FindAbsent, FindLapsed, FindLive, FindFails, Takeover, TakeoverMiss,
          TakeoverFails, Execute, Complete, Release, SettleLost, SettleFails,
          Crash, trail
  <2>2. QED
    BY <2>1 DEF trail, Records
<1>3. QED
  BY <1>1, <1>2

(* A call settles, and a result is stored, after the audit interceptor. *)
LEMMA RecordingStep ==
    ASSUME TypeOK, CallState, Recording, NEW c \in Call, Step(c), Frame(c),
           Writes(c)
    PROVE  Recording'
<1> USE DEF Recording, Acquiring, Ended, trail, Records
<1>0. Records(c)
  BY StepRecords
<1>1. settled' \subseteq audited' \cup unrecorded'
  BY <1>0 DEF Writes, Untouched, CleanupDelete, Inserted, TakenOver, Settled,
              CompleteEffect, ReleaseEffect
<1>2. ASSUME NEW d \in Call, d # c
      PROVE  /\ pc'[d] = "settle" => d \in audited' \cup unrecorded'
             /\ d \in audited' => pc'[d] \in {"settle"} \cup Ended
  BY <1>0, <1>2 DEF Frame
<1>3. /\ pc'[c] = "settle" => c \in audited' \cup unrecorded'
      /\ c \in audited' => pc'[c] \in {"settle"} \cup Ended
  <2> USE DEF TypeOK
  <2>1. CASE Arrive(c) \/ PassThrough(c) \/ RejectKey(c) \/ CleanupSelect(c)
             \/ CleanupDelete(c) \/ CleanupFails(c)
    BY <2>1 DEF Arrive, PassThrough, RejectKey, CleanupSelect, CleanupDelete,
                CleanupFails, Finish
  <2>2. CASE Insert(c) \/ InsertConflict(c) \/ InsertFails(c) \/ FindAbsent(c)
             \/ FindLapsed(c) \/ FindLive(c) \/ FindFails(c)
    BY <2>2 DEF Insert, InsertConflict, InsertFails, FindAbsent, FindLapsed,
                FindLive, FindFails, Finish
  <2>3. CASE Takeover(c) \/ TakeoverMiss(c) \/ TakeoverFails(c) \/ Execute(c)
    BY <2>3 DEF Takeover, TakeoverMiss, TakeoverFails, Execute, Finish
  <2>4. CASE Audit(c)
    BY <2>4 DEF Audit, RecordEvent, RecordFails, Finish
  <2>5. CASE Complete(c) \/ Release(c) \/ SettleLost(c) \/ SettleFails(c)
             \/ Crash(c)
    BY <2>5 DEF Complete, Release, SettleLost, SettleFails, Crash, Finish
  <2>6. QED
    BY <2>1, <2>2, <2>3, <2>4, <2>5 DEF Step, Receive
<1>4. QED
  BY <1>1, <1>2, <1>3

(* A call is answered before it executes, with a stored result or none, or *)
(* with its own result after its audit.                                    *)
LEMMA EventPerExecutionStep ==
    ASSUME TypeOK, TypeOK', CallState, CallState', RowOfResult, Recording,
           EventPerExecution, NEW c \in Call, Step(c), Frame(c)
    PROVE  EventPerExecution'
<1> USE DEF TypeOK, CallState, Recording, Frame, Ended
<1> SUFFICES ASSUME NEW d \in Call, reply'[d] # Nil
             PROVE  /\ reply'[d].by # Nil =>
                           reply'[d].by \in audited' \cup unrecorded'
                    /\ reply'[d].by # d => d \notin audited'
  BY DEF EventPerExecution
<1>0. Records(c)
  BY StepRecords
<1>1. CASE d # c
  BY <1>0, <1>1 DEF EventPerExecution, Records
<1>2. CASE d = c
  <2>1. pc'[c] = "done" /\ reply[c] = Nil
    BY <1>2
  <2>2. CASE RejectKey(c)
    BY <1>2, <2>2 DEF RejectKey, Finish, trail
  <2>3. CASE InsertFails(c) \/ FindAbsent(c) \/ FindFails(c) \/ TakeoverFails(c)
    BY <1>2, <2>3 DEF InsertFails, FindAbsent, FindFails, TakeoverFails, Finish,
                      Unavailable, trail
  <2>4. CASE FindLive(c)
    <3>1. scope[c] \in Scope /\ table[scope[c]] # Nil /\ table[scope[c]] \in Row
      BY <2>4 DEF FindLive, Acquiring
    <3>2. reply'[c] = Disposition(c, table[scope[c]])
      BY <2>4 DEF FindLive, Finish
    <3>3. c \notin audited'
      BY <2>4 DEF FindLive, trail
    <3>4. CASE reply'[c].by = Nil
      BY <1>2, <3>3, <3>4
    <3>5. CASE reply'[c].by # Nil
      <4>1. /\ table[scope[c]].state = "completed"
            /\ reply'[c].by = table[scope[c]].response.by
        BY <3>2, <3>5 DEF Disposition, Replay
      <4> DEFINE b == table[scope[c]].owner
      <4>2. /\ b \in settled
            /\ table[scope[c]].response = [code |-> result[b], by |-> b]
        BY <3>1, <4>1 DEF RowOfResult
      <4>3. reply'[c].by \in settled
        BY <4>1, <4>2
      <4>4. QED
        BY <1>0, <1>2, <3>3, <4>3 DEF Records
    <3>6. QED
      BY <3>4, <3>5
  <2>5. CASE Audit(c) \/ Complete(c) \/ Release(c) \/ SettleLost(c) \/ SettleFails(c)
    <3>1. Finish(c, HandlerReply(c))
      BY <2>1, <2>5 DEF Audit, Complete, Release, SettleLost, SettleFails
    <3>2. reply'[c].by = c
      BY <3>1 DEF Finish, HandlerReply
    <3>3. c \in audited' \cup unrecorded'
      BY <2>5 DEF Audit, RecordEvent, RecordFails, Complete, Release,
                  SettleLost, SettleFails, trail
    <3>4. QED
      BY <1>2, <3>2, <3>3
  <2>6. QED
    BY <2>1, <2>2, <2>3, <2>4, <2>5
       DEF Step, Receive, Arrive, PassThrough, CleanupSelect, CleanupDelete,
           CleanupFails, Insert, InsertConflict, FindLapsed, Takeover,
           TakeoverMiss, Execute, Crash
<1>3. QED
  BY <1>1, <1>2


-----------------------------------------------------------------------------
(* Theorems *)

(* The empty table and idle calls satisfy the invariant. *)
LEMMA InitInv == Init => IndInv
<1> SUFFICES ASSUME Init PROVE IndInv
  OBVIOUS
<1> USE DEF Init
<1>1. TypeOK
  BY DEF TypeOK, Acquiring, Executing, Ended
<1>2. CallState
  BY DEF CallState, Acquiring
<1>3. RowOfOwner /\ BatchExpired /\ RowOfResult /\ SettledCall
  BY DEF RowOfOwner, BatchExpired, RowOfResult, SettledCall
<1>4. /\ HeldReservation /\ NoAbandonedReservation /\ ReplayFidelity
      /\ Recording /\ EventPerExecution
  BY DEF HeldReservation, Holding, Executing, NoAbandonedReservation,
         ReplayFidelity, Recording, EventPerExecution
<1>5. QED
  BY <1>1, <1>2, <1>3, <1>4 DEF IndInv

(* Time only weakens what the invariant demands. *)
LEMMA TickInv == IndInv /\ Tick => IndInv'
<1> SUFFICES ASSUME IndInv, Tick PROVE IndInv'
  OBVIOUS
<1> USE DEF IndInv, Tick, request, trail
<1>1. TypeOK'
  BY DEF TypeOK
<1>2. CallState'
  BY DEF TypeOK, CallState
<1>3. RowOfOwner' /\ RowOfResult' /\ NoAbandonedReservation'
  BY DEF RowOfOwner, RowOfResult, NoAbandonedReservation, Holding
<1>4. BatchExpired'
  BY RowType DEF TypeOK, BatchExpired
<1>5. HeldReservation'
  BY TimeoutAssumption DEF TypeOK, HeldReservation, Holding, Exposed, OwnsRow
<1>6. SettledCall'
  BY TimeoutAssumption DEF TypeOK, SettledCall, Exposed
<1>7. ReplayFidelity' /\ Recording' /\ EventPerExecution'
  BY DEF ReplayFidelity, Recording, EventPerExecution
<1>8. QED
  BY <1>1, <1>2, <1>3, <1>4, <1>5, <1>6, <1>7

(* Stuttering keeps the invariant. *)
LEMMA StutterInv == IndInv /\ UNCHANGED vars => IndInv'
  BY DEF IndInv, vars, TypeOK, CallState, RowOfOwner, BatchExpired,
         HeldReservation, NoAbandonedReservation, RowOfResult, SettledCall,
         ReplayFidelity, Recording, EventPerExecution, Holding, OwnsRow,
         Exposed

(* The invariant is inductive. *)
LEMMA NextInv == IndInv /\ [Next]_vars => IndInv'
<1> SUFFICES ASSUME IndInv, [Next]_vars PROVE IndInv'
  OBVIOUS
<1>1. CASE Tick
  BY <1>1, TickInv
<1>2. CASE UNCHANGED vars \/ Quiescent
  BY <1>2, StutterInv DEF Quiescent
<1>3. ASSUME NEW c \in Call, Step(c) PROVE IndInv'
  <2>1. TypeOK' /\ CallState' /\ Frame(c) /\ Writes(c)
    BY <1>3, TypeStep, CallStateStep, StepFrame, StepWrites DEF IndInv
  <2>2. RowOfOwner' /\ BatchExpired'
    BY <1>3, <2>1, RowOfOwnerStep, BatchExpiredStep DEF IndInv
  <2>3. HeldReservation' /\ NoAbandonedReservation'
    BY <2>1, HeldReservationStep, NoAbandonedReservationStep DEF IndInv
  <2>4. RowOfResult' /\ SettledCall'
    BY <2>1, RowOfResultStep, SettledCallStep DEF IndInv
  <2>5. ReplayFidelity' /\ Recording' /\ EventPerExecution'
    BY <1>3, <2>1, ReplayFidelityStep, RecordingStep, EventPerExecutionStep
       DEF IndInv
  <2>6. QED
    BY <2>1, <2>2, <2>3, <2>4, <2>5 DEF IndInv
<1>4. QED
  BY <1>1, <1>2, <1>3 DEF Next

(* Every reachable state satisfies the invariant. *)
THEOREM Invariance == Spec => []IndInv
  BY InitInv, NextInv, PTL DEF Spec

(* The variables keep their types. *)
THEOREM TypeCorrect == Spec => []TypeOK
<1>1. IndInv => TypeOK
  BY DEF IndInv
<1>2. QED
  BY <1>1, Invariance, PTL

(* A call within its lock timeout owns its record, for any number of       *)
(* concurrent calls, cleanups, takeovers and failures of IdempotencyUnary  *)
(* and the PostgreSQL store.                                               *)
THEOREM ReservationHeld == Spec => []HeldReservation
<1>1. IndInv => HeldReservation
  BY DEF IndInv
<1>2. QED
  BY <1>1, Invariance, PTL

(* A replayed answer is the stored result of the same key and payload.     *)
THEOREM ReplayFaithful == Spec => []ReplayFidelity
<1>1. IndInv => ReplayFidelity
  BY DEF IndInv
<1>2. QED
  BY <1>1, Invariance, PTL

(* A call that ends normally leaves no key locked. *)
THEOREM NothingAbandoned == Spec => []NoAbandonedReservation
<1>1. IndInv => NoAbandonedReservation
  BY DEF IndInv
<1>2. QED
  BY <1>1, Invariance, PTL

(* However often a mutation is retried under its key, every result a       *)
(* client is given comes from one execution, which AuditUnary recorded or  *)
(* failed to record, and the retries leave no event of their own.          *)
THEOREM AuditedOnce == Spec => []EventPerExecution
<1>1. IndInv => EventPerExecution
  BY DEF IndInv
<1>2. QED
  BY <1>1, Invariance, PTL

(* A stored result stays in the table, under its key, until its TTL.       *)
THEOREM ResultStays == Spec => []StoredResultStays
<1>1. ASSUME IndInv, NEW a \in settled
      PROVE  \/ Exposed(row[a])
             \/ now[a] + TTL <= clock
             \/ /\ table[scope[a]] # Nil
                /\ table[scope[a]].state = "completed"
                /\ table[scope[a]].response = [code |-> result[a], by |-> a]
  BY <1>1 DEF IndInv, TypeOK, SettledCall, RowOfResult
<1>2. IndInv => StoredResultStays
  BY <1>1 DEF StoredResultStays
<1>3. QED
  BY <1>2, Invariance, PTL

(* No call enters the handler for a key within the TTL of the request that *)
(* stored its result: an INSERT meets the record, and a takeover needs it  *)
(* expired.                                                                *)
THEOREM NoReexecution == Spec => NoReexecutionInWindow
<1> DEFINE Bad(a, c) ==
        /\ pc[c] # "handler" /\ pc'[c] = "handler"
        /\ scope[c] = scope[a] /\ scope[c] # Nil
<1> DEFINE Safe == \A a \in settled, c \in Call :
        Bad(a, c) => Exposed(row[a]) \/ now[a] + TTL <= clock
<1>1. IndInv /\ [Next]_vars => [Safe]_vars
  <2> SUFFICES ASSUME IndInv, Next, NEW a \in settled, NEW c \in Call, Bad(a, c)
               PROVE  Exposed(row[a]) \/ now[a] + TTL <= clock
    OBVIOUS
  <2> USE DEF IndInv, TypeOK
  <2>1. Step(c)
    <3>1. ASSUME NEW d \in Call, Step(d), d # c PROVE FALSE
      BY <3>1, StepFrame DEF Frame
    <3>2. QED
      BY <3>1 DEF Next, Tick, Quiescent, vars
  <2>2. Insert(c) \/ Takeover(c)
    BY <2>1 DEF Step, Receive, Arrive, PassThrough, RejectKey, CleanupSelect,
          CleanupDelete, CleanupFails, InsertConflict, InsertFails,
          FindAbsent, FindLapsed, FindLive, FindFails, TakeoverMiss,
          TakeoverFails, Execute, Audit, Complete, Release, SettleLost,
          SettleFails, Crash, Finish, CallState
  <2>3. SUFFICES ASSUME ~Exposed(row[a]), ~(now[a] + TTL <= clock)
                 PROVE  FALSE
    OBVIOUS
  <2>4. /\ table[scope[a]] # Nil /\ table[scope[a]].state = "completed"
        /\ table[scope[a]].owner = a /\ scope[a] \in Scope
    BY <2>3 DEF SettledCall
  <2>5. table[scope[a]].expiresAt = now[a] + TTL
    BY <2>4 DEF RowOfOwner
  <2>6. QED
    BY <2>2, <2>3, <2>4, <2>5, TimeoutAssumption
       DEF Insert, InsertEffect, Takeover, TakeoverEffect, TakeoverMatches,
           Lapsed, CallState
<1>2. QED
  BY <1>1, Invariance, PTL DEF Spec, NoReexecutionInWindow
=============================================================================
