-------------------- MODULE IdempotencyRefinementProofs ---------------------
(***************************************************************************)
(* Idempotency implements KeyedExecution, for any number of calls, keys,   *)
(* payloads and faults and any timeouts with 0 < LockTimeout < TTL.        *)
(*                                                                         *)
(* A step of a call moves its own phase and answer (MappedFrame).  The     *)
(* invariant of IdempotencyProofs supplies what the atomic slots ask for:  *)
(* a record that is taken over or deleted is past the deadline of the call *)
(* that owns it, or revived (RowOfOwner, BatchExpired), its payload is     *)
(* that of its owner, and its response that of its owner (RowOfResult).    *)
(***************************************************************************)
EXTENDS IdempotencyRefinement, IdempotencyProofs

-----------------------------------------------------------------------------
(* The mapping *)

(* The slot of a record, with its columns. *)
LEMMA SlotOfRow ==
    ASSUME TypeOK, NEW s \in Scope, table[s] # Nil
    PROVE  /\ MappedSlot[s] # Nil
           /\ MappedSlot[s].by = table[s].owner
           /\ table[s].owner \in Call
           /\ MappedSlot[s].loose = (table[s].id \in revived)
           /\ table[s].state = "completed" =>
                  /\ MappedSlot[s].result = table[s].response.code
                  /\ MappedSlot[s].result # Nil
           /\ table[s].state = "in_progress" => MappedSlot[s].result = Nil
<1>1. table[s] \in Row
  BY DEF TypeOK
<1>2. table[s].state = "completed" => table[s].response.code \in {"ok", "stable"}
  BY <1>1, RowType DEF Response
<1>3. MappedSlot[s] \in Slot
  BY <1>1, <1>2, RowType DEF MappedSlot, Slot
<1>4. QED
  BY <1>1, <1>2, <1>3, RowType, SlotAssumption DEF MappedSlot

(* The end of a slot's grant is the deadline of its record. *)
LEMMA UntilOfRow ==
    ASSUME TypeOK, RowOfOwner, NEW s \in Scope, table[s] # Nil
    PROVE  /\ table[s].state = "in_progress" =>
                  Keys!Until(s) = table[s].lockedUntil
           /\ table[s].state = "completed" => Keys!Until(s) = table[s].expiresAt
           /\ Keys!Until(s) <= table[s].expiresAt
           /\ Keys!Until(s) \in Nat
<1>1. table[s] \in Row
  BY DEF TypeOK
<1>2. /\ table[s].expiresAt = now[table[s].owner] + TTL
      /\ table[s].state = "in_progress" =>
             table[s].lockedUntil = now[table[s].owner] + LockTimeout
      /\ now[table[s].owner] \in Nat
      /\ table[s].state \in {"in_progress", "completed"}
  BY <1>1, RowType DEF RowOfOwner, TypeOK
<1>3. QED
  BY <1>2, SlotOfRow, TimeoutAssumption DEF Keys!Until

(* A key without a record is a free slot. *)
LEMMA SlotOfNone ==
    ASSUME NEW s \in Scope, table[s] = Nil
    PROVE  MappedSlot[s] = Nil
  BY DEF MappedSlot

(* A step of c moves the phase and the answer of c only. *)
LEMMA MappedFrame ==
    ASSUME NEW c \in Call, Frame(c)
    PROVE  /\ MappedPhase' = [MappedPhase EXCEPT ![c] = MappedPhase'[c]]
           /\ MappedAnswer' = [MappedAnswer EXCEPT ![c] = MappedAnswer'[c]]
<1>1. \A d \in Call \ {c} : MappedPhase'[d] = MappedPhase[d]
  BY DEF MappedPhase, Frame
<1>2. \A d \in Call \ {c} : MappedAnswer'[d] = MappedAnswer[d]
  BY DEF MappedAnswer, Frame
<1>3. QED
  BY <1>1, <1>2 DEF MappedPhase, MappedAnswer

(* A record written or removed under one key moves that slot only. *)
LEMMA SlotFrame ==
    ASSUME TypeOK, TypeOK', RowOfOwner, NEW s \in Scope, NEW i,
           \A t \in Scope \ {s} : table'[t] = table[t],
           revived' \in {revived, revived \cup {i}},
           revived' # revived => scope[i] = s
    PROVE  MappedSlot' = [MappedSlot EXCEPT ![s] = MappedSlot'[s]]
<1>1. ASSUME NEW t \in Scope \ {s}
      PROVE  MappedSlot'[t] = MappedSlot[t]
  <2>1. CASE table[t] = Nil
    BY <2>1 DEF MappedSlot
  <2>2. CASE table[t] # Nil
    <3>1. scope[table[t].id] = t
      BY <2>2 DEF RowOfOwner
    <3>2. (table[t].id \in revived') <=> (table[t].id \in revived)
      BY <3>1
    <3>3. QED
      BY <2>2, <3>2 DEF MappedSlot
  <2>3. QED
    BY <2>1, <2>2
<1>2. /\ MappedSlot = [t \in Scope |-> MappedSlot[t]]
      /\ MappedSlot' = [t \in Scope |-> MappedSlot'[t]]
  BY DEF MappedSlot
<1>3. QED
  BY <1>1, <1>2

(* A call that is answered ends in the abstract specification too. *)
LEMMA EndOfCall ==
    ASSUME TypeOK, NEW c \in Call, NEW a, Frame(c), Finish(c, a),
           scope[c] # Nil, scope' = scope
    PROVE  Keys!End(c, a)
<1>1. pc'[c] = "done" /\ reply'[c] = a
  BY DEF TypeOK, Finish
<1>2. MappedPhase'[c] = "over" /\ MappedAnswer'[c] = a
  BY <1>1 DEF MappedPhase, MappedAnswer, Acquiring, Executing
<1>3. QED
  BY <1>2, MappedFrame DEF Keys!End

(* A record is only revived once its first call is past Acquire. *)
RevivedPast == \A i \in revived : pc[i] \in Past

RefInv == IndInv /\ RevivedPast

(* A revived reservation belongs to a call that is past its handler. *)
LEMMA RevivedPastStep ==
    ASSUME TypeOK, CallState, RowOfOwner, RevivedPast,
           NEW c \in Call, Frame(c), Writes(c)
    PROVE  RevivedPast'
<1>1. \A i \in Call : pc[i] \in Past => pc'[i] \in Past
  BY DEF Frame
<1>2. revived \subseteq Call
  BY DEF TypeOK
<1>3. CASE TakenOver(c)
  <2>1. revived' \subseteq revived \cup {row[c]}
    BY <1>3 DEF TakenOver, TakeoverEffect
  <2>2. scope[c] \in Scope /\ row[c] \in Call
    BY <1>3 DEF TypeOK, CallState, TakenOver, Acquiring
  <2>3. table[scope[c]] # Nil /\ table[scope[c]].id = row[c]
    BY <1>3 DEF TakenOver, TakeoverEffect, TakeoverMatches
  <2>4. pc[row[c]] \in Past
    BY <2>2, <2>3 DEF RowOfOwner
  <2>5. QED
    BY <1>1, <1>2, <2>1, <2>2, <2>4 DEF RevivedPast
<1>4. CASE revived' = revived
  BY <1>1, <1>2, <1>4 DEF RevivedPast
<1>5. QED
  BY <1>3, <1>4 DEF Writes, Untouched, CleanupDelete, Inserted, Settled

-----------------------------------------------------------------------------
(* Each step of a call is a step of the abstract specification, or none *)

(* A keyed mutation arrives. *)
LEMMA ArriveAsks ==
    ASSUME TypeOK, CallState, NEW c \in Call, Frame(c), Arrive(c)
    PROVE  \E s \in Scope, h \in Payload : Keys!Ask(c, s, h)
<1>1. PICK s \in Scope, h \in Payload :
          /\ scope' = [scope EXCEPT ![c] = s]
          /\ hash' = [hash EXCEPT ![c] = h]
  BY DEF Arrive
<1>2. pc[c] = "idle" /\ scope[c] = Nil /\ reply[c] = Nil /\ s # Nil
  BY NilAssumption DEF Arrive, CallState
<1>3. pc'[c] = "cleanup" /\ scope'[c] = s /\ reply' = reply
  BY <1>1 DEF Arrive, TypeOK
<1>4. MappedPhase[c] = "new" /\ MappedPhase'[c] = "asking"
  BY <1>2, <1>3 DEF MappedPhase, Acquiring
<1>5. MappedAnswer' = MappedAnswer
  <2>1. MappedAnswer'[c] = MappedAnswer[c]
    BY <1>2, <1>3 DEF MappedAnswer
  <2>2. MappedAnswer = [d \in Call |-> MappedAnswer[d]]
    BY DEF MappedAnswer
  <2>3. QED
    BY <2>1, <2>2, MappedFrame
<1>6. MappedSlot' = MappedSlot
  BY DEF Arrive, MappedSlot
<1>7. MappedPhase' = [MappedPhase EXCEPT ![c] = "asking"]
  BY <1>4, MappedFrame
<1>8. Keys!Ask(c, s, h)
  BY <1>1, <1>4, <1>5, <1>6, <1>7 DEF Keys!Ask, Arrive
<1>9. QED
  BY <1>8

(* Steps that neither the slots nor the clients see. *)
LEMMA HiddenSteps ==
    ASSUME TypeOK, CallState, NEW c \in Call, Frame(c),
           table' = table, revived' = revived, request' = request,
           \/ scope[c] = Nil
           \/ /\ reply'[c] = reply[c]
              /\ \/ pc[c] \in Acquiring /\ pc'[c] \in Acquiring
                 \/ pc[c] \in Executing /\ pc'[c] \in Executing
    PROVE  UNCHANGED Keys!vars
<1>1. scope' = scope /\ hash' = hash /\ now' = now /\ clock' = clock
  BY DEF request, Frame
<1>2. MappedSlot' = MappedSlot
  BY DEF MappedSlot
<1>3. MappedPhase'[c] = MappedPhase[c] /\ MappedAnswer'[c] = MappedAnswer[c]
  BY <1>1 DEF MappedPhase, MappedAnswer, Acquiring, Executing
<1>4. MappedPhase' = MappedPhase /\ MappedAnswer' = MappedAnswer
  <2>1. /\ MappedPhase = [d \in Call |-> MappedPhase[d]]
        /\ MappedAnswer = [d \in Call |-> MappedAnswer[d]]
    BY DEF MappedPhase, MappedAnswer
  <2>2. QED
    BY <1>3, <2>1, MappedFrame
<1>5. QED
  BY <1>1, <1>2, <1>4 DEF Keys!vars

(* A reservation under a key without a record, or with a lapsed one. *)
LEMMA InsertGrants ==
    ASSUME TypeOK, TypeOK', CallState, RowOfOwner, RevivedPast,
           NEW c \in Call, pc[c] = "insert", InsertEffect(c),
           revived' = revived
    PROVE  Keys!Grant(c)
<1>1. scope[c] \in Scope /\ hash[c] # Nil
  BY DEF TypeOK, CallState, Acquiring
<1>2. /\ table[scope[c]] = Nil
      /\ table' = [table EXCEPT ![scope[c]] = Reservation(c, c)]
  BY DEF InsertEffect
<1>3. table'[scope[c]] = Reservation(c, c)
  BY <1>1, <1>2 DEF TypeOK
<1>4. c \notin revived
  BY DEF RevivedPast, Past, Executing, Ended
<1>5. MappedSlot'[scope[c]] = [by |-> c, result |-> Nil, loose |-> FALSE]
  <2>1. Reservation(c, c) # Nil
    BY <1>1, ReservationType, NilAssumption
  <2>2. MappedSlot'[scope[c]] =
            [by |-> c, result |-> Nil, loose |-> (c \in revived')]
    BY <1>1, <1>3, <2>1, ReservationType DEF MappedSlot
  <2>3. (c \in revived') = FALSE
    BY <1>4
  <2>4. QED
    BY <2>2, <2>3
<1>6. MappedSlot' = [MappedSlot EXCEPT ![scope[c]] = MappedSlot'[scope[c]]]
  BY <1>1, <1>2, SlotFrame DEF TypeOK
<1>7. MappedSlot[scope[c]] = Nil
  BY <1>1, <1>2, SlotOfNone
<1>8. QED
  BY <1>5, <1>6, <1>7 DEF Keys!Grant

(* A takeover is a Reserve of a slot that nobody holds any more. *)
LEMMA TakeoverGrants ==
    ASSUME TypeOK, TypeOK', CallState, RowOfOwner,
           NEW c \in Call, pc[c] = "takeover", TakeoverEffect(c)
    PROVE  Keys!Grant(c)
<1>1. scope[c] \in Scope /\ hash[c] # Nil /\ row[c] \in Call /\ now[c] <= clock
  BY DEF TypeOK, CallState, Acquiring
<1>2. /\ table[scope[c]] # Nil /\ table[scope[c]] \in Row
      /\ table[scope[c]].id = row[c]
      /\ Lapsed(table[scope[c]], now[c])
      /\ table' = [table EXCEPT ![scope[c]] = Reservation(c, row[c])]
      /\ revived' \in {revived, revived \cup {row[c]}}
  BY <1>1 DEF TakeoverEffect, TakeoverMatches, TypeOK
<1>3. Keys!Until(scope[c]) <= clock
  <2>1. Keys!Until(scope[c]) <= now[c]
    BY <1>1, <1>2, UntilOfRow, RowType DEF Lapsed, TypeOK
  <2>2. QED
    BY <1>1, <1>2, <2>1, UntilOfRow DEF TypeOK
<1>4. table'[scope[c]] = Reservation(c, row[c])
  BY <1>1, <1>2 DEF TypeOK
<1>5. (row[c] \in revived') \in BOOLEAN
  <2>1. CASE row[c] \in revived'
    BY <2>1, Zenon
  <2>2. CASE row[c] \notin revived'
    <3>1. (row[c] \in revived') = FALSE
      BY <2>2
    <3>2. QED
      BY <3>1, Zenon
  <2>3. QED
    BY <2>1, <2>2, Zenon
<1>6. MappedSlot'[scope[c]] =
          [by |-> c, result |-> Nil, loose |-> (row[c] \in revived')]
  <2>1. Reservation(c, row[c]) # Nil
    BY <1>1, ReservationType, NilAssumption
  <2>2. QED
    BY <1>1, <1>4, <2>1, ReservationType DEF MappedSlot
<1>7. MappedSlot' = [MappedSlot EXCEPT ![scope[c]] = MappedSlot'[scope[c]]]
  <2>1. scope[row[c]] = scope[c]
    BY <1>1, <1>2 DEF RowOfOwner
  <2>2. QED
    BY <1>1, <1>2, <2>1, SlotFrame DEF TypeOK
<1>8. MappedSlot[scope[c]] # Nil
  BY <1>1, <1>2, SlotOfRow
<1>9. QED
  BY <1>3, <1>5, <1>6, <1>7, <1>8 DEF Keys!Grant

(* A call that ends in Acquire without a reservation. *)
LEMMA FindAnswers ==
    ASSUME TypeOK, CallState, RowOfOwner, RowOfResult,
           NEW c \in Call, Frame(c), FindLive(c)
    PROVE  Keys!Replay(c) \/ Keys!Busy(c) \/ Keys!Conflict(c)
<1>1. /\ scope[c] \in Scope /\ scope[c] # Nil
      /\ MappedPhase[c] = "asking"
      /\ table[scope[c]] # Nil /\ table[scope[c]] \in Row
      /\ scope' = scope /\ hash' = hash /\ now' = now /\ clock' = clock
      /\ MappedSlot' = MappedSlot
  BY DEF TypeOK, CallState, FindLive, Acquiring, request, MappedSlot, MappedPhase
<1> DEFINE r == table[scope[c]]
           k == MappedSlot[scope[c]]
<1>2. /\ k # Nil /\ k.by = r.owner /\ hash[k.by] = r.hash
      /\ r.state = "in_progress" => k.result = Nil
      /\ r.state = "completed" =>
             k.result # Nil /\ k.result = r.response.code /\ r.response.by = k.by
      /\ r.state \in {"in_progress", "completed"}
  <2>1. r.state \in {"in_progress", "completed"} /\ hash[r.owner] = r.hash
    BY <1>1, RowType DEF RowOfOwner
  <2>2. r.state = "completed" => r.response.by = r.owner
    <3>1. r.state = "completed" =>
              r.response = [code |-> result[r.owner], by |-> r.owner]
      BY <1>1 DEF RowOfResult
    <3>2. QED
      BY <3>1
  <2>3. QED
    BY <1>1, <2>1, <2>2, SlotOfRow
<1>3. Keys!End(c, Disposition(c, r))
  BY <1>1, EndOfCall DEF FindLive
<1>4. CASE r.hash # hash[c]
  BY <1>1, <1>2, <1>3, <1>4 DEF Disposition, Keys!Conflict, Keys!Told
<1>5. CASE r.hash = hash[c] /\ r.state = "completed"
  BY <1>1, <1>2, <1>3, <1>5 DEF Disposition, Replay, Keys!Replay
<1>6. CASE r.hash = hash[c] /\ r.state = "in_progress"
  BY <1>1, <1>2, <1>3, <1>6 DEF Disposition, Keys!Busy, Keys!Reserved, Keys!Told
<1>7. QED
  BY <1>2, <1>4, <1>5, <1>6

(* An acquisition without a usable answer is Unavailable. *)
LEMMA AcquireFails ==
    ASSUME TypeOK, CallState, NEW c \in Call, Frame(c), pc[c] \in Acquiring,
           Finish(c, Unavailable), table' = table, revived' = revived,
           request' = request
    PROVE  Keys!Unavailable(c)
<1>1. /\ scope[c] # Nil /\ MappedPhase[c] = "asking"
      /\ scope' = scope /\ hash' = hash /\ now' = now /\ clock' = clock
      /\ MappedSlot' = MappedSlot
  BY DEF CallState, Frame, request, MappedSlot, MappedPhase
<1>2. Keys!End(c, Keys!Told("unavailable"))
  BY <1>1, EndOfCall DEF Unavailable, Keys!Told
<1>3. QED
  BY <1>1, <1>2 DEF Keys!Unavailable

(* A reservation, whether or not its call hears of it. *)
LEMMA GrantReserves ==
    ASSUME TypeOK, CallState, NEW c \in Call, Frame(c), pc[c] \in Acquiring,
           Keys!Grant(c), request' = request,
           \/ pc'[c] = "handler" /\ reply' = reply
           \/ Finish(c, Unavailable)
    PROVE  Keys!Reserve(c) \/ Keys!ReserveUnheard(c)
<1>1. /\ scope[c] # Nil /\ MappedPhase[c] = "asking"
      /\ scope' = scope /\ hash' = hash /\ now' = now /\ clock' = clock
  BY DEF CallState, Frame, request, MappedPhase
<1>2. CASE Finish(c, Unavailable)
  <2>1. Keys!End(c, Keys!Told("unavailable"))
    BY <1>1, <1>2, EndOfCall DEF Unavailable, Keys!Told
  <2>2. QED
    BY <1>1, <2>1 DEF Keys!ReserveUnheard
<1>3. CASE pc'[c] = "handler" /\ reply' = reply
  <2>1. MappedPhase'[c] = "running"
    BY <1>1, <1>3 DEF MappedPhase, Acquiring, Executing
  <2>2. MappedAnswer' = MappedAnswer
    BY <1>1, <1>3 DEF MappedAnswer
  <2>3. QED
    BY <1>1, <2>1, <2>2, MappedFrame DEF Keys!Reserve
<1>4. QED
  BY <1>2, <1>3

(* A call that ends after its handler. *)
LEMMA SettleStores ==
    ASSUME TypeOK, TypeOK', CallState, RowOfOwner,
           NEW c \in Call, Frame(c), pc[c] = "settle", CompleteEffect(c),
           Finish(c, HandlerReply(c)), revived' = revived, request' = request
    PROVE  \E code \in {"ok", "stable"} : Keys!Store(c, code)
<1>1. /\ scope[c] # Nil /\ MappedPhase[c] = "running"
      /\ scope' = scope /\ hash' = hash /\ now' = now /\ clock' = clock
  BY DEF CallState, Frame, request, MappedPhase, Acquiring, Executing
<1>2. PICK r \in Row : Completion(c, r)
  BY CompleteWrites
<1>3. /\ scope[c] \in Scope /\ result[c] \in {"ok", "stable"}
      /\ table[scope[c]] # Nil /\ table[scope[c]].owner = c
      /\ table[scope[c]].state = "in_progress"
      /\ table'[scope[c]] = r /\ r # Nil
      /\ r.id = table[scope[c]].id
  BY <1>2, NilAssumption DEF Completion, TypeOK
<1>4. Keys!Holds(c)
  BY <1>3, SlotOfRow DEF Keys!Holds, Keys!Reserved
<1>5. MappedSlot'[scope[c]] = [by |-> c, result |-> result[c],
                               loose |-> MappedSlot[scope[c]].loose]
  <2>1. MappedSlot'[scope[c]] = [by |-> c, result |-> result[c],
                                 loose |-> (r.id \in revived')]
    BY <1>2, <1>3 DEF MappedSlot, Completion
  <2>2. MappedSlot[scope[c]].loose = (r.id \in revived)
    BY <1>3, SlotOfRow
  <2>3. QED
    BY <2>1, <2>2
<1>6. MappedSlot' = [MappedSlot EXCEPT ![scope[c]] = MappedSlot'[scope[c]]]
  BY <1>2, <1>3, SlotFrame DEF TypeOK, Completion
<1>7. Keys!End(c, Keys!Executed(c, result[c]))
  BY <1>1, EndOfCall DEF HandlerReply, Keys!Executed
<1>8. Keys!Store(c, result[c])
  BY <1>1, <1>4, <1>5, <1>6, <1>7 DEF Keys!Store
<1>9. QED
  BY <1>3, <1>8

(* A release is a Free, *)
LEMMA SettleFrees ==
    ASSUME TypeOK, TypeOK', CallState, RowOfOwner,
           NEW c \in Call, Frame(c), pc[c] = "settle", ReleaseEffect(c),
           Finish(c, HandlerReply(c)), revived' = revived, request' = request
    PROVE  Keys!Free(c)
<1>1. /\ scope[c] # Nil /\ scope[c] \in Scope /\ MappedPhase[c] = "running"
      /\ scope' = scope /\ hash' = hash /\ now' = now /\ clock' = clock
  BY DEF TypeOK, CallState, Frame, request, MappedPhase, Acquiring, Executing
<1>2. /\ table[scope[c]] # Nil /\ table[scope[c]].owner = c
      /\ table[scope[c]].state = "in_progress"
      /\ table' = [table EXCEPT ![scope[c]] = Nil]
      /\ result[c] = "transient"
  BY DEF ReleaseEffect, OwnsRow
<1>3. Keys!Holds(c)
  BY <1>1, <1>2, SlotOfRow DEF Keys!Holds, Keys!Reserved
<1>4. table'[scope[c]] = Nil
  BY <1>1, <1>2 DEF TypeOK
<1>5. MappedSlot'[scope[c]] = Nil
  BY <1>1, <1>4 DEF MappedSlot
<1>6. MappedSlot' = [MappedSlot EXCEPT ![scope[c]] = MappedSlot'[scope[c]]]
  BY <1>1, <1>2, SlotFrame DEF TypeOK
<1>7. Keys!End(c, Keys!Executed(c, "transient"))
  BY <1>1, <1>2, EndOfCall DEF HandlerReply, Keys!Executed
<1>8. QED
  BY <1>1, <1>3, <1>5, <1>6, <1>7 DEF Keys!Free

(* and a settlement that changed no row a Leave. *)
LEMMA SettleLeaves ==
    ASSUME TypeOK, CallState, NEW c \in Call, Frame(c), pc[c] = "settle",
           Finish(c, HandlerReply(c)), table' = table, revived' = revived,
           request' = request
    PROVE  \E code \in {"ok", "stable", "transient"} : Keys!Leave(c, code)
<1>1. /\ scope[c] # Nil /\ MappedPhase[c] = "running"
      /\ scope' = scope /\ hash' = hash /\ now' = now /\ clock' = clock
      /\ MappedSlot' = MappedSlot
      /\ result[c] \in {"ok", "stable", "transient"}
  BY DEF TypeOK, CallState, Frame, request, MappedPhase, MappedSlot, Acquiring,
         Executing
<1>2. Keys!End(c, Keys!Executed(c, result[c]))
  BY <1>1, EndOfCall DEF HandlerReply, Keys!Executed
<1>3. QED
  BY <1>1, <1>2 DEF Keys!Leave

(* A crash of a keyed call. *)
LEMMA CrashVanishes ==
    ASSUME TypeOK, NEW c \in Call, Frame(c), Crash(c), scope[c] # Nil
    PROVE  Keys!Vanish(c)
<1>1. /\ MappedPhase[c] \in {"asking", "running"}
      /\ MappedPhase'[c] = "over"
      /\ scope' = scope /\ hash' = hash /\ now' = now /\ clock' = clock
      /\ MappedSlot' = MappedSlot /\ MappedAnswer' = MappedAnswer
  BY DEF TypeOK, Crash, request, MappedPhase, MappedSlot, MappedAnswer,
         Acquiring, Executing
<1>2. QED
  BY <1>1, MappedFrame DEF Keys!Vanish

(* The cleanup frees slots whose time is over, or loose ones. *)
LEMMA CleanupExpires ==
    ASSUME TypeOK, CallState, RowOfOwner, BatchExpired,
           NEW c \in Call, Frame(c), CleanupDelete(c)
    PROVE  \E S \in SUBSET Scope : Keys!Expire(S)
<1> DEFINE S == {s \in Scope : table[s] # Nil /\ table[s].id \in picked[c]}
<1>1. /\ scope' = scope /\ hash' = hash /\ now' = now /\ clock' = clock
      /\ MappedAnswer' = MappedAnswer
  BY DEF CleanupDelete, request, MappedAnswer
<1>2. MappedPhase' = MappedPhase
  <2>1. MappedPhase'[c] = MappedPhase[c]
    BY <1>1 DEF CleanupDelete, TypeOK, MappedPhase, Acquiring
  <2>2. MappedPhase = [d \in Call |-> MappedPhase[d]]
    BY DEF MappedPhase
  <2>3. QED
    BY <2>1, <2>2, MappedFrame
<1>3. MappedSlot' = [s \in Scope |-> IF s \in S THEN Nil ELSE MappedSlot[s]]
  <2>1. revived' = revived
    BY DEF CleanupDelete
  <2>2. \A s \in Scope : table'[s] = IF s \in S THEN Nil ELSE table[s]
    BY DEF CleanupDelete
  <2>3. QED
    BY <2>1, <2>2 DEF MappedSlot
<1>4. ASSUME NEW s \in S
      PROVE  MappedSlot[s] # Nil /\ (MappedSlot[s].loose \/ Keys!Until(s) <= clock)
  <2>1. table[s].expiresAt <= clock \/ table[s].id \in revived
    BY DEF BatchExpired
  <2>2. CASE table[s].id \in revived
    BY <2>2, SlotOfRow
  <2>3. CASE table[s].expiresAt <= clock
    <3>1. table[s] \in Row
      BY DEF TypeOK
    <3>2. QED
      BY <2>3, <3>1, RowType, SlotOfRow, UntilOfRow DEF TypeOK
  <2>4. QED
    BY <2>1, <2>2, <2>3
<1>5. Keys!Expire(S)
  BY <1>1, <1>2, <1>3, <1>4 DEF Keys!Expire
<1>6. QED
  BY <1>5

(* Every step of a call is a step of atomic slots, or hidden. *)
LEMMA StepRefines ==
    ASSUME RefInv, TypeOK', NEW c \in Call, Step(c)
    PROVE  [Keys!Next]_Keys!vars
<1> USE DEF RefInv, IndInv
<1>1. Frame(c)
  BY StepFrame
<1>2. CASE Arrive(c)
  BY <1>1, <1>2, ArriveAsks DEF Keys!Next
<1>3. CASE PassThrough(c) \/ RejectKey(c)
  <2>1. scope[c] = Nil
    BY <1>3 DEF PassThrough, RejectKey, CallState
  <2>2. QED
    BY <1>1, <1>3, <2>1, HiddenSteps DEF PassThrough, RejectKey
<1>4. CASE \/ CleanupSelect(c) \/ CleanupFails(c) \/ InsertConflict(c)
           \/ FindLapsed(c) \/ TakeoverMiss(c)
  <2>1. pc[c] \in Acquiring /\ pc'[c] \in Acquiring /\ reply'[c] = reply[c]
    BY <1>4 DEF CleanupSelect, CleanupFails, InsertConflict, FindLapsed,
                TakeoverMiss, Acquiring, TypeOK
  <2>2. table' = table /\ revived' = revived /\ request' = request
    BY <1>4 DEF CleanupSelect, CleanupFails, InsertConflict, FindLapsed,
                TakeoverMiss
  <2>3. QED
    BY <1>1, <2>1, <2>2, HiddenSteps
<1>5. CASE CleanupDelete(c)
  BY <1>1, <1>5, CleanupExpires DEF Keys!Next
<1>6. CASE Insert(c) \/ Takeover(c)
  <2>1. Keys!Grant(c)
    BY <1>6, InsertGrants, TakeoverGrants DEF Insert, Takeover
  <2>2. /\ pc[c] \in Acquiring /\ pc'[c] = "handler" /\ reply' = reply
        /\ request' = request
    BY <1>6 DEF Insert, Takeover, Acquiring, TypeOK
  <2>3. QED
    BY <1>1, <2>1, <2>2, GrantReserves DEF Keys!Next
<1>7. CASE InsertFails(c) \/ TakeoverFails(c)
  <2>1. /\ pc[c] \in Acquiring /\ Finish(c, Unavailable) /\ request' = request
    BY <1>7 DEF InsertFails, TakeoverFails, Acquiring
  <2>2. CASE table' = table /\ revived' = revived
    BY <1>1, <2>1, <2>2, AcquireFails DEF Keys!Next
  <2>3. CASE ~(table' = table /\ revived' = revived)
    <3>1. Keys!Grant(c)
      BY <1>7, <2>3, InsertGrants, TakeoverGrants DEF InsertFails, TakeoverFails
    <3>2. QED
      BY <1>1, <2>1, <3>1, GrantReserves DEF Keys!Next
  <2>4. QED
    BY <2>2, <2>3
<1>8. CASE FindAbsent(c) \/ FindFails(c)
  <2>1. /\ pc[c] \in Acquiring /\ Finish(c, Unavailable) /\ request' = request
        /\ table' = table /\ revived' = revived
    BY <1>8 DEF FindAbsent, FindFails, Acquiring
  <2>2. QED
    BY <1>1, <2>1, AcquireFails DEF Keys!Next
<1>9. CASE FindLive(c)
  BY <1>1, <1>9, FindAnswers DEF Keys!Next
<1>10. CASE Execute(c) \/ Audit(c)
  <2>1. table' = table /\ revived' = revived /\ request' = request
    BY <1>10 DEF Execute, Audit
  <2>2. CASE scope[c] = Nil
    BY <1>1, <2>1, <2>2, HiddenSteps
  <2>3. CASE scope[c] # Nil
    <3>1. pc[c] \in Executing /\ pc'[c] \in Executing /\ reply' = reply
      BY <1>10, <2>3 DEF Execute, Audit, Executing, TypeOK
    <3>2. QED
      BY <1>1, <2>1, <3>1, HiddenSteps
  <2>4. QED
    BY <2>2, <2>3
<1>11. CASE Complete(c) \/ Release(c) \/ SettleLost(c) \/ SettleFails(c)
  <2>1. /\ pc[c] = "settle" /\ Finish(c, HandlerReply(c))
        /\ revived' = revived /\ request' = request
        /\ CompleteEffect(c) \/ ReleaseEffect(c) \/ table' = table
    BY <1>11 DEF Complete, Release, SettleLost, SettleFails
  <2>2. CASE CompleteEffect(c)
    BY <1>1, <2>1, <2>2, SettleStores DEF Keys!Next
  <2>3. CASE ReleaseEffect(c)
    BY <1>1, <2>1, <2>3, SettleFrees DEF Keys!Next
  <2>4. CASE table' = table
    BY <1>1, <2>1, <2>4, SettleLeaves DEF Keys!Next
  <2>5. QED
    BY <2>1, <2>2, <2>3, <2>4
<1>12. CASE Crash(c)
  <2>1. CASE scope[c] = Nil
    BY <1>1, <1>12, <2>1, HiddenSteps DEF Crash
  <2>2. CASE scope[c] # Nil
    BY <1>1, <1>12, <2>2, CrashVanishes DEF Keys!Next
  <2>3. QED
    BY <2>1, <2>2
<1>13. QED
  BY <1>2, <1>3, <1>4, <1>5, <1>6, <1>7, <1>8, <1>9, <1>10, <1>11, <1>12
     DEF Step, Receive

-----------------------------------------------------------------------------

(* The initial state is one of free slots. *)
LEMMA InitRefines == Init => Keys!Init /\ RefInv
<1>1. Init => Keys!Init
  BY DEF Init, Keys!Init, MappedSlot, MappedPhase, MappedAnswer
<1>2. Init => RefInv
  BY InitInv DEF Init, RefInv, RevivedPast
<1>3. QED
  BY <1>1, <1>2

(* Every step of the interceptor is a step of the abstract specification. *)
LEMMA NextRefines ==
    RefInv /\ [Next]_vars => RefInv' /\ [Keys!Next]_Keys!vars
<1> SUFFICES ASSUME RefInv, [Next]_vars
             PROVE  RefInv' /\ [Keys!Next]_Keys!vars
  OBVIOUS
<1>1. IndInv'
  BY NextInv DEF RefInv
<1>2. CASE Tick
  <2>1. RevivedPast'
    BY <1>2 DEF Tick, RefInv, RevivedPast
  <2>2. Keys!Tick
    BY <1>2 DEF Tick, request, Keys!Tick, MappedSlot, MappedPhase, MappedAnswer
  <2>3. QED
    BY <1>1, <2>1, <2>2 DEF RefInv, Keys!Next
<1>3. CASE UNCHANGED vars \/ Quiescent
  <2>1. RevivedPast'
    BY <1>3 DEF Quiescent, vars, RefInv, RevivedPast
  <2>2. UNCHANGED Keys!vars
    BY <1>3 DEF Quiescent, vars, Keys!vars, MappedSlot, MappedPhase, MappedAnswer
  <2>3. QED
    BY <1>1, <2>1, <2>2 DEF RefInv
<1>4. ASSUME NEW c \in Call, Step(c)
      PROVE  RefInv' /\ [Keys!Next]_Keys!vars
  <2>1. Frame(c) /\ Writes(c)
    BY <1>4, StepFrame, StepWrites DEF RefInv, IndInv
  <2>2. RevivedPast'
    BY <2>1, RevivedPastStep DEF RefInv, IndInv
  <2>3. [Keys!Next]_Keys!vars
    BY <1>1, <1>4, StepRefines DEF IndInv
  <2>4. QED
    BY <1>1, <2>2, <2>3 DEF RefInv
<1>5. QED
  BY <1>2, <1>3, <1>4 DEF Next

(* The interceptor and its store implement atomic idempotency keys: every  *)
(* interleaving of the statements of Acquire, Complete, Release and the    *)
(* cleanup, with the failures the code handles, is a behaviour of the      *)
(* abstract slots.                                                         *)
THEOREM Refinement == Spec => ImplementsKeys
<1>1. Keys!Init /\ [][Keys!Next]_Keys!vars => ImplementsKeys
  BY DEF ImplementsKeys, Keys!Spec
<1>2. QED
  BY <1>1, InitRefines, NextRefines, PTL DEF Spec

=============================================================================
