----------------------- MODULE IdempotencyRefinement ------------------------
(***************************************************************************)
(* Idempotency implements KeyedExecution: the record under a key is the    *)
(* slot, the call that owns it is the call that has the slot, and the      *)
(* statements of Acquire, Complete and Release are atomic on it.           *)
(***************************************************************************)
EXTENDS Idempotency

Slot == [by : Call, result : {Nil, "ok", "stable"}, loose : BOOLEAN]

ASSUME SlotAssumption == Nil \notin Slot /\ Nil \notin {"ok", "stable"}

MappedSlot ==
    [s \in Scope |->
        IF table[s] = Nil THEN Nil
        ELSE [by     |-> table[s].owner,
              result |-> IF table[s].state = "completed"
                         THEN table[s].response.code ELSE Nil,
              loose  |-> table[s].id \in revived]]

(* A call without a usable key takes no part. *)
MappedPhase ==
    [c \in Call |->
        IF scope[c] = Nil THEN "new"
        ELSE IF pc[c] \in Acquiring THEN "asking"
        ELSE IF pc[c] \in Executing THEN "running"
        ELSE "over"]

MappedAnswer == [c \in Call |-> IF scope[c] = Nil THEN Nil ELSE reply[c]]

Keys == INSTANCE KeyedExecution WITH
            slot <- MappedSlot,
            phase <- MappedPhase,
            began <- now,
            answer <- MappedAnswer

(* Every behaviour of the interceptor and its PostgreSQL store is one of   *)
(* atomic slots: nobody gets a key before the lock timeout or the TTL of   *)
(* the call that has it, whatever the interleaving of INSERT, SELECT,      *)
(* UPDATE, DELETE and cleanup; answers tell what the slot holds.           *)
ImplementsKeys == Keys!Spec

=============================================================================
