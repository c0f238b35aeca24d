--------------------------- MODULE KeyedExecution ---------------------------
(***************************************************************************)
(* What an idempotency key promises, without the statements that keep the  *)
(* promise: each key is a slot that is free, reserved by a running call,   *)
(* or holds the result of one, and a call reads and changes it atomically. *)
(*                                                                         *)
(* A reservation is good for LockTimeout and a result for TTL after the    *)
(* request that made it arrived.  Only then may another call have the      *)
(* slot, with one exception: a slot that was reserved again after it had   *)
(* expired is loose, and may be lost at any time.                          *)
(*                                                                         *)
(* This is the contract of IdempotencyUnary and idempotency.Store that     *)
(* IdempotencyRefinement shows Idempotency to implement.                   *)
(***************************************************************************)
EXTENDS Integers

CONSTANTS
    Call,         \* RPC invocations
    Scope,        \* triples (actor_id, rpc_method, key_hash)
    Payload,      \* request hashes
    TTL,          \* IDEMPOTENCY_TTL
    LockTimeout,  \* IDEMPOTENCY_LOCK_TIMEOUT
    Nil           \* free, no result, no answer

VARIABLES
    clock,   \* wall clock
    slot,    \* what each key holds
    phase,   \* "new", "asking", "running" or "over", for each call
    scope,   \* the key of a call
    hash,    \* its payload
    began,   \* the time it arrived
    answer   \* what its client received

vars == <<clock, slot, phase, scope, hash, began, answer>>

Init ==
    /\ clock = 0
    /\ slot = [s \in Scope |-> Nil]
    /\ phase = [c \in Call |-> "new"]
    /\ scope = [c \in Call |-> Nil]
    /\ hash = [c \in Call |-> Nil]
    /\ began = [c \in Call |-> 0]
    /\ answer = [c \in Call |-> Nil]

(* The end of what slot s grants to the call that has it. *)
Until(s) ==
    began[slot[s].by] + IF slot[s].result = Nil THEN LockTimeout ELSE TTL

Reserved(s) == slot[s] # Nil /\ slot[s].result = Nil

Holds(c) == Reserved(scope[c]) /\ slot[scope[c]].by = c

End(c, a) ==
    /\ phase' = [phase EXCEPT ![c] = "over"]
    /\ answer' = [answer EXCEPT ![c] = a]

Told(code) == [code |-> code, by |-> Nil, replayed |-> FALSE]

Executed(c, code) == [code |-> code, by |-> c, replayed |-> FALSE]

-----------------------------------------------------------------------------

Tick ==
    /\ clock' = clock + 1
    /\ UNCHANGED <<slot, phase, scope, hash, began, answer>>

(* A call arrives with key s and payload h. *)
Ask(c, s, h) ==
    /\ phase[c] = "new"
    /\ phase' = [phase EXCEPT ![c] = "asking"]
    /\ scope' = [scope EXCEPT ![c] = s]
    /\ hash' = [hash EXCEPT ![c] = h]
    /\ began' = [began EXCEPT ![c] = clock]
    /\ UNCHANGED <<clock, slot, answer>>

(* A free slot, or one whose time is over, goes to c. *)
Grant(c) ==
    LET s == scope[c]
    IN  \E loose \in BOOLEAN :
            /\ slot[s] # Nil => Until(s) <= clock
            /\ loose => slot[s] # Nil
            /\ slot' = [slot EXCEPT ![s] =
                           [by |-> c, result |-> Nil, loose |-> loose]]

Reserve(c) ==
    /\ phase[c] = "asking"
    /\ Grant(c)
    /\ phase' = [phase EXCEPT ![c] = "running"]
    /\ UNCHANGED <<clock, scope, hash, began, answer>>

(* The slot goes to c, which does not hear of it. *)
ReserveUnheard(c) ==
    /\ phase[c] = "asking"
    /\ Grant(c)
    /\ End(c, Told("unavailable"))
    /\ UNCHANGED <<clock, scope, hash, began>>

(* The stored result of an execution with the same payload. *)
Replay(c) ==
    LET r == slot[scope[c]]
    IN  /\ phase[c] = "asking"
        /\ r # Nil
        /\ r.result # Nil
        /\ hash[r.by] = hash[c]
        /\ End(c, [code |-> r.result, by |-> r.by, replayed |-> TRUE])
        /\ UNCHANGED <<clock, slot, scope, hash, began>>

(* Another call is at work on the same request. *)
Busy(c) ==
    /\ phase[c] = "asking"
    /\ Reserved(scope[c])
    /\ hash[slot[scope[c]].by] = hash[c]
    /\ End(c, Told("busy"))
    /\ UNCHANGED <<clock, slot, scope, hash, began>>

(* The key belongs to another request. *)
Conflict(c) ==
    /\ phase[c] = "asking"
    /\ slot[scope[c]] # Nil
    /\ hash[slot[scope[c]].by] # hash[c]
    /\ End(c, Told("conflict"))
    /\ UNCHANGED <<clock, slot, scope, hash, began>>

Unavailable(c) ==
    /\ phase[c] = "asking"
    /\ End(c, Told("unavailable"))
    /\ UNCHANGED <<clock, slot, scope, hash, began>>

(* The call that has the slot leaves its result there, *)
Store(c, code) ==
    /\ phase[c] = "running"
    /\ Holds(c)
    /\ slot' = [slot EXCEPT ![scope[c]] =
                   [by |-> c, result |-> code, loose |-> slot[scope[c]].loose]]
    /\ End(c, Executed(c, code))
    /\ UNCHANGED <<clock, scope, hash, began>>

(* or gives it back, because a retry may do better, *)
Free(c) ==
    /\ phase[c] = "running"
    /\ Holds(c)
    /\ slot' = [slot EXCEPT ![scope[c]] = Nil]
    /\ End(c, Executed(c, "transient"))
    /\ UNCHANGED <<clock, scope, hash, began>>

(* or answers without touching it. *)
Leave(c, code) ==
    /\ phase[c] = "running"
    /\ End(c, Executed(c, code))
    /\ UNCHANGED <<clock, slot, scope, hash, began>>

(* A call dies; what it reserved stays reserved. *)
Vanish(c) ==
    /\ phase[c] \in {"asking", "running"}
    /\ phase' = [phase EXCEPT ![c] = "over"]
    /\ UNCHANGED <<clock, slot, scope, hash, began, answer>>

(* Slots whose time is over, or that are loose, become free. *)
Expire(S) ==
    /\ \A s \in S : slot[s] # Nil /\ (slot[s].loose \/ Until(s) <= clock)
    /\ slot' = [s \in Scope |-> IF s \in S THEN Nil ELSE slot[s]]
    /\ UNCHANGED <<clock, phase, scope, hash, began, answer>>

Next ==
    \/ Tick
    \/ \E S \in SUBSET Scope : Expire(S)
    \/ \E c \in Call :
           \/ \E s \in Scope, h \in Payload : Ask(c, s, h)
           \/ Reserve(c) \/ ReserveUnheard(c)
           \/ Replay(c) \/ Busy(c) \/ Conflict(c) \/ Unavailable(c)
           \/ \E code \in {"ok", "stable"} : Store(c, code)
           \/ Free(c)
           \/ \E code \in {"ok", "stable", "transient"} : Leave(c, code)
           \/ Vanish(c)

Spec == Init /\ [][Next]_vars

=============================================================================
