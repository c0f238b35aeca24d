-------------------------- MODULE RetriedCreation ---------------------------
(***************************************************************************)
(* CreateUser under an idempotency key, with the clients that retry it:    *)
(* KeyedExecution composed with the users table and with clients.          *)
(*                                                                         *)
(* A client wants one account and sends its request, with one key, until   *)
(* it is told "ok" or "stable" (USER_EMAIL_EXISTS, which is stored).       *)
(* Several may want one mailbox.  Answers get lost, so that two attempts   *)
(* of one client may run at once.  The key is the client's scope and its   *)
(* payload never changes, so the answer "conflict" does not occur.         *)
(***************************************************************************)
EXTENDS Integers

CONSTANTS
    Call,         \* attempts
    Client,       \* and the keys they use
    Mail,         \* mailboxes
    Wanted,       \* the one each client wants
    TTL,          \* IDEMPOTENCY_TTL
    LockTimeout,  \* IDEMPOTENCY_LOCK_TIMEOUT
    MaxFaults,    \* bound on crashes and failing statements
    MaxLosses,    \* bound on attempts that end without news
    MaxTicks,     \* bound on time that passes while nobody waits for it
    Nil

ASSUME RetryAssumption ==
    /\ Wanted \in [Client -> Mail]
    /\ TTL \in Nat /\ LockTimeout \in Nat
    /\ 0 < LockTimeout /\ LockTimeout < TTL
    /\ MaxFaults \in Nat /\ MaxLosses \in Nat /\ MaxTicks \in Nat

Final == {"ok", "stable"}

Code == Final \cup {"transient", "busy", "unavailable"}

Slot == [by : Call, result : Final \cup {Nil}, loose : BOOLEAN]

Answer == [code : Code, by : Call \cup {Nil}, replayed : BOOLEAN]

ASSUME NothingAssumption ==
    /\ Nil \notin Call /\ Nil \notin Client
    /\ Nil \notin Code /\ Nil \notin Slot /\ Nil \notin Answer

VARIABLES
    clock, slot, phase, scope, hash, began, answer,  \* of KeyedExecution
    users,    \* the attempt that created the account of each mailbox
    result,   \* what the handler of an attempt returned
    attempt,  \* the attempt whose answer a client waits for
    told,     \* its final answer
    after,    \* the time from which it may try again
    faults, losses, ticks,  \* so far
    excused   \* history: clients outside of what the key promises

keys == <<clock, slot, phase, scope, hash, began, answer>>
clients == <<attempt, told, after>>
bounds == <<faults, losses, ticks>>
vars == <<keys, users, result, clients, bounds, excused>>

Keys == INSTANCE KeyedExecution WITH Scope <- Client, Payload <- Client

TypeOK ==
    /\ clock \in Nat
    /\ slot \in [Client -> Slot \cup {Nil}]
    /\ phase \in [Call -> {"new", "asking", "running", "over"}]
    /\ scope \in [Call -> Client \cup {Nil}]
    /\ hash \in [Call -> Client \cup {Nil}]
    /\ began \in [Call -> Nat]
    /\ answer \in [Call -> Answer \cup {Nil}]
    /\ users \in [Mail -> Call \cup {Nil}]
    /\ result \in [Call -> Final \cup {"transient", Nil}]
    /\ attempt \in [Client -> Call \cup {Nil}]
    /\ told \in [Client -> Final \cup {Nil}]
    /\ after \in [Client -> Nat]
    /\ faults \in 0..MaxFaults
    /\ losses \in 0..MaxLosses
    /\ ticks \in 0..MaxTicks
    /\ excused \in SUBSET Client

Init ==
    /\ Keys!Init
    /\ users = [m \in Mail |-> Nil]
    /\ result = [c \in Call |-> Nil]
    /\ attempt = [k \in Client |-> Nil]
    /\ told = [k \in Client |-> Nil]
    /\ after = [k \in Client |-> 0]
    /\ faults = 0 /\ losses = 0 /\ ticks = 0
    /\ excused = {}

-----------------------------------------------------------------------------
(* Helpers *)

Fault == faults < MaxFaults /\ faults' = faults + 1

Loss == losses < MaxLosses /\ losses' = losses + 1

Excuse(k) == excused' = excused \cup {k}

UnderWay(c) == phase[c] \in {"asking", "running"}

(* Its client is still at it, or the server is. *)
Pursued(k) == told[k] = Nil \/ \E c \in Call : scope[c] = k /\ UnderWay(c)

(* What excuses a client by t: an attempt that is not over within its lock *)
(* timeout, or attempts that go on when the TTL of one of them is over.    *)
Late(t) ==
    {k \in Client :
        \E c \in Call :
            /\ scope[c] = k
            /\ \/ UnderWay(c) /\ began[c] + LockTimeout <= t
               \/ Pursued(k) /\ began[c] + TTL <= t}

Waiting(k) == told[k] = Nil /\ attempt[k] = Nil /\ clock < after[k]

-----------------------------------------------------------------------------
(* Time *)

Tick ==
    /\ Keys!Tick
    /\ \/ (\E k \in Client : Waiting(k)) /\ UNCHANGED ticks
       \/ ~(\E k \in Client : Waiting(k)) /\ ticks < MaxTicks /\ ticks' = ticks + 1
    /\ excused' = excused \cup Late(clock + 1)
    /\ UNCHANGED <<users, result, clients, faults, losses>>

Expire(k) ==
    /\ Keys!Expire({k})
    /\ UNCHANGED <<users, result, clients, bounds, excused>>

-----------------------------------------------------------------------------
(* Clients *)

Try(k, c) ==
    /\ told[k] = Nil
    /\ attempt[k] = Nil
    /\ after[k] <= clock
    /\ Keys!Ask(c, k, k)
    /\ attempt' = [attempt EXCEPT ![k] = c]
    /\ UNCHANGED <<users, result, told, after, bounds, excused>>

(* After any other answer, or a broken connection, the client waits for    *)
(* the second that RetryInfo asks for.                                     *)
Deliver(k) ==
    LET a == answer[attempt[k]]
    IN  /\ attempt[k] # Nil
        /\ phase[attempt[k]] = "over"
        /\ IF a # Nil /\ a.code \in Final
           THEN told' = [told EXCEPT ![k] = a.code] /\ UNCHANGED after
           ELSE after' = [after EXCEPT ![k] = clock + 1] /\ UNCHANGED told
        /\ attempt' = [attempt EXCEPT ![k] = Nil]
        /\ UNCHANGED <<keys, users, result, bounds, excused>>

(* The answer is lost, or the client gives up on it. *)
Abandon(k) ==
    /\ attempt[k] # Nil
    /\ Loss
    /\ attempt' = [attempt EXCEPT ![k] = Nil]
    /\ after' = [after EXCEPT ![k] = clock + 1]
    /\ UNCHANGED <<keys, users, result, told, faults, ticks, excused>>

-----------------------------------------------------------------------------
(* Acquire *)

Reserve(c) ==
    /\ Keys!Reserve(c)
    /\ UNCHANGED <<users, result, clients, bounds, excused>>

Replay(c) ==
    /\ Keys!Replay(c)
    /\ UNCHANGED <<users, result, clients, bounds, excused>>

(* Only the second find of an Acquire, after a takeover that missed,       *)
(* answers so for a reservation that has lapsed.                           *)
Busy(c) ==
    /\ Keys!Busy(c)
    /\ \/ began[c] < Keys!Until(scope[c]) /\ UNCHANGED losses
       \/ Keys!Until(scope[c]) <= began[c] /\ Loss
    /\ UNCHANGED <<users, result, clients, faults, ticks, excused>>

(* Also without a fault, when a reservation is released under find. *)
Unavailable(c) ==
    /\ Keys!Unavailable(c)
    /\ Loss
    /\ UNCHANGED <<users, result, clients, faults, ticks, excused>>

ReserveUnheard(c) ==
    /\ Keys!ReserveUnheard(c)
    /\ Fault
    /\ Excuse(scope[c])
    /\ UNCHANGED <<users, result, clients, losses, ticks>>

-----------------------------------------------------------------------------
(* The handler and what follows it *)

Executing(c) == phase[c] = "running" /\ result[c] = Nil

Outcome(c, code) == result' = [result EXCEPT ![c] = code]

(* The INSERT into users, which the unique email refuses or not. *)
Insert(c) ==
    LET m == Wanted[scope[c]]
    IN  users[m] = Nil /\ users' = [users EXCEPT ![m] = c]

Created(c) == Insert(c) /\ Outcome(c, "ok")

(* Mutant: a unique violation is taken for success. *)
ExistsIsOk(c) ==
    /\ users[Wanted[scope[c]]] # Nil
    /\ UNCHANGED users
    /\ Outcome(c, "ok")

Exists(c) ==
    /\ users[Wanted[scope[c]]] # Nil
    /\ UNCHANGED users
    /\ Outcome(c, "stable")

Execute(c) ==
    /\ Executing(c)
    /\ Created(c) \/ Exists(c)
    /\ UNCHANGED <<keys, clients, bounds, excused>>

(* The statement fails, or commits and loses its answer. *)
ExecuteFails(c) ==
    /\ Executing(c)
    /\ Fault
    /\ Outcome(c, "transient")
    /\ \/ Insert(c) /\ Excuse(scope[c])
       \/ UNCHANGED <<users, excused>>
    /\ UNCHANGED <<keys, clients, losses, ticks>>

(* Mutant: the reservation is released whatever the handler returned. *)
CompleteReleases(c) ==
    /\ result[c] \in Final
    /\ \/ /\ Keys!Holds(c)
          /\ slot' = [slot EXCEPT ![scope[c]] = Nil]
          /\ Keys!End(c, Keys!Executed(c, result[c]))
          /\ UNCHANGED <<clock, scope, hash, began>>
       \/ ~Keys!Holds(c) /\ Keys!Leave(c, result[c])
    /\ UNCHANGED <<users, result, clients, bounds, excused>>

(* A reservation that was lost in the meantime is only logged. *)
Complete(c) ==
    /\ result[c] \in Final
    /\ Keys!Store(c, result[c]) \/ (~Keys!Holds(c) /\ Keys!Leave(c, result[c]))
    /\ UNCHANGED <<users, result, clients, bounds, excused>>

(* Mutant: every error is stored. *)
ReleaseStores(c) ==
    /\ result[c] = "transient"
    /\ \/ Keys!Store(c, "transient")
       \/ ~Keys!Holds(c) /\ Keys!Leave(c, "transient")
    /\ UNCHANGED <<users, result, clients, bounds, excused>>

Release(c) ==
    /\ result[c] = "transient"
    /\ Keys!Free(c) \/ (~Keys!Holds(c) /\ Keys!Leave(c, "transient"))
    /\ UNCHANGED <<users, result, clients, bounds, excused>>

SettleFails(c) ==
    /\ result[c] # Nil
    /\ Keys!Leave(c, result[c])
    /\ Fault
    /\ Excuse(scope[c])
    /\ UNCHANGED <<users, result, clients, losses, ticks>>

(* The process dies; a call that has reserved nothing leaves no trace. *)
Crash(c) ==
    /\ Keys!Vanish(c)
    /\ Fault
    /\ IF phase[c] = "running" THEN Excuse(scope[c]) ELSE UNCHANGED excused
    /\ UNCHANGED <<users, result, clients, losses, ticks>>

-----------------------------------------------------------------------------

Acquire(c) == Reserve(c) \/ Replay(c) \/ Busy(c)

Serve(c) == Acquire(c) \/ Execute(c) \/ Complete(c) \/ Release(c)

Fail(c) ==
    Unavailable(c) \/ ReserveUnheard(c) \/ ExecuteFails(c) \/ SettleFails(c)
        \/ Crash(c)

Ask(k) == Deliver(k) \/ \E c \in Call : Try(k, c)

(* Every attempt is over, and everybody knows, or there are no more calls  *)
(* to make.                                                                *)
Settled ==
    /\ \A c \in Call : phase[c] \in {"new", "over"}
    /\ \A k \in Client : told[k] # Nil \/ \A c \in Call : phase[c] = "over"
    /\ UNCHANGED vars

Next ==
    \/ Tick \/ Settled
    \/ \E k \in Client : Ask(k) \/ Abandon(k) \/ Expire(k)
    \/ \E c \in Call : Serve(c) \/ Fail(c)

Spec == Init /\ [][Next]_vars

(* Clients go on, time passes, and an attempt goes on or dies. *)
FairSpec ==
    /\ Spec
    /\ WF_vars(Tick)
    /\ \A k \in Client : WF_vars(Ask(k))
    /\ \A c \in Call : WF_vars(Serve(c))

-----------------------------------------------------------------------------
(* Properties *)

(* What a client is told at last is true: after "ok" the account is its    *)
(* own; after USER_EMAIL_EXISTS it is somebody else's, unless one of       *)
(* its attempts failed or outlived the lock timeout, or they went on past  *)
(* the TTL.  A retry of a CreateUser that had succeeded is not refused.    *)
ToldTrue ==
    \A k \in Client :
        told[k] # Nil =>
            LET by == users[Wanted[k]]
            IN  /\ by # Nil
                /\ told[k] = "ok" => scope[by] = k
                /\ told[k] = "stable" => scope[by] # k \/ k \in excused

(* All final answers under one key agree, to whichever attempts they went, *)
(* outside of the same exceptions.                                         *)
OneVerdict ==
    \A c, d \in Call :
        /\ scope[c] # Nil /\ scope[c] = scope[d] /\ scope[c] \notin excused
        /\ answer[c] # Nil /\ answer[c].code \in Final
        /\ answer[d] # Nil /\ answer[d].code \in Final
        => answer[c].code = answer[d].code

(* A client that keeps retrying gets a final answer, whatever crashes,     *)
(* fails and is lost on the way: no key stays locked or keeps an error     *)
(* that a retry should get past.                                           *)
EventuallyTold == \A k \in Client : <>(told[k] # Nil)

=============================================================================
