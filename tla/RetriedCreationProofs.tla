----------------------- MODULE RetriedCreationProofs ------------------------
(***************************************************************************)
(* What retrying clients are told is true and the same for all attempts,   *)
(* for any number of clients, mailboxes, attempts, faults and losses.      *)
(*                                                                         *)
(* The argument.  As long as a client is not excused, an attempt of it     *)
(* that runs holds its key (Held), a reservation belongs to an attempt     *)
(* that runs, and no slot is loose (Firm): a reservation lapses only under *)
(* an attempt that is late, and a result only when nobody pursues the key. *)
(* So at most one attempt runs, and it runs only while no attempt has had  *)
(* a final answer (Verdict).  An attempt that finds the mailbox taken      *)
(* hence finds somebody else's account there (Others).                     *)
(***************************************************************************)
EXTENDS RetriedCreation, TLAPS

-----------------------------------------------------------------------------
(* The inductive invariant *)

IsFinal(c) == answer[c] # Nil /\ answer[c].code \in Final

(* Where an attempt is tells which of its variables are set. *)
CallState ==
    \A c \in Call :
        /\ phase[c] = "new" <=> scope[c] = Nil
        /\ result[c] # Nil => phase[c] \in {"running", "over"}
        /\ answer[c] # Nil => phase[c] = "over"

(* A client waits for an attempt of its own. *)
AttemptOfClient ==
    \A k \in Client : attempt[k] # Nil => scope[attempt[k]] = k

(* What a handler returned is so. *)
ResultTrue ==
    \A c \in Call :
        /\ result[c] = "ok" => users[Wanted[scope[c]]] = c
        /\ result[c] = "stable" => users[Wanted[scope[c]]] # Nil

(* An account was created by an attempt that knows it, or is excused. *)
CreatorKnows ==
    \A m \in Mail :
        users[m] # Nil =>
            /\ scope[users[m]] # Nil
            /\ result[users[m]] = "ok" \/ scope[users[m]] \in excused

(* A slot belongs to an attempt with its key, and holds what that returned. *)
SlotOfClient ==
    \A k \in Client :
        slot[k] # Nil =>
            /\ scope[slot[k].by] = k
            /\ slot[k].result # Nil => slot[k].result = result[slot[k].by]

(* A final answer is what an attempt with the same key returned. *)
AnswerOfResult ==
    \A c \in Call :
        IsFinal(c) =>
            /\ answer[c].by \in Call
            /\ scope[answer[c].by] = scope[c]
            /\ result[answer[c].by] = answer[c].code

(* So is what a client was told. *)
ToldOfResult ==
    \A k \in Client :
        told[k] # Nil => \E c \in Call : scope[c] = k /\ result[c] = told[k]

LateExcused == \A k \in Client : k \in Late(clock) => k \in excused

Held ==
    \A c \in Call :
        phase[c] = "running" /\ scope[c] \notin excused => Keys!Holds(c)

Firm ==
    \A k \in Client :
        k \notin excused /\ slot[k] # Nil =>
            /\ ~slot[k].loose
            /\ slot[k].result = Nil => phase[slot[k].by] = "running"

(* A handler's final result is answered. *)
Answered ==
    \A c \in Call :
        /\ phase[c] = "over" /\ result[c] \in Final /\ scope[c] \notin excused
        => IsFinal(c)

(* A final answer stays in the slot as long as anybody may ask for it. *)
Verdict ==
    \A c \in Call :
        IsFinal(c) /\ scope[c] \notin excused =>
            \/ slot[scope[c]] # Nil /\ slot[scope[c]].result = answer[c].code
            \/ ~Pursued(scope[c])

(* A mailbox that is refused to a client is not its own. *)
Others ==
    \A c \in Call :
        result[c] = "stable" /\ scope[c] \notin excused =>
            scope[users[Wanted[scope[c]]]] # scope[c]

(* What holds of every client, *)
Bookkeeping ==
    /\ CallState /\ AttemptOfClient /\ ResultTrue /\ CreatorKnows
    /\ SlotOfClient /\ AnswerOfResult /\ ToldOfResult /\ LateExcused

(* and of those that are not excused. *)
Promise == Held /\ Firm /\ Answered /\ Verdict /\ OneVerdict /\ Others

IndInv == TypeOK /\ Bookkeeping /\ Promise

-----------------------------------------------------------------------------
(* Operators *)

(* A slot and an answer are records, and not the absence of one. *)
LEMMA Records ==
    /\ \A c \in Call, r \in Final \cup {Nil}, l \in BOOLEAN :
           /\ [by |-> c, result |-> r, loose |-> l] \in Slot
           /\ [by |-> c, result |-> r, loose |-> l] # Nil
    /\ \A a \in Code, c \in Call \cup {Nil}, r \in BOOLEAN :
           /\ [code |-> a, by |-> c, replayed |-> r] \in Answer
           /\ [code |-> a, by |-> c, replayed |-> r] # Nil
    /\ \A s \in Slot :
           s.by \in Call /\ s.result \in Final \cup {Nil} /\ s.loose \in BOOLEAN
    /\ \A a \in Answer : a.code \in Code /\ a.by \in Call \cup {Nil}
    /\ Nil \notin Final
  BY NothingAssumption DEF Slot, Answer, Code, Final

(* The answers calls end with. *)
LEMMA Answers ==
    /\ \A a \in Code : /\ Keys!Told(a) \in Answer
                        /\ Keys!Told(a) # Nil
                        /\ Keys!Told(a).code = a
    /\ \A a \in Code, c \in Call : /\ Keys!Executed(c, a) \in Answer
                                     /\ Keys!Executed(c, a) # Nil
                                     /\ Keys!Executed(c, a).code = a
                                     /\ Keys!Executed(c, a).by = c
    /\ \A a \in Code : a \in Final <=> a \notin {"transient", "busy", "unavailable"}
    /\ {"ok", "stable", "transient", "busy", "unavailable"} = Code
    /\ Final \subseteq Code
  BY Records DEF Keys!Told, Keys!Executed, Code, Final

(* Only a call that has begun is served. *)
LEMMA ScopeOfCall ==
    ASSUME TypeOK, CallState, NEW c \in Call, phase[c] # "new"
    PROVE  scope[c] \in Client
  BY DEF TypeOK, CallState

-----------------------------------------------------------------------------
(* Types *)

LEMMA TypeTime ==
    ASSUME TypeOK, Tick \/ \E k \in Client : Expire(k)
    PROVE  TypeOK'
<1>1. CASE Tick
  BY <1>1, RetryAssumption
     DEF TypeOK, Tick, Late, Keys!Tick, clients
<1>2. CASE \E k \in Client : Expire(k)
  BY <1>2 DEF TypeOK, Expire, Keys!Expire, clients, bounds
<1>3. QED
  BY <1>1, <1>2

LEMMA TypeClient ==
    ASSUME TypeOK, CallState, NEW k \in Client,
           Ask(k) \/ Abandon(k)
    PROVE  TypeOK'
<1>1. ASSUME NEW c \in Call, Try(k, c) PROVE TypeOK'
  BY <1>1 DEF TypeOK, Try, Keys!Ask, bounds
<1>2. CASE Deliver(k)
  <2>1. answer' = answer /\ answer[attempt[k]] = answer[attempt[k]]
    BY <1>2 DEF Deliver, keys
  <2>2. /\ told' \in [Client -> Final \cup {Nil}]
        /\ after' \in [Client -> Nat]
    BY <1>2 DEF TypeOK, Deliver
  <2>3. attempt' \in [Client -> Call \cup {Nil}]
    BY <1>2 DEF TypeOK, Deliver
  <2>4. QED
    BY <1>2, <2>2, <2>3 DEF TypeOK, Deliver, keys, bounds
<1>3. CASE Abandon(k)
  BY <1>3, RetryAssumption DEF TypeOK, Abandon, Loss, keys
<1>4. QED
  BY <1>1, <1>2, <1>3 DEF Ask

LEMMA TypeAcquire ==
    ASSUME TypeOK, CallState, NEW c \in Call,
           Acquire(c) \/ Unavailable(c) \/ ReserveUnheard(c)
    PROVE  TypeOK'
<1>1. CASE Reserve(c)
  <2>1. scope[c] \in Client
    BY <1>1, ScopeOfCall DEF Reserve, Keys!Reserve
  <2>2. slot' \in [Client -> Slot \cup {Nil}]
    BY <1>1, <2>1, Records DEF TypeOK, Reserve, Keys!Reserve, Keys!Grant
  <2>3. QED
    BY <1>1, <2>2 DEF TypeOK, Reserve, Keys!Reserve, clients, bounds
<1>2. CASE ReserveUnheard(c)
  <2>1. scope[c] \in Client
    BY <1>2, ScopeOfCall DEF ReserveUnheard, Keys!ReserveUnheard
  <2>2. slot' \in [Client -> Slot \cup {Nil}]
    BY <1>2, <2>1, Records
       DEF TypeOK, ReserveUnheard, Keys!ReserveUnheard, Keys!Grant
  <2>3. answer' \in [Call -> Answer \cup {Nil}]
    BY <1>2, Records
       DEF TypeOK, ReserveUnheard, Keys!ReserveUnheard, Keys!End, Keys!Told, Code
  <2>4. QED
    BY <1>2, <2>1, <2>2, <2>3, RetryAssumption
       DEF TypeOK, ReserveUnheard, Keys!ReserveUnheard, Keys!End, Fault, Excuse,
           clients
<1>3. CASE Replay(c)
  <2>1. scope[c] \in Client
    BY <1>3, ScopeOfCall DEF Replay, Keys!Replay
  <2>2. slot[scope[c]] \in Slot
    BY <1>3, <2>1 DEF TypeOK, Replay, Keys!Replay
  <2>3. answer' \in [Call -> Answer \cup {Nil}]
    BY <1>3, <2>2, Records DEF TypeOK, Replay, Keys!Replay, Keys!End, Code
  <2>4. QED
    BY <1>3, <2>3 DEF TypeOK, Replay, Keys!Replay, Keys!End, clients, bounds
<1>4. CASE Busy(c) \/ Unavailable(c)
  <2>1. answer' \in [Call -> Answer \cup {Nil}]
    <3>1. \E a \in Code : Keys!End(c, Keys!Told(a))
      BY <1>4, Answers DEF Busy, Keys!Busy, Unavailable, Keys!Unavailable
    <3>2. QED
      BY <3>1, Answers DEF TypeOK, Keys!End
  <2>2. losses' \in 0..MaxLosses
    BY <1>4, RetryAssumption DEF TypeOK, Busy, Unavailable, Loss
  <2>3. QED
    BY <1>4, <2>1, <2>2
       DEF TypeOK, Busy, Keys!Busy, Unavailable, Keys!Unavailable, Keys!End,
           clients
<1>5. QED
  BY <1>1, <1>2, <1>3, <1>4 DEF Acquire

LEMMA TypeExecute ==
    ASSUME TypeOK, CallState, NEW c \in Call, Execute(c) \/ ExecuteFails(c)
    PROVE  TypeOK'
<1>1. scope[c] \in Client
  BY ScopeOfCall DEF Execute, ExecuteFails, Executing
<1>2. /\ result' \in [Call -> Final \cup {"transient", Nil}]
      /\ users' \in [Mail -> Call \cup {Nil}]
  BY <1>1 DEF TypeOK, Execute, ExecuteFails, Created, Exists, Insert, Outcome, Final
<1>3. faults' \in 0..MaxFaults /\ excused' \in SUBSET Client
  BY <1>1, RetryAssumption
     DEF TypeOK, Execute, ExecuteFails, Fault, Excuse, bounds
<1>4. QED
  BY <1>2, <1>3 DEF TypeOK, Execute, ExecuteFails, keys, clients, bounds

LEMMA TypeSettle ==
    ASSUME TypeOK, CallState, NEW c \in Call,
           Complete(c) \/ Release(c) \/ SettleFails(c) \/ Crash(c)
    PROVE  TypeOK'
<1>1. phase[c] \in {"asking", "running"}
  BY DEF Complete, Release, SettleFails, Crash, Keys!Store, Keys!Free,
         Keys!Leave, Keys!Vanish
<1>2. scope[c] \in Client
  BY <1>1, ScopeOfCall
<1>3. slot' \in [Client -> Slot \cup {Nil}]
  <2>1. CASE Complete(c) /\ Keys!Store(c, result[c])
    <3>1. slot[scope[c]] \in Slot
      BY <1>2, <2>1 DEF TypeOK, Keys!Store, Keys!Holds, Keys!Reserved
    <3>2. QED
      BY <1>2, <2>1, <3>1, Records DEF TypeOK, Complete, Keys!Store
  <2>2. CASE ~(Complete(c) /\ Keys!Store(c, result[c]))
    BY <1>2, <2>2
       DEF TypeOK, Complete, Release, SettleFails, Crash, Keys!Free, Keys!Leave,
           Keys!Vanish
  <2>3. QED
    BY <2>1, <2>2
<1>4. answer' \in [Call -> Answer \cup {Nil}]
  <2>1. result[c] # Nil => result[c] \in Code
    BY Answers DEF TypeOK
  <2>2. answer' = answer \/ \E a \in Code : Keys!End(c, Keys!Executed(c, a))
    BY <2>1, Answers, Records
       DEF Complete, Release, SettleFails, Crash, Keys!Store, Keys!Free,
           Keys!Leave, Keys!Vanish
  <2>3. QED
    BY <2>2, Answers DEF TypeOK, Keys!End
<1>5. faults' \in 0..MaxFaults /\ excused' \in SUBSET Client
  BY <1>2, RetryAssumption
     DEF TypeOK, Complete, Release, SettleFails, Crash, Fault, Excuse, bounds
<1>6. QED
  BY <1>3, <1>4, <1>5
     DEF TypeOK, Complete, Release, SettleFails, Crash, Keys!Store, Keys!Free,
         Keys!Leave, Keys!Vanish, Keys!End, clients, bounds

LEMMA TypeStutter == TypeOK /\ UNCHANGED vars => TypeOK'
  BY DEF TypeOK, vars, keys, clients, bounds

-----------------------------------------------------------------------------
(* Consequences of the invariant *)

(* A slot whose time is over, under a key that is not excused, holds a     *)
(* result nobody pursues.                                                  *)
LEMMA OverdueSlot ==
    ASSUME IndInv, NEW k \in Client, k \notin excused, slot[k] # Nil,
           slot[k].loose \/ Keys!Until(k) <= clock
    PROVE  slot[k].result # Nil /\ ~Pursued(k)
<1>1. slot[k] \in Slot /\ slot[k].by \in Call /\ scope[slot[k].by] = k
  BY Records DEF IndInv, TypeOK, Bookkeeping, SlotOfClient
<1>2. ~slot[k].loose
  BY DEF IndInv, Promise, Firm
<1>3. Keys!Until(k) <= clock
  BY <1>2
<1>4. ASSUME slot[k].result = Nil PROVE FALSE
  <2>1. phase[slot[k].by] = "running"
    BY <1>4 DEF IndInv, Promise, Firm
  <2>2. began[slot[k].by] + LockTimeout <= clock
    BY <1>3, <1>4 DEF Keys!Until
  <2>3. k \in Late(clock)
    BY <1>1, <2>1, <2>2 DEF Late, UnderWay
  <2>4. QED
    BY <2>3 DEF IndInv, Bookkeeping, LateExcused
<1>5. ASSUME slot[k].result # Nil, Pursued(k) PROVE FALSE
  <2>1. began[slot[k].by] + TTL <= clock
    BY <1>3, <1>5 DEF Keys!Until
  <2>2. k \in Late(clock)
    BY <1>1, <1>5, <2>1 DEF Late
  <2>3. QED
    BY <2>2 DEF IndInv, Bookkeeping, LateExcused
<1>6. QED
  BY <1>4, <1>5

(* While an attempt is under way, a final answer under its key is in the   *)
(* slot.                                                                   *)
LEMMA VerdictInSlot ==
    ASSUME IndInv, NEW c \in Call, NEW d \in Call, UnderWay(c),
           scope[d] = scope[c], scope[c] \notin excused, IsFinal(d)
    PROVE  slot[scope[c]] # Nil /\ slot[scope[c]].result = answer[d].code
<1>1. scope[c] \in Client
  BY ScopeOfCall DEF IndInv, Bookkeeping, UnderWay
<1>2. Pursued(scope[c])
  BY DEF Pursued
<1>3. QED
  BY <1>1, <1>2 DEF IndInv, Promise, Verdict

(* An attempt that runs has the key to itself, and nobody has an answer.   *)
LEMMA AloneWhileRunning ==
    ASSUME IndInv, NEW c \in Call, phase[c] = "running", scope[c] \notin excused,
           NEW d \in Call, scope[d] = scope[c]
    PROVE  /\ Keys!Holds(c)
           /\ d # c => phase[d] # "running"
           /\ ~IsFinal(d)
<1>1. Keys!Holds(c)
  BY DEF IndInv, Promise, Held
<1>2. d # c => phase[d] # "running"
  BY <1>1 DEF IndInv, Promise, Held, Keys!Holds
<1>3. ~IsFinal(d)
  <2>1. SUFFICES ASSUME IsFinal(d) PROVE FALSE
    OBVIOUS
  <2>2. UnderWay(c)
    BY DEF UnderWay
  <2>3. slot[scope[c]].result = answer[d].code /\ answer[d].code \in Final
    BY <2>1, <2>2, VerdictInSlot DEF IsFinal
  <2>4. QED
    BY <1>1, <2>3, Records DEF Keys!Holds, Keys!Reserved
<1>4. QED
  BY <1>1, <1>2, <1>3

(* An attempt of a client that is not excused does not find an account of  *)
(* that client.                                                            *)
LEMMA TakenByOthers ==
    ASSUME IndInv, NEW c \in Call, Executing(c), scope[c] \notin excused,
           users[Wanted[scope[c]]] # Nil
    PROVE  scope[users[Wanted[scope[c]]]] # scope[c]
<1> DEFINE d == users[Wanted[scope[c]]]
<1>1. scope[c] \in Client /\ phase[c] = "running" /\ result[c] = Nil
  BY ScopeOfCall DEF IndInv, Bookkeeping, Executing
<1>2. Wanted[scope[c]] \in Mail /\ d \in Call
  BY <1>1, RetryAssumption DEF IndInv, TypeOK
<1>3. SUFFICES ASSUME scope[d] = scope[c] PROVE FALSE
  OBVIOUS
<1>4. result[d] = "ok"
  BY <1>2, <1>3 DEF IndInv, Bookkeeping, CreatorKnows
<1>5. d # c
  BY <1>1, <1>4, Answers, NothingAssumption
<1>6. phase[d] # "running" /\ ~IsFinal(d)
  BY <1>1, <1>2, <1>3, <1>5, AloneWhileRunning
<1>7. phase[d] = "over"
  BY <1>2, <1>4, <1>6, Answers, NothingAssumption DEF IndInv, Bookkeeping, CallState
<1>8. IsFinal(d)
  BY <1>2, <1>3, <1>4, <1>7 DEF IndInv, Promise, Answered, Final
<1>9. QED
  BY <1>6, <1>8

-----------------------------------------------------------------------------
(* Steps of time and of clients *)

(* More clients are excused, and nothing but the clock moves. *)
LEMMA ExcusingStep ==
    ASSUME IndInv, excused \subseteq excused',
           UNCHANGED <<slot, phase, scope, answer, users, result, attempt, told>>,
           LateExcused'
    PROVE  Bookkeeping' /\ Promise'
<1>1. Bookkeeping'
  BY DEF IndInv, Bookkeeping, CallState, AttemptOfClient, ResultTrue,
         CreatorKnows, SlotOfClient, AnswerOfResult, ToldOfResult, IsFinal
<1>2. Held' /\ Firm' /\ Answered'
  BY DEF IndInv, Promise, Held, Firm, Answered, IsFinal, Keys!Holds, Keys!Reserved
<1>3. Verdict'
  BY DEF IndInv, Promise, Verdict, IsFinal, Pursued, UnderWay
<1>4. OneVerdict' /\ Others'
  BY DEF IndInv, Promise, OneVerdict, Others
<1>5. QED
  BY <1>1, <1>2, <1>3, <1>4 DEF Promise

LEMMA TickStep ==
    ASSUME IndInv, Tick
    PROVE  Bookkeeping' /\ Promise'
<1>1. /\ clock' = clock + 1
      /\ excused' = excused \cup Late(clock + 1)
      /\ UNCHANGED <<slot, phase, scope, hash, began, answer, users, result,
                     attempt, told>>
  BY DEF Tick, Keys!Tick, clients
<1>2. LateExcused'
  BY <1>1 DEF LateExcused, Late, Pursued, UnderWay
<1>3. QED
  BY <1>1, <1>2, ExcusingStep

LEMMA StutterStep ==
    ASSUME IndInv, UNCHANGED vars
    PROVE  Bookkeeping' /\ Promise'
<1>1. LateExcused'
  BY DEF IndInv, Bookkeeping, LateExcused, Late, Pursued, UnderWay, vars, keys,
         clients
<1>2. QED
  BY <1>1, ExcusingStep DEF vars, keys, clients

LEMMA ExpireStep ==
    ASSUME IndInv, NEW k \in Client, Expire(k)
    PROVE  Bookkeeping' /\ Promise'
<1>1. /\ slot[k] # Nil
      /\ slot[k].loose \/ Keys!Until(k) <= clock
      /\ slot' = [j \in Client |-> IF j \in {k} THEN Nil ELSE slot[j]]
      /\ UNCHANGED <<clock, phase, scope, hash, began, answer, users, result,
                     attempt, told, excused>>
  BY DEF Expire, Keys!Expire, clients
<1>2. slot'[k] = Nil /\ \A j \in Client : j # k => slot'[j] = slot[j]
  BY <1>1
<1>3. k \notin excused => slot[k].result # Nil /\ ~Pursued(k)
  BY <1>1, OverdueSlot
<1>4. Bookkeeping'
  <2>1. CallState' /\ AttemptOfClient' /\ ResultTrue' /\ CreatorKnows'
    BY <1>1 DEF IndInv, Bookkeeping, CallState, AttemptOfClient, ResultTrue,
                CreatorKnows
  <2>2. SlotOfClient'
    BY <1>1, <1>2 DEF IndInv, Bookkeeping, SlotOfClient
  <2>3. AnswerOfResult' /\ ToldOfResult'
    BY <1>1 DEF IndInv, Bookkeeping, AnswerOfResult, ToldOfResult, IsFinal
  <2>4. LateExcused'
    BY <1>1 DEF IndInv, Bookkeeping, LateExcused, Late, Pursued, UnderWay
  <2>5. QED
    BY <2>1, <2>2, <2>3, <2>4 DEF Bookkeeping
<1>5. Held'
  <2>1. SUFFICES ASSUME NEW c \in Call, phase[c] = "running", scope[c] \notin excused
                 PROVE  Keys!Holds(c)'
    BY <1>1 DEF Held
  <2>2. scope[c] \in Client /\ Keys!Holds(c)
    BY <2>1, ScopeOfCall DEF IndInv, Bookkeeping, Promise, Held
  <2>3. scope[c] # k
    BY <1>3, <2>1, <2>2 DEF Keys!Holds, Keys!Reserved
  <2>4. QED
    BY <1>1, <1>2, <2>2, <2>3 DEF Keys!Holds, Keys!Reserved
<1>6. Firm' /\ Answered'
  BY <1>1, <1>2 DEF IndInv, Promise, Firm, Answered, IsFinal
<1>7. Verdict'
  <2>1. SUFFICES ASSUME NEW c \in Call, IsFinal(c), scope[c] \notin excused
                 PROVE  \/ slot'[scope[c]] # Nil /\ slot'[scope[c]].result = answer[c].code
                        \/ ~Pursued(scope[c])
    BY <1>1 DEF Verdict, IsFinal, Pursued, UnderWay
  <2>2. scope[c] \in Client
    BY <2>1, ScopeOfCall DEF IndInv, Bookkeeping, CallState, IsFinal
  <2>3. QED
    BY <1>2, <1>3, <2>1, <2>2 DEF IndInv, Promise, Verdict
<1>8. OneVerdict' /\ Others'
  BY <1>1 DEF IndInv, Promise, OneVerdict, Others
<1>9. QED
  BY <1>4, <1>5, <1>6, <1>7, <1>8 DEF Promise

LEMMA TryStep ==
    ASSUME IndInv, TypeOK', NEW k \in Client, NEW c \in Call, Try(k, c)
    PROVE  Bookkeeping' /\ Promise'
<1>1. /\ told[k] = Nil
      /\ phase[c] = "new"
      /\ phase' = [phase EXCEPT ![c] = "asking"]
      /\ scope' = [scope EXCEPT ![c] = k]
      /\ began' = [began EXCEPT ![c] = clock]
      /\ attempt' = [attempt EXCEPT ![k] = c]
      /\ UNCHANGED <<clock, slot, answer, users, result, told, excused>>
  BY DEF Try, Keys!Ask
<1>2. /\ phase'[c] = "asking" /\ scope'[c] = k /\ began'[c] = clock
      /\ \A d \in Call : d # c => /\ phase'[d] = phase[d]
                                  /\ scope'[d] = scope[d]
                                  /\ began'[d] = began[d]
  BY <1>1 DEF IndInv, TypeOK
<1>3. scope[c] = Nil /\ result[c] = Nil /\ answer[c] = Nil
  BY <1>1 DEF IndInv, Bookkeeping, CallState
<1>4. \A d \in Call : result[d] # Nil \/ answer[d] # Nil => d # c /\ scope[d] \in Client
  BY <1>3, ScopeOfCall DEF IndInv, Bookkeeping, CallState
<1>5. CallState'
  BY <1>1, <1>2, <1>3, NothingAssumption DEF IndInv, Bookkeeping, CallState
<1>6. AttemptOfClient'
  BY <1>1, <1>2, <1>3, NothingAssumption DEF IndInv, TypeOK, Bookkeeping, AttemptOfClient
<1>7. ResultTrue'
  BY <1>1, <1>2, <1>4, Answers, NothingAssumption DEF IndInv, Bookkeeping, ResultTrue
<1>8. CreatorKnows'
  BY <1>1, <1>2, <1>3 DEF IndInv, TypeOK, Bookkeeping, CreatorKnows
<1>9. SlotOfClient'
  BY <1>1, <1>2, <1>3, Records, NothingAssumption
     DEF IndInv, TypeOK, Bookkeeping, SlotOfClient
<1>10. AnswerOfResult'
  <2>1. SUFFICES ASSUME NEW d \in Call, IsFinal(d)
                 PROVE  /\ answer[d].by \in Call
                        /\ scope'[answer[d].by] = scope'[d]
                        /\ result[answer[d].by] = answer[d].code
    BY <1>1 DEF AnswerOfResult, IsFinal
  <2>2. /\ answer[d].by \in Call
        /\ scope[answer[d].by] = scope[d]
        /\ result[answer[d].by] = answer[d].code
        /\ d # c /\ scope[d] \in Client
    BY <1>4, <2>1 DEF IndInv, Bookkeeping, AnswerOfResult, IsFinal
  <2>3. answer[d].by # c
    BY <1>3, <2>2, NothingAssumption
  <2>4. QED
    BY <1>2, <2>2, <2>3
<1>11. ToldOfResult'
  BY <1>1, <1>2, <1>3, NothingAssumption DEF IndInv, Bookkeeping, ToldOfResult
<1>12. \A j \in Client : Pursued(j)' => Pursued(j)
  BY <1>1, <1>2, <1>3 DEF Pursued, UnderWay
<1>13. LateExcused'
  <2>1. SUFFICES ASSUME NEW j \in Client, j \in Late(clock)'
                 PROVE  j \in Late(clock)
    BY <1>1 DEF IndInv, Bookkeeping, LateExcused
  <2>2. PICK d \in Call : /\ scope'[d] = j
                          /\ \/ UnderWay(d)' /\ began'[d] + LockTimeout <= clock
                             \/ Pursued(j)' /\ began'[d] + TTL <= clock
    BY <1>1, <2>1 DEF Late
  <2>3. d # c
    BY <1>2, <2>2, RetryAssumption DEF IndInv, TypeOK
  <2>4. QED
    BY <1>2, <1>12, <2>2, <2>3 DEF Late, UnderWay
<1>14. Held' /\ Firm' /\ Answered'
  <2>1. \A j \in Client : slot[j] # Nil => slot[j].by \in Call /\ slot[j].by # c
    BY <1>3, Records, NothingAssumption
       DEF IndInv, TypeOK, Bookkeeping, SlotOfClient
  <2>2. QED
    BY <1>1, <1>2, <1>3, <2>1, Records
       DEF IndInv, Promise, Held, Firm, Answered, IsFinal, Keys!Holds, Keys!Reserved
<1>15. Verdict'
  BY <1>1, <1>2, <1>4, <1>12 DEF IndInv, Promise, Verdict, IsFinal
<1>16. OneVerdict' /\ Others'
  <2>1. OneVerdict'
    BY <1>1, <1>2, <1>4 DEF IndInv, Promise, OneVerdict
  <2>2. Others'
    <3>1. SUFFICES ASSUME NEW d \in Call, result[d] = "stable", scope'[d] \notin excused
                   PROVE  scope'[users[Wanted[scope'[d]]]] # scope'[d]
      BY <1>1 DEF Others
    <3>2. d # c /\ scope'[d] = scope[d] /\ scope[d] \in Client
      BY <1>2, <1>4, <3>1, Answers, NothingAssumption
    <3>3. Wanted[scope[d]] \in Mail /\ users[Wanted[scope[d]]] # Nil
      BY <3>1, <3>2, RetryAssumption DEF IndInv, Bookkeeping, ResultTrue
    <3>4. users[Wanted[scope[d]]] \in Call \ {c}
      BY <1>3, <3>3 DEF IndInv, TypeOK, Bookkeeping, CreatorKnows
    <3>5. QED
      BY <1>2, <3>1, <3>2, <3>4 DEF IndInv, Promise, Others
  <2>3. QED
    BY <2>1, <2>2
<1>17. QED
  BY <1>5, <1>6, <1>7, <1>8, <1>9, <1>10, <1>11, <1>13, <1>14, <1>15, <1>16
     DEF Bookkeeping, Promise

LEMMA DeliverStep ==
    ASSUME IndInv, TypeOK', NEW k \in Client, Deliver(k)
    PROVE  Bookkeeping' /\ Promise'
<1> DEFINE c == attempt[k]
<1>1. /\ c \in Call /\ scope[c] = k
      /\ \/ /\ IsFinal(c)
            /\ told' = [told EXCEPT ![k] = answer[c].code]
         \/ told' = told
      /\ attempt' = [attempt EXCEPT ![k] = Nil]
      /\ UNCHANGED <<clock, slot, phase, scope, began, answer, users, result, excused>>
  BY DEF IndInv, TypeOK, Bookkeeping, AttemptOfClient, Deliver, IsFinal, keys
<1>2. \A j \in Client : Pursued(j)' => Pursued(j)
  <2>1. \A j \in Client : told[j] # Nil => told'[j] # Nil
    BY <1>1, Records DEF IndInv, TypeOK, IsFinal
  <2>2. QED
    BY <1>1, <2>1 DEF Pursued, UnderWay
<1>3. CallState' /\ ResultTrue' /\ CreatorKnows' /\ SlotOfClient' /\ AnswerOfResult'
  BY <1>1 DEF IndInv, Bookkeeping, CallState, ResultTrue, CreatorKnows,
              SlotOfClient, AnswerOfResult, IsFinal
<1>4. AttemptOfClient'
  BY <1>1 DEF IndInv, TypeOK, Bookkeeping, AttemptOfClient
<1>5. ToldOfResult'
  <2>1. IsFinal(c) => \E d \in Call : scope[d] = k /\ result[d] = answer[c].code
    BY <1>1 DEF IndInv, Bookkeeping, AnswerOfResult
  <2>2. QED
    BY <1>1, <2>1 DEF IndInv, TypeOK, Bookkeeping, ToldOfResult
<1>6. LateExcused'
  BY <1>1, <1>2 DEF IndInv, Bookkeeping, LateExcused, Late, UnderWay
<1>7. Held' /\ Firm' /\ Answered'
  BY <1>1 DEF IndInv, Promise, Held, Firm, Answered, IsFinal, Keys!Holds, Keys!Reserved
<1>8. Verdict'
  <2>1. \A d \in Call : IsFinal(d) => scope[d] \in Client
    BY ScopeOfCall DEF IndInv, Bookkeeping, CallState, IsFinal
  <2>2. QED
    BY <1>1, <1>2, <2>1 DEF IndInv, Promise, Verdict, IsFinal
<1>9. OneVerdict' /\ Others'
  BY <1>1 DEF IndInv, Promise, OneVerdict, Others
<1>10. QED
  BY <1>3, <1>4, <1>5, <1>6, <1>7, <1>8, <1>9 DEF Bookkeeping, Promise

LEMMA AbandonStep ==
    ASSUME IndInv, TypeOK', NEW k \in Client, Abandon(k)
    PROVE  Bookkeeping' /\ Promise'
<1>1. /\ attempt' = [attempt EXCEPT ![k] = Nil]
      /\ UNCHANGED <<clock, slot, phase, scope, began, answer, users, result, told,
                     excused>>
  BY DEF Abandon, keys
<1>2. AttemptOfClient'
  BY <1>1 DEF IndInv, TypeOK, Bookkeeping, AttemptOfClient
<1>3. CallState' /\ ResultTrue' /\ CreatorKnows' /\ SlotOfClient' /\ AnswerOfResult'
  BY <1>1 DEF IndInv, Bookkeeping, CallState, ResultTrue, CreatorKnows,
              SlotOfClient, AnswerOfResult, IsFinal
<1>4. ToldOfResult' /\ LateExcused'
  BY <1>1 DEF IndInv, Bookkeeping, ToldOfResult, LateExcused, Late, Pursued, UnderWay
<1>5. Held' /\ Firm' /\ Answered'
  BY <1>1 DEF IndInv, Promise, Held, Firm, Answered, IsFinal, Keys!Holds, Keys!Reserved
<1>6. Verdict' /\ OneVerdict' /\ Others'
  BY <1>1 DEF IndInv, Promise, Verdict, OneVerdict, Others, IsFinal, Pursued, UnderWay
<1>7. QED
  BY <1>2, <1>3, <1>4, <1>5, <1>6 DEF Bookkeeping, Promise

-----------------------------------------------------------------------------
(* Steps of attempts: reserving the key *)

LEMMA ReserveStep ==
    ASSUME IndInv, TypeOK', NEW c \in Call, Reserve(c)
    PROVE  Bookkeeping' /\ Promise'
<1> DEFINE k == scope[c]
<1>1. /\ phase[c] = "asking"
      /\ phase' = [phase EXCEPT ![c] = "running"]
      /\ slot[k] # Nil => Keys!Until(k) <= clock
      /\ UNCHANGED <<clock, scope, began, answer, users, result, attempt, told,
                     excused>>
  BY DEF Reserve, Keys!Reserve, Keys!Grant, clients
<1>2. PICK loose \in BOOLEAN :
          /\ loose => slot[k] # Nil
          /\ slot' = [slot EXCEPT ![k] = [by |-> c, result |-> Nil, loose |-> loose]]
  BY DEF Reserve, Keys!Reserve, Keys!Grant
<1>3. k \in Client
  BY <1>1, ScopeOfCall DEF IndInv, Bookkeeping
<1>4. /\ slot'[k] # Nil /\ slot'[k].by = c /\ slot'[k].result = Nil
      /\ slot'[k].loose = loose
      /\ \A j \in Client : j # k => slot'[j] = slot[j]
  BY <1>2, <1>3, Records DEF IndInv, TypeOK
<1>5. /\ phase'[c] = "running"
      /\ \A d \in Call : d # c => phase'[d] = phase[d]
      /\ \A d \in Call : UnderWay(d)' <=> UnderWay(d)
  BY <1>1 DEF IndInv, TypeOK, UnderWay
<1>6. Pursued(k) /\ \A j \in Client : Pursued(j)' <=> Pursued(j)
  BY <1>1, <1>5 DEF Pursued, UnderWay
<1>7. k \notin excused => slot[k] = Nil
  BY <1>1, <1>3, <1>6, OverdueSlot
<1>8. Bookkeeping'
  <2>1. CallState'
    BY <1>1, <1>5 DEF IndInv, Bookkeeping, CallState
  <2>2. AttemptOfClient' /\ ResultTrue' /\ CreatorKnows' /\ AnswerOfResult' /\ ToldOfResult'
    BY <1>1 DEF IndInv, Bookkeeping, AttemptOfClient, ResultTrue, CreatorKnows,
                AnswerOfResult, ToldOfResult, IsFinal
  <2>3. SlotOfClient'
    BY <1>1, <1>4 DEF IndInv, Bookkeeping, SlotOfClient
  <2>4. LateExcused'
    BY <1>1, <1>5, <1>6 DEF IndInv, Bookkeeping, LateExcused, Late
  <2>5. QED
    BY <2>1, <2>2, <2>3, <2>4 DEF Bookkeeping
<1>9. Held'
  <2>1. SUFFICES ASSUME NEW d \in Call, phase'[d] = "running", scope[d] \notin excused
                 PROVE  Keys!Holds(d)'
    BY <1>1 DEF Held
  <2>2. CASE d = c
    BY <1>1, <1>4, <2>2 DEF Keys!Holds, Keys!Reserved
  <2>3. CASE d # c
    <3>1. Keys!Holds(d) /\ scope[d] \in Client
      BY <1>5, <2>1, <2>3, ScopeOfCall DEF IndInv, Bookkeeping, Promise, Held
    <3>2. scope[d] # k
      BY <1>7, <2>1, <3>1 DEF Keys!Holds, Keys!Reserved
    <3>3. QED
      BY <1>1, <1>4, <3>1, <3>2 DEF Keys!Holds, Keys!Reserved
  <2>4. QED
    BY <2>2, <2>3
<1>10. Firm'
  <2>1. SUFFICES ASSUME NEW j \in Client, j \notin excused, slot'[j] # Nil
                 PROVE  /\ ~slot'[j].loose
                        /\ slot'[j].result = Nil => phase'[slot'[j].by] = "running"
    BY <1>1 DEF Firm
  <2>2. CASE j = k
    BY <1>2, <1>4, <1>5, <1>7, <2>1, <2>2
  <2>3. CASE j # k
    <3>1. slot'[j] = slot[j] /\ slot[j].by \in Call
      BY <1>4, <2>1, <2>3, Records DEF IndInv, TypeOK
    <3>2. QED
      BY <1>5, <2>1, <3>1 DEF IndInv, Promise, Firm
  <2>4. QED
    BY <2>2, <2>3
<1>11. Answered'
  BY <1>1, <1>5 DEF IndInv, Promise, Answered, IsFinal
<1>12. Verdict'
  <2>1. SUFFICES ASSUME NEW d \in Call, IsFinal(d), scope[d] \notin excused
                 PROVE  \/ slot'[scope[d]] # Nil /\ slot'[scope[d]].result = answer[d].code
                        \/ ~Pursued(scope[d])
    <3>1. \A d \in Call : IsFinal(d) => scope[d] \in Client
      BY ScopeOfCall DEF IndInv, Bookkeeping, CallState, IsFinal
    <3>2. QED
      BY <1>1, <1>6, <3>1 DEF Verdict, IsFinal
  <2>2. scope[d] \in Client
    BY <2>1, ScopeOfCall DEF IndInv, Bookkeeping, CallState, IsFinal
  <2>3. scope[d] # k
    BY <1>6, <1>7, <2>1 DEF IndInv, Promise, Verdict
  <2>4. QED
    BY <1>4, <2>1, <2>2, <2>3 DEF IndInv, Promise, Verdict
<1>13. OneVerdict' /\ Others'
  BY <1>1 DEF IndInv, Promise, OneVerdict, Others
<1>14. QED
  BY <1>8, <1>9, <1>10, <1>11, <1>12, <1>13 DEF Promise

-----------------------------------------------------------------------------
(* Steps of attempts: their end *)

(* Attempt c is over; the slot of its key may change, its client's answer  *)
(* too.                                                                    *)
Ends(c) ==
    /\ UnderWay(c)
    /\ phase' = [phase EXCEPT ![c] = "over"]
    /\ \A d \in Call : d # c => answer'[d] = answer[d]
    /\ \A j \in Client : j # scope[c] => slot'[j] = slot[j]
    /\ UNCHANGED <<clock, scope, began, users, result, attempt, told>>
    /\ excused \subseteq excused'

LEMMA EndFacts ==
    ASSUME IndInv, NEW c \in Call, Ends(c)
    PROVE  /\ scope[c] \in Client
           /\ phase'[c] = "over"
           /\ \A d \in Call : d # c => phase'[d] = phase[d]
           /\ \A d \in Call : UnderWay(d)' => UnderWay(d)
           /\ \A j \in Client : Pursued(j)' => Pursued(j)
           /\ Pursued(scope[c])
<1>1. scope[c] \in Client
  BY ScopeOfCall DEF Ends, UnderWay, IndInv, Bookkeeping
<1>2. phase'[c] = "over" /\ \A d \in Call : d # c => phase'[d] = phase[d]
  BY DEF IndInv, TypeOK, Ends
<1>3. \A d \in Call : UnderWay(d)' => UnderWay(d)
  BY <1>2 DEF UnderWay
<1>4. \A j \in Client : Pursued(j)' => Pursued(j)
  BY <1>3 DEF Pursued, Ends
<1>5. Pursued(scope[c])
  BY DEF Pursued, Ends
<1>6. QED
  BY <1>1, <1>2, <1>3, <1>4, <1>5

LEMMA EndBookkeeping ==
    ASSUME IndInv, NEW c \in Call, Ends(c),
           slot'[scope[c]] # Nil =>
               \/ slot'[scope[c]] = slot[scope[c]]
               \/ /\ slot'[scope[c]].by = c
                  /\ slot'[scope[c]].result # Nil => slot'[scope[c]].result = result[c],
           IsFinal(c)' => /\ answer'[c].by \in Call
                          /\ scope[answer'[c].by] = scope[c]
                          /\ result[answer'[c].by] = answer'[c].code
    PROVE  Bookkeeping'
<1>1. CallState'
  <2>1. SUFFICES ASSUME NEW d \in Call
                 PROVE  /\ phase'[d] = "new" <=> scope[d] = Nil
                        /\ result[d] # Nil => phase'[d] \in {"running", "over"}
                        /\ answer'[d] # Nil => phase'[d] = "over"
    BY DEF CallState, Ends
  <2>2. CASE d = c
    BY <2>2, EndFacts, NothingAssumption
  <2>3. CASE d # c
    <3>1. phase'[d] = phase[d] /\ answer'[d] = answer[d]
      BY <2>3, EndFacts DEF Ends
    <3>2. QED
      BY <3>1 DEF IndInv, Bookkeeping, CallState
  <2>4. QED
    BY <2>2, <2>3
<1>2. AttemptOfClient' /\ ResultTrue' /\ CreatorKnows' /\ ToldOfResult'
  BY DEF IndInv, Bookkeeping, AttemptOfClient, ResultTrue, CreatorKnows,
         ToldOfResult, Ends
<1>3. SlotOfClient'
  <2>1. SUFFICES ASSUME NEW j \in Client, slot'[j] # Nil
                 PROVE  /\ scope[slot'[j].by] = j
                        /\ slot'[j].result # Nil => slot'[j].result = result[slot'[j].by]
    BY DEF SlotOfClient, Ends
  <2>2. CASE j = scope[c] /\ slot'[j] # slot[j]
    BY <2>1, <2>2
  <2>3. CASE slot'[j] = slot[j]
    BY <2>1, <2>3 DEF IndInv, Bookkeeping, SlotOfClient
  <2>4. QED
    BY <2>2, <2>3 DEF Ends
<1>4. AnswerOfResult'
  <2>1. SUFFICES ASSUME NEW d \in Call, IsFinal(d)'
                 PROVE  /\ answer'[d].by \in Call
                        /\ scope[answer'[d].by] = scope[d]
                        /\ result[answer'[d].by] = answer'[d].code
    BY DEF AnswerOfResult, Ends
  <2>2. CASE d = c
    BY <2>1, <2>2
  <2>3. CASE d # c
    <3>1. answer'[d] = answer[d] /\ IsFinal(d)
      BY <2>1, <2>3 DEF Ends, IsFinal
    <3>2. QED
      BY <3>1 DEF IndInv, Bookkeeping, AnswerOfResult
  <2>4. QED
    BY <2>2, <2>3
<1>5. LateExcused'
  <2>1. \A j \in Client : j \in Late(clock)' => j \in Late(clock)
    BY EndFacts DEF Late, Ends
  <2>2. QED
    BY <2>1 DEF IndInv, Bookkeeping, LateExcused, Ends
<1>6. QED
  BY <1>1, <1>2, <1>3, <1>4, <1>5 DEF Bookkeeping

(* Nothing is promised to the client any more, *)
LEMMA ExcusedEnd ==
    ASSUME IndInv, TypeOK', NEW c \in Call, Ends(c), scope[c] \in excused'
    PROVE  Promise'
<1>1. Held'
  <2>1. SUFFICES ASSUME NEW d \in Call, phase'[d] = "running", scope[d] \notin excused'
                 PROVE  Keys!Holds(d)'
    BY DEF Held, Ends
  <2>2. d # c /\ phase[d] = "running" /\ scope[d] # scope[c] /\ scope[d] \notin excused
    BY <2>1, EndFacts DEF Ends
  <2>3. Keys!Holds(d) /\ scope[d] \in Client
    BY <2>2, ScopeOfCall DEF IndInv, Bookkeeping, Promise, Held
  <2>4. QED
    BY <2>2, <2>3 DEF Keys!Holds, Keys!Reserved, Ends
<1>2. Firm'
  <2>1. SUFFICES ASSUME NEW j \in Client, j \notin excused', slot'[j] # Nil
                 PROVE  /\ ~slot'[j].loose
                        /\ slot'[j].result = Nil => phase'[slot'[j].by] = "running"
    BY DEF Firm
  <2>2. slot'[j] = slot[j] /\ j # scope[c] /\ j \notin excused
    BY <2>1 DEF Ends
  <2>3. slot[j].by \in Call /\ scope[slot[j].by] = j
    BY <2>1, <2>2, Records DEF IndInv, TypeOK, Bookkeeping, SlotOfClient
  <2>4. QED
    BY <2>1, <2>2, <2>3, EndFacts DEF IndInv, Promise, Firm
<1>3. Answered'
  BY EndFacts DEF IndInv, Promise, Answered, IsFinal, Ends
<1>4. Verdict'
  <2>1. SUFFICES ASSUME NEW d \in Call, IsFinal(d)', scope[d] \notin excused'
                 PROVE  \/ slot'[scope[d]] # Nil /\ slot'[scope[d]].result = answer'[d].code
                        \/ ~Pursued(scope[d])'
    BY DEF Verdict, Ends
  <2>2. /\ d # c /\ scope[d] # scope[c] /\ scope[d] \notin excused
        /\ IsFinal(d) /\ answer'[d] = answer[d]
    BY <2>1 DEF IsFinal, Ends
  <2>3. scope[d] \in Client
    BY <2>2, ScopeOfCall DEF IndInv, Bookkeeping, CallState, IsFinal
  <2>4. QED
    BY <2>2, <2>3, EndFacts DEF IndInv, Promise, Verdict, Ends
<1>5. OneVerdict' /\ Others'
  BY DEF IndInv, Promise, OneVerdict, Others, Ends
<1>6. QED
  BY <1>1, <1>2, <1>3, <1>4, <1>5 DEF Promise

(* or the attempt reserved nothing and its answer, if it is final, is the  *)
(* one in the slot,                                                        *)
LEMMA AskingEnd ==
    ASSUME IndInv, TypeOK', NEW c \in Call, Ends(c), phase[c] = "asking",
           slot' = slot,
           IsFinal(c)' => slot[scope[c]] # Nil /\ slot[scope[c]].result = answer'[c].code
    PROVE  Promise'
<1>1. Held'
  BY EndFacts DEF IndInv, Promise, Held, Ends, Keys!Holds, Keys!Reserved
<1>2. Firm'
  <2>1. \A j \in Client : slot[j] # Nil => slot[j].by \in Call
    BY Records DEF IndInv, TypeOK
  <2>2. QED
    BY <2>1, EndFacts DEF IndInv, Promise, Firm, Ends
<1>3. Answered'
  <2>1. result[c] = Nil
    BY DEF IndInv, Bookkeeping, CallState
  <2>2. QED
    BY <2>1, EndFacts, Records DEF IndInv, Promise, Answered, IsFinal, Ends
<1>4. \A d \in Call : /\ IsFinal(d)' /\ scope[d] = scope[c] /\ scope[c] \notin excused
                      => /\ slot[scope[c]] # Nil
                         /\ slot[scope[c]].result = answer'[d].code
  <2>1. SUFFICES ASSUME NEW d \in Call, IsFinal(d)', scope[d] = scope[c],
                        scope[c] \notin excused, d # c
                 PROVE  /\ slot[scope[c]] # Nil
                        /\ slot[scope[c]].result = answer'[d].code
    OBVIOUS
  <2>2. IsFinal(d) /\ answer'[d] = answer[d]
    BY <2>1 DEF IsFinal, Ends
  <2>3. QED
    BY <2>1, <2>2, VerdictInSlot DEF Ends
<1>5. Verdict'
  <2>1. SUFFICES ASSUME NEW d \in Call, IsFinal(d)', scope[d] \notin excused'
                 PROVE  \/ slot[scope[d]] # Nil /\ slot[scope[d]].result = answer'[d].code
                        \/ ~Pursued(scope[d])'
    BY DEF Verdict, Ends
  <2>2. CASE scope[d] = scope[c]
    BY <1>4, <2>1, <2>2 DEF Ends
  <2>3. CASE scope[d] # scope[c]
    <3>1. IsFinal(d) /\ answer'[d] = answer[d] /\ scope[d] \notin excused
      BY <2>1, <2>3 DEF IsFinal, Ends
    <3>2. scope[d] \in Client
      BY <3>1, ScopeOfCall DEF IndInv, Bookkeeping, CallState, IsFinal
    <3>3. QED
      BY <3>1, <3>2, EndFacts DEF IndInv, Promise, Verdict, Ends
  <2>4. QED
    BY <2>2, <2>3
<1>6. OneVerdict'
  <2>1. SUFFICES ASSUME NEW d \in Call, NEW e \in Call, IsFinal(d)', IsFinal(e)',
                        scope[d] # Nil, scope[d] = scope[e], scope[d] \notin excused'
                 PROVE  answer'[d].code = answer'[e].code
    BY DEF OneVerdict, IsFinal, Ends
  <2>2. CASE scope[d] = scope[c]
    BY <1>4, <2>1, <2>2 DEF Ends
  <2>3. CASE scope[d] # scope[c]
    BY <2>1, <2>3 DEF IndInv, Promise, OneVerdict, IsFinal, Ends
  <2>4. QED
    BY <2>2, <2>3
<1>7. Others'
  BY DEF IndInv, Promise, Others, Ends
<1>8. QED
  BY <1>1, <1>2, <1>3, <1>5, <1>6, <1>7 DEF Promise

(* or it held the key and left its final result there, or nothing. *)
LEMMA HolderEnd ==
    ASSUME IndInv, TypeOK', NEW c \in Call, Ends(c), phase[c] = "running",
           scope[c] \notin excused',
           \/ /\ slot'[scope[c]] # Nil /\ ~slot'[scope[c]].loose
              /\ result[c] \in Final /\ IsFinal(c)'
              /\ slot'[scope[c]].result = result[c] /\ answer'[c].code = result[c]
           \/ slot'[scope[c]] = Nil /\ result[c] \notin Final /\ ~IsFinal(c)'
    PROVE  Promise'
<1>1. scope[c] \notin excused /\ scope[c] \in Client
  BY EndFacts DEF Ends
<1>2. \A d \in Call : scope[d] = scope[c] /\ d # c =>
          phase[d] # "running" /\ ~IsFinal(d) /\ answer'[d] = answer[d]
  BY <1>1, AloneWhileRunning DEF Ends
<1>3. Held'
  <2>1. SUFFICES ASSUME NEW d \in Call, phase'[d] = "running", scope[d] \notin excused'
                 PROVE  Keys!Holds(d)'
    BY DEF Held, Ends
  <2>2. d # c /\ phase[d] = "running" /\ scope[d] # scope[c] /\ scope[d] \notin excused
    BY <1>2, <2>1, EndFacts DEF Ends
  <2>3. Keys!Holds(d) /\ scope[d] \in Client
    BY <2>2, ScopeOfCall DEF IndInv, Bookkeeping, Promise, Held
  <2>4. QED
    BY <2>2, <2>3 DEF Keys!Holds, Keys!Reserved, Ends
<1>4. Firm'
  <2>1. SUFFICES ASSUME NEW j \in Client, j \notin excused', slot'[j] # Nil
                 PROVE  /\ ~slot'[j].loose
                        /\ slot'[j].result = Nil => phase'[slot'[j].by] = "running"
    BY DEF Firm
  <2>2. CASE j = scope[c]
    BY <2>1, <2>2, Records
  <2>3. CASE j # scope[c]
    <3>1. slot'[j] = slot[j] /\ j \notin excused
      BY <2>1, <2>3 DEF Ends
    <3>2. slot[j].by \in Call /\ scope[slot[j].by] = j
      BY <2>1, <3>1, Records DEF IndInv, TypeOK, Bookkeeping, SlotOfClient
    <3>3. QED
      BY <2>1, <2>3, <3>1, <3>2, EndFacts DEF IndInv, Promise, Firm
  <2>4. QED
    BY <2>2, <2>3
<1>5. Answered'
  BY EndFacts DEF IndInv, Promise, Answered, IsFinal, Ends
<1>6. Verdict'
  <2>1. SUFFICES ASSUME NEW d \in Call, IsFinal(d)', scope[d] \notin excused'
                 PROVE  \/ slot'[scope[d]] # Nil /\ slot'[scope[d]].result = answer'[d].code
                        \/ ~Pursued(scope[d])'
    BY DEF Verdict, Ends
  <2>2. CASE d = c
    BY <2>1, <2>2
  <2>3. CASE d # c
    <3>1. IsFinal(d) /\ answer'[d] = answer[d] /\ scope[d] \notin excused
      BY <2>1, <2>3 DEF IsFinal, Ends
    <3>2. scope[d] # scope[c] /\ scope[d] \in Client
      BY <1>2, <2>3, <3>1, ScopeOfCall DEF IndInv, Bookkeeping, CallState, IsFinal
    <3>3. QED
      BY <3>1, <3>2, EndFacts DEF IndInv, Promise, Verdict, Ends
  <2>4. QED
    BY <2>2, <2>3
<1>7. OneVerdict'
  <2>1. SUFFICES ASSUME NEW d \in Call, NEW e \in Call, IsFinal(d)', IsFinal(e)',
                        scope[d] # Nil, scope[d] = scope[e], scope[d] \notin excused'
                 PROVE  answer'[d].code = answer'[e].code
    BY DEF OneVerdict, IsFinal, Ends
  <2>2. CASE scope[d] = scope[c]
    BY <1>2, <2>1, <2>2 DEF IsFinal
  <2>3. CASE scope[d] # scope[c]
    BY <2>1, <2>3 DEF IndInv, Promise, OneVerdict, IsFinal, Ends
  <2>4. QED
    BY <2>2, <2>3
<1>8. Others'
  BY DEF IndInv, Promise, Others, Ends
<1>9. QED
  BY <1>3, <1>4, <1>5, <1>6, <1>7, <1>8 DEF Promise

LEMMA BusyStep ==
    ASSUME IndInv, TypeOK', NEW c \in Call, Busy(c) \/ Unavailable(c)
    PROVE  Bookkeeping' /\ Promise'
<1>1. PICK a \in {"busy", "unavailable"} :
          /\ phase[c] = "asking"
          /\ phase' = [phase EXCEPT ![c] = "over"]
          /\ answer' = [answer EXCEPT ![c] = Keys!Told(a)]
          /\ UNCHANGED <<clock, slot, scope, began, users, result, attempt, told,
                         excused>>
  BY DEF Busy, Unavailable, Keys!Busy, Keys!Unavailable, Keys!End, clients
<1>2. Ends(c)
  BY <1>1 DEF IndInv, TypeOK, Ends, UnderWay
<1>3. ~IsFinal(c)'
  BY <1>1, Answers DEF IndInv, TypeOK, IsFinal
<1>4. QED
  BY <1>1, <1>2, <1>3, EndBookkeeping, AskingEnd

LEMMA ReplayStep ==
    ASSUME IndInv, TypeOK', NEW c \in Call, Replay(c)
    PROVE  Bookkeeping' /\ Promise'
<1> DEFINE r == slot[scope[c]]
<1>1. /\ phase[c] = "asking"
      /\ r # Nil /\ r.result # Nil
      /\ phase' = [phase EXCEPT ![c] = "over"]
      /\ answer' = [answer EXCEPT ![c] =
                       [code |-> r.result, by |-> r.by, replayed |-> TRUE]]
      /\ UNCHANGED <<clock, slot, scope, began, users, result, attempt, told,
                     excused>>
  BY DEF Replay, Keys!Replay, Keys!End, clients
<1>2. Ends(c)
  BY <1>1 DEF IndInv, TypeOK, Ends, UnderWay
<1>3. scope[c] \in Client
  BY <1>2, EndFacts
<1>4. r.by \in Call /\ scope[r.by] = scope[c] /\ r.result = result[r.by]
  BY <1>1, <1>3, Records DEF IndInv, TypeOK, Bookkeeping, SlotOfClient
<1>5. answer'[c].by = r.by /\ answer'[c].code = r.result
  BY <1>1 DEF IndInv, TypeOK
<1>6. QED
  BY <1>1, <1>2, <1>4, <1>5, EndBookkeeping, AskingEnd

LEMMA ReserveUnheardStep ==
    ASSUME IndInv, TypeOK', NEW c \in Call, ReserveUnheard(c)
    PROVE  Bookkeeping' /\ Promise'
<1> DEFINE k == scope[c]
<1>1. /\ phase[c] = "asking"
      /\ phase' = [phase EXCEPT ![c] = "over"]
      /\ answer' = [answer EXCEPT ![c] = Keys!Told("unavailable")]
      /\ excused' = excused \cup {k}
      /\ UNCHANGED <<clock, scope, began, users, result, attempt, told>>
  BY DEF ReserveUnheard, Keys!ReserveUnheard, Keys!End, Excuse, clients
<1>2. PICK loose \in BOOLEAN :
          slot' = [slot EXCEPT ![k] = [by |-> c, result |-> Nil, loose |-> loose]]
  BY DEF ReserveUnheard, Keys!ReserveUnheard, Keys!Grant
<1>3. Ends(c)
  BY <1>1, <1>2 DEF IndInv, TypeOK, Ends, UnderWay
<1>4. slot'[k].by = c /\ slot'[k].result = Nil
  BY <1>2, <1>3, EndFacts DEF IndInv, TypeOK
<1>5. ~IsFinal(c)'
  BY <1>1, Answers DEF IndInv, TypeOK, IsFinal
<1>6. QED
  BY <1>1, <1>3, <1>4, <1>5, EndBookkeeping, ExcusedEnd

(* An attempt answers with its result and leaves the key alone. *)
LEMMA LeaveStep ==
    ASSUME IndInv, TypeOK', NEW c \in Call, Keys!Leave(c, result[c]),
           result[c] # Nil, excused \subseteq excused', scope[c] \in excused',
           UNCHANGED <<users, result, attempt, told>>
    PROVE  Bookkeeping' /\ Promise'
<1>1. /\ phase[c] = "running"
      /\ phase' = [phase EXCEPT ![c] = "over"]
      /\ answer' = [answer EXCEPT ![c] = Keys!Executed(c, result[c])]
      /\ UNCHANGED <<clock, slot, scope, began>>
  BY DEF Keys!Leave, Keys!End
<1>2. Ends(c)
  BY <1>1 DEF IndInv, TypeOK, Ends, UnderWay
<1>3. result[c] \in Code
  BY Answers DEF IndInv, TypeOK
<1>4. answer'[c].by = c /\ answer'[c].code = result[c]
  BY <1>1, <1>3, Answers DEF IndInv, TypeOK
<1>5. QED
  BY <1>1, <1>2, <1>4, EndBookkeeping, ExcusedEnd

LEMMA CompleteStep ==
    ASSUME IndInv, TypeOK', NEW c \in Call, Complete(c)
    PROVE  Bookkeeping' /\ Promise'
<1>1. /\ result[c] \in Final /\ result[c] # Nil /\ result[c] \in Code
      /\ UNCHANGED <<users, result, attempt, told, excused>>
  BY Records, Answers DEF Complete, clients
<1>2. CASE ~Keys!Holds(c) /\ Keys!Leave(c, result[c])
  <2>1. scope[c] \in excused
    BY <1>2 DEF IndInv, Promise, Held, Keys!Leave
  <2>2. QED
    BY <1>1, <1>2, <2>1, LeaveStep
<1>3. CASE Keys!Store(c, result[c])
  <2>1. /\ phase[c] = "running" /\ Keys!Holds(c)
        /\ phase' = [phase EXCEPT ![c] = "over"]
        /\ answer' = [answer EXCEPT ![c] = Keys!Executed(c, result[c])]
        /\ slot' = [slot EXCEPT ![scope[c]] =
                       [by |-> c, result |-> result[c],
                        loose |-> slot[scope[c]].loose]]
        /\ UNCHANGED <<clock, scope, began>>
    BY <1>3 DEF Keys!Store, Keys!End
  <2>2. Ends(c)
    BY <1>1, <2>1 DEF IndInv, TypeOK, Ends, UnderWay
  <2>3. scope[c] \in Client
    BY <2>2, EndFacts
  <2>4. slot[scope[c]] # Nil /\ slot[scope[c]].loose \in BOOLEAN
    BY <2>1, <2>3, Records DEF IndInv, TypeOK, Keys!Holds, Keys!Reserved
  <2>5. /\ slot'[scope[c]].by = c /\ slot'[scope[c]].result = result[c]
        /\ slot'[scope[c]] # Nil
        /\ slot'[scope[c]].loose = slot[scope[c]].loose
    BY <1>1, <2>1, <2>3, <2>4, Records DEF IndInv, TypeOK
  <2>6. answer'[c].by = c /\ answer'[c].code = result[c] /\ IsFinal(c)'
    BY <1>1, <2>1, Answers DEF IndInv, TypeOK, IsFinal
  <2>7. Bookkeeping'
    BY <1>1, <2>2, <2>5, <2>6, EndBookkeeping
  <2>8. CASE scope[c] \in excused
    BY <1>1, <2>2, <2>7, <2>8, ExcusedEnd
  <2>9. CASE scope[c] \notin excused
    <3>1. ~slot'[scope[c]].loose
      BY <2>3, <2>4, <2>5, <2>9 DEF IndInv, Promise, Firm
    <3>2. QED
      BY <1>1, <2>1, <2>2, <2>5, <2>6, <2>7, <2>9, <3>1, HolderEnd
  <2>10. QED
    BY <2>8, <2>9
<1>4. QED
  BY <1>2, <1>3 DEF Complete

LEMMA ReleaseStep ==
    ASSUME IndInv, TypeOK', NEW c \in Call, Release(c)
    PROVE  Bookkeeping' /\ Promise'
<1>1. /\ result[c] = "transient" /\ result[c] # Nil /\ result[c] \notin Final
      /\ result[c] \in Code
      /\ UNCHANGED <<users, result, attempt, told, excused>>
  BY Answers, NothingAssumption DEF Release, clients
<1>2. CASE ~Keys!Holds(c) /\ Keys!Leave(c, "transient")
  <2>1. scope[c] \in excused
    BY <1>2 DEF IndInv, Promise, Held, Keys!Leave
  <2>2. QED
    BY <1>1, <1>2, <2>1, LeaveStep
<1>3. CASE Keys!Free(c)
  <2>1. /\ phase[c] = "running"
        /\ phase' = [phase EXCEPT ![c] = "over"]
        /\ answer' = [answer EXCEPT ![c] = Keys!Executed(c, "transient")]
        /\ slot' = [slot EXCEPT ![scope[c]] = Nil]
        /\ UNCHANGED <<clock, scope, began>>
    BY <1>3 DEF Keys!Free, Keys!End
  <2>2. Ends(c)
    BY <1>1, <2>1 DEF IndInv, TypeOK, Ends, UnderWay
  <2>3. slot'[scope[c]] = Nil
    BY <2>1, <2>2, EndFacts DEF IndInv, TypeOK
  <2>4. ~IsFinal(c)'
    BY <1>1, <2>1, Answers DEF IndInv, TypeOK, IsFinal
  <2>5. Bookkeeping'
    BY <2>2, <2>3, <2>4, EndBookkeeping
  <2>6. QED
    BY <1>1, <2>1, <2>2, <2>3, <2>4, <2>5, ExcusedEnd, HolderEnd
<1>4. QED
  BY <1>2, <1>3 DEF Release

LEMMA SettleFailsStep ==
    ASSUME IndInv, TypeOK', NEW c \in Call, SettleFails(c)
    PROVE  Bookkeeping' /\ Promise'
  BY LeaveStep DEF SettleFails, Excuse, clients

LEMMA CrashStep ==
    ASSUME IndInv, TypeOK', NEW c \in Call, Crash(c)
    PROVE  Bookkeeping' /\ Promise'
<1>1. /\ UnderWay(c)
      /\ phase' = [phase EXCEPT ![c] = "over"]
      /\ phase[c] = "running" => scope[c] \in excused'
      /\ excused \subseteq excused'
      /\ UNCHANGED <<clock, slot, scope, began, answer, users, result, attempt, told>>
  BY DEF Crash, Keys!Vanish, Excuse, UnderWay, clients
<1>2. Ends(c)
  BY <1>1 DEF Ends
<1>3. ~IsFinal(c)'
  BY <1>1 DEF IndInv, Bookkeeping, CallState, IsFinal, UnderWay
<1>4. Bookkeeping'
  BY <1>1, <1>2, <1>3, EndBookkeeping
<1>5. QED
  BY <1>1, <1>2, <1>3, <1>4, AskingEnd, ExcusedEnd DEF UnderWay

-----------------------------------------------------------------------------
(* Steps of attempts: the handler *)

(* A handler returns r, and may have created the account. *)
LEMMA HandlerStep ==
    ASSUME IndInv, TypeOK', NEW c \in Call, Executing(c),
           NEW r \in {"ok", "stable", "transient"},
           result' = [result EXCEPT ![c] = r],
           \/ users' = users
           \/ /\ users[Wanted[scope[c]]] = Nil
              /\ users' = [users EXCEPT ![Wanted[scope[c]]] = c]
              /\ r = "ok" \/ scope[c] \in excused',
           r = "ok" => users'[Wanted[scope[c]]] = c,
           r = "stable" => users[Wanted[scope[c]]] # Nil,
           excused \subseteq excused',
           UNCHANGED <<clock, slot, phase, scope, began, answer, attempt, told>>
    PROVE  Bookkeeping' /\ Promise'
<1> DEFINE m == Wanted[scope[c]]
<1>1. phase[c] = "running" /\ result[c] = Nil /\ scope[c] \in Client /\ m \in Mail
  BY ScopeOfCall, RetryAssumption DEF IndInv, Bookkeeping, Executing
<1>2. r # Nil /\ r \in Code /\ result'[c] = r
  BY Answers, NothingAssumption DEF IndInv, TypeOK
<1>3. \A d \in Call : d # c => result'[d] = result[d]
  BY DEF IndInv, TypeOK
<1>4. \A d \in Call : result[d] # Nil => result'[d] = result[d] /\ scope[d] \in Client
  BY <1>1, <1>3, ScopeOfCall DEF IndInv, Bookkeeping, CallState
<1>5. \A n \in Mail : users[n] # Nil => users'[n] = users[n]
  BY <1>1 DEF IndInv, TypeOK
<1>6. CallState'
  BY <1>1, <1>3 DEF IndInv, Bookkeeping, CallState
<1>7. AttemptOfClient'
  BY DEF IndInv, Bookkeeping, AttemptOfClient
<1>8. ResultTrue'
  <2>1. SUFFICES ASSUME NEW d \in Call
                 PROVE  /\ result'[d] = "ok" => users'[Wanted[scope[d]]] = d
                        /\ result'[d] = "stable" => users'[Wanted[scope[d]]] # Nil
    BY DEF ResultTrue
  <2>2. CASE d = c
    BY <1>1, <1>2, <1>5, <2>2
  <2>3. CASE d # c /\ result[d] \in {"ok", "stable"}
    <3>1. Wanted[scope[d]] \in Mail
      BY <1>4, <2>3, RetryAssumption, Answers, NothingAssumption
    <3>2. /\ result[d] = "ok" => users[Wanted[scope[d]]] = d
          /\ result[d] = "stable" => users[Wanted[scope[d]]] # Nil
      BY DEF IndInv, Bookkeeping, ResultTrue
    <3>3. QED
      BY <1>3, <1>5, <2>3, <3>1, <3>2, NothingAssumption
  <2>4. QED
    BY <1>3, <2>2, <2>3
<1>9. CreatorKnows'
  <2>1. SUFFICES ASSUME NEW n \in Mail, users'[n] # Nil
                 PROVE  /\ scope[users'[n]] # Nil
                        /\ result'[users'[n]] = "ok" \/ scope[users'[n]] \in excused'
    BY DEF CreatorKnows
  <2>2. CASE users[n] # Nil
    <3>1. users'[n] = users[n] /\ users[n] \in Call
      BY <1>5, <2>2 DEF IndInv, TypeOK
    <3>2. /\ scope[users[n]] # Nil
          /\ result[users[n]] = "ok" \/ scope[users[n]] \in excused
      BY <2>2 DEF IndInv, Bookkeeping, CreatorKnows
    <3>3. QED
      BY <1>4, <3>1, <3>2, Answers, NothingAssumption
  <2>3. CASE users[n] = Nil
    <3>1. n = m /\ users'[n] = c /\ (r = "ok" \/ scope[c] \in excused')
      BY <1>1, <2>1, <2>3 DEF IndInv, TypeOK
    <3>2. QED
      BY <1>1, <1>2, <3>1, NothingAssumption
  <2>4. QED
    BY <2>2, <2>3
<1>10. SlotOfClient'
  <2>1. SUFFICES ASSUME NEW j \in Client, slot[j] # Nil, slot[j].result # Nil
                 PROVE  slot[j].result = result'[slot[j].by]
    BY DEF IndInv, Bookkeeping, SlotOfClient
  <2>2. slot[j].by \in Call /\ slot[j].result = result[slot[j].by]
    BY <2>1, Records DEF IndInv, TypeOK, Bookkeeping, SlotOfClient
  <2>3. QED
    BY <1>4, <2>1, <2>2
<1>11. AnswerOfResult'
  <2>1. SUFFICES ASSUME NEW d \in Call, IsFinal(d)
                 PROVE  /\ answer[d].by \in Call
                        /\ scope[answer[d].by] = scope[d]
                        /\ result'[answer[d].by] = answer[d].code
    BY DEF AnswerOfResult, IsFinal
  <2>2. /\ answer[d].by \in Call
        /\ scope[answer[d].by] = scope[d]
        /\ result[answer[d].by] = answer[d].code
        /\ answer[d].code # Nil
    BY <2>1, Records DEF IndInv, Bookkeeping, AnswerOfResult, IsFinal
  <2>3. QED
    BY <1>4, <2>2
<1>12. ToldOfResult'
  BY <1>4 DEF IndInv, Bookkeeping, ToldOfResult
<1>13. LateExcused'
  <2>1. Late(clock)' = Late(clock)
    BY DEF Late, Pursued, UnderWay
  <2>2. QED
    BY <2>1 DEF IndInv, Bookkeeping, LateExcused
<1>14. Held' /\ Firm'
  BY DEF IndInv, Promise, Held, Firm, Keys!Holds, Keys!Reserved
<1>15. Answered'
  BY <1>1, <1>3 DEF IndInv, Promise, Answered, IsFinal
<1>16. Verdict' /\ OneVerdict'
  BY DEF IndInv, Promise, Verdict, OneVerdict, IsFinal, Pursued, UnderWay
<1>17. Others'
  <2>1. SUFFICES ASSUME NEW d \in Call, result'[d] = "stable", scope[d] \notin excused'
                 PROVE  scope[users'[Wanted[scope[d]]]] # scope[d]
    BY DEF Others
  <2>2. CASE d = c
    <3>1. users[m] # Nil /\ scope[c] \notin excused
      BY <1>2, <2>1, <2>2
    <3>2. QED
      BY <1>1, <1>5, <2>2, <3>1, TakenByOthers
  <2>3. CASE d # c
    <3>1. result[d] = "stable" /\ scope[d] \notin excused
      BY <1>3, <2>1, <2>3
    <3>2. Wanted[scope[d]] \in Mail
      BY <1>4, <3>1, RetryAssumption, Answers, NothingAssumption
    <3>3. users'[Wanted[scope[d]]] = users[Wanted[scope[d]]]
      BY <1>5, <3>1, <3>2 DEF IndInv, Bookkeeping, ResultTrue
    <3>4. QED
      BY <3>1, <3>3 DEF IndInv, Promise, Others
  <2>4. QED
    BY <2>2, <2>3
<1>18. QED
  BY <1>6, <1>7, <1>8, <1>9, <1>10, <1>11, <1>12, <1>13, <1>14, <1>15, <1>16, <1>17
     DEF Bookkeeping, Promise

LEMMA ExecuteStep ==
    ASSUME IndInv, TypeOK', NEW c \in Call, Execute(c) \/ ExecuteFails(c)
    PROVE  Bookkeeping' /\ Promise'
<1>1. Executing(c) /\ scope[c] \in Client /\ Wanted[scope[c]] \in Mail
  BY ScopeOfCall, RetryAssumption
     DEF IndInv, Bookkeeping, Execute, ExecuteFails, Executing
<1>2. UNCHANGED <<clock, slot, phase, scope, began, answer, attempt, told>>
  BY DEF Execute, ExecuteFails, keys, clients
<1>3. CASE Execute(c) /\ Created(c)
  <2>1. /\ users[Wanted[scope[c]]] = Nil
        /\ users' = [users EXCEPT ![Wanted[scope[c]]] = c]
        /\ result' = [result EXCEPT ![c] = "ok"]
        /\ excused' = excused
    BY <1>3 DEF Execute, Created, Insert, Outcome
  <2>2. users'[Wanted[scope[c]]] = c
    BY <1>1, <2>1 DEF IndInv, TypeOK
  <2>3. QED
    BY <1>1, <1>2, <2>1, <2>2, HandlerStep
<1>4. CASE Execute(c) /\ Exists(c)
  BY <1>1, <1>2, <1>4, HandlerStep DEF Execute, Exists, Outcome
<1>5. CASE ExecuteFails(c)
  <2>1. /\ result' = [result EXCEPT ![c] = "transient"]
        /\ excused \subseteq excused'
        /\ \/ users' = users
           \/ /\ users[Wanted[scope[c]]] = Nil
              /\ users' = [users EXCEPT ![Wanted[scope[c]]] = c]
              /\ scope[c] \in excused'
    BY <1>5 DEF ExecuteFails, Insert, Outcome, Excuse
  <2>2. QED
    BY <1>1, <1>2, <2>1, HandlerStep
<1>6. QED
  BY <1>3, <1>4, <1>5 DEF Execute

-----------------------------------------------------------------------------
(* Theorems *)

LEMMA InitInv == Init => IndInv
<1>1. SUFFICES ASSUME Init PROVE IndInv
  OBVIOUS
<1>2. TypeOK
  BY <1>1, RetryAssumption DEF Init, TypeOK, Keys!Init
<1>3. /\ \A c \in Call : /\ phase[c] = "new" /\ scope[c] = Nil
                         /\ answer[c] = Nil /\ result[c] = Nil
      /\ \A k \in Client : slot[k] = Nil /\ attempt[k] = Nil /\ told[k] = Nil
      /\ \A m \in Mail : users[m] = Nil
  BY <1>1 DEF Init, Keys!Init
<1>4. CallState /\ AttemptOfClient /\ CreatorKnows /\ SlotOfClient /\ ToldOfResult
  BY <1>3 DEF CallState, AttemptOfClient, CreatorKnows, SlotOfClient, ToldOfResult
<1>5. ResultTrue /\ Answered /\ Others
  BY <1>3, Answers, NothingAssumption DEF ResultTrue, Answered, Others
<1>6. AnswerOfResult /\ Held /\ Firm /\ Verdict /\ OneVerdict
  BY <1>3 DEF AnswerOfResult, Held, Firm, Verdict, OneVerdict, IsFinal
<1>7. LateExcused
  BY <1>3, NothingAssumption DEF LateExcused, Late
<1>8. QED
  BY <1>2, <1>4, <1>5, <1>6, <1>7 DEF IndInv, Bookkeeping, Promise

LEMMA StepInv == IndInv /\ [Next]_vars => IndInv'
<1> SUFFICES ASSUME IndInv, [Next]_vars PROVE IndInv'
  OBVIOUS
<1>1. TypeOK /\ CallState
  BY DEF IndInv, Bookkeeping
<1>2. CASE Tick
  BY <1>1, <1>2, TypeTime, TickStep DEF IndInv
<1>3. CASE Settled \/ UNCHANGED vars
  BY <1>1, <1>3, TypeStutter, StutterStep DEF IndInv, Settled
<1>4. ASSUME NEW k \in Client, Ask(k) \/ Abandon(k) \/ Expire(k) PROVE IndInv'
  <2>1. TypeOK'
    BY <1>1, <1>4, TypeTime, TypeClient
  <2>2. Bookkeeping' /\ Promise'
    BY <1>4, <2>1, TryStep, DeliverStep, AbandonStep, ExpireStep DEF Ask
  <2>3. QED
    BY <2>1, <2>2 DEF IndInv
<1>5. ASSUME NEW c \in Call, Serve(c) PROVE IndInv'
  <2>1. TypeOK'
    BY <1>1, <1>5, TypeAcquire, TypeExecute, TypeSettle DEF Serve
  <2>2. Bookkeeping' /\ Promise'
    BY <1>5, <2>1, ReserveStep, ReplayStep, BusyStep, ExecuteStep, CompleteStep,
       ReleaseStep DEF Serve, Acquire
  <2>3. QED
    BY <2>1, <2>2 DEF IndInv
<1>6. ASSUME NEW c \in Call, Fail(c) PROVE IndInv'
  <2>1. TypeOK'
    BY <1>1, <1>6, TypeAcquire, TypeExecute, TypeSettle DEF Fail
  <2>2. Bookkeeping' /\ Promise'
    BY <1>6, <2>1, BusyStep, ReserveUnheardStep, ExecuteStep, SettleFailsStep,
       CrashStep DEF Fail
  <2>3. QED
    BY <2>1, <2>2 DEF IndInv
<1>7. QED
  BY <1>2, <1>3, <1>4, <1>5, <1>6 DEF Next

LEMMA Invariance == Spec => []IndInv
  BY InitInv, StepInv, PTL DEF Spec

(* The variables of the composition keep their types. *)
THEOREM TypeCorrect == Spec => []TypeOK
<1>1. IndInv => TypeOK
  BY DEF IndInv
<1>2. QED
  BY Invariance, <1>1, PTL

(* What CreateUser tells a client that retries is true: after "ok" the     *)
(* account is its own, after USER_EMAIL_EXISTS it is another's, unless an  *)
(* attempt failed, outlived its lock or went on beyond the TTL.            *)
THEOREM ToldTruly == Spec => []ToldTrue
<1>1. IndInv => ToldTrue
  <2>1. SUFFICES ASSUME IndInv, NEW k \in Client, told[k] # Nil
                 PROVE  LET by == users[Wanted[k]]
                        IN  /\ by # Nil
                            /\ told[k] = "ok" => scope[by] = k
                            /\ told[k] = "stable" => scope[by] # k \/ k \in excused
    BY DEF ToldTrue
  <2>2. PICK c \in Call : scope[c] = k /\ result[c] = told[k]
    BY <2>1 DEF IndInv, Bookkeeping, ToldOfResult
  <2>3. told[k] \in {"ok", "stable"}
    BY <2>1 DEF IndInv, TypeOK, Final
  <2>4. /\ told[k] = "ok" => users[Wanted[k]] = c
        /\ told[k] = "stable" => users[Wanted[k]] # Nil
    BY <2>1, <2>2 DEF IndInv, Bookkeeping, ResultTrue
  <2>5. told[k] = "stable" => scope[users[Wanted[k]]] # k \/ k \in excused
    BY <2>1, <2>2 DEF IndInv, Promise, Others
  <2>6. QED
    BY <2>2, <2>3, <2>4, <2>5, NothingAssumption
<1>2. QED
  BY Invariance, <1>1, PTL

(* All final answers under one idempotency key agree, outside of the same  *)
(* exceptions.                                                             *)
THEOREM SameVerdict == Spec => []OneVerdict
<1>1. IndInv => OneVerdict
  BY DEF IndInv, Promise
<1>2. QED
  BY Invariance, <1>1, PTL

(* The clients and the handler use their keys as KeyedExecution allows,    *)
(* so that all the above rests on no more than what Idempotency            *)
(* implements (IdempotencyRefinement).                                     *)
THEOREM KeysContract == Spec => Keys!Spec
<1>1. Init => Keys!Init
  BY DEF Init
<1>2. IndInv /\ [Next]_vars => [Keys!Next]_(Keys!vars)
  <2> SUFFICES ASSUME IndInv, [Next]_vars PROVE Keys!Next \/ UNCHANGED Keys!vars
    OBVIOUS
  <2>1. CASE Tick
    BY <2>1 DEF Tick, Keys!Next
  <2>2. CASE Settled \/ UNCHANGED vars
    BY <2>2 DEF Settled, vars, keys, Keys!vars
  <2>3. ASSUME NEW k \in Client, Ask(k) \/ Abandon(k) \/ Expire(k)
        PROVE  Keys!Next \/ UNCHANGED Keys!vars
    <3>1. CASE Expire(k)
      BY <3>1 DEF Expire, Keys!Next
    <3>2. ASSUME NEW c \in Call, Try(k, c) PROVE Keys!Next
      BY <3>2 DEF Try, Keys!Next
    <3>3. CASE Deliver(k) \/ Abandon(k)
      BY <3>3 DEF Deliver, Abandon, keys, Keys!vars
    <3>4. QED
      BY <2>3, <3>1, <3>2, <3>3 DEF Ask
  <2>4. ASSUME NEW c \in Call, Serve(c) \/ Fail(c)
        PROVE  Keys!Next \/ UNCHANGED Keys!vars
    <3>1. CASE Acquire(c) \/ Unavailable(c) \/ ReserveUnheard(c) \/ Crash(c)
      BY <3>1 DEF Acquire, Reserve, Replay, Busy, Unavailable, ReserveUnheard, Crash,
                  Keys!Next
    <3>2. CASE Execute(c) \/ ExecuteFails(c)
      BY <3>2 DEF Execute, ExecuteFails, keys, Keys!vars
    <3>3. CASE Complete(c) \/ Release(c) \/ SettleFails(c)
      <4>1. result[c] # Nil => result[c] \in {"ok", "stable", "transient"}
        BY DEF IndInv, TypeOK, Final
      <4>2. result[c] \in Final => result[c] \in {"ok", "stable"}
        BY DEF Final
      <4>3. QED
        BY <3>3, <4>1, <4>2 DEF Complete, Release, SettleFails, Keys!Next
    <3>4. QED
      BY <2>4, <3>1, <3>2, <3>3 DEF Serve, Fail
  <2>5. QED
    BY <2>1, <2>2, <2>3, <2>4 DEF Next
<1>3. QED
  BY <1>1, <1>2, Invariance, PTL DEF Spec, Keys!Spec

=============================================================================
