---------------------------- MODULE AccessProofs ----------------------------
(***************************************************************************)
(* The invariants of Access, for any number of calls, replicas, accounts   *)
(* and requests.                                                           *)
(*                                                                         *)
(* A call reaches its handler only through steps that saw its account      *)
(* enabled and, where the method has a policy, permitted (CallShape).      *)
(* Accounts are only added, under normalised addresses nobody has          *)
(* (AddsAccount), so a mailbox keeps its one account and what CreateUser   *)
(* said of it stays true (CallAccount).  A replica past the first          *)
(* statement of EnsureAdmin leaves an account with the bootstrap address   *)
(* behind, whoever inserted it (AdminExists).                              *)
(***************************************************************************)
EXTENDS Access, TLAPS

(* What the place of a call says about the rest of its state. *)
CallShape ==
    \A c \in Call :
        /\ pc[c] # "idle" => request[c] # Nil
        /\ pc[c] \in {"validate", "authorize", "handler", "audit"} =>
               identity[c] # Nil /\ c \in seenEnabled
        /\ pc[c] \in {"handler", "audit"} /\ Guarded(c) => c \in seenAllowed
        /\ pc[c] \in {"idle", "authenticate", "validate", "authorize", "handler"}
               => outcome[c] = Nil /\ c \notin applied
        /\ pc[c] = "audit" => outcome[c] # Nil
        /\ c \in applied => c \in seenEnabled
        /\ c \in applied => outcome[c] = "ok" \/ c \in fault
        /\ outcome[c] = "ok" => c \in applied
        /\ outcome[c] # Nil /\ Guarded(c) => c \in seenAllowed
        /\ reply[c] # Nil => pc[c] = "done"
        /\ trail[c] # Nil => reply[c] = trail[c] /\ trail[c] = outcome[c]
        /\ reply[c] # Nil /\ outcome[c] # Nil =>
               /\ reply[c] = outcome[c]
               /\ trail[c] # Nil \/ c \in unrecorded
        /\ reply[c] \in {"ok", "exists"} /\ request[c].method \in Mutation =>
               outcome[c] = reply[c]

(* An executed mutation has an outcome, and a RevokeSession was of the     *)
(* caller's own.                                                           *)
Executed ==
    \A c \in applied :
        /\ outcome[c] # Nil
        /\ pc[c] = "done" => reply[c] # Nil
        /\ pc[c] \in {"audit", "done", "crashed"}
        /\ request[c].method = "RevokeSession" => request[c].user = identity[c]

(* Stored addresses are normalised. *)
PlainEmails == \A i \in Id : users[i] # Nil => users[i].email.plain = TRUE

(* The accounts of calls and replicas are the ones they created. *)
CallAccountOf(c) ==
    /\ users[c] # Nil =>
           c \in applied /\ users[c].email.mail = request[c].email.mail
    /\ outcome[c] = "ok" /\ request[c].method = "CreateUser" => users[c] # Nil
    /\ outcome[c] = "exists" =>
           \E i \in Id \ {c} : /\ users[i] # Nil
                               /\ users[i].email.mail = request[c].email.mail

CallAccount == \A c \in Call : CallAccountOf(c)

ReplicaAccount == \A r \in Replica : users[r] # Nil => IsAdmin(r)

(* EnsureAdmin runs only with an address. *)
BootNeedsAddress ==
    \A r \in Replica : boot[r] \in {"account", "role"} => AdminEmail # Nil

(* The first statement of EnsureAdmin leaves an account behind. *)
AdminExists ==
    AdminEmail # Nil /\ (\E r \in Replica : boot[r] \in {"role", "serving"})
        => \E i \in Id : IsAdmin(i)

IndInv ==
    /\ TypeOK
    /\ CallShape
    /\ Executed
    /\ PlainEmails
    /\ OneAccountPerMailbox
    /\ CallAccount
    /\ ReplicaAccount
    /\ BootNeedsAddress
    /\ AdminExists
    /\ AdminWhenServing

-----------------------------------------------------------------------------
(* Addresses and accounts *)

(* A normalised address is the plain spelling of its mailbox. *)
LEMMA NormaliseType ==
    ASSUME NEW s \in Spelling
    PROVE  /\ Normalise(s) \in Spelling
           /\ Normalise(s).mail = s.mail
           /\ Normalise(s).plain = TRUE
  BY DEF Normalise, Spelling

(* Normalised addresses of one mailbox are equal. *)
LEMMA PlainEqual ==
    ASSUME NEW s \in Spelling, NEW t \in Spelling, s.plain = TRUE,
           t.plain = TRUE, s.mail = t.mail
    PROVE  s = t
  BY DEF Spelling

(* What CreateUser and EnsureAdmin insert is an account. *)
LEMMA NewAccountType ==
    ASSUME NEW e \in Spelling
    PROVE  /\ NewAccount(e) \in Account
           /\ NewAccount(e) # Nil
           /\ NewAccount(e).email = e
<1>1. NewAccount(e) \in Account /\ NewAccount(e).email = e
  BY DEF NewAccount, Account
<1>2. Nil \notin Account
  BY NilAssumption
<1>3. QED
  BY <1>1, <1>2

(* What a request holds. *)
LEMMA RequestType ==
    ASSUME TypeOK, NEW c \in Call, request[c] # Nil
    PROVE  /\ request[c].method \in Method
           /\ request[c].user \in Id \cup {Nil}
           /\ request[c].role \in Role \cup {Nil}
           /\ request[c].permission \in Permission \cup {Nil}
           /\ request[c].email \in Spelling
  BY AccessAssumption DEF TypeOK, WellFormed

(* A step leaves every account with its address, *)
Keeps ==
    \A i \in Id :
        /\ (users'[i] # Nil) <=> (users[i] # Nil)
        /\ users[i] # Nil => users'[i].email = users[i].email

(* or adds one under an address nobody has. *)
Adds(i, s) ==
    /\ ~Taken(Normalise(s))
    /\ users' = [users EXCEPT ![i] = NewAccount(Normalise(s))]

-----------------------------------------------------------------------------
(* Typing *)

(* A mutation's statement keeps the tables in their types. *)
LEMMA EffectType ==
    ASSUME TypeOK, NEW c \in Call, request[c] # Nil, Effect(c)
    PROVE  /\ users' \in [Id -> Account \cup {Nil}]
           /\ userRoles' \in [Id -> SUBSET Role]
           /\ rolePerms' \in [Role -> SUBSET Permission]
           /\ sessions' \in SUBSET Id
           /\ applied' \in SUBSET Call
           /\ demoted' \in BOOLEAN
<1>0. applied' \in SUBSET Call
  BY DEF TypeOK, Effect
<1>1. CASE CreateEffect(c)
  <2>1. Normalise(request[c].email) \in Spelling
    BY RequestType, NormaliseType
  <2>2. NewAccount(Normalise(request[c].email)) \in Account
    BY <2>1, NewAccountType
  <2>3. QED
    BY <1>0, <1>1, <2>2 DEF TypeOK, CreateEffect
<1>2. CASE AssignRoleEffect(c)
  <2>1. request[c].role \in Role
    BY <1>2, RequestType DEF AssignRoleEffect
  <2>2. QED
    BY <1>0, <1>2, <2>1 DEF TypeOK, AssignRoleEffect
<1>3. CASE RemoveRoleEffect(c)
  BY <1>0, <1>3 DEF TypeOK, RemoveRoleEffect
<1>4. CASE AssignPermissionEffect(c)
  <2>1. request[c].permission \in Permission
    BY <1>4, RequestType DEF AssignPermissionEffect
  <2>2. QED
    BY <1>0, <1>4, <2>1 DEF TypeOK, AssignPermissionEffect
<1>5. CASE RemovePermissionEffect(c)
  BY <1>0, <1>5 DEF TypeOK, RemovePermissionEffect
<1>6. CASE RevokeEffect(c)
  BY <1>0, <1>6 DEF TypeOK, RevokeEffect
<1>7. QED
  BY <1>1, <1>2, <1>3, <1>4, <1>5, <1>6 DEF Effect

(* The histories only name calls. *)
LEMMA ObserveType ==
    ASSUME TypeOK, Observe
    PROVE  seenEnabled' \in SUBSET Call /\ seenAllowed' \in SUBSET Call
  BY DEF TypeOK, Observe

(* The steps of EnsureAdmin and crashes keep the types, *)
LEMMA StartType ==
    ASSUME TypeOK, BootNeedsAddress, NEW r \in Replica, Start(r)
    PROVE  TypeOK'
<1> USE DEF TypeOK, call, db, BootNeedsAddress
<1>0. Observe
  BY DEF Start, Boot, EnsureAccount, EnsureRole, BootFails, Crash
<1>a. seenEnabled' \in SUBSET Call /\ seenAllowed' \in SUBSET Call
  BY <1>0, ObserveType
<1>b. boot[r] = "account" /\ AccountEffect(r) =>
          users' \in [Id -> Account \cup {Nil}]
  <2>1. AdminEmail # Nil => NewAccount(Normalise(AdminEmail)) \in Account
    BY AccessAssumption, NormaliseType, NewAccountType
  <2>2. QED
    BY <2>1 DEF AccountEffect
<1>c. RoleEffect => userRoles' \in [Id -> SUBSET Role] /\ demoted' \in BOOLEAN
  <2>1. "super_admin" \in Role
    BY DEF Role
  <2>2. RoleEffect => \A i \in Id : userRoles'[i] \in SUBSET Role
    BY <2>1 DEF RoleEffect
  <2>3. RoleEffect => userRoles' = [i \in Id |-> userRoles'[i]]
    BY DEF RoleEffect
  <2>4. QED
    BY <2>2, <2>3 DEF RoleEffect
<1>1. CASE Boot(r)
  BY <1>1, <1>a DEF Boot
<1>2. CASE EnsureAccount(r)
  BY <1>2, <1>a, <1>b DEF EnsureAccount
<1>3. CASE EnsureRole(r)
  BY <1>3, <1>a, <1>c DEF EnsureRole
<1>4. CASE BootFails(r)
  BY <1>4, <1>a, <1>b, <1>c DEF BootFails
<1>5. CASE Crash(r)
  BY <1>5, <1>a DEF Crash
<1>6. QED
  BY <1>1, <1>2, <1>3, <1>4, <1>5 DEF Start

(* so do the operators, *)
LEMMA OperateType ==
    ASSUME TypeOK, Operate
    PROVE  TypeOK'
<1>1. seenEnabled' \in SUBSET Call /\ seenAllowed' \in SUBSET Call
  BY ObserveType DEF Operate
<1>2. users' \in [Id -> Account \cup {Nil}]
  <2>1. PICK i \in Id : \/ \E b \in BOOLEAN : Enable(i, b)
                        \/ \E s \in Subject : Link(i, s)
    BY DEF Operate
  <2>2. users[i] \in Account
    BY <2>1 DEF TypeOK, Enable, Link
  <2>3. CASE \E b \in BOOLEAN : Enable(i, b)
    BY <2>2, <2>3 DEF TypeOK, Enable, Account
  <2>4. CASE \E s \in Subject : Link(i, s)
    BY <2>2, <2>4 DEF TypeOK, Link, Account
  <2>5. QED
    BY <2>1, <2>3, <2>4
<1>3. QED
  BY <1>1, <1>2 DEF TypeOK, Operate, call

(* and so do the steps of a call. *)
LEMMA ServeType ==
    ASSUME TypeOK, CallShape, NEW c \in Call, Serve(c)
    PROVE  TypeOK'
<1> USE DEF TypeOK, db, Finish, Return
<1>0. Observe
  BY DEF Serve, Arrive, Authenticate, AuthenticateRefuses, AuthenticateFails,
         Validate, Authorize, AuthorizeFails, Mutate, CreateConflict,
         RevokeMiss, MutateRefused, MutateFails, Read, Audit, AuditFails
<1>a. seenEnabled' \in SUBSET Call /\ seenAllowed' \in SUBSET Call
  BY <1>0, ObserveType
<1>b. {"ok", "unauthenticated", "invalid", "denied", "exists", "notfound",
       "internal"} = Code
      /\ {"idle", "done", "crashed"} \cup Running =
         {"idle", "done", "crashed", "authenticate", "validate", "authorize",
          "handler", "audit"}
  BY DEF Code, Running
<1>c. pc[c] = "handler" /\ Effect(c) =>
          /\ users' \in [Id -> Account \cup {Nil}]
          /\ userRoles' \in [Id -> SUBSET Role]
          /\ rolePerms' \in [Role -> SUBSET Permission]
          /\ sessions' \in SUBSET Id
          /\ applied' \in SUBSET Call
          /\ demoted' \in BOOLEAN
  BY EffectType DEF CallShape
<1>1. CASE Arrive(c)
  BY <1>1, <1>a, <1>b DEF Arrive
<1>2. CASE Authenticate(c)
  BY <1>2, <1>a, <1>b DEF Authenticate
<1>3. CASE AuthenticateRefuses(c) \/ AuthenticateFails(c)
  BY <1>3, <1>a, <1>b DEF AuthenticateRefuses, AuthenticateFails
<1>4. CASE Validate(c) \/ Authorize(c) \/ AuthorizeFails(c)
  BY <1>4, <1>a, <1>b DEF Validate, Authorize, AuthorizeFails
<1>5. CASE Mutate(c)
  BY <1>5, <1>a, <1>b, <1>c DEF Mutate
<1>6. CASE CreateConflict(c) \/ RevokeMiss(c) \/ MutateRefused(c)
  BY <1>6, <1>a, <1>b DEF CreateConflict, RevokeMiss, MutateRefused
<1>7. CASE MutateFails(c)
  BY <1>7, <1>a, <1>b, <1>c DEF MutateFails
<1>8. CASE Read(c)
  BY <1>8, <1>a, <1>b DEF Read
<1>9. CASE Audit(c) \/ AuditFails(c)
  BY <1>9, <1>a, <1>b DEF Audit, AuditFails, Record, CallShape
<1>10. QED
  BY <1>1, <1>2, <1>3, <1>4, <1>5, <1>6, <1>7, <1>8, <1>9 DEF Serve

-----------------------------------------------------------------------------
(* Calls *)

(* A call that is let through was seen enabled, *)
LEMMA AuthenticateSeen ==
    ASSUME TypeOK, NEW c \in Call, Authenticate(c)
    PROVE  c \in seenEnabled'
<1>1. PICK i \in Id : Authentic(token[c], i)
  BY DEF Authenticate
<1>2. pc'[c] = "validate" /\ token' = token /\ users' = users
  BY DEF Authenticate, TypeOK, db
<1>3. Enabled(c)'
  BY <1>1, <1>2 DEF Enabled, Authentic, Designates, Running
<1>4. QED
  BY <1>3 DEF Authenticate, Observe

(* and then seen with the permission. *)
LEMMA AuthorizeSeen ==
    ASSUME TypeOK, CallShape, NEW c \in Call, Authorize(c), pc'[c] = "handler",
           Guarded(c)
    PROVE  c \in seenAllowed'
<1>1. HasPermission(identity[c], Policies[request[c].method]) /\ identity[c] # Nil
  BY DEF Authorize, Finish, TypeOK, CallShape
<1>2. /\ identity' = identity /\ request' = request
      /\ userRoles' = userRoles /\ rolePerms' = rolePerms
  BY DEF Authorize, db
<1>3. Allowed(c)'
  BY <1>1, <1>2 DEF Allowed, HasPermission, Permissions, Running, Guarded
<1>4. QED
  BY <1>3 DEF Authorize, Observe

(* What was seen of a call stays seen. *)
LEMMA SeenGrows ==
    ASSUME Observe
    PROVE  seenEnabled \subseteq seenEnabled' /\ seenAllowed \subseteq seenAllowed'
  BY DEF Observe

(* The steps of a call keep its shape, *)
LEMMA ServeShape ==
    ASSUME TypeOK, CallShape, NEW c \in Call, Serve(c)
    PROVE  CallShape'
<1> USE DEF TypeOK, CallShape, Finish, Return, Guarded
<1>0. seenEnabled \subseteq seenEnabled' /\ seenAllowed \subseteq seenAllowed'
  BY SeenGrows
     DEF Serve, Arrive, Authenticate, AuthenticateRefuses, AuthenticateFails,
         Validate, Authorize, AuthorizeFails, Mutate, CreateConflict,
         RevokeMiss, MutateRefused, MutateFails, Read, Audit, AuditFails
<1>a. Nil \notin {"ok", "unauthenticated", "invalid", "denied", "exists",
                  "notfound", "internal"}
      /\ Nil \notin Id /\ Nil \notin Request
  BY NilAssumption, AccessAssumption DEF Code
<1>1. CASE Arrive(c)
  BY <1>0, <1>1, <1>a DEF Arrive
<1>2. CASE Authenticate(c)
  <2>1. c \in seenEnabled'
    BY <1>2, AuthenticateSeen
  <2>2. PICK i \in Id : identity' = [identity EXCEPT ![c] = i]
    BY <1>2 DEF Authenticate
  <2>3. /\ pc[c] = "authenticate" /\ pc' = [pc EXCEPT ![c] = "validate"]
        /\ UNCHANGED <<request, outcome, reply, trail, applied, fault, unrecorded>>
    BY <1>2 DEF Authenticate
  <2>4. QED
    BY <1>0, <1>a, <2>1, <2>2, <2>3
<1>3. CASE AuthenticateRefuses(c) \/ AuthenticateFails(c)
  BY <1>0, <1>3, <1>a DEF AuthenticateRefuses, AuthenticateFails
<1>4. CASE Validate(c) \/ AuthorizeFails(c)
  BY <1>0, <1>4, <1>a DEF Validate, AuthorizeFails
<1>5. CASE Authorize(c)
  <2>0. Guarded(c)' <=> Guarded(c)
    BY <1>5 DEF Authorize
  <2>1. CASE pc'[c] = "handler"
    <3>1. Guarded(c) => c \in seenAllowed'
      BY <1>5, <2>1, AuthorizeSeen
    <3>2. QED
      BY <1>0, <1>5, <2>1, <3>1, <1>a DEF Authorize
  <2>2. CASE pc'[c] # "handler"
    BY <1>0, <1>5, <2>2, <1>a DEF Authorize
  <2>3. QED
    BY <2>1, <2>2
<1>6. CASE Mutate(c)
  <2>1. applied' = applied \cup {c}
    BY <1>6 DEF Mutate, Effect
  <2>2. QED
    BY <1>0, <1>6, <2>1, <1>a DEF Mutate
<1>7. CASE CreateConflict(c) \/ RevokeMiss(c) \/ MutateRefused(c)
  BY <1>0, <1>7, <1>a DEF CreateConflict, RevokeMiss, MutateRefused
<1>8. CASE MutateFails(c)
  <2>1. applied' \in {applied, applied \cup {c}}
    BY <1>8 DEF MutateFails, Effect
  <2>2. QED
    BY <1>0, <1>8, <2>1, <1>a DEF MutateFails
<1>9. CASE Read(c)
  BY <1>0, <1>9, <1>a DEF Read
<1>10. CASE Audit(c) \/ AuditFails(c)
  BY <1>0, <1>10, <1>a DEF Audit, AuditFails, Record
<1>11. QED
  BY <1>1, <1>2, <1>3, <1>4, <1>5, <1>6, <1>7, <1>8, <1>9, <1>10 DEF Serve

(* a replica's steps end calls at most, *)
LEMMA StartShape ==
    ASSUME TypeOK, CallShape, NEW r \in Replica, Start(r)
    PROVE  CallShape'
<1> USE DEF TypeOK, CallShape, call, Guarded
<1>0. seenEnabled \subseteq seenEnabled' /\ seenAllowed \subseteq seenAllowed'
  BY SeenGrows DEF Start, Boot, EnsureAccount, EnsureRole, BootFails, Crash
<1>1. CASE Crash(r)
  BY <1>0, <1>1 DEF Crash, Running
<1>2. CASE Boot(r) \/ EnsureAccount(r) \/ EnsureRole(r) \/ BootFails(r)
  BY <1>0, <1>2 DEF Boot, EnsureAccount, EnsureRole, BootFails
<1>3. QED
  BY <1>1, <1>2 DEF Start

(* and operators do not touch them. *)
LEMMA OperateShape ==
    ASSUME TypeOK, CallShape, Operate
    PROVE  CallShape'
<1>1. seenEnabled \subseteq seenEnabled' /\ seenAllowed \subseteq seenAllowed'
  BY SeenGrows DEF Operate
<1>2. QED
  BY <1>1 DEF TypeOK, CallShape, call, Operate, Guarded

(* Executed mutations are settled, and stay as they were, *)
LEMMA ServeExecuted ==
    ASSUME TypeOK, CallShape, Executed, NEW c \in Call, Serve(c)
    PROVE  Executed'
<1> USE DEF TypeOK, Executed, Finish, Return
<1>a. Nil \notin {"ok", "internal"}
  BY NilAssumption DEF Code
<1>1. CASE Mutate(c) \/ MutateFails(c)
  <2>1. /\ pc[c] = "handler" /\ pc' = [pc EXCEPT ![c] = "audit"]
        /\ outcome' \in {[outcome EXCEPT ![c] = "ok"],
                         [outcome EXCEPT ![c] = "internal"]}
        /\ UNCHANGED <<request, identity, reply>>
    BY <1>1 DEF Mutate, MutateFails
  <2>2. \/ applied' = applied
        \/ Effect(c) /\ applied' = applied \cup {c}
    BY <1>1 DEF Mutate, MutateFails, Effect
  <2>3. Effect(c) /\ request[c].method = "RevokeSession" =>
            request[c].user = identity[c]
    BY DEF Effect, CreateEffect, AssignRoleEffect, RemoveRoleEffect,
           AssignPermissionEffect, RemovePermissionEffect, RevokeEffect,
           RevokeMatches
  <2>4. QED
    BY <1>a, <2>1, <2>2, <2>3
<1>2. CASE Audit(c) \/ AuditFails(c)
  BY <1>2 DEF Audit, AuditFails
<1>3. CASE ~(Mutate(c) \/ MutateFails(c) \/ Audit(c) \/ AuditFails(c))
  <2>1. applied' = applied /\ c \notin applied
    BY <1>3 DEF Serve, Arrive, Authenticate, AuthenticateRefuses,
                AuthenticateFails, Validate, Authorize, AuthorizeFails,
                CreateConflict, RevokeMiss, MutateRefused, Read, CallShape
  <2>2. \A d \in Call \ {c} :
            /\ pc'[d] = pc[d] /\ outcome'[d] = outcome[d]
            /\ reply'[d] = reply[d] /\ request'[d] = request[d]
            /\ identity'[d] = identity[d]
    BY <1>3 DEF Serve, Arrive, Authenticate, AuthenticateRefuses,
                AuthenticateFails, Validate, Authorize, AuthorizeFails,
                CreateConflict, RevokeMiss, MutateRefused, Read
  <2>3. QED
    BY <2>1, <2>2
<1>4. QED
  BY <1>1, <1>2, <1>3

(* whatever replicas and operators do. *)
LEMMA OtherExecuted ==
    ASSUME TypeOK, Executed, (\E r \in Replica : Start(r)) \/ Operate
    PROVE  Executed'
<1>1. /\ UNCHANGED <<request, identity, outcome, reply, applied>>
      /\ \A c \in Call : pc'[c] = pc[c] \/ pc'[c] = "crashed"
  BY DEF TypeOK, Start, Boot, EnsureAccount, EnsureRole, BootFails, Crash,
         Operate, call
<1>2. QED
  BY <1>1 DEF TypeOK, Executed

-----------------------------------------------------------------------------
(* Accounts *)

(* Accounts stay, with their addresses. *)
Grows ==
    \A i \in Id :
        users[i] # Nil => users'[i] # Nil /\ users'[i].email = users[i].email

(* A step that keeps the addresses keeps what is said of them. *)
LEMMA KeepsAccounts ==
    ASSUME TypeOK, TypeOK', PlainEmails, OneAccountPerMailbox, Keeps
    PROVE  Grows /\ PlainEmails' /\ OneAccountPerMailbox'
<1>1. Grows
  BY DEF Keeps, Grows
<1>2. PlainEmails'
  BY DEF Keeps, PlainEmails
<1>3. ASSUME NEW i \in Id, NEW j \in Id, users'[i] # Nil, users'[j] # Nil,
             users'[i].email.mail = users'[j].email.mail
      PROVE  i = j
  <2>1. /\ users[i] # Nil /\ users'[i].email = users[i].email
        /\ users[j] # Nil /\ users'[j].email = users[j].email
    BY <1>3 DEF Keeps
  <2>2. QED
    BY <1>3, <2>1 DEF OneAccountPerMailbox
<1>4. QED
  BY <1>1, <1>2, <1>3 DEF OneAccountPerMailbox

(* So does one that adds an account under a free address. *)
LEMMA AddsAccount ==
    ASSUME TypeOK, PlainEmails, OneAccountPerMailbox, NEW i \in Id,
           users[i] = Nil, NEW s \in Spelling, Adds(i, s)
    PROVE  /\ Grows /\ PlainEmails' /\ OneAccountPerMailbox'
           /\ users'[i] # Nil /\ users'[i].email = Normalise(s)
           /\ users'[i].email.mail = s.mail
           /\ \A j \in Id \ {i} : users'[j] = users[j]
<1>1. users'[i] = NewAccount(Normalise(s)) /\ \A j \in Id \ {i} : users'[j] = users[j]
  BY DEF TypeOK, Adds
<1>2. /\ users'[i] # Nil /\ users'[i].email = Normalise(s)
      /\ users'[i].email.mail = s.mail /\ users'[i].email.plain = TRUE
  <2>1. /\ Normalise(s) \in Spelling /\ Normalise(s).mail = s.mail
        /\ Normalise(s).plain = TRUE
    BY NormaliseType
  <2>2. users'[i] # Nil /\ users'[i].email = Normalise(s)
    BY <1>1, <2>1, NewAccountType
  <2>3. QED
    BY <2>1, <2>2, Zenon
<1>3. ASSUME NEW j \in Id \ {i}, users[j] # Nil
      PROVE  users[j].email.mail # s.mail
  <2>1. users[j].email \in Spelling /\ users[j].email.plain = TRUE
    BY <1>3 DEF TypeOK, PlainEmails, Account
  <2>2. users[j].email # Normalise(s)
    BY <1>3 DEF Adds, Taken
  <2>3. QED
    BY <2>1, <2>2, NormaliseType, PlainEqual
<1>4. Grows
  BY <1>1 DEF Grows
<1>5. PlainEmails'
  BY <1>1, <1>2 DEF PlainEmails
<1>6. OneAccountPerMailbox'
  BY <1>1, <1>2, <1>3 DEF OneAccountPerMailbox
<1>7. QED
  BY <1>1, <1>2, <1>4, <1>5, <1>6

(* The statements that write the table. *)
LEMMA ServeAccounts ==
    ASSUME TypeOK, CallShape, NEW c \in Call, Serve(c)
    PROVE  \/ users' = users
           \/ /\ pc[c] = "handler" /\ pc'[c] = "audit"
              /\ request[c].method = "CreateUser"
              /\ request[c].email \in Spelling
              /\ Adds(c, request[c].email)
              /\ applied' = applied \cup {c}
<1>1. CASE Mutate(c) \/ MutateFails(c)
  <2>1. request[c] # Nil /\ pc[c] = "handler" /\ pc'[c] = "audit"
    BY <1>1 DEF Mutate, MutateFails, Return, TypeOK, CallShape
  <2>2. CASE Effect(c)
    BY <2>1, <2>2, RequestType
       DEF Effect, CreateEffect, AssignRoleEffect, RemoveRoleEffect,
           AssignPermissionEffect, RemovePermissionEffect, RevokeEffect, Adds
  <2>3. CASE ~Effect(c)
    BY <1>1, <2>3 DEF Mutate, MutateFails, db
  <2>4. QED
    BY <2>2, <2>3
<1>2. CASE ~(Mutate(c) \/ MutateFails(c))
  BY <1>2 DEF Serve, Arrive, Authenticate, AuthenticateRefuses,
        AuthenticateFails, Validate, Authorize, AuthorizeFails,
        CreateConflict, RevokeMiss, MutateRefused, Read, Audit, AuditFails, db
<1>3. QED
  BY <1>1, <1>2

(* EnsureAdmin adds at most the account of its replica. *)
LEMMA StartAccounts ==
    ASSUME TypeOK, BootNeedsAddress, ReplicaAccount, NEW r \in Replica, Start(r)
    PROVE  \/ users' = users
           \/ /\ boot[r] = "account" /\ AdminEmail \in Spelling
              /\ users[r] = Nil
              /\ Adds(r, AdminEmail)
<1>1. CASE boot[r] = "account" /\ AccountEffect(r) /\ users' # users
  <2>1. AdminEmail \in Spelling /\ ~Taken(Normalise(AdminEmail))
    BY <1>1, AccessAssumption DEF BootNeedsAddress, AccountEffect
  <2>2. users[r] = Nil
    BY <2>1 DEF ReplicaAccount, IsAdmin, Taken, Id
  <2>3. QED
    BY <1>1, <2>1, <2>2 DEF AccountEffect, Adds
<1>2. CASE users' = users
  BY <1>2
<1>3. QED
  BY <1>1, <1>2
     DEF Start, Boot, EnsureAccount, EnsureRole, BootFails, Crash, db

(* Operators leave addresses alone. *)
LEMMA OperateAccounts ==
    ASSUME TypeOK, Operate
    PROVE  Keeps
<1>1. PICK i \in Id : \/ \E b \in BOOLEAN : Enable(i, b)
                      \/ \E s \in Subject : Link(i, s)
  BY DEF Operate
<1>2. users[i] \in Account /\ users[i] # Nil
  BY <1>1 DEF TypeOK, Enable, Link
<1>3. users' = [users EXCEPT ![i] = users'[i]] /\ users'[i].email = users[i].email
      /\ users'[i] \in Account
  <2>1. CASE \E b \in BOOLEAN : Enable(i, b)
    BY <1>2, <2>1 DEF TypeOK, Enable, Account
  <2>2. CASE \E s \in Subject : Link(i, s)
    BY <1>2, <2>2 DEF TypeOK, Link, Account
  <2>3. QED
    BY <1>1, <2>1, <2>2
<1>4. Nil \notin Account
  BY NilAssumption
<1>5. QED
  BY <1>2, <1>3, <1>4 DEF Keeps, TypeOK

(* What is true of a call's account and of what it was told stays true as  *)
(* long as accounts only grow.                                             *)
LEMMA CallAccountKept ==
    ASSUME NEW c \in Call, CallAccountOf(c), Grows,
           request'[c] = request[c], outcome'[c] = outcome[c],
           c \in applied => c \in applied',
           users[c] = Nil => users'[c] = Nil
    PROVE  CallAccountOf(c)'
<1>0. c \in Id
  BY DEF Id
<1>1. users'[c] # Nil =>
          c \in applied' /\ users'[c].email.mail = request'[c].email.mail
  BY <1>0 DEF CallAccountOf, Grows
<1>2. outcome'[c] = "ok" /\ request'[c].method = "CreateUser" => users'[c] # Nil
  BY <1>0 DEF CallAccountOf, Grows
<1>3. ASSUME outcome'[c] = "exists"
      PROVE  \E i \in Id \ {c} : /\ users'[i] # Nil
                                 /\ users'[i].email.mail = request'[c].email.mail
  <2>1. PICK i \in Id \ {c} : /\ users[i] # Nil
                              /\ users[i].email.mail = request[c].email.mail
    BY <1>3 DEF CallAccountOf
  <2>2. users'[i] # Nil /\ users'[i].email = users[i].email
    BY <2>1 DEF Grows
  <2>3. QED
    BY <2>1, <2>2
<1>4. QED
  BY <1>1, <1>2, <1>3 DEF CallAccountOf

(* What a call's own steps leave of its account and its answer. *)
LEMMA ServeOutcome ==
    ASSUME TypeOK, CallShape, CallAccount, NEW c \in Call, Serve(c)
    PROVE  \/ pc[c] = "idle" /\ outcome'[c] = Nil /\ users' = users
           \/ /\ request' = request /\ outcome'[c] = outcome[c]
              /\ users' = users /\ applied' = applied
           \/ /\ pc[c] = "handler" /\ request' = request
              /\ \/ Mutate(c) /\ outcome'[c] = "ok"
                 \/ CreateConflict(c) /\ outcome'[c] = "exists"
                 \/ RevokeMiss(c) /\ outcome'[c] = "notfound"
                 \/ MutateRefused(c) /\ outcome'[c] = "internal"
                 \/ MutateFails(c) /\ outcome'[c] = "internal"
<1> USE DEF TypeOK
<1>1. CASE Arrive(c)
  BY <1>1 DEF Arrive, CallShape, db
<1>2. CASE \/ Authenticate(c) \/ AuthenticateRefuses(c) \/ AuthenticateFails(c)
           \/ Validate(c) \/ Authorize(c) \/ AuthorizeFails(c) \/ Read(c)
           \/ Audit(c) \/ AuditFails(c)
  BY <1>2 DEF Authenticate, AuthenticateRefuses, AuthenticateFails, Validate,
              Authorize, AuthorizeFails, Read, Audit, AuditFails, db
<1>3. CASE \/ Mutate(c) \/ CreateConflict(c) \/ RevokeMiss(c)
           \/ MutateRefused(c) \/ MutateFails(c)
  BY <1>3 DEF Mutate, CreateConflict, RevokeMiss, MutateRefused, MutateFails,
              Return
<1>4. QED
  BY <1>1, <1>2, <1>3 DEF Serve

(* A call's steps keep the accounts and what calls were told of them. *)
LEMMA ServeCallAccount ==
    ASSUME TypeOK, TypeOK', CallShape, PlainEmails, OneAccountPerMailbox,
           CallAccount, NEW c \in Call, Serve(c)
    PROVE  CallAccount' /\ Grows /\ PlainEmails' /\ OneAccountPerMailbox'
           /\ \A i \in Id \ {c} : users'[i] = users[i]
<1>i. c \in Id
  BY DEF Id
<1>n. Nil \notin {"ok", "exists"} /\ "ok" # "exists"
  BY NilAssumption DEF Code
<1>a. \A d \in Call \ {c} :
          /\ request'[d] = request[d] /\ outcome'[d] = outcome[d]
          /\ d \in applied => d \in applied'
  BY DEF TypeOK, Serve, Arrive, Authenticate, AuthenticateRefuses,
         AuthenticateFails, Validate, Authorize, AuthorizeFails, Mutate,
         MutateFails, CreateConflict, RevokeMiss, MutateRefused, Read, Audit,
         AuditFails,
         Return, Finish, Effect
<1>d. pc[c] \in {"idle", "handler"} => users[c] = Nil
  BY DEF CallShape, CallAccount, CallAccountOf
<1>1. /\ Grows /\ PlainEmails' /\ OneAccountPerMailbox'
      /\ \A i \in Id \ {c} : users'[i] = users[i]
  <2>1. CASE users' = users
    <3>1. Keeps
      BY <2>1 DEF Keeps
    <3>2. QED
      BY <2>1, <3>1, KeepsAccounts
  <2>2. CASE users' # users
    <3>1. /\ pc[c] = "handler" /\ request[c].email \in Spelling
          /\ Adds(c, request[c].email)
      BY <2>2, ServeAccounts
    <3>2. QED
      BY <1>i, <1>d, <3>1, AddsAccount
  <2>3. QED
    BY <2>1, <2>2
<1>2. ASSUME NEW d \in Call \ {c}
      PROVE  CallAccountOf(d)'
  <2>1. d \in Id
    BY DEF Id
  <2>2. QED
    BY <1>1, <1>a, <2>1, CallAccountKept DEF CallAccount
<1>3. CallAccountOf(c)'
  <2>1. CASE pc[c] = "idle" /\ outcome'[c] = Nil /\ users' = users
    BY <1>d, <1>n, <2>1 DEF CallAccountOf
  <2>2. CASE /\ request' = request /\ outcome'[c] = outcome[c]
             /\ users' = users /\ applied' = applied
    BY <1>1, <2>2, CallAccountKept DEF CallAccount
  <2>3. CASE pc[c] = "handler" /\ request' = request /\ Mutate(c) /\ outcome'[c] = "ok"
    <3>1. users[c] = Nil /\ request[c] # Nil
      BY <1>d, <2>3 DEF CallShape
    <3>2. users' # users => users'[c] # Nil /\ c \in applied'
                            /\ users'[c].email.mail = request[c].email.mail
      BY <1>i, <3>1, ServeAccounts, AddsAccount
    <3>3. request[c].method = "CreateUser" => users' # users
      <4>1. request[c].email \in Spelling
        BY <3>1, RequestType
      <4>2. NewAccount(Normalise(request[c].email)) # Nil
        BY <4>1, NormaliseType, NewAccountType
      <4>3. request[c].method = "CreateUser" => CreateEffect(c)
        BY <2>3 DEF Mutate, Effect, AssignRoleEffect, RemoveRoleEffect,
                    AssignPermissionEffect, RemovePermissionEffect,
                    RevokeEffect
      <4>4. QED
        BY <1>i, <3>1, <4>2, <4>3 DEF CreateEffect, TypeOK
    <3>4. QED
      BY <1>n, <2>3, <3>1, <3>2, <3>3 DEF CallAccountOf
  <2>4. CASE pc[c] = "handler" /\ request' = request /\ CreateConflict(c)
             /\ outcome'[c] = "exists"
    <3>1. users[c] = Nil /\ request[c] # Nil
      BY <1>d, <2>4 DEF CallShape
    <3>2. request[c].email \in Spelling
      BY <3>1, RequestType
    <3>3. Taken(Normalise(request[c].email)) /\ users' = users
      BY <2>4 DEF CreateConflict, db
    <3>4. PICK i \in Id : users[i] # Nil /\ users[i].email = Normalise(request[c].email)
      BY <3>3 DEF Taken
    <3>5. i \in Id \ {c} /\ users[i].email.mail = request[c].email.mail
      BY <3>1, <3>2, <3>4, NormaliseType
    <3>6. QED
      BY <1>n, <2>4, <3>1, <3>3, <3>4, <3>5 DEF CallAccountOf
  <2>5. CASE pc[c] = "handler" /\ request' = request
             /\ (RevokeMiss(c) \/ MutateRefused(c) \/ MutateFails(c))
             /\ outcome'[c] \in {"internal", "notfound"}
    <3>1. users[c] = Nil
      BY <1>d, <2>5
    <3>2. users' # users => c \in applied'
                            /\ users'[c].email.mail = request[c].email.mail
      BY <1>i, <3>1, ServeAccounts, AddsAccount
    <3>3. QED
      BY <2>5, <3>1, <3>2 DEF CallAccountOf
  <2>6. QED
    BY <2>1, <2>2, <2>3, <2>4, <2>5, ServeOutcome
<1>4. QED
  BY <1>1, <1>2, <1>3 DEF CallAccount

-----------------------------------------------------------------------------
(* The administrator *)

HasRoleOrDemoted(i) == demoted \/ "super_admin" \in userRoles[i]

(* A step takes the role from the administrator only by demoting it. *)
RoleKept ==
    \A i \in Id : IsAdmin(i) /\ HasRoleOrDemoted(i) => HasRoleOrDemoted(i)'

(* The administrator's account stays what it is. *)
LEMMA GrowsAdmin ==
    ASSUME Grows, NEW i \in Id, IsAdmin(i)
    PROVE  IsAdmin(i)'
  BY DEF Grows, IsAdmin

(* The invariant of the administrator survives a step that brings up no    *)
(* replica.                                                                *)
LEMMA AdminKept ==
    ASSUME AdminWhenServing, AdminExists, Grows, RoleKept,
           \A r \in Replica : boot'[r] = "serving" => boot[r] = "serving"
    PROVE  AdminWhenServing'
<1>1. SUFFICES ASSUME AdminEmail # Nil, \E r \in Replica : boot'[r] = "serving"
               PROVE  \E i \in Id : IsAdmin(i)' /\ HasRoleOrDemoted(i)'
  BY DEF AdminWhenServing, HasRoleOrDemoted
<1>2. PICK i \in Id : IsAdmin(i) /\ HasRoleOrDemoted(i)
  BY <1>1 DEF AdminWhenServing, HasRoleOrDemoted
<1>3. IsAdmin(i)' /\ HasRoleOrDemoted(i)'
  BY <1>2, GrowsAdmin DEF RoleKept
<1>4. QED
  BY <1>3

(* The second statement gives the role to every account of the address. *)
LEMMA RoleGiven ==
    ASSUME TypeOK, RoleEffect, NEW i \in Id, IsAdmin(i)
    PROVE  HasRoleOrDemoted(i)'
  BY DEF RoleEffect, HasRoleOrDemoted

(* A replica that starts, fails or crashes keeps the administrator. *)
LEMMA StartAdmin ==
    ASSUME TypeOK, PlainEmails, OneAccountPerMailbox, CallAccount, ReplicaAccount,
           BootNeedsAddress, AdminExists, AdminWhenServing, TypeOK',
           NEW r \in Replica, Start(r)
    PROVE  /\ Grows /\ PlainEmails' /\ OneAccountPerMailbox' /\ CallAccount'
           /\ ReplicaAccount' /\ BootNeedsAddress' /\ AdminExists'
           /\ AdminWhenServing'
<1>i. r \in Id /\ Replica \subseteq Id /\ Call \subseteq Id /\ r \notin Call
  BY IdAssumption DEF Id
<1>1. /\ Grows /\ PlainEmails' /\ OneAccountPerMailbox'
      /\ \A j \in Id \ {r} : users'[j] = users[j]
      /\ users'[r] # users[r] => IsAdmin(r)'
  <2>1. CASE users' = users
    <3>1. Keeps
      BY <2>1 DEF Keeps
    <3>2. QED
      BY <2>1, <3>1, KeepsAccounts
  <2>2. CASE users' # users
    <3>1. /\ AdminEmail \in Spelling /\ users[r] = Nil
          /\ Adds(r, AdminEmail)
      BY <2>2, StartAccounts
    <3>2. /\ Grows /\ PlainEmails' /\ OneAccountPerMailbox'
          /\ users'[r] # Nil /\ users'[r].email = Normalise(AdminEmail)
          /\ \A j \in Id \ {r} : users'[j] = users[j]
      BY <1>i, <3>1, AddsAccount
    <3>3. AdminEmail # Nil
      BY <3>1, NilAssumption
    <3>4. IsAdmin(r)'
      BY <3>2, <3>3 DEF IsAdmin
    <3>5. QED
      BY <3>2, <3>4
  <2>3. QED
    BY <2>1, <2>2
<1>2. CallAccount'
  <2>1. UNCHANGED <<request, outcome, applied>>
    BY DEF Start, Boot, EnsureAccount, EnsureRole, BootFails, Crash, call
  <2>2. ASSUME NEW c \in Call
        PROVE  CallAccountOf(c)'
    BY <1>i, <1>1, <2>1, CallAccountKept DEF CallAccount
  <2>3. QED
    BY <2>2 DEF CallAccount
<1>3. ReplicaAccount'
  <2>1. ASSUME NEW p \in Replica, users'[p] # Nil
        PROVE  IsAdmin(p)'
    <3>1. CASE users'[p] = users[p]
      BY <1>i, <1>1, <2>1, <3>1, GrowsAdmin DEF ReplicaAccount
    <3>2. CASE users'[p] # users[p]
      BY <1>i, <1>1, <3>2
    <3>3. QED
      BY <3>1, <3>2
  <2>2. QED
    BY <2>1 DEF ReplicaAccount
<1>4. BootNeedsAddress'
  BY DEF TypeOK, BootNeedsAddress, Start, Boot, EnsureAccount, EnsureRole,
         BootFails, Crash
<1>5. AdminExists'
  <2>1. ASSUME NEW i \in Id, IsAdmin(i)
        PROVE  AdminExists'
    BY <1>1, <2>1, GrowsAdmin DEF AdminExists
  <2>2. CASE EnsureAccount(r)
    <3>1. CASE Taken(Normalise(AdminEmail))
      <4>1. PICK i \in Id : IsAdmin(i)
        BY <2>2, <3>1 DEF Taken, IsAdmin, EnsureAccount, BootNeedsAddress
      <4>2. QED
        BY <2>1, <4>1
    <3>2. CASE ~Taken(Normalise(AdminEmail))
      <4>1. AdminEmail \in Spelling /\ users[r] = Nil
        BY <2>2, <3>2, <1>i, AccessAssumption
           DEF EnsureAccount, BootNeedsAddress, ReplicaAccount, IsAdmin, Taken
      <4>2. NewAccount(Normalise(AdminEmail)) # Nil
        BY <4>1, NormaliseType, NewAccountType
      <4>3. users'[r] # users[r]
        BY <1>i, <2>2, <3>2, <4>1, <4>2 DEF EnsureAccount, AccountEffect, TypeOK
      <4>4. QED
        BY <1>i, <1>1, <4>3 DEF AdminExists
    <3>3. QED
      BY <3>1, <3>2
  <2>3. CASE ~EnsureAccount(r)
    <3>1. \A p \in Replica :
              boot'[p] \in {"role", "serving"} /\ AdminEmail # Nil =>
                  boot[p] \in {"role", "serving"}
      BY <2>3 DEF TypeOK, Start, Boot, EnsureRole, BootFails, Crash
    <3>2. QED
      BY <2>1, <3>1 DEF AdminExists
  <2>4. QED
    BY <2>2, <2>3
<1>6. AdminWhenServing'
  <2>1. CASE EnsureRole(r)
    <3>1. SUFFICES ASSUME AdminEmail # Nil
                   PROVE  \E i \in Id : IsAdmin(i)' /\ HasRoleOrDemoted(i)'
      BY DEF AdminWhenServing, HasRoleOrDemoted
    <3>2. PICK i \in Id : IsAdmin(i)
      BY <2>1, <3>1 DEF EnsureRole, AdminExists
    <3>3. IsAdmin(i)' /\ HasRoleOrDemoted(i)'
      BY <1>1, <2>1, <3>2, GrowsAdmin, RoleGiven DEF EnsureRole
    <3>4. QED
      BY <3>3
  <2>2. CASE ~EnsureRole(r) /\ AdminEmail # Nil
    <3>1. \A p \in Replica : boot'[p] = "serving" => boot[p] = "serving"
      BY <2>2 DEF TypeOK, Start, Boot, EnsureAccount, BootFails, Crash
    <3>2. UNCHANGED <<userRoles, demoted>> \/ RoleEffect
      BY <2>2 DEF Start, Boot, EnsureAccount, BootFails, Crash, db
    <3>3. RoleKept
      BY <3>2, RoleGiven DEF RoleKept, HasRoleOrDemoted
    <3>4. QED
      BY <1>1, <3>1, <3>3, AdminKept
  <2>3. CASE AdminEmail = Nil
    BY <2>3 DEF AdminWhenServing
  <2>4. QED
    BY <2>1, <2>2, <2>3
<1>7. QED
  BY <1>1, <1>2, <1>3, <1>4, <1>5, <1>6

(* A mutation that takes the role from the administrator demotes it. *)
LEMMA EffectRole ==
    ASSUME TypeOK, NEW c \in Call, request[c] # Nil, Effect(c)
    PROVE  RoleKept
<1>1. SUFFICES ASSUME NEW i \in Id, IsAdmin(i), HasRoleOrDemoted(i)
               PROVE  HasRoleOrDemoted(i)'
  BY DEF RoleKept
<1>2. CASE \/ CreateEffect(c) \/ AssignPermissionEffect(c)
           \/ RemovePermissionEffect(c) \/ RevokeEffect(c)
  BY <1>1, <1>2 DEF CreateEffect, AssignPermissionEffect, RemovePermissionEffect,
                    RevokeEffect, HasRoleOrDemoted
<1>3. CASE AssignRoleEffect(c)
  <2>1. demoted' = demoted /\ userRoles[i] \subseteq userRoles'[i]
    BY <1>3 DEF AssignRoleEffect, TypeOK
  <2>2. QED
    BY <1>1, <2>1 DEF HasRoleOrDemoted
<1>4. CASE RemoveRoleEffect(c)
  <2>1. CASE request[c].role = "super_admin" /\ request[c].user = i
    <3>1. i # Nil
      BY NilAssumption
    <3>2. demoted' = TRUE
      BY <1>1, <1>4, <2>1, <3>1, Zenon DEF RemoveRoleEffect
    <3>3. QED
      BY <3>2 DEF HasRoleOrDemoted
  <2>2. CASE ~(request[c].role = "super_admin" /\ request[c].user = i)
    <3>1. "super_admin" \in userRoles[i] => "super_admin" \in userRoles'[i]
      BY <1>4, <2>2 DEF RemoveRoleEffect, TypeOK
    <3>2. demoted => demoted'
      BY <1>4 DEF RemoveRoleEffect
    <3>3. QED
      BY <1>1, <3>1, <3>2 DEF HasRoleOrDemoted
  <2>3. QED
    BY <2>1, <2>2
<1>5. QED
  BY <1>2, <1>3, <1>4 DEF Effect

(* So does a call, unless it demotes it; *)
LEMMA ServeAdmin ==
    ASSUME IndInv, TypeOK', NEW c \in Call, Serve(c)
    PROVE  /\ PlainEmails' /\ OneAccountPerMailbox' /\ CallAccount'
           /\ ReplicaAccount' /\ BootNeedsAddress' /\ AdminExists'
           /\ AdminWhenServing'
<1> USE DEF IndInv
<1>i. Replica \subseteq Id \ {c}
  BY IdAssumption DEF Id
<1>1. /\ Grows /\ PlainEmails' /\ OneAccountPerMailbox' /\ CallAccount'
      /\ \A i \in Id \ {c} : users'[i] = users[i]
  BY ServeCallAccount
<1>2. boot' = boot
  BY DEF Serve, Arrive, Authenticate, AuthenticateRefuses,
         AuthenticateFails, Validate, Authorize, AuthorizeFails, Mutate,
         MutateFails, CreateConflict, RevokeMiss, MutateRefused, Read, Audit,
         AuditFails
<1>3. ReplicaAccount'
  BY <1>i, <1>1, GrowsAdmin DEF ReplicaAccount
<1>4. BootNeedsAddress' /\ AdminExists'
  BY <1>1, <1>2, GrowsAdmin DEF BootNeedsAddress, AdminExists
<1>5. RoleKept
  <2>1. CASE Effect(c) /\ pc[c] = "handler"
    BY <2>1, EffectRole DEF CallShape
  <2>2. CASE UNCHANGED <<userRoles, demoted>>
    BY <2>2 DEF RoleKept, HasRoleOrDemoted
  <2>3. QED
    BY <2>1, <2>2
       DEF Serve, Arrive, Authenticate, AuthenticateRefuses,
           AuthenticateFails, Validate, Authorize, AuthorizeFails, Mutate,
           MutateFails, CreateConflict, RevokeMiss, MutateRefused, Read, Audit,
         AuditFails, db
<1>6. AdminWhenServing'
  BY <1>1, <1>2, <1>5, AdminKept
<1>7. QED
  BY <1>1, <1>3, <1>4, <1>6

(* and so do the operators, who may disable it but not rename it. *)
LEMMA OperateAdmin ==
    ASSUME IndInv, TypeOK', Operate
    PROVE  /\ PlainEmails' /\ OneAccountPerMailbox' /\ CallAccount'
           /\ ReplicaAccount' /\ BootNeedsAddress' /\ AdminExists'
           /\ AdminWhenServing'
<1> USE DEF IndInv
<1>i. Replica \subseteq Id /\ Call \subseteq Id
  BY DEF Id
<1>1. Keeps
  BY OperateAccounts
<1>2. Grows /\ PlainEmails' /\ OneAccountPerMailbox'
  BY <1>1, KeepsAccounts
<1>3. UNCHANGED <<userRoles, boot, request, outcome, applied, demoted>>
  BY DEF Operate, call
<1>4. CallAccount'
  <2>1. ASSUME NEW c \in Call
        PROVE  CallAccountOf(c)'
    BY <1>i, <1>1, <1>2, <1>3, CallAccountKept DEF CallAccount, Keeps
  <2>2. QED
    BY <2>1 DEF CallAccount
<1>5. ReplicaAccount'
  BY <1>i, <1>1, <1>2, GrowsAdmin DEF ReplicaAccount, Keeps
<1>6. BootNeedsAddress' /\ AdminExists'
  BY <1>2, <1>3, GrowsAdmin DEF BootNeedsAddress, AdminExists
<1>7. RoleKept
  BY <1>3 DEF RoleKept, HasRoleOrDemoted
<1>8. AdminWhenServing'
  BY <1>2, <1>3, <1>7, AdminKept
<1>9. QED
  BY <1>2, <1>4, <1>5, <1>6, <1>8

-----------------------------------------------------------------------------
(* The invariant is inductive *)

(* The staff of earlier days and the empty server satisfy it. *)
LEMMA InitInv ==
    ASSUME Init
    PROVE  IndInv
<1>n. Nil \notin Code /\ Nil \notin Account
  BY NilAssumption
<1>u. \A i \in Id :
          \/ i \in Staff /\ users[i] \in Account
             /\ users[i].email = [mail |-> i, plain |-> TRUE]
          \/ i \notin Staff /\ users[i] = Nil
  BY IdAssumption DEF Init, Id, Account, Spelling
<1>1. TypeOK
  <2>1. users \in [Id -> Account \cup {Nil}]
    <3>1. users = [i \in Id |-> users[i]]
      BY DEF Init
    <3>2. QED
      BY <1>u, <3>1
  <2>2. userRoles \in [Id -> SUBSET Role]
    BY AccessAssumption DEF Init
  <2>3. rolePerms \in [Role -> SUBSET Permission]
    <3> DEFINE P(r) ==
            CASE r = "super_admin" -> Permission
              [] r = "user_admin" -> {"users:read", "users:create",
                                      "users:update", "users:disable",
                                      "roles:read"}
              [] r = "viewer" -> {"users:read"}
    <3>1. \A r \in Role : P(r) \in SUBSET Permission
      BY DEF Role, Permission
    <3>2. rolePerms = [r \in Role |-> P(r)]
      BY DEF Init, SeededPermissions
    <3> HIDE DEF P
    <3>3. QED
      BY <3>1, <3>2
  <2>4. sessions \in SUBSET Id
    BY DEF Init, Id
  <2>5. QED
    BY <2>1, <2>2, <2>3, <2>4 DEF Init, TypeOK
<1>2. CallShape /\ Executed
  BY <1>n DEF Init, CallShape, Executed, Code
<1>m. \A i \in Id : users[i] # Nil =>
          users[i].email.mail = i /\ users[i].email.plain = TRUE
  <2>1. \A i : /\ [mail |-> i, plain |-> TRUE].mail = i
               /\ [mail |-> i, plain |-> TRUE].plain = TRUE
    OBVIOUS
  <2>2. QED
    BY <1>u, <2>1, Zenon
<1>3. PlainEmails
  BY <1>m DEF PlainEmails
<1>4. OneAccountPerMailbox
  BY <1>m DEF OneAccountPerMailbox
<1>5. CallAccount
  BY <1>n, <1>u, IdAssumption DEF Init, CallAccount, CallAccountOf, Code, Id
<1>6. ReplicaAccount
  BY <1>u, IdAssumption DEF ReplicaAccount, Id
<1>7. BootNeedsAddress /\ AdminExists /\ AdminWhenServing
  BY DEF Init, BootNeedsAddress, AdminExists, AdminWhenServing
<1>8. QED
  BY <1>1, <1>2, <1>3, <1>4, <1>5, <1>6, <1>7 DEF IndInv

(* Every step keeps it. *)
LEMMA NextInv ==
    ASSUME IndInv, [Next]_vars
    PROVE  IndInv'
<1>1. CASE \E r \in Replica : Start(r)
  <2>1. PICK r \in Replica : Start(r)
    BY <1>1
  <2>2. TypeOK' /\ CallShape' /\ Executed'
    BY <2>1, StartType, StartShape, OtherExecuted DEF IndInv
  <2>3. QED
    BY <2>1, <2>2, StartAdmin DEF IndInv
<1>2. CASE \E c \in Call : Serve(c)
  <2>1. PICK c \in Call : Serve(c)
    BY <1>2
  <2>2. TypeOK' /\ CallShape' /\ Executed'
    BY <2>1, ServeType, ServeShape, ServeExecuted DEF IndInv
  <2>3. QED
    BY <2>1, <2>2, ServeAdmin DEF IndInv
<1>3. CASE Operate
  <2>1. TypeOK' /\ CallShape' /\ Executed'
    BY <1>3, OperateType, OperateShape, OtherExecuted DEF IndInv
  <2>2. QED
    BY <1>3, <2>1, OperateAdmin DEF IndInv
<1>4. CASE UNCHANGED vars
  BY <1>4 DEF vars, db, call, witness, IndInv, TypeOK, CallShape, Guarded,
              Executed, PlainEmails, OneAccountPerMailbox, CallAccount,
              CallAccountOf, ReplicaAccount, BootNeedsAddress, AdminExists, AdminWhenServing, IsAdmin
<1>5. QED
  BY <1>1, <1>2, <1>3, <1>4 DEF Next

(* The invariant holds in every behaviour. *)
LEMMA Invariance == Spec => []IndInv
<1>1. Init => IndInv
  BY InitInv
<1>2. IndInv /\ [Next]_vars => IndInv'
  BY NextInv
<1>3. QED
  BY <1>1, <1>2, PTL DEF Spec

-----------------------------------------------------------------------------
(* Theorems *)

(* The variables keep their types: in particular every row of users        *)
(* satisfies the table's constraints, whoever wrote it.                    *)
THEOREM TypeCorrect == Spec => []TypeOK
<1>1. IndInv => TypeOK
  BY DEF IndInv
<1>2. QED
  BY <1>1, Invariance, PTL

(* No mutation is executed for a call that was not, within the call, seen  *)
(* with an enabled account and with the permission of its method           *)
(* (authentication.go and authorization.go, in front of every handler);    *)
(* RevokeSession, which needs none, ends only the caller's own.            *)
THEOREM Entitled == Spec => []EffectEntitled
<1>1. IndInv => EffectEntitled
  BY DEF IndInv, TypeOK, CallShape, Executed, EffectEntitled
<1>2. QED
  BY <1>1, Invariance, PTL

(* EnsureAdmin does its work for any number of replicas that start, fail   *)
(* and crash in any order (bootstrap/admin.go).                            *)
THEOREM AdminServed == Spec => []AdminWhenServing
<1>1. IndInv => AdminWhenServing
  BY DEF IndInv
<1>2. QED
  BY <1>1, Invariance, PTL

(* Normalisation in NewUser and EnsureAdmin together with the unique       *)
(* constraint keep one account per mailbox.                                *)
THEOREM OneAccount == Spec => []OneAccountPerMailbox
<1>1. IndInv => OneAccountPerMailbox
  BY DEF IndInv
<1>2. QED
  BY <1>1, Invariance, PTL

(* CreateUser tells its client the truth about the mailbox.                *)
THEOREM CreateTrue == Spec => []CreateAnswerTrue
<1>1. ASSUME IndInv PROVE CreateAnswerTrue
  <2>1. SUFFICES ASSUME NEW c \in Call, reply[c] # Nil,
                        request[c].method = "CreateUser"
                 PROVE  /\ reply[c] = "ok" =>
                              /\ users[c] # Nil
                              /\ users[c].email.mail = request[c].email.mail
                        /\ reply[c] = "exists" =>
                              \E i \in Id \ {c} :
                                  /\ users[i] # Nil
                                  /\ users[i].email.mail = request[c].email.mail
    BY DEF CreateAnswerTrue
  <2>2. reply[c] \in {"ok", "exists"} => outcome[c] = reply[c]
    BY <1>1, <2>1 DEF IndInv, CallShape, Mutation
  <2>3. CallAccountOf(c)
    BY <1>1 DEF IndInv, CallAccount
  <2>4. QED
    BY <2>1, <2>2, <2>3 DEF CallAccountOf
<1>2. QED
  BY <1>1, Invariance, PTL

(* The audit trail has every attempt that is over and every effect, with   *)
(* the code its client was told, except where the INSERT of the event      *)
(* failed or the replica died before it, and a failing INSERT does not     *)
(* change what the client is told (interceptor/audit.go).                  *)
THEOREM Trail == Spec => []TrailTrue
<1>0. Nil # "ok"
  BY NilAssumption DEF Code
<1>1. ASSUME IndInv, NEW c \in Call
      PROVE  /\ trail[c] # Nil =>
                   trail[c] = reply[c] /\ (Guarded(c) => c \in seenAllowed)
             /\ trail[c] = "ok" => c \in applied
             /\ reply[c] # Nil /\ outcome[c] # Nil =>
                   /\ reply[c] = outcome[c]
                   /\ trail[c] # Nil \/ c \in unrecorded
             /\ c \in applied =>
                   \/ trail[c] # Nil \/ c \in unrecorded
                   \/ pc[c] \in {"audit", "crashed"}
             /\ c \in applied /\ reply[c] # Nil =>
                   reply[c] = "ok" \/ c \in fault
  BY <1>0, <1>1 DEF IndInv, TypeOK, CallShape, Executed
<1>2. IndInv => TrailTrue
  BY <1>1 DEF TrailTrue
<1>3. QED
  BY <1>2, Invariance, PTL

=============================================================================
