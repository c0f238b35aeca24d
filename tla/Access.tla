------------------------------- MODULE Access -------------------------------
(***************************************************************************)
(* Who may do what: authentication, authorization, the RBAC and user       *)
(* mutations they guard, the audit trail, and the bootstrap of the         *)
(* administrator.                                                          *)
(*                                                                         *)
(* Several server replicas share one database.  A replica runs EnsureAdmin *)
(* before it serves; a call runs on a serving replica and dies with it.    *)
(* One action is one SQL statement, or one interceptor that needs none.    *)
(* The permission check and the mutation are statements of their own, and  *)
(* so are the two of EnsureAdmin.                                          *)
(*                                                                         *)
(* An account has the id its creator drew: a CreateUser call, a replica's  *)
(* bootstrap (at most one succeeds, accounts are never deleted), or one of *)
(* Staff, who were there before.  Calls carry no idempotency key.          *)
(***************************************************************************)
EXTENDS Integers, FiniteSets

CONSTANTS
    Call,       \* RPC invocations
    Replica,    \* server processes
    Staff,      \* accounts of earlier days
    Mail,       \* mailboxes
    Subject,    \* users of the OIDC provider
    Request,    \* the requests clients send
    StaffRoles, \* the roles Staff were given
    AdminEmail, \* BOOTSTRAP_ADMIN_EMAIL, or Nil
    MaxActs,    \* bound on what operators do to accounts
    Nil         \* NULL, no such row, no answer

Id == Staff \cup Call \cup Replica

(* The seeded roles and permissions. *)
Role == {"super_admin", "user_admin", "viewer"}

(* audit:read came with the table of audit events. *)
AuditPermission == "audit:read"

Permission ==
    {"users:read", "users:create", "users:update", "users:disable",
     "users:delete", "roles:read", "roles:manage", "roles:assign",
     AuditPermission}

SeededPermissions ==
    [r \in Role |->
        CASE r = "super_admin" -> Permission
          [] r = "user_admin" -> {"users:read", "users:create", "users:update",
                                  "users:disable", "roles:read"}
          [] r = "viewer" -> {"users:read"}]

(* The permission each method needs. *)
Policies ==
    [ListAuditEvents |-> "audit:read", CreateUser |-> "users:create",
     GetUser |-> "users:read", ListUsers |-> "users:read",
     ListRoles |-> "roles:read", ListPermissions |-> "roles:read",
     AssignRole |-> "roles:assign", RemoveRole |-> "roles:assign",
     AssignPermissionToRole |-> "roles:manage",
     RemovePermissionFromRole |-> "roles:manage"]

(* These have none: every account may call them, for itself. *)
SelfService == {"Me", "ListSessions", "RevokeSession"}

Method == DOMAIN Policies \cup SelfService

(* The methods mutationEvent knows. *)
Mutation == {"CreateUser", "AssignRole", "RemoveRole",
             "AssignPermissionToRole", "RemovePermissionFromRole",
             "RevokeSession"}

(* An address as it is typed: a mailbox, in lower case and trimmed or not. *)
Spelling == [mail : Mail, plain : BOOLEAN]

(* Mutant: the address is kept as it was typed. *)
AsTyped(s) == s

(* strings.ToLower(strings.TrimSpace(email)) *)
Normalise(s) == [s EXCEPT !.plain = TRUE]

Account ==
    [email : Spelling, enabled : BOOLEAN, provider : {"local", "oidc"},
     subject : Subject \cup {Nil}]

Token == [provider : {"local"}, subject : Id]
             \cup [provider : {"oidc"}, subject : Subject]

(* Ids in a request are well-formed; Nil is one that no row has.  A blank  *)
(* request passes the interceptor and is refused by user.Service.Create.   *)
(* The user of a RevokeSession is the one whose session it names.          *)
WellFormed ==
    [method : Method, user : Id \cup {Nil}, role : Role \cup {Nil},
     permission : Permission \cup {Nil}, email : Spelling,
     form : {"valid", "invalid", "blank"}]

Code == {"ok", "unauthenticated", "invalid", "denied", "exists", "notfound",
         "internal"}

ASSUME AccessAssumption ==
    /\ Request \subseteq WellFormed
    /\ StaffRoles \in [Staff -> SUBSET Role]
    /\ AdminEmail \in Spelling \cup {Nil}
    /\ MaxActs \in Nat

ASSUME IdAssumption ==
    /\ Staff \cap Call = {} /\ Staff \cap Replica = {} /\ Call \cap Replica = {}
    /\ Staff \subseteq Mail

ASSUME NilAssumption ==
    /\ Nil \notin Id \cup Subject \cup Spelling \cup Account \cup Token
    /\ Nil \notin WellFormed \cup Code \cup Role \cup Permission

VARIABLES
    users,        \* the users table, by id
    userRoles,    \* user_roles
    rolePerms,    \* role_permissions
    sessions,     \* auth_sessions: users with one that is not revoked
    boot,         \* how far each replica has come
    pc,           \* where each call is
    on,           \* the replica that runs it
    token,        \* its bearer token, Nil when it has none that verifies
    request,      \* what it asks for
    identity,     \* the account it was authenticated as
    outcome,      \* what its handler returned
    reply,        \* what its client received
    trail,        \* audit_events: the code recorded for each call
    acts,         \* operator interventions so far
    applied,      \* history: calls whose mutation was executed
    fault,        \* history: calls one of whose own statements failed
    unrecorded,   \* history: calls whose audit INSERT failed
    seenEnabled,  \* history: calls whose token stood for an enabled account
    seenAllowed,  \* history: calls whose account had the permission
    demoted       \* history: the administrator lost its role since bootstrap

db == <<users, userRoles, rolePerms, sessions>>
call == <<pc, on, token, request, identity, outcome, reply>>
witness == <<seenEnabled, seenAllowed>>
vars == <<db, boot, call, trail, acts, applied, fault, unrecorded, witness,
          demoted>>

Running == {"authenticate", "validate", "authorize", "handler", "audit"}

TypeOK ==
    /\ users \in [Id -> Account \cup {Nil}]
    /\ userRoles \in [Id -> SUBSET Role]
    /\ rolePerms \in [Role -> SUBSET Permission]
    /\ sessions \in SUBSET Id
    /\ boot \in [Replica -> {"down", "account", "role", "serving"}]
    /\ pc \in [Call -> {"idle", "done", "crashed"} \cup Running]
    /\ on \in [Call -> Replica \cup {Nil}]
    /\ token \in [Call -> Token \cup {Nil}]
    /\ request \in [Call -> Request \cup {Nil}]
    /\ identity \in [Call -> Id \cup {Nil}]
    /\ outcome \in [Call -> Code \cup {Nil}]
    /\ reply \in [Call -> Code \cup {Nil}]
    /\ trail \in [Call -> Code \cup {Nil}]
    /\ acts \in Nat
    /\ applied \in SUBSET Call
    /\ fault \in SUBSET Call
    /\ unrecorded \in SUBSET Call
    /\ seenEnabled \in SUBSET Call
    /\ seenAllowed \in SUBSET Call
    /\ demoted \in BOOLEAN

Init ==
    /\ users = [i \in Id |->
                   IF i \in Staff
                   THEN [email |-> [mail |-> i, plain |-> TRUE],
                         enabled |-> TRUE, provider |-> "local",
                         subject |-> Nil]
                   ELSE Nil]
    /\ userRoles = [i \in Id |-> IF i \in Staff THEN StaffRoles[i] ELSE {}]
    /\ rolePerms = SeededPermissions
    /\ sessions = Staff
    /\ boot = [r \in Replica |-> "down"]
    /\ pc = [c \in Call |-> "idle"]
    /\ on = [c \in Call |-> Nil]
    /\ token = [c \in Call |-> Nil]
    /\ request = [c \in Call |-> Nil]
    /\ identity = [c \in Call |-> Nil]
    /\ outcome = [c \in Call |-> Nil]
    /\ reply = [c \in Call |-> Nil]
    /\ trail = [c \in Call |-> Nil]
    /\ acts = 0
    /\ applied = {}
    /\ fault = {}
    /\ unrecorded = {}
    /\ seenEnabled = {}
    /\ seenAllowed = {}
    /\ demoted = FALSE

-----------------------------------------------------------------------------
(* Helpers *)

(* The UNIQUE constraint on users.email. *)
Taken(e) == \E i \in Id : users[i] # Nil /\ users[i].email = e

Exists(i) == i # Nil /\ users[i] # Nil

IsAdmin(i) ==
    /\ AdminEmail # Nil
    /\ users[i] # Nil
    /\ users[i].email = Normalise(AdminEmail)

(* Mutant: NewUser leaves AuthProvider empty. *)
NewAccountUnprovided(e) ==
    [email |-> e, enabled |-> TRUE, provider |-> "", subject |-> Nil]

NewAccount(e) ==
    [email |-> e, enabled |-> TRUE, provider |-> "local", subject |-> Nil]

(* GetByID for a local token, GetByExternalIdentity for the others. *)
Designates(t, i) ==
    /\ users[i] # Nil
    /\ \/ t.provider = "local" /\ t.subject = i
       \/ /\ t.provider = "oidc"
          /\ users[i].provider = "oidc"
          /\ users[i].subject = t.subject

(* Mutant: enabled is not looked at. *)
AuthenticAlways(t, i) == t # Nil /\ Designates(t, i)

Authentic(t, i) == t # Nil /\ Designates(t, i) /\ users[i].enabled

(* UserPermissions: user_roles joined with role_permissions. *)
Permissions(i) == UNION {rolePerms[r] : r \in userRoles[i]}

HasPermission(i, p) == p \in Permissions(i)

(* The method has a policy. *)
Guarded(c) == request[c].method \in DOMAIN Policies

Finish(c, code) ==
    /\ pc' = [pc EXCEPT ![c] = "done"]
    /\ reply' = [reply EXCEPT ![c] = code]

(* The histories look at every state a running call passes through. *)
Enabled(c) ==
    /\ pc[c] \in Running
    /\ token[c] # Nil
    /\ \E i \in Id : Designates(token[c], i) /\ users[i].enabled

Allowed(c) ==
    /\ pc[c] \in Running
    /\ identity[c] # Nil
    /\ Guarded(c)
    /\ Policies[request[c].method] \in Permissions(identity[c])

Observe ==
    /\ seenEnabled' = seenEnabled \cup {c \in Call : Enabled(c)'}
    /\ seenAllowed' = seenAllowed \cup {c \in Call : Allowed(c)'}

-----------------------------------------------------------------------------
(* EnsureAdmin *)

(* Without a configured address there is nothing to ensure. *)
Boot(r) ==
    /\ boot[r] = "down"
    /\ boot' = [boot EXCEPT ![r] = IF AdminEmail = Nil THEN "serving"
                                                       ELSE "account"]
    /\ UNCHANGED <<db, call, trail, acts, applied, fault, unrecorded, demoted>>
    /\ Observe

(* ON CONFLICT(email) DO NOTHING *)
AccountEffect(r) ==
    IF Taken(Normalise(AdminEmail)) THEN UNCHANGED users
    ELSE users' = [users EXCEPT ![r] = NewAccount(Normalise(AdminEmail))]

(* Mutant: the role is left alone when the account was already there. *)
EnsureAccountOnce(r) ==
    /\ boot[r] = "account"
    /\ AccountEffect(r)
    /\ boot' = [boot EXCEPT ![r] = IF Taken(Normalise(AdminEmail))
                                   THEN "serving" ELSE "role"]
    /\ UNCHANGED <<userRoles, rolePerms, sessions, call, trail, acts, applied,
                   fault, unrecorded, demoted>>
    /\ Observe

EnsureAccount(r) ==
    /\ boot[r] = "account"
    /\ AccountEffect(r)
    /\ boot' = [boot EXCEPT ![r] = "role"]
    /\ UNCHANGED <<userRoles, rolePerms, sessions, call, trail, acts, applied,
                   fault, unrecorded, demoted>>
    /\ Observe

(* INSERT ... SELECT by email, ON CONFLICT DO NOTHING *)
RoleEffect ==
    /\ userRoles' =
           [i \in Id |-> IF IsAdmin(i) THEN userRoles[i] \cup {"super_admin"}
                                      ELSE userRoles[i]]
    /\ demoted' = FALSE

EnsureRole(r) ==
    /\ boot[r] = "role"
    /\ RoleEffect
    /\ boot' = [boot EXCEPT ![r] = "serving"]
    /\ UNCHANGED <<users, rolePerms, sessions, call, trail, acts, applied,
                   fault, unrecorded>>
    /\ Observe

(* A statement fails, or commits and loses its answer: run returns. *)
BootFails(r) ==
    /\ boot[r] \in {"account", "role"}
    /\ \/ boot[r] = "account" /\ AccountEffect(r) /\ UNCHANGED <<userRoles, demoted>>
       \/ boot[r] = "role" /\ RoleEffect /\ UNCHANGED users
       \/ UNCHANGED <<users, userRoles, demoted>>
    /\ boot' = [boot EXCEPT ![r] = "down"]
    /\ UNCHANGED <<rolePerms, sessions, call, trail, acts, applied, fault,
                   unrecorded>>
    /\ Observe

(* A replica dies at any moment, with the calls it runs. *)
Crash(r) ==
    /\ boot[r] # "down"
    /\ boot' = [boot EXCEPT ![r] = "down"]
    /\ pc' = [c \in Call |-> IF on[c] = r /\ pc[c] \in Running
                             THEN "crashed" ELSE pc[c]]
    /\ UNCHANGED <<db, on, token, request, identity, outcome, reply, trail,
                   acts, applied, fault, unrecorded, demoted>>
    /\ Observe

-----------------------------------------------------------------------------
(* The interceptors *)

(* A local token was issued to an account at its login. *)
Arrive(c) ==
    /\ pc[c] = "idle"
    /\ \E r \in Replica : boot[r] = "serving" /\ on' = [on EXCEPT ![c] = r]
    /\ \E t \in Token \cup {Nil}, q \in Request :
           /\ t # Nil /\ t.provider = "local" => users[t.subject] # Nil
           /\ token' = [token EXCEPT ![c] = t]
           /\ request' = [request EXCEPT ![c] = q]
    /\ pc' = [pc EXCEPT ![c] = "authenticate"]
    /\ UNCHANGED <<db, boot, identity, outcome, reply, trail, acts, applied,
                   fault, unrecorded, demoted>>
    /\ Observe

Authenticate(c) ==
    /\ pc[c] = "authenticate"
    /\ \E i \in Id :
           /\ Authentic(token[c], i)
           /\ identity' = [identity EXCEPT ![c] = i]
    /\ pc' = [pc EXCEPT ![c] = "validate"]
    /\ UNCHANGED <<db, boot, on, token, request, outcome, reply, trail, acts,
                   applied, fault, unrecorded, demoted>>
    /\ Observe

(* No bearer token, none that verifies, no account for it, or a disabled   *)
(* one.                                                                    *)
AuthenticateRefuses(c) ==
    /\ pc[c] = "authenticate"
    /\ ~\E i \in Id : Authentic(token[c], i)
    /\ Finish(c, "unauthenticated")
    /\ UNCHANGED <<db, boot, on, token, request, identity, outcome, trail,
                   acts, applied, fault, unrecorded, demoted>>
    /\ Observe

(* A failed lookup is reported as an invalid token too. *)
AuthenticateFails(c) ==
    /\ pc[c] = "authenticate"
    /\ token[c] # Nil
    /\ Finish(c, "unauthenticated")
    /\ fault' = fault \cup {c}
    /\ UNCHANGED <<db, boot, on, token, request, identity, outcome, trail,
                   acts, applied, unrecorded, demoted>>
    /\ Observe

Validate(c) ==
    /\ pc[c] = "validate"
    /\ IF request[c].form = "invalid"
       THEN Finish(c, "invalid")
       ELSE pc' = [pc EXCEPT ![c] = "authorize"] /\ UNCHANGED reply
    /\ UNCHANGED <<db, boot, on, token, request, identity, outcome, trail,
                   acts, applied, fault, unrecorded, demoted>>
    /\ Observe

(* A method without a policy goes to its handler without a statement. *)
Authorize(c) ==
    /\ pc[c] = "authorize"
    /\ IF Guarded(c) => HasPermission(identity[c], Policies[request[c].method])
       THEN pc' = [pc EXCEPT ![c] = "handler"] /\ UNCHANGED reply
       ELSE Finish(c, "denied")
    /\ UNCHANGED <<db, boot, on, token, request, identity, outcome, trail,
                   acts, applied, fault, unrecorded, demoted>>
    /\ Observe

AuthorizeFails(c) ==
    /\ pc[c] = "authorize"
    /\ Guarded(c)
    /\ Finish(c, "internal")
    /\ fault' = fault \cup {c}
    /\ UNCHANGED <<db, boot, on, token, request, identity, outcome, trail,
                   acts, applied, unrecorded, demoted>>
    /\ Observe

-----------------------------------------------------------------------------
(* The handlers *)

(* The statement of each mutation, when it succeeds.  An INSERT into a     *)
(* relation needs both rows, a DELETE does not.                            *)
CreateEffect(c) ==
    LET e == Normalise(request[c].email)
    IN  /\ request[c].method = "CreateUser"
        /\ request[c].form = "valid"
        /\ ~Taken(e)
        /\ users' = [users EXCEPT ![c] = NewAccount(e)]
        /\ UNCHANGED <<userRoles, rolePerms, sessions, demoted>>

AssignRoleEffect(c) ==
    LET q == request[c]
    IN  /\ q.method = "AssignRole"
        /\ q.role # Nil /\ Exists(q.user)
        /\ userRoles' = [userRoles EXCEPT ![q.user] = @ \cup {q.role}]
        /\ UNCHANGED <<users, rolePerms, sessions, demoted>>

RemoveRoleEffect(c) ==
    LET q == request[c]
    IN  /\ q.method = "RemoveRole"
        /\ userRoles' = [i \in Id |-> IF i = q.user
                                      THEN userRoles[i] \ {q.role}
                                      ELSE userRoles[i]]
        /\ demoted' = \/ demoted
                      \/ q.role = "super_admin" /\ q.user # Nil /\ IsAdmin(q.user)
        /\ UNCHANGED <<users, rolePerms, sessions>>

AssignPermissionEffect(c) ==
    LET q == request[c]
    IN  /\ q.method = "AssignPermissionToRole"
        /\ q.role # Nil /\ q.permission # Nil
        /\ rolePerms' = [rolePerms EXCEPT ![q.role] = @ \cup {q.permission}]
        /\ UNCHANGED <<users, userRoles, sessions, demoted>>

RemovePermissionEffect(c) ==
    LET q == request[c]
    IN  /\ q.method = "RemovePermissionFromRole"
        /\ rolePerms' = [r \in Role |-> IF r = q.role
                                        THEN rolePerms[r] \ {q.permission}
                                        ELSE rolePerms[r]]
        /\ UNCHANGED <<users, userRoles, sessions, demoted>>

(* WHERE id = ... AND user_id = ... AND revoked_at IS NULL: a caller's own. *)
RevokeMatches(c) ==
    request[c].user = identity[c] /\ request[c].user \in sessions

RevokeEffect(c) ==
    /\ request[c].method = "RevokeSession"
    /\ RevokeMatches(c)
    /\ sessions' = sessions \ {request[c].user}
    /\ UNCHANGED <<users, userRoles, rolePerms, demoted>>

Effect(c) ==
    /\ \/ CreateEffect(c)
       \/ AssignRoleEffect(c) \/ RemoveRoleEffect(c)
       \/ AssignPermissionEffect(c) \/ RemovePermissionEffect(c)
       \/ RevokeEffect(c)
    /\ applied' = applied \cup {c}

Return(c, code) ==
    /\ outcome' = [outcome EXCEPT ![c] = code]
    /\ pc' = [pc EXCEPT ![c] = "audit"]

Mutate(c) ==
    /\ pc[c] = "handler"
    /\ Effect(c)
    /\ Return(c, "ok")
    /\ UNCHANGED <<boot, on, token, request, identity, reply, trail, acts, fault,
                   unrecorded>>
    /\ Observe

(* Mutant: a unique violation is taken for success. *)
CreateConflictIsOk(c) ==
    LET q == request[c]
    IN  /\ pc[c] = "handler"
        /\ q.method = "CreateUser" /\ q.form = "valid"
        /\ Taken(Normalise(q.email))
        /\ Return(c, "ok")
        /\ UNCHANGED <<db, boot, on, token, request, identity, reply, trail,
                       acts, applied, fault, unrecorded, demoted>>
        /\ Observe

(* The unique violation 23505 becomes ErrEmailExists. *)
CreateConflict(c) ==
    LET q == request[c]
    IN  /\ pc[c] = "handler"
        /\ q.method = "CreateUser" /\ q.form = "valid"
        /\ Taken(Normalise(q.email))
        /\ Return(c, "exists")
        /\ UNCHANGED <<db, boot, on, token, request, identity, reply, trail,
                       acts, applied, fault, unrecorded, demoted>>
        /\ Observe

(* No row was updated: ErrSessionNotFound. *)
RevokeMiss(c) ==
    /\ pc[c] = "handler"
    /\ request[c].method = "RevokeSession"
    /\ ~RevokeMatches(c)
    /\ Return(c, "notfound")
    /\ UNCHANGED <<db, boot, on, token, request, identity, reply, trail, acts,
                   applied, fault, unrecorded, demoted>>
    /\ Observe

(* A password of blanks, or a relation to a row that does not exist. *)
MutateRefused(c) ==
    LET q == request[c]
    IN  /\ pc[c] = "handler"
        /\ \/ q.method = "CreateUser" /\ q.form = "blank"
           \/ /\ q.method = "AssignRole"
              /\ q.role = Nil \/ ~Exists(q.user)
           \/ /\ q.method = "AssignPermissionToRole"
              /\ q.role = Nil \/ q.permission = Nil
        /\ Return(c, "internal")
        /\ UNCHANGED <<db, boot, on, token, request, identity, reply, trail,
                       acts, applied, fault, unrecorded, demoted>>
        /\ Observe

(* The statement fails, or commits and loses its answer. *)
MutateFails(c) ==
    /\ pc[c] = "handler"
    /\ request[c].method \in Mutation
    /\ Effect(c) \/ UNCHANGED <<db, applied, demoted>>
    /\ Return(c, "internal")
    /\ fault' = fault \cup {c}
    /\ UNCHANGED <<boot, on, token, request, identity, reply, trail, acts,
                   unrecorded>>
    /\ Observe

(* A method that changes nothing; its statement may fail or find no row. *)
Read(c) ==
    /\ pc[c] = "handler"
    /\ request[c].method \notin Mutation
    /\ \E code \in {"ok", "notfound", "internal"} :
           /\ code = "notfound" => request[c].method = "GetUser"
           /\ Finish(c, code)
    /\ UNCHANGED <<db, boot, on, token, request, identity, outcome, trail,
                   acts, applied, fault, unrecorded, demoted>>
    /\ Observe

(* Mutant: only successes are recorded. *)
RecordSuccess(c) ==
    trail' = IF outcome[c] = "ok" THEN [trail EXCEPT ![c] = outcome[c]] ELSE trail

(* One INSERT into audit_events, with the code of the handler. *)
Record(c) == trail' = [trail EXCEPT ![c] = outcome[c]]

Audit(c) ==
    /\ pc[c] = "audit"
    /\ Record(c)
    /\ Finish(c, outcome[c])
    /\ UNCHANGED <<db, boot, on, token, request, identity, outcome, acts,
                   applied, fault, unrecorded, demoted>>
    /\ Observe

(* The INSERT fails, or commits and loses its answer; the error is logged. *)
AuditFails(c) ==
    /\ pc[c] = "audit"
    /\ Record(c) \/ UNCHANGED trail
    /\ Finish(c, outcome[c])
    /\ unrecorded' = unrecorded \cup {c}
    /\ UNCHANGED <<db, boot, on, token, request, identity, outcome, acts,
                   applied, fault, demoted>>
    /\ Observe

-----------------------------------------------------------------------------
(* What operators do to an account by SQL: no RPC does. *)

Enable(i, b) ==
    /\ users[i] # Nil /\ users[i].enabled # b
    /\ users' = [users EXCEPT ![i].enabled = b]

(* The unique index on (auth_provider, external_subject). *)
Link(i, s) ==
    /\ users[i] # Nil
    /\ \A j \in Id : users[j] # Nil => users[j].subject # s
    /\ users' = [users EXCEPT ![i].provider = "oidc", ![i].subject = s]

Operate ==
    /\ acts < MaxActs
    /\ acts' = acts + 1
    /\ \E i \in Id : \/ \E b \in BOOLEAN : Enable(i, b)
                     \/ \E s \in Subject : Link(i, s)
    /\ UNCHANGED <<userRoles, rolePerms, sessions, boot, call, trail, applied,
                   fault, unrecorded, demoted>>
    /\ Observe

-----------------------------------------------------------------------------

Start(r) ==
    Boot(r) \/ EnsureAccount(r) \/ EnsureRole(r) \/ BootFails(r) \/ Crash(r)

Serve(c) ==
    \/ Arrive(c)
    \/ Authenticate(c) \/ AuthenticateRefuses(c) \/ AuthenticateFails(c)
    \/ Validate(c) \/ Authorize(c) \/ AuthorizeFails(c)
    \/ Mutate(c) \/ CreateConflict(c) \/ RevokeMiss(c) \/ MutateRefused(c)
    \/ MutateFails(c) \/ Read(c) \/ Audit(c) \/ AuditFails(c)

Next ==
    \/ \E r \in Replica : Start(r)
    \/ \E c \in Call : Serve(c)
    \/ Operate

Spec == Init /\ [][Next]_vars

-----------------------------------------------------------------------------
(* Properties *)

(* A mutation is only executed for a call whose token stood for an enabled *)
(* account at some moment of that call, and whose account had the          *)
(* permission at some moment of it, whatever roles, permissions, accounts  *)
(* and replicas do meanwhile: nothing that held before the call counts.    *)
(* RevokeSession, which needs no permission, ends only the caller's own.   *)
EffectEntitled ==
    \A c \in applied :
        /\ c \in seenEnabled
        /\ Guarded(c) => c \in seenAllowed
        /\ request[c].method = "RevokeSession" => request[c].user = identity[c]

(* While any replica serves, there is an account with the bootstrap        *)
(* address and it has the super_admin role, unless somebody removed that   *)
(* since a replica last came up: crashes between the two statements of     *)
(* EnsureAdmin, replicas racing each other and accounts that were created  *)
(* with that address before included.                                      *)
AdminWhenServing ==
    AdminEmail # Nil /\ (\E r \in Replica : boot[r] = "serving") =>
        \E i \in Id :
            IsAdmin(i) /\ (demoted \/ "super_admin" \in userRoles[i])

(* A mailbox has one account, however its address was typed in CreateUser  *)
(* and BOOTSTRAP_ADMIN_EMAIL and however creations interleave.             *)
OneAccountPerMailbox ==
    \A i, j \in Id :
        /\ users[i] # Nil /\ users[j] # Nil
        /\ users[i].email.mail = users[j].email.mail
        => i = j

(* What a client is told of its CreateUser is true: "ok" means that its    *)
(* account is there, "exists" that somebody else's has the mailbox.        *)
CreateAnswerTrue ==
    \A c \in Call :
        reply[c] # Nil /\ request[c].method = "CreateUser" =>
            /\ reply[c] = "ok" =>
                   /\ users[c] # Nil
                   /\ users[c].email.mail = request[c].email.mail
            /\ reply[c] = "exists" =>
                   \E i \in Id \ {c} :
                       users[i] # Nil /\ users[i].email.mail = request[c].email.mail

(* The trail.  An event has the code the client was told, "ok" only of a   *)
(* mutation that was executed, and none is of a call that was refused      *)
(* before its handler.  Every attempt that is over has its event, failed   *)
(* ones too, and every effect has, unless the INSERT itself failed or the  *)
(* replica died before it.  That failure is not the client's: it is told   *)
(* what the handler returned, which is the truth about the effect unless   *)
(* the mutation's own answer was lost.                                     *)
TrailTrue ==
    \A c \in Call :
        /\ trail[c] # Nil =>
               trail[c] = reply[c] /\ (Guarded(c) => c \in seenAllowed)
        /\ trail[c] = "ok" => c \in applied
        /\ reply[c] # Nil /\ outcome[c] # Nil =>
               reply[c] = outcome[c] /\ (trail[c] # Nil \/ c \in unrecorded)
        /\ c \in applied =>
               \/ trail[c] # Nil \/ c \in unrecorded
               \/ pc[c] \in {"audit", "crashed"}
        /\ c \in applied /\ reply[c] # Nil => reply[c] = "ok" \/ c \in fault

(* A removal that was executed and not answered with success so far. *)
Withdrawing ==
    \E c \in applied :
        /\ request[c].method \in {"RemoveRole", "RemovePermissionFromRole"}
        /\ reply[c] # "ok"

(* A mutation that needs a permission is only executed for an account that *)
(* has it at that moment, once every removal was answered.  README.md says *)
(* that revocation takes effect immediately because permissions are read   *)
(* from the database; they are read before the handler's own statement.    *)
RevocationImmediate ==
    [][\A c \in applied' \ applied :
           \/ ~Guarded(c)
           \/ HasPermission(identity[c], Policies[request[c].method])
           \/ Withdrawing]_vars

=============================================================================
