------------------------------ MODULE MCAccess ------------------------------
(* Instances of Access for TLC: who may do what while roles, permissions   *)
(* and accounts change, and the bootstrap racing creations of the same     *)
(* mailbox.                                                                *)
EXTENDS Access, TLC

CONSTANTS boss, clerk, inbox

Ask(m, u, r, p) ==
    [method |-> m, user |-> u, role |-> r, permission |-> p,
     email |-> [mail |-> boss, plain |-> TRUE], form |-> "valid"]

(* boss may do everything, clerk may look. *)
OfficeRoles == [s \in Staff |-> IF s = boss THEN {"super_admin"} ELSE {"viewer"}]

Create(m, lower, form) ==
    [method |-> "CreateUser", user |-> Nil, role |-> Nil, permission |-> Nil,
     email |-> [mail |-> m, plain |-> lower], form |-> form]

OfficeRequests ==
    {Ask("AssignRole", clerk, "super_admin", Nil),
     Ask("RemoveRole", boss, "super_admin", Nil),
     Ask("AssignPermissionToRole", Nil, "viewer", "roles:assign"),
     Ask("RemovePermissionFromRole", Nil, "super_admin", "roles:assign"),
     Ask("AssignPermissionToRole", Nil, "viewer", Nil),
     Ask("AssignRole", Nil, "viewer", Nil),
     Create(inbox, TRUE, "blank"),
     Ask("RevokeSession", clerk, Nil, Nil),
     Ask("GetUser", Nil, Nil, Nil),
     Ask("Me", Nil, Nil, Nil),
     [Ask("ListUsers", Nil, Nil, Nil) EXCEPT !.form = "invalid"]}

InboxRequests ==
    {Create(inbox, TRUE, "valid"), Create(inbox, FALSE, "valid")}
        \cup {Ask("RemoveRole", i, "super_admin", Nil) : i \in Call \cup Replica}

CallSymmetry == Permutations(Call)

CallAndReplicaSymmetry == Permutations(Call) \cup Permutations(Replica)

InboxAddress == [mail |-> inbox, plain |-> FALSE]
=============================================================================
