SPECIFICATION Spec
CONSTANTS
    Nil = Nil
    boss = boss
    clerk = clerk
    inbox = inbox
    Call = {c1, c2}
    Replica = {r1, r2}
    Staff = {boss}
    Mail = {boss, inbox}
    Subject = {}
    Request <- InboxRequests
    StaffRoles <- OfficeRoles
    AdminEmail <- InboxAddress
    MaxActs = 0
SYMMETRY CallAndReplicaSymmetry
INVARIANTS
    TypeOK
    AdminWhenServing
    OneAccountPerMailbox
    CreateAnswerTrue
