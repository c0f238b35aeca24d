SPECIFICATION Spec
CONSTANTS
    Nil = Nil
    boss = boss
    clerk = clerk
    inbox = inbox
    Call = {c1, c2}
    Replica = {r1}
    Staff = {boss, clerk}
    Mail = {boss, clerk, inbox}
    Subject = {sub}
    Request <- OfficeRequests
    StaffRoles <- OfficeRoles
    AdminEmail = Nil
    MaxActs = 0
PROPERTIES
    RevocationImmediate
