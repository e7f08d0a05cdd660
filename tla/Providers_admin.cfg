SPECIFICATION Spec
CONSTANTS
    s1 = s1
    e1 = e1
    e2 = e2
    u1 = u1
    u2 = u2
    r1 = r1
    r2 = r2
    Roles = {"user", "admin"}
    Subjects = {s1}
    Emails = {e1, e2}
    Users = {u1, u2}
    Requests = {r1, r2}
    NoSubject = NoSubject
    NoEmail = NoEmail
    NoUser = NoUser
    Faults = {"lost"}
SYMMETRY MCSymmetry
INVARIANTS
    TypeOK
    RegistryExplained
    OneAccountPerSubject
    SessionsAreOwn
PROPERTIES
    RegistrationAllowed
