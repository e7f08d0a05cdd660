SPECIFICATION Spec
CONSTANTS
    c1 = c1
    c2 = c2
    MaxUser = 2
    MaxWs = 2
    MaxSession = 2
    MaxKey = 2
    Calls = {c1, c2}
    Requests = {"write", "login", "switch", "delete"}
    Faults = {"db"}
SYMMETRY MCSymmetry
CONSTRAINT InScope
INVARIANTS
    TypeOK
    RightsHeld
    ViewerNeverWrites
    RolledKeyIsDead
PROPERTIES
    PersonalWorkspaceKept
CHECK_DEADLOCK FALSE
