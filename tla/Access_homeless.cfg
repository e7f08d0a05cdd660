SPECIFICATION Spec
CONSTANTS
    c1 = c1
    c2 = c2
    MaxUser = 2
    MaxWs = 2
    MaxSession = 0
    MaxKey = 0
    Calls = {}
    Requests = {}
    Faults = {}
INVARIANTS
    AccountHasWorkspace
CHECK_DEADLOCK FALSE
