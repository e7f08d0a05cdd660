SPECIFICATION Spec
CONSTANTS
    a = a
    b = b
    c = c
    r1 = r1
    r2 = r2
    i1 = i1
    i2 = i2
    Users = {a, b, c}
    Creator = a
    Origins = {"signup"}
    Operators = {}
    Granted = {"viewer"}
    Invites = {}
    Requests = {r1, r2}
    Faults = {"db"}
SYMMETRY MCSymmetry
INVARIANTS
    AtLeastOneOwner
