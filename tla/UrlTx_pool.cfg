SPECIFICATION FairSpec
CONSTANTS
    c1 = c1
    a = a
    b = b
    r1 = r1
    r2 = r2
    Codes = {c1}
    Names = {a, b}
    TagLists <- MCTagLists
    Requests = {r1, r2}
    Ops = {"create", "edit", "delete", "create tag", "rename tag", "delete tag"}
    MaxConns = 2
    UrlIds = {1}
    TagIds = {1, 2}
    Faults = {"db"}
INVARIANTS
    TypeOK
PROPERTIES
    AnsweredIsStored
    TagsAsRequested
    RequestEnds
CHECK_DEADLOCK FALSE
