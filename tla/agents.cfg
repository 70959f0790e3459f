SPECIFICATION SideSpec
CONSTANTS
    Parts = {"calls", "again", "saves", "react", "main", "plan", "branches", "limits", "page", "standalone", "edits", "forms", "turns", "texts", "repeats", "single"}
    Absent = Absent
    a1 = a1
    p1 = p1
    r1 = r1
    r2 = r2
    x1 = x1
    x2 = x2
    respond = respond
    act = act
    broken = broken
    NoArguments = NoArguments
    NoName = NoName
    xml0 = xml0
    xml1 = xml1
    old = old
    i1 = i1
    i2 = i2
    Agents = {a1}
    Parents = {p1}
    AccountOf <- OneAccount
    GlobalLimit = 2
    AccountLimit = 1
    Tries = 2
    Resets = 1
    Outcomes = {"succeeded"}
INVARIANTS
    Safety
    AgentsSafe
    ProtocolSafe
PROPERTIES
    NoResultAfterClose
    AgentSteps
CHECK_DEADLOCK FALSE
