SPECIFICATION SideSpec
CONSTANTS
    Parts = {"scope", "http", "sse", "streams", "stdio", "index", "limit", "select"}
    Absent = Absent
    c1 = c1
    c2 = c2
    keeper = keeper
    closer = closer
    s1 = s1
    s2 = s2
    s3 = s3
    chat = chat
    child = child
    MaxAttempts = 2
    MaxCrashes = 1
SYMMETRY Interchangeable
INVARIANTS
    Safety
    ToolsSafe
PROPERTIES
    NoneIsRefused
CHECK_DEADLOCK FALSE
