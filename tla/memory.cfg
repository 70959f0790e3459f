SPECIFICATION SideSpec
CONSTANTS
    Parts = {"context", "delete", "sender", "copies", "curate", "uploads", "refs", "outputs", "clean", "revoke", "sent", "tree", "versions"}
    Absent = Absent
    w1 = w1
    w2 = w2
    Scopes = {"private", "group"}
    Runs = {"old", "chat1", "chat2"}
    ScopeOf <- ScopeOfRun
    History <- HistoryOfRun
    Legacy = {"old"}
    MaxEpoch = 1
    Calls = 1
INVARIANTS
    Safety
    SourcesSafe
    FilesSafe
PROPERTIES
    NothingWithdrawnIsSent
    NothingWithdrawnIsFinal
    MemorySteps
CHECK_DEADLOCK FALSE
