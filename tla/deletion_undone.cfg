SPECIFICATION SideSpec
CONSTANTS
    Parts = {"delete"}
    Absent = Absent
    w1 = w1
    w2 = w2
    Scopes = {"private", "group"}
    Runs = {"old", "chat1", "chat2"}
    ScopeOf <- ScopeOfRun
    History <- HistoryOfRun
    Legacy = {"old"}
    MaxEpoch = 1
    Calls = 1
INVARIANTS
    DeletionIsFinal
CHECK_DEADLOCK FALSE
