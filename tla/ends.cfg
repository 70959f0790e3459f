SPECIFICATION FairSpec
CONSTANTS
    Parts = {"run", "tool", "delivery", "agent", "branches", "call", "parent", "feed", "gc", "capacity", "page", "qq", "link", "gateway", "memory", "http", "stdio"}
    Absent = Absent
    None = None
PROPERTIES
    RunsEnd
    NobodyWaitsForEver
    LinksRecover
CHECK_DEADLOCK FALSE
