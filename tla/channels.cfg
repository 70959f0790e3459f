SPECIFICATION SideSpec
CONSTANTS
    Parts = {"qq", "binding", "web", "admin", "link", "send", "official", "gateway", "order", "window", "gap", "notice", "view", "slots"}
    None = None
    x1 = x1
    x2 = x2
    w1 = w1
    Messages = {"m1", "d"}
    RouteOf <- InRoom
    SenderOf <- BySame
    OpOf <- Mixed
    TargetOf <- FirstMessage
    Groups = {}
    Untriggered = {}
    Accounts = {"a1"}
    FirstAccount <- FirstOfSender
    Handlers = {"h1", "h2"}
    WindowSize = 2
    MaxDelivery = 2
    MaxWeb = 1
    MaxRebind = 0
    MaxCrash = 1
    Faults = {"lost"}
SYMMETRY Symmetry
INVARIANTS
    Safety
    IdentitySafe
    WiresSafe
PROPERTIES
    ChannelSteps
CHECK_DEADLOCK FALSE
