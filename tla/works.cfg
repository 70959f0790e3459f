SPECIFICATION SideSpec
CONSTANTS
    Parts = {"capacity", "model", "tool", "research", "pair", "failure", "nothing", "shown", "days", "quiet", "reminders", "chats"}
    Absent = Absent
    a1 = a1
    a2 = a2
    u1 = u1
    u2 = u2
    u3 = u3
    work1 = work1
    chat1 = chat1
    chat2 = chat2
    chat3 = chat3
    x1 = x1
    x2 = x2
    y1 = y1
    y2 = y2
    Tickets = {"i1", "b1", "b3"}
    AccountOf <- AccountOfTicket
    LaneOf <- LaneOfTicket
    Total = 2
    Interactive = 1
    PerAccount = 2
    MaxStalls = 1
SYMMETRY Symmetry
INVARIANTS
    Safety
    ResourcesSafe
PROPERTIES
    WorkSteps
CHECK_DEADLOCK FALSE
