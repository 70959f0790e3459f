SPECIFICATION Spec
CONSTANTS
  work1 = work1
  run1 = run1
  run2 = run2
  run3 = run3
  chat1 = chat1
  chat2 = chat2
  chat3 = chat3
  sender1 = sender1
  sender2 = sender2
  account1 = account1
  account2 = account2
  None = None
  Works = {work1}
  Daily = {}
  Runs = {run1, run2, run3}
  Chats = {}
  Inbox = {}
  Accounts = {account1}
  Owner <- OneAccount
  MaxCommands = 3
  Senders = {sender1, sender2}
  Parts = 2
  GlobalLimit = 1
  AccountLimit = 1
SYMMETRY Interchangeable
CHECK_DEADLOCK FALSE
INVARIANT Safety
PROPERTY TransitionsAreLegal
