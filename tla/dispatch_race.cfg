SPECIFICATION Spec
CONSTANTS
  r1 = r1
  r2 = r2
  c1 = c1
  c2 = c2
  w1 = w1
  w2 = w2
  p1 = p1
  p2 = p2
  Runs = {r1}
  Convs = {c1}
  ConvOf <- OneConv
  Pids = {p1}
  NoPid = NoPid
  NoRun = NoRun
  Workers = {w1, w2}
  PidOf <- SamePid
  MaxAttempts = 2
  BatchLimit = 1
  ReconLimit = 1
  MaxFaults = 2
SYMMETRY WorkerSymmetry
INVARIANTS RowBeforeWorkflow QueuedNotStranded CancelledOnlyByIntent
PROPERTY NoStartAfterEnd
CHECK_DEADLOCK FALSE
CONSTRAINT Calm
