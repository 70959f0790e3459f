\* Three segments, so that two stale Activities coexist.  The driver stops.
SPECIFICATION Spec
CONSTANTS
  MaxSegments = 3
  MaxFaults = 2
CHECK_DEADLOCK FALSE
INVARIANTS
  Safety
  EffectOnce
  EffectAccounted
  ReportedResultIsDurable
PROPERTY NoTokenRevival
