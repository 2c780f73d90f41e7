SPECIFICATION FairSpec
CONSTANTS
  Callers = {c1, c2}
  Records = {r1, uns, inv, bad}
  NoRecord = NoRecord
  Unsafe = {bad}
  Invalid = {inv}
  Unstorable = {uns}
  MaxQueue = 2
  BatchSize = 2
  MaxStarts = 2
INVARIANTS
  QueueKeepsOrder
  DrainLeavesNothing
PROPERTIES
  ImplementsDelivery
  StopEnds
  AcceptedIsSettled
CHECK_DEADLOCK FALSE
