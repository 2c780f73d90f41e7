SPECIFICATION FairSpec
CONSTANTS
  Callers = {c1}
  Records = {r1, inv}
  NoRecord = NoRecord
  Unsafe = {}
  Invalid = {inv}
  Unstorable = {}
  MaxQueue = 2
  BatchSize = 2
  MaxStarts = 1
PROPERTIES
  GoodRecordSettles
CHECK_DEADLOCK FALSE
