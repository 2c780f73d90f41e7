SPECIFICATION Spec
CONSTANTS
  None = None
  T1 = T1
  T2 = T2
  M1 = M1
  M2 = M2
  Records <- MCRecords
  Legacy <- MCLegacy
  NewColumns = {"first_chunk_ms", "model"}
  MaxRows = 3
  CrashRows = 1
  Times = {1, 2}
  Interval = 2
  Durations = {1, 3}
INVARIANTS
  ReadyMeansMigrated
  CountsAgree
  DashboardIsConsistent
  DetailAgreesWithList
PROPERTIES
  NewSpansSurvive
SYMMETRY Interchangeable
CHECK_DEADLOCK FALSE
