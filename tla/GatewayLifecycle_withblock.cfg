SPECIFICATION FairSpec
CONSTANTS
  a1 = a1
  a2 = a2
  c1 = c1
  None = None
  Attempts = {a1, a2}
  Closers = {c1}
  Outcomes = {"success"}
  WithBlock = TRUE
INVARIANTS
  RecordCoversRealAttempts
  RouterDoneLeavesNothing
PROPERTIES
  RouterCloseReturns
  ActivatedAttemptIsReported
