SPECIFICATION Spec
CONSTANTS
  a1 = a1
  a2 = a2
  c1 = c1
  c2 = c2
  None = None
  Attempts = {a1, a2}
  Closers = {c1, c2}
  Outcomes = {"success", "failure"}
  WithBlock = FALSE
SYMMETRY Symmetry
INVARIANTS
  TypeOK
  ReportedAtMostOnce
  NoOrphanAttempt
  RouterEventMatchesStatus
  ExactlyOnceAggregation
  RouterCountsEveryFailure
PROPERTIES
  StartedBeforeClose
