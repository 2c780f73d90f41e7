SPECIFICATION Spec
CONSTANTS
  a1 = a1
  c1 = c1
  None = None
  Attempts = {a1}
  Closers = {c1}
  Outcomes = {"success", "failure"}
  WithBlock = TRUE
INVARIANTS
  AllFailedMeansRouterError
