SPECIFICATION Spec
CONSTANTS
  Contexts = {c1, c2}
  Explicit = {0, 1}
  MaxRouters = 2
  MaxAttempts = 2
INVARIANTS
  AttemptBelongsToRouter
  
PROPERTIES
  RouterSlotSurvives
SYMMETRY Symmetry
CONSTRAINT OneDecided
CHECK_DEADLOCK FALSE
