SPECIFICATION Spec
CONSTANTS
  Contexts = {main, other}
  MaxSpans = 3
  MaxStops = 1
SYMMETRY Symmetry
INVARIANTS
  CurrentIsInnermost
  TraceWholeOrAbsent
  SinksAreOpenSpans
CHECK_DEADLOCK FALSE
