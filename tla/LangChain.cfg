SPECIFICATION Spec
CONSTANTS
  Contexts = {main, task}
  MaxFrames = 3
INVARIANTS
  SpanReportedOnce
  CurrentIsInnermost
  ClosedInvocationLeavesNoRun
  OneLLMSpanPerCall
SYMMETRY Symmetry
CHECK_DEADLOCK FALSE
