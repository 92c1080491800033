SPECIFICATION Spec
CONSTANTS
  Sources = {s1, s2}
  Blocks = {b1, b2}
  FN = 2
  MaxCalls = 3
  MaxRetr = 1
SYMMETRY Symmetry
INVARIANT SamplesAreBackToBack
CHECK_DEADLOCK FALSE
