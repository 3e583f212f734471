CONSTANTS
  s1 = s1
  s2 = s2
  l1 = l1
  l2 = l2
  i1 = i1
  i2 = i2
  Strings = {s1, s2}
  Slices = {l1, l2}
  Ints = {i1, i2}
  Scopes <- onInts
  LitLen = 2
  InitLen = 2
  LoopCap = 3
  TripCap = 4
  Window = 11
  MaxOps <- opsOf
  MaxNest = 2
  MaxLen = 6
  MaxVal = 22
  AssignInLoops = TRUE
SYMMETRY alike
SPECIFICATION Spec
INVARIANT WidthTagged
CHECK_DEADLOCK FALSE
