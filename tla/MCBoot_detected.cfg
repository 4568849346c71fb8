CONSTANTS
  Harts <- TwoHarts
  Listed <- OneCpu
  Wired <- OneCpu
  Mask = 0
  MaxHarts = 8
SPECIFICATION Spec
INVARIANTS CurrentDetected
CHECK_DEADLOCK FALSE
