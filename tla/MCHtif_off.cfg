CONSTANTS
  Harts <- TwoHarts
  Ops <- Off
  MaxCalls = 2
  MaxInput = 1
SPECIFICATION FairSpec
PROPERTIES PowersOff
CHECK_DEADLOCK FALSE
