CONSTANTS
  Harts <- ThreeHarts
  Running <- OnlyHart0
  Disabled <- NoHart
  Kinds <- AllKinds
  MaxCalls <- TwoSenders
SPECIFICATION FairSpec
PROPERTIES NoDeadlock
CHECK_DEADLOCK FALSE
