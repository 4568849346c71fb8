CONSTANTS
  Harts <- ThreeHarts
  Running <- TwoHarts
  Disabled <- NoHart
  Kinds <- SoftAndFence
  MaxCalls <- TwoSenders
SPECIFICATION FairSpec
PROPERTIES CallsReturn EventsHandled
CHECK_DEADLOCK FALSE
