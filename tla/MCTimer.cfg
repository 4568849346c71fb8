CONSTANTS
  Half = 3
  MaxTime = 7
SPECIFICATION FairSpec
INVARIANTS NoEarly RequestKept NoStorm
PROPERTIES Delivered
