CONSTANTS
  MaxDepth = 3
  ssp = ssp
  usp = usp
  LowerSps <- Sps
  MaxPc = 2
  Zero = Zero
SPECIFICATION Spec
PROPERTIES RedirectsToInstruction
CHECK_DEADLOCK FALSE
