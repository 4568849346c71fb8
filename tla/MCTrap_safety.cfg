CONSTANTS
  MaxDepth = 3
  ssp = ssp
  usp = usp
  LowerSps <- Sps
  MaxPc = 2
  Zero = Zero
SPECIFICATION Spec
INVARIANTS TypeOK MscratchDiscipline FramesApart
PROPERTIES ReturnsWhereItCame RedirectsAsTrap
CHECK_DEADLOCK FALSE
