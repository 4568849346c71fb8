CONSTANTS
  Harts <- TwoHarts
  Ops <- Shutdown
  MaxCalls = 2
  MaxInput = 2
SPECIFICATION FairSpec
INVARIANTS AssertionsHold OneRequest OwnAnswer PrintedAtExit
PROPERTIES NoOverwrite AtomicConsole CallsReturn
CHECK_DEADLOCK FALSE
