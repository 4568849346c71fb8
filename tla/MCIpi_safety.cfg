CONSTANTS
  Harts <- ThreeHarts
  Running <- TwoHarts
  Disabled <- LastHart
  Kinds <- AllKinds
  MaxCalls <- ThreeCalls
SPECIFICATION Spec
INVARIANTS TypeOK EventNotLost NoStaleExecution
PROPERTIES KeepsPromise
CHECK_DEADLOCK FALSE
