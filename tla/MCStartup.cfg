CONSTANTS
  Harts <- FiveHarts
  Listed <- ListedHarts
  Wired <- ListedHarts
  Mask = 0
  MaxHarts = 4
  MAX_HARTS = 4
  Trees <- AllTrees
  Flattened <- FlattenedTree
  CellBase = 32
  Self = 40
SPECIFICATION FairStartSpec
INVARIANTS NoNullStore QuietStart PlatformAsDeclared ScanDelivers
PROPERTIES EachStarts
CHECK_DEADLOCK FALSE
