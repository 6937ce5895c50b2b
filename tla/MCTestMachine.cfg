SPECIFICATION Spec
CONSTANTS
  Null = Null
  Machine = Machine
  DefReg = DefReg
  DefMod = DefMod
  ModNames = {a}
  RegNames = {r}
  Fixtures <- AllOrNone
  PoolSize = 5
  TableSize = 2
  MaxTables = 2
  MaxOps = 3
  MaxFaults = 2
  MaxSteps = 4
  MaxFrames = 2
CHECK_DEADLOCK FALSE
INVARIANTS
  TypeOK
  RingsIntact
  NoBlockLost
  CacheExact
  ThrowHasFrame
  CallsInOrder
  StatusRight
  Verdict
  HookBrackets
