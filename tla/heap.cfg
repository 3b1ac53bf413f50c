SPECIFICATION Spec
CONSTANTS
  MaxObjects = 4
  GcMin = 2
  BoundaryMin = 1
  SentMax = 4
  MaxMessage = 3
  MaxDepth = 2
  MaxStack = 2
  MaxHeld = 1
  MaxSpawns = 2
  MaxAllocs = 4
  Ops <- AllOps
INVARIANTS
  NoDanglingRef
  SentCacheCoherent
  GlobalsAgree
  MessagesBounded
PROPERTIES
  ReachableKept
  TransfersFaithful
CHECK_DEADLOCK FALSE
