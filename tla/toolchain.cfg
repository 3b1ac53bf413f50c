CONSTANTS
  Programs <- MCPrograms
  IntMax = 127
  WordMax = 255
  MaxCallFrames = 20
  MaxStackSlots = 60
  MaxHandlerFrames = 8
  SliceFuel = 2
SPECIFICATION Spec
CHECK_DEADLOCK FALSE
INVARIANTS
  NestingBounded
  FormatFaithful
  LevelsAgree
  PinsKept
  MachinesAgree
  TypedRuns
  DepthsCovered
  NothingLeft
  MeaningPreserved
