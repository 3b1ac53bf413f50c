SPECIFICATION Spec
CONSTANTS
  Workers = {w1, w2}
  w1 = w1
  w2 = w2
  Mon = Mon
  MaxPid = 2
  MaxTok = 2
  Programs <- FaultPrograms
SYMMETRY WorkerSymmetry
INVARIANT OwnershipExact
INVARIANT EndsRight
