SPECIFICATION Spec
CONSTANTS
  root = root
  p1 = p1
  p2 = p2
  Procs = {root, p1, p2}
  Root = root
  k1 = k1
  k2 = k2
  Kinds = {k1, k2}
  MaxLive = 2
  MaxSpawns = 2
  MaxFuel = 3
  MaxMem = 2
  MaxRes = 2
  MaxKind = 1
  Limit <- MCLimit
  Slice = 2
  Sizes = {1}
  Ops = {"alloc", "handle", "collect", "spawn"}
SYMMETRY ProcSymmetry
INVARIANT LiveSlotsExact
INVARIANT FuelConserved
INVARIANT BudgetsBalance
