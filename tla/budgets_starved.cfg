SPECIFICATION Spec
CONSTANTS
  root = root
  p1 = p1
  p2 = p2
  Procs = {root, p1, p2}
  Root = root
  k1 = k1
  Kinds = {k1}
  MaxLive = 2
  MaxSpawns = 2
  MaxFuel = 4
  MaxMem = 2
  MaxRes = 1
  MaxKind = 1
  Limit <- MCLimit
  Slice = 2
  Sizes = {1}
  Ops = {"spawn"}
PROPERTY ExhaustionIsFinal
