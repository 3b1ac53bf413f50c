SPECIFICATION Spec
CONSTANTS
  k1 = k1
  k2 = k2
  k3 = k3
  k4 = k4
  o1 = o1
  o2 = o2
  w1 = w1
  w2 = w2
  w3 = w3
  Toks = {k1, k2, k3, k4}
  NoTok = NoTok
  Owners = {o1, o2}
  Threads = {w1, w2, w3}
  CoreThreads = 1
  InFlight = 2
  HeapSlack = 0
  Sleeps = {}
  Https = {}
  Files = {k1, k2, k3, k4}
  Requests <- MCRequests
  Cancels = {k1, k2, k3, k4}
  MayStop = TRUE
SYMMETRY MCSymmetry
INVARIANT AccountingExact
INVARIANT NoStrandedJob
PROPERTY FairTurns

CHECK_DEADLOCK FALSE
