SPECIFICATION FairSpec
CONSTANTS
  k1 = k1
  k2 = k2
  k3 = k3
  o1 = o1
  w1 = w1
  w2 = w2
  Toks = {k1, k2, k3}
  NoTok = NoTok
  Owners = {o1}
  Threads = {w1, w2}
  CoreThreads = 1
  InFlight = 1
  HeapSlack = 0
  Sleeps = {k3}
  Https = {k1, k2}
  Files = {}
  Requests <- MCRequests
  Cancels = {k1, k2}
  MayStop = TRUE
INVARIANT DeadlinesCovered
PROPERTY ServiceImplemented
PROPERTY EveryRequestSettles
PROPERTY ShutdownReturns
CHECK_DEADLOCK FALSE
