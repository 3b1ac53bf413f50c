SPECIFICATION FairSpec
CONSTANTS
  w1 = w1
  w2 = w2
  w3 = w3
  Workers = {w1, w2, w3}
  p1 = p1
  p2 = p2
  p3 = p3
  Pids = {p1, p2, p3}
  MaxQueue = 4
INVARIANT NoLostWakeup
PROPERTY QueuedRuns
PROPERTY ShutdownReturns
