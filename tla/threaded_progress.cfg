SPECIFICATION FairSpec
CONSTANTS
  Workers = {w1, w2}
  w1 = w1
  w2 = w2
  Mon = Mon
  MaxPid = 2
  MaxTok = 1
  Programs <- ProgressPrograms
PROPERTY LifecycleImplementedFairly
PROPERTY Termination
