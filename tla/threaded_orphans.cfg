SPECIFICATION Spec
CONSTANTS
  Workers = {w1, w2}
  w1 = w1
  w2 = w2
  Mon = Mon
  MaxPid = 3
  MaxTok = 0
  Programs <- OrphanPrograms
SYMMETRY WorkerSymmetry
PROPERTY OrphansNeverRun
