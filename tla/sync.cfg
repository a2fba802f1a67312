SPECIFICATION FairSpec
CONSTANTS
  Keys = {k1, k2}
  Values = {v1}
  Absent = Absent
  k1 = k1 k2 = k2 v1 = v1 v2 = v2 t1 = t1 t2 = t2
  Threads = {t1, t2}
  MaxShapes = 2
  MaxLog = 2
  MaxFaults = 1
INVARIANTS TypeOK CatchUpReaches LiveIsWhole
PROPERTIES RefetchSwapsWhole Converges
CHECK_DEADLOCK FALSE
