SPECIFICATION Spec
CONSTANTS
  Keys = {k1, k2}
  Values = {v1}
  Absent = Absent
  k1 = k1 k2 = k2 v1 = v1 v2 = v2 t1 = t1 t2 = t2
  Threads = {t1}
  MaxShapes = 1
  MaxLog = 2
  MaxFaults = 1
INVARIANT AtLeastOnce
CHECK_DEADLOCK FALSE
