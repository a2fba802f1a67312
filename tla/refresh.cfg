SPECIFICATION Spec
CONSTANTS
  p1 = p1 p2 = p2
  Procs = {p1, p2}
  Update = 1
  Stale = 2
  Attempts = 2
  Keychain = TRUE
  MaxPairs = 3
  MaxSigns = 2
  MaxFaults = 1
SYMMETRY ProcSymmetry
INVARIANTS TypeOK GrantSpentOnce LoginStands
CHECK_DEADLOCK FALSE
