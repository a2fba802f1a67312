SPECIFICATION Spec
CONSTANTS
  h1 = h1 h2 = h2
  Hosts = {h1, h2}
  Messages = {1, 2}
  MaxAttempts = 2
  MaxFaults = 1
SYMMETRY HostSymmetry
INVARIANTS TypeOK OneAgent FedOnce ConsumedWasHeard StartIsCarried
