SPECIFICATION FairSpec
CONSTANTS
  h1 = h1 h2 = h2
  Hosts = {h1}
  Messages = {1}
  MaxAttempts = 2
  MaxFaults = 1
PROPERTIES StartHeard
