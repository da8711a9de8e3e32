\* "Add account" tapped twice.
CONSTANTS
  Clients = {c1, c2, c3}
  NoClient = none
  MaxClients = 3
  MaxLaunches = 1
  MaxTaps = 2
SPECIFICATION Spec
INVARIANTS DatabaseRunsOnce
CHECK_DEADLOCK FALSE
