\* The only account is left.
CONSTANTS
  Clients = {c1}
  NoClient = none
  MaxClients = 1
  MaxLaunches = 1
  MaxTaps = 2
SPECIFICATION Spec
INVARIANTS LogoutResets
CHECK_DEADLOCK FALSE
