\* Two databases, three clients per process, three processes, three requests.
CONSTANTS
  Clients = {c1, c2, c3}
  NoClient = none
  MaxClients = 2
  MaxLaunches = 3
  MaxTaps = 3
SPECIFICATION FairSpec
INVARIANTS TypeOK CurrentIsKnown CurrentIsSaved ReadyIsHeard
PROPERTIES AccountsSurvive LaunchEnds
CHECK_DEADLOCK FALSE
