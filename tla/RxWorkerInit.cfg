\* Two isolates that start, and a worker that cannot spawn its receiver.
CONSTANTS
  Clients = {c1, c2}
  None = none
  MaxRestarts = 1
  MaxDisposals = 0
  MaxObjects = 0
SPECIFICATION FairSpec
PROPERTIES InitEnds
CHECK_DEADLOCK FALSE
