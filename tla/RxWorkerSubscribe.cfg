\* Two isolates that start.
CONSTANTS
  Clients = {c1, c2}
  None = none
  MaxRestarts = 0
  MaxDisposals = 0
  MaxObjects = 0
SPECIFICATION FairSpec
PROPERTIES SubscribeAnswers
CHECK_DEADLOCK FALSE
