\* Two isolates that start, dispose and exit, and one TDLib object.
CONSTANTS
  Clients = {c1, c2}
  None = none
  MaxRestarts = 0
  MaxDisposals = 1
  MaxObjects = 1
SPECIFICATION Spec
SYMMETRY Symmetry
INVARIANTS TypeOK MappedWorkerServes ReceiverIsReachable OneSubscription NothingMissed NobodyElseUnsubscribes
PROPERTIES FirstSubOnce
CHECK_DEADLOCK FALSE
