\* Up to five messages, one deleted; answers of two, then three messages, two
\* requests at a time for either end.
CONSTANTS
  MaxMessages = 5
  MaxDeletions = 1
  MaxAsked = 2
  InitialLimit = 2
  LoadMoreCount = 3
  Directions <- Both
SPECIFICATION FairSpec
INVARIANTS TypeOK ListedAreKnown OneEndEach NoGap
PROPERTIES OpeningEnds LoadingEnds
CHECK_DEADLOCK FALSE
