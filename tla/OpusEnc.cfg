\* Up to 50 samples in calls of 10 and 40, two streams; pages handed to a callback
\* with one fault and one setting, or pulled with neither.
SPECIFICATION FairSpec
CONSTANTS
  LpcInput = 4
  LpcPadding = 1
  Lookahead = 3
  MaxLookahead = 8
  BufferSamples = 49
  PagePackets = 2
  Lengths <- SomeLengths
  Requests <- SomeRequests
  DecisionDelays <- SomeDelays
  MaxSamples = 50
  MaxStreams = 2
  MaxFaults = 1
  MaxCtls = 1
CONSTRAINT PulledAlone
INVARIANTS
  TypeOK
  NeverAborts
  BufferIsUnencoded
  StreamPlaysItsSamples
  FilesCloseOnce
PROPERTIES
  StreamIsWellFormed
  CallsReturn
CHECK_DEADLOCK FALSE
