\* Packets of one to seven lacing values, pages of three.
SPECIFICATION Spec
CONSTANTS
  Unit = 2
  PageLacings = 3
  FixedHeader = 1
  InitialPages = 1
  Sizes <- SomeSizes
  Steps <- SomeSteps
  Delays <- SomeDelays
  MaxPackets = 3
  MaxStreams = 2
INVARIANTS
  TypeOK
  PagesTile
  BytesAreLaced
PROPERTIES
  DelayKept
  ImplementsPages
CHECK_DEADLOCK FALSE
