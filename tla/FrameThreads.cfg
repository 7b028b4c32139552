SPECIFICATION Spec
CONSTANTS
  ThreadCount = 3
  MaxPackets = 4
  Codecs <- MCCodecs
INVARIANT TypeOK
INVARIANT SetupInOrder
PROPERTY InOrder
PROPERTY EndOfStream
PROPERTY CallsReturn
CHECK_DEADLOCK FALSE
