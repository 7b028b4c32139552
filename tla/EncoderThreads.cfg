SPECIFICATION Spec
CONSTANTS
  Worker = {w1, w2, w3}
  Threads = 3
  BufferSize = 6
  MaxFrames = 8
INVARIANT TypeOK
INVARIANT RingSuffices
PROPERTY InOrder
PROPERTY CallsReturn
CHECK_DEADLOCK FALSE
