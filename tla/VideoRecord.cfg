\* A crash, an exit or the loss of every buffer of a pool ends the recording.
SPECIFICATION Spec
CHECK_DEADLOCK FALSE
CONSTANT Size <- PoolSizes
INVARIANT NeverStarved
INVARIANT NoneParked
INVARIANT SteadyText
PROPERTY RecordsForever
