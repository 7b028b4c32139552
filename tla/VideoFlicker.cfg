SPECIFICATION Spec
CHECK_DEADLOCK FALSE
CONSTANT Size <- PoolSizes
INVARIANT NoFlicker
