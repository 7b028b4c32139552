SPECIFICATION Spec
CONSTANTS
  Worker = {w1, w2, w3}
  MaxJobs = 4
  Counts = {2, 4}
  MaxExecutes = 2
  Width = 3
  BadEntry = {1}
INVARIANT TypeOK
INVARIANT JobsDone
 
INVARIANT NeighboursDecoded
PROPERTY CallsReturn
CHECK_DEADLOCK FALSE
