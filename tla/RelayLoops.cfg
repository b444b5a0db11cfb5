\* Packet order, what is owed at the exit, and how the loops stop each other.
\* A relay ends: no deadlock check.
CONSTANTS
  BatchWrites = TRUE
  FlushCap = 2
  MaxSent = 2
SPECIFICATION FairSpec
INVARIANTS
  WireInOrder
  NothingOwedAtExit
PROPERTIES DeliversInOrder LoopsStopTogether
CHECK_DEADLOCK FALSE
