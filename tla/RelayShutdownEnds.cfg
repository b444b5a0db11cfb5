\* Does shutdown wake every relay?
\* A relay ends: no deadlock check.
CONSTANTS
  BatchWrites = TRUE
  FlushCap = 2
  MaxSent = 2
SPECIFICATION FairSpec
PROPERTY ShutdownEndsRelay
CHECK_DEADLOCK FALSE
