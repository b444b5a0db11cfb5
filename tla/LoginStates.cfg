\* A client of each epoch that differs in its login: pre-netty, without compression, without and
\* with a configuration state, with known packs.
SPECIFICATION LoginFairSpec
CONSTANTS
  Protocols = {5, 47, 78, 764, 766}
  MAX_CONFIG_PACKETS = 2
  MaxChatter = 2
  MaxAsked = 1
  MaxSwitches = 1
INVARIANTS
  FramingAgrees
  ArrivesInState
  AckIsReadOnce
  EndLeavesNoSession
PROPERTY ClientsCannotHold
CHECK_DEADLOCK FALSE
