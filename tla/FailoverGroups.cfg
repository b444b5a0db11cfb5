\* Two groups that share their members, one with auto_failback.
SPECIFICATION FairSpec
CONSTANTS
  p = p
  a = a
  b = b
  main = main
  other = other
  Servers = {p, a, b}
  Groups = {main, other}
  Probed = {p, a, b}
  Managed = {a}
  Primary <- TwoPrimaries
  Standbys <- TwoStandbys
  AutoFailback <- MixedFailback
  Threshold <- MCThreshold
INVARIANTS
  FlagFollowsCount
  RouteStaysInGroup
PROPERTIES
  StickyWithoutFailback
  SwapsAreJustified
  FirstStandbyTakesOver
  FailsBackWhenAllRecover
