SPECIFICATION FairSpec
CONSTANTS
  p = p
  a = a
  b = b
  main = main
  other = other
  Servers = {p, a, b}
  Groups = {main}
  Probed = {p, a, b}
  Managed = {a}
  Primary <- OnePrimary
  Standbys <- OneStandbys
  AutoFailback <- WithFailback
  Threshold <- MCThreshold
PROPERTIES
  FirstHealthyStandbyWins
