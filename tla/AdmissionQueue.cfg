\* Nobody overtakes in the queue.
CONSTANTS
  lobby = lobby
  survival = survival
  c1 = c1
  c2 = c2
  c3 = c3
  Conns = {c1, c2, c3}
  Uuid <- Own
  Servers = {survival}
  MaxPlayers <- OneSlot
  Probed = {}
  Managed = {survival}
  ServerRegion <- Regions
  ClientRegion = "asia"
  DefaultServer = survival
  QueueEnabled = TRUE
  MaxQueueSize = 2
  Legacy = {}
  CommandTargets = {}
  MaxLost = 0
  CountRange = 4
SPECIFICATION Spec
PROPERTY QueueIsFair
