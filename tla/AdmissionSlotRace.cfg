\* Do queued pollers race for one slot?
CONSTANTS
  lobby = lobby
  survival = survival
  c1 = c1
  c2 = c2
  c3 = c3
  Conns = {c1, c2, c3}
  Uuid <- Own
  Servers = {lobby, survival}
  MaxPlayers <- OneSlot
  Probed = {}
  Managed = {survival}
  ServerRegion <- Regions
  ClientRegion = "eu-west"
  DefaultServer = lobby
  QueueEnabled = TRUE
  MaxQueueSize = 2
  Legacy = {}
  CommandTargets = {}
  MaxLost = 0
  CountRange = 4
SPECIFICATION Spec
PROPERTY QueueAdmitsIntoFreeSlots
