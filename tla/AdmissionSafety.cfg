\* Counters, sessions and the way out of limbo: two queues, transfers, lost players, a legacy
\* client, backends coming and going.
CONSTANTS
  lobby = lobby
  survival = survival
  c1 = c1
  c2 = c2
  c3 = c3
  Conns = {c1, c2}
  Uuid <- Own
  Servers = {lobby, survival}
  MaxPlayers <- OneSlot
  Probed = {survival}
  Managed = {lobby, survival}
  ServerRegion <- Regions
  ClientRegion = "eu-west"
  DefaultServer = lobby
  QueueEnabled = TRUE
  MaxQueueSize = 2
  Legacy = {c1}
  CommandTargets = {lobby, survival}
  MaxLost = 1
  CountRange = 5
SPECIFICATION FairSpec
INVARIANTS
  CountsBalance
  SessionWhileConnected
PROPERTY LimboFindsBackend
