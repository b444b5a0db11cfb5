\* Every selection operator on every registry the writers reach; the default server is a group.
CONSTANTS
  DefaultServer = "weighted"
  ServerGroups <- Pools
  Names = {"s1", "s2", "s3"}
  Regions = {"eu-west", "asia"}
  Sections <- MCSections
  Registrable = {"s2"}
  Limits = {1}
  MaxCount = 2
  Latencies = {0, 1, 2}
  ClientRegions = {"global", "eu-west", "us-west"}
  RuleTargets <- Rules
SPECIFICATION Spec
INVARIANTS
  RoutesExactlyWhenOnline
  WeightedIsProportional
  GroupPicksHaveRoom
  RegionPicksAreHealthy
