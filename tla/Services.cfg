SPECIFICATION ServicesSpec
CONSTANTS
  People = {"ann"}
  Names = {"lobby", "game"}
  Configured <- MCConfigured
  Workers = {"w1", "w2"}
  Reports = {0}
  MaxLogins = 2
  MaxCalls = 2
  CountRange = 4
  Files = {"guard", "maps"}
  ManifestName <- MCManifestName
  Subscriptions <- MCSubscriptions
  Broken = {2}
  MaxVersion = 3
  Dispatchers = {"relay"}
  Addresses = {"a", "b"}
  Capacity = 4
  Cost = 2
  Refill = 1
  BanTime = 4
  RecentTime = 2
  MaxRecords = 1
  MaxTime = 8
INVARIANTS CountsExactUnlessDisturbed InterestIsCurrent CallsReachEnabled AcceptsWithinBudget
PROPERTIES OnlyLateArrivalsStay HandlersFinish  ReloadCatchesUp
CHECK_DEADLOCK FALSE
