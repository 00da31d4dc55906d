CONSTANTS
  W = 3
  P64 = 2
  Infinity = 2000000000
  Files <- SomeFiles
  Served <- SomeServed
  HardwareAddr = TRUE
  Addresses <- SomeAddresses
  RouteTable <- SomeRoutes
  MaxAddrs = 2
  Step = 3600000
  MaxNow = 7200000
SPECIFICATION Spec
INVARIANTS
  IntervalUsable LifetimeOutlastsGaps Pref64LifetimeFits OneTaskPerInterface
  LifetimesCountDown OverlapOnlyMixed AutoRoutesExact BestServer ServedOncePrepared
CHECK_DEADLOCK FALSE
