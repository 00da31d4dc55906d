CONSTANTS
  Ifaces = {"eth0", "eth1"}
  Advertisers = {"eth0"}
  Signals = {"SIGHUP", "SIGTERM"}
  Attempts = 2
SPECIFICATION FairSpec
INVARIANTS TypeOK ReadyClosedOnce NilOnlyOnSignal ReadyMeansAllStarted
PROPERTIES CancelEndsServe
CHECK_DEADLOCK FALSE
