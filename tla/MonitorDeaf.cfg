CONSTANTS
  Retries = 5
  ReadErrs = {"syscall", "other"}
  WatchCap = 1
  Attempts = 2
  DialErrs = {"notReady"}
SPECIFICATION FairSpec
PROPERTIES ListenErrorReturns
CHECK_DEADLOCK FALSE
