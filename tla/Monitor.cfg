CONSTANTS
  Retries = 5
  ReadErrs = {"syscall", "other"}
  WatchCap = 1
  Attempts = 3
  DialErrs = {"notReady"}
SPECIFICATION FairSpec
PROPERTIES ImplementsDialer
CHECK_DEADLOCK FALSE
