CONSTANTS
  AllNodes = AllNodes
  Hosts = {}
  UnicastOnly = FALSE
  IpcCap = 1
  Retries = 1
  WatchCap = 1
  Signals = {"SIGHUP", "SIGTERM"}
  ReadErrs = {"other"}
  SendErrs = {"other"}
  MaxEvents = 0
  Attempts = 1
  DialErrs = {"notReady"}
SPECIFICATION TaskSpec
INVARIANTS CleanReturnOnlyOnCancel FinalRAIffTerminal ZeroOnlyIfTerminal
PROPERTIES RefinesDialer
CHECK_DEADLOCK FALSE
