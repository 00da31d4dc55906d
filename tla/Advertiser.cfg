CONSTANTS
  AllNodes = AllNodes
  Hosts = {h1}
  UnicastOnly = FALSE
  IpcCap = 1
  Retries = 1
  WatchCap = 0
  Signals = {}
  ReadErrs = {"other"}
  SendErrs = {"other"}
  MaxEvents = 1

SPECIFICATION FairSpec
INVARIANTS TypeOK RequestsConserved
PROPERTIES ShutdownUnlessWedged RequestsAnswered
CHECK_DEADLOCK FALSE
