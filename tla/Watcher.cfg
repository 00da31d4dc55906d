CONSTANTS
  Subs <- MCSubs
  Iface <- MCIface
  Flags = {"up", "down", "dormant"}
  Mask <- MCMask
  Changes <- MCChanges
  Ifaces = {"eth0", "eth1"}
  ChanCap = 2
  MaxBatch = 2
SPECIFICATION FairSpec
INVARIANTS NoChangeUnseen 
PROPERTIES CancelClosesChannels
CHECK_DEADLOCK FALSE
