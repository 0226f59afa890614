CONSTANTS
  a1 = a1
  Addr = {a1}
  MaxPackets = 2
  MaxNonce = 3
  HasFunctions = TRUE
SPECIFICATION FairSpec
INVARIANTS TypeOK OneReceiver HandledOnce AcceptedIsRecent
PROPERTIES ShutdownCompletes
