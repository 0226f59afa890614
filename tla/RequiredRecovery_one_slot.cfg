SPECIFICATION FairSpec
CONSTANTS
  NSlots = 1
  Accounts = {a1, a2}
  NoAccount = NoAccount
  MaxSerial = 4
  Ttl = 2
  Window = 1
  LaneChoices = {"Required", "NativeOptOut", "NativeRescue"}
  RecoveryEnabled = TRUE
INVARIANTS TypeOK EpochsUnique IdentityOfOccupant HandoffOwned 
PROPERTIES HandoffResolves BodiesFollowBaseline ReconnectOnce TombstoneKept OneShotSpec
