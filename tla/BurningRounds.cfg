CONSTANTS
  N = 2
  Quorum = 2
  Item = {1, 2, 3}
  Reserve <- SharedReserve
  Lifetime = 2
  BurningBlocks = 2
  Rounds = 1
  MaxGroups = 1
  MaxEvents = 2
  None = None
SPECIFICATION FairSpec
CHECK_DEADLOCK FALSE
INVARIANT NoEarlyBurn
INVARIANT QuarantinedIsLost
PROPERTY ItemsEnd
