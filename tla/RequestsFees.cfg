CONSTANTS
  a = a
  b = b
  feed = feed
  None = None
  Request = {1, 2, 3}
  Wallet = {a, b}
  Choice <- SharedAndReserve
  Feed <- SecondPriced
  Size <- MixedSizes
  Eye = {1}
  MaxWeight = 2
  MaxWait = 0
  Finality = 2
  MaxTxs = 3
  MaxBehind = 1
  MaxFaults = 1
SPECIFICATION FairSpec
CHECK_DEADLOCK FALSE
INVARIANT FeesAreHeld
INVARIANT ReservesAreKept
PROPERTY RequestsSettle
