CONSTANTS
  Node = {1, 2}
  Attester = {1}
  Price = {1, 3}
  Window = 1
  MaxSkew = 1
  MaxErrors = 1
  Retry = 1
  MaxNow = 2
  MaxPolls = 3
  MaxEvents = 1
  None = None
  Skew <- FirstAhead
SPECIFICATION FairSpec
CHECK_DEADLOCK FALSE
INVARIANT PeersFollow
PROPERTY AvailableIsServed
