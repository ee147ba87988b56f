CONSTANTS
  Node <- ThreeNodes
  Call = {c1, c2}
  Caller <- SameCaller
  Request = {"tx"}
  Req <- SameRequest
  Rate <- OtherRate
  NoRate = "none"
  Refusing = {}
  Links <- PairLinks
  Timeout = 1
  MaxDrops = 0
  MaxCrashes = 0
  NoCall = NoCall
SPECIFICATION MCSpec
SYMMETRY Symmetry
CHECK_DEADLOCK FALSE
INVARIANT NonceUsedOnce
INVARIANT VerifiedIsCurrent
INVARIANT ResultsAreSigned
INVARIANT NoOrphanSessions
INVARIANT DeliveredIsReturned
