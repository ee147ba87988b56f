CONSTANTS
  Node <- ThreeNodes
  Call = {1}
  Caller <- FirstNode
  Request = {"tx"}
  Req <- OneContent
  Rate <- OneRate
  NoRate = "none"
  Refusing = {1, 2}
  Links <- OneLink
  Timeout = 1
  MaxDrops = 1
  MaxCrashes = 1
  NoCall = 0
SPECIFICATION FairSpec
CHECK_DEADLOCK FALSE
PROPERTY CallsEnd
