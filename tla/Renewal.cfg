CONSTANTS
  Node = {1, 2}
  Coordinator = 1
  Branches <- BothNodes
  Rescue = 3
  Step = 20
  Lead = 2
  Finality = 2
  MaxHeight = 3
  MaxLag = 2
  MaxEvents = 2
  None = None
SPECIFICATION FairSpec
CHECK_DEADLOCK FALSE
INVARIANT RebuildAgrees
PROPERTY EyeIsRenewed
