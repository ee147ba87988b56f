CONSTANTS
  Member = {1}
  MaxDepth = 2
  MaxChanges = 2
  NoSnapshot = NoSnapshot
SPECIFICATION FairSpecAssets
CHECK_DEADLOCK FALSE
INVARIANT OneIssuance
PROPERTY AssetsSpread
