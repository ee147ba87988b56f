CONSTANTS
  Member = {1, 2}
  OldMembers = {1, 2}
  NewMembers = {2}
  Self = 1
  Tx = {"d", "e", "u", "mig"}
  NoTx = "none"
  Migration = "mig"
  Outpoint <- Outpoints
  Value <- Values
  Ins <- Inputs
  Outs <- Outputs
  Marker <- Markers
  Tag <- Tags
  NoMember = 0
  None = None
  Retention = 2
  Finality = 2
  MaxHeight = 3
  MaxMined = 3
  MaxCrashes = 1
SPECIFICATION FairSpec
CHECK_DEADLOCK FALSE
INVARIANT LedgerBalanced
INVARIANT LocksAreCovered
INVARIANT LedgerIsReplay
INVARIANT IndexIsCanonical
PROPERTY LocksSurviveRebuild
PROPERTY SyncSettles
