CONSTANTS
  n1 = n1
  Node = {n1, n2}
  Threshold = 2
  Vote = {1}
  Kind <- Members
  Subject <- AllEyes
  Proposer <- ByFirst
  Eye = {1}
  Coin = {1, 2}
  Finality = 2
  MaxMined = 2
  Taken = {1}
  MaxTasks = 3
  MaxRunning = 2
  None = None
SPECIFICATION Spec
CHECK_DEADLOCK FALSE
INVARIANT ExecutedByApproval
INVARIANT PausedForMigration
PROPERTY RecordedIsKept
PROPERTY ImplementsOutcome
