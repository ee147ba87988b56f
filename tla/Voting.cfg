CONSTANTS
  n1 = n1
  n2 = n2
  Node = {n1, n2}
  Request = {r1}
  Proposer = {n1, n2}
  Executor = {n2}
  Timeout = 2
  MaxFuture = 1
  MaxActive = 1
  Start = 2
  MaxHeight = 4
  MaxProposals = 2
  MaxRestarts = 1
  MaxInFlight = 1
  NotYet = NotYet
SPECIFICATION MCSpec
CHECK_DEADLOCK FALSE
INVARIANT ApprovedByQuorum
INVARIANT OneLiveVote
INVARIANT ProposerQuota
PROPERTY RunsItsTerm
PROPERTY LoneApprovalSpreads
