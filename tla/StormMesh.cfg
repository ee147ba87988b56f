CONSTANTS
  Node = {1, 2, 3}
  Host = 1
  Joiner = 3
  Targets <- Networks
  MaxProvisional = 1
  Capacity = 2
  MaxFaults <- OnceWhenFounding
  MaxRaces <- OnceWhenFounding
  Between <- Foundation
  None = None
SPECIFICATION FairSpec
CHECK_DEADLOCK FALSE
INVARIANT MembersOnly
PROPERTY ReleasesItsOwn
PROPERTY DiscoveryEnds
