SPECIFICATION FairSpec
CONSTANTS
  N = 2
  Workloads <- MCWorkloads
  MAX_SPACE = 2
INVARIANTS NothingGarbled SpaceCounted  NoOverrun
PROPERTIES  LineEnds
