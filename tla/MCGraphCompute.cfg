SPECIFICATION SpecCompute
CONSTANTS
  Graphs <- MCGraphs
  Workloads <- MCWorkloads
  TilesPerTask = 2
  MaxThreads = 3
  MaxGraphs = 2
  Capacity = 14
INVARIANTS
  ResetUnobserved
  Apart
  Coalesced
PROPERTIES
  RunsInOrder
  EachPieceOnce
  ComputeReturns
  ReadsIntact
CHECK_DEADLOCK FALSE
