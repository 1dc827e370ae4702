CONSTANTS
  Paths <- MCPaths
  NotUtf8 <- MCNotUtf8
  Trees <- MCTrees
  NewNodes <- MCNewNodes
  MaxEntries = 5
  MaxChanges = 2
  Absent = Absent
SPECIFICATION FairSpec
INVARIANTS TypeOK SummaryAddsUp WalkIsComplete
PROPERTIES WalkEnds
CHECK_DEADLOCK FALSE
