CONSTANTS
  Frames <- MCFrames
  Flows <- MCFlows
  Addrs <- MCAddrs
  Macs <- MCMacs
  NoFlow = NoFlow
  NoMacs = NoMacs
  Absent = Absent
  Shards = 2
  FlowShard <- MCFlowShard
  AddrShard <- MCAddrShard
  MacShard <- MCMacShard
  RecentCap = 1
  MaxFrames = 2
SPECIFICATION Spec
INVARIANTS TypeOK BooksBalance TornByOneFrame LaterTablesKeepUp OneRowPerConversation
PROPERTIES NothingIsTakenBack RowsKeepTheirIdentity
CHECK_DEADLOCK FALSE
