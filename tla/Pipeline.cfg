CONSTANTS
  Backends = {"af_packet", "bpf", "synthetic"}
  Capacity = 2
  WireCap = 2
  TagCount = 2
SPECIFICATION FairSpec
INVARIANTS TypeOK EveryFrameAccountedFor
PROPERTIES ImplementsLossyFeed QuitEnds FramesReachTheScreen
CHECK_DEADLOCK FALSE
