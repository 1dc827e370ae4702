CONSTANTS
  Packets <- MCPackets
  OwnMac = "own"
  Broadcast = "broadcast"
  Nothing = Nothing
  Rejected = Rejected
  MaxPackets = 4
SPECIFICATION CountersSpec
INVARIANTS CountersTypeOK BreakdownsAgree OneHintPerConversation
CHECK_DEADLOCK FALSE
