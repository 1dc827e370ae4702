CONSTANTS
  Snapshots <- MCSnapshots
  Keys <- OneKeyOfAKind
  Page = 2
  HistCap = 2
  MaxOffset = 2
SPECIFICATION FairSpec
INVARIANTS TypeOK SelectionInTable TerminalRestored
PROPERTIES ScreenCatchesUp QuitLeaves
CHECK_DEADLOCK FALSE
