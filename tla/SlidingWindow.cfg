CONSTANTS
  Cap = 3
  Window = 2
  Values = {1, 2}
  None = None
  MaxClock = 5
  MaxDelay = 5
  MaxPushes = 6
SPECIFICATION Spec
INVARIANTS TypeOK WindowExact
PROPERTIES ImplementsRateWindow
CHECK_DEADLOCK FALSE
