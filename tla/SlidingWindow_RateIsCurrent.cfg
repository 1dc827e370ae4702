CONSTANTS
  Cap = 3
  Window = 2
  Values = {1, 2}
  None = None
  MaxClock = 5
  MaxDelay = 0
  MaxPushes = 6
SPECIFICATION Spec
INVARIANTS RateIsCurrent
CHECK_DEADLOCK FALSE
