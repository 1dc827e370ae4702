CONSTANTS
  Tables <- MCTables
  Slack = {0, 5}
  MaxChanges = 1
  None = None
SPECIFICATION Spec
INVARIANTS StatesAddUp
CHECK_DEADLOCK FALSE
