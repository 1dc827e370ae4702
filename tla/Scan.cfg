CONSTANTS
  Systems <- MCSystems
  CommandLines <- MCCommandLines
  MaxResults = 38
  AlertLimit = 2
  None = None
SPECIFICATION Spec
INVARIANTS TypeOK CountersMatch ExitTellsFailures GroupedByCategory GradesAgree
CHECK_DEADLOCK FALSE
