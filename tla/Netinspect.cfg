CONSTANTS
  Outputs <- MCOutputs
  Nothing = Nothing
  MaxConnections = 4
  MaxIps = 3
  MaxPorts = 2
  MaxAlerts = 2
  ManyConns = 2
  ReportLimit = 1
SPECIFICATION Spec
INVARIANTS TypeOK TablesAreExact OutsideIsListed AlertsAreTheFirst BackdoorFails
CHECK_DEADLOCK FALSE
