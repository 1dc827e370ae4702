CONSTANTS
  Platforms = {"linux", "freebsd"}
  Names <- MCNames
  Family <- MCFamily
  Hosts <- MCHosts
  Bare <- MCBare
  MaxIndex = 4
  MaxChanges = 2
  None = None
SPECIFICATION Spec
INVARIANTS TypeOK FailureTellsTheCause OpensWhatWasAsked
CHECK_DEADLOCK FALSE
