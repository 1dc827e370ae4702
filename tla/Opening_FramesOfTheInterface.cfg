CONSTANTS
  Platforms = {"linux"}
  Names <- MCNames
  Family <- MCFamily
  Hosts <- MCOneHost
  Bare <- MCBare
  MaxIndex = 4
  MaxChanges = 2
  None = None
SPECIFICATION Spec
INVARIANTS FramesOfTheInterface
CHECK_DEADLOCK FALSE
