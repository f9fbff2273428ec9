SPECIFICATION Spec
CONSTANTS
  MaxTerm = 2
  MaxChanges = 2
  MaxRestarts = 0
CHECK_DEADLOCK FALSE
PROPERTIES
  NoZombieSnapshot
