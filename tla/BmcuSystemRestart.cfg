\* A restart in the middle of an action.
SPECIFICATION Spec
CONSTANTS
  Materials = {0, 4, 6}
  MaxSelects = 4
  MaxTimeouts = 0
  MaxErrors = 0
  MaxRestarts = 1
PROPERTIES DoneSynchronizes
CHECK_DEADLOCK FALSE
