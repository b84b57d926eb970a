\* A wait times out, and the next selection comes before DONE.
SPECIFICATION Spec
CONSTANTS
  Materials = {0, 4, 6}
  MaxSelects = 4
  MaxTimeouts = 2
  MaxErrors = 0
  MaxRestarts = 0
INVARIANTS NoReentry
CHECK_DEADLOCK FALSE
