\* Selections between box and adapter materials, with and without faults.
SPECIFICATION FairSpec
CONSTANTS
  Materials = {0, 4, 7}
  MaxSelects = 4
  MaxTimeouts = 2
  MaxErrors = 1
  MaxRestarts = 1
INVARIANTS MaterialsFed FlushNamesTarget AdapterNotOverrun
PROPERTIES WaitMeansDone RequestIsJob SelectEnds
CHECK_DEADLOCK FALSE
