\* The timer interrupt polls as well, as during BMCU_ACTION_WAIT.
SPECIFICATION FairSpec
CONSTANTS
  Byte <- MCFewBytes
  NUL = "nul"
  CR = "cr"
  LF = "lf"
  DONE <- MCDone
  RX_LINE_MAX = 3
  DATA_MAX = 2
  FIFO_MAX = 4
  Lines <- MCIrqLines
  MaxLines = 1
  DrivenPins = {"action_trigger"}
  Reloads = TRUE
  IrqReads = TRUE
INVARIANTS LineFits OneOutstanding
PROPERTIES LedGoesOff
