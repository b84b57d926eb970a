\* The interrupt polls in the middle of the task poll, and one DONE is sent.
SPECIFICATION Spec
CONSTANTS
  Byte <- MCByte
  NUL = "nul"
  CR = "cr"
  LF = "lf"
  DONE <- MCDone
  RX_LINE_MAX = 4
  DATA_MAX = 2
  FIFO_MAX = 4
  Lines <- MCIrqLines
  MaxLines = 1
  DrivenPins = {"action_trigger"}
  Reloads = FALSE
  IrqReads = TRUE
INVARIANTS DoneConverges
