\* The timer interrupt writes pins but reads none: only the task polls.
SPECIFICATION FairSpec
CONSTANTS
  Byte <- MCByte
  NUL = "nul"
  CR = "cr"
  LF = "lf"
  DONE <- MCDone
  RX_LINE_MAX = 4
  DATA_MAX = 2
  FIFO_MAX = 2
  Lines <- MCTaskLines
  MaxLines = 2
  DrivenPins = {"channel_mode", "action_trigger"}
  Reloads = TRUE
  IrqReads = FALSE
INVARIANTS RequestsMatched DoneConverges
PROPERTIES DoneEndsAction ImplementsShim
