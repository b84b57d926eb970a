\* One stepper of each kind, one endstop, one trigger.
SPECIFICATION Spec
CONSTANTS
  Stepper = {x, y}
  BothEdges = {y}
  Trsync = {t}
  Endstop = {e}
  Null = Null
  Off = Off
  PULSE = 1
  BIAS = 100
  PAST = 1
  MoveCount = 2
  Moves <- MCMoves
  Clocks <- MCClocks
  ReportTicks = {4}
  SampleCounts = {1, 3}
  SAMPLE = 1
  REST = 2
  EXPIRED = 1
  HIT = 2
  ASKED = 3
  MaxTime = 4
  MaxCommands = 4
  MaxLate = 1
INVARIANTS TypeOK PositionIsMotor NoTriggerUntold
PROPERTIES PulseTimes SamplesAgree ImplementsTrigger
CHECK_DEADLOCK FALSE
