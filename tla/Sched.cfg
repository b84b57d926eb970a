\* Two user timers; shutdowns from tasks and from callbacks.
SPECIFICATION FairSpec
CONSTANTS
  User = {a, b}
  Null = Null
  Wrap = 16
  PERIOD = 3
  KICK = 1
  MIN_TRY = 0
  DEFER = 1
  PAST = 1
  MaxAhead = 2
  MaxLate = 2
  MaxShutdowns = 1
  IsrShutdown = TRUE
INVARIANTS ListSound SentinelBounds
PROPERTIES NeverEarly EveryTimerRuns
VIEW Relative
CONSTRAINT Alive
