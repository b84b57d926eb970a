\* A shutdown raised inside the timer interrupt.
SPECIFICATION FairSpec
CONSTANTS
  User = {a}
  Null = Null
  Wrap = 32
  PERIOD = 4
  KICK = 1
  MIN_TRY = 0
  DEFER = 1
  PAST = 1
  MaxAhead = 3
  MaxLate = 2
  MaxShutdowns = 1
  IsrShutdown = TRUE
PROPERTY PeriodicGoesOn
VIEW Relative
