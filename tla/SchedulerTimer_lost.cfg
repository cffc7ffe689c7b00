CONSTANTS
  e1 = e1
  e2 = e2
  Events = {e1, e2}
  Delays = {e1}
  BUCKET_TICKS = 4
  TABLE_SIZE = 2
  MaxClock = 11
  MaxDelay = 9
  None = None
  Never = 99
SPECIFICATION Spec
\* the clock is bounded, and without it nothing is left to do
CHECK_DEADLOCK FALSE
INVARIANT TimerNotLost
