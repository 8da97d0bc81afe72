SPECIFICATION FairSpec
CONSTANTS
  Timers = {x, y}
  Wakers = {v, w}
  MaxId = 2
  MaxTime = 6
  MaxExpiry = 4
  Periods = {0, 1}
  TimeoutMethods = {"poll", "timerfd"}
  NanosPerMilli = 2
  NanosPerSec = 2
  I32Max = 3
  I64Max = 2
INVARIANTS TypeOK RegisteredUntilExpiry OwnEntry NoLeak NoOversleep NoEarlyTimeout
PROPERTIES Fires
