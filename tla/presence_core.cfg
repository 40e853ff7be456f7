SPECIFICATION Spec
CONSTANTS
  Socket = {s1, s2}
  Timeout = 3
  Grace = 1
  RecheckSlack = 1
  WatchdogSlack = 1
  Heartbeat = 2
  CronPeriod = 3
  Faults = {}
INVARIANTS SilentDropBound
PROPERTIES NoFalseVerdict FlipOnce
