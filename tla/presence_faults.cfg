SPECIFICATION FairSpec
CONSTANTS
  Socket = {s1, s2}
  Timeout = 2
  Grace = 1
  RecheckSlack = 1
  WatchdogSlack = 1
  Heartbeat = 1
  CronPeriod = 1
  Faults = {"late_close", "do_failure", "operator"}
INVARIANTS BackstopBound
PROPERTIES DeadGoesOffline
