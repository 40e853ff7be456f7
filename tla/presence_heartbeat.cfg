SPECIFICATION FairSpec
CONSTANTS
  Socket = {s1, s2}
  Timeout = 2
  Grace = 1
  RecheckSlack = 1
  WatchdogSlack = 1
  Heartbeat = 2
  CronPeriod = 2
  Faults = {}
PROPERTIES HeartbeatKeepsPresent
