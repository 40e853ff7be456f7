SPECIFICATION FairSpec
CONSTANTS
  Cmd = {c1, c2}
  Socket = {s1}
  NoCmd = NoCmd
  Faults = {}
INVARIANTS SentIsInFlight NotStranded
PROPERTIES Answered
CHECK_DEADLOCK FALSE
