SPECIFICATION Spec
CONSTANTS
  Cmd = {c1}
  Socket = {s1, s2}
  NoCmd = NoCmd
  Faults = {"drop", "do_failure"}
PROPERTIES ReconnectRetries
