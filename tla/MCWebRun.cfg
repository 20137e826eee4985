SPECIFICATION FairSpec
CONSTANTS
  Streams = {s1, s2}
  Steps = 1
  Reboots = 1
INVARIANTS
  DoneIsWhole
PROPERTIES
  StreamsEnd
  GateIsShown
  CancelKills
CHECK_DEADLOCK FALSE
