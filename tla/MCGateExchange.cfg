SPECIFICATION FairSpec
CONSTANTS
  Posters = {p1, p2}
  Hands = {h1, h2}
  Gates = 3
  NoOne = NoOne
INVARIANTS
  OldAnswersIgnored
  AloneIsHonest
PROPERTIES
  GateEnds
CHECK_DEADLOCK FALSE
