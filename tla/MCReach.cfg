SPECIFICATION ReachSpec
CONSTANTS
  E = E
  X = X
  f = f
  g = g
  h = h
  A = A
  B = B
  C = C
  NoNode = NoNode
  Nodes <- MCNodes
  Graphs <- MCGraphs
  Queries <- MCQueries
INVARIANTS
  PathsAreWalks
  NothingMissed
CHECK_DEADLOCK FALSE
