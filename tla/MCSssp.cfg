CONSTANTS
  Host = {0, 1, 2}
  Vertex = {0, 1, 2, 3, 4}
  Owner <- MCOwner
  Graphs <- MCGraphs
  MaxData = 6
  Searches = 1
SPECIFICATION FairSpec
INVARIANTS TypeOK Reduced MirrorsAgree Distances Reached
PROPERTIES SearchEnds PhasesJoin
