CONSTANTS
  Host = {0, 1, 2}
  Vertex = {0, 1, 2, 3, 4}
  Owner <- MCOwner
  Graphs <- MCGraphs
  MaxData = 6
  Searches = 2
SPECIFICATION FairSpec
INVARIANT Distances
