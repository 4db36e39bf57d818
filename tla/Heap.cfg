SPECIFICATION Spec
CONSTANTS
  n1 = n1
  n2 = n2
  n3 = n3
  n4 = n4
  n5 = n5
  n6 = n6
  h1 = h1
  h2 = h2
  Nodes = {n1, n2, n3, n4, n5, n6}
  Heaps = {h1, h2}
  Prios = {1, 2}
  WithRef = {n1, n2, n3}
  NULL = NULL
  Spare = {n5, n6}
CONSTRAINT Bounded
SYMMETRY Symmetry
INVARIANTS
  WellFormed
  RefsFollow
PROPERTIES
  IsPriorityQueue
