\* Kahn's algorithm.
SPECIFICATION Spec
CONSTANTS
  Graphs <- MCGraphs
INVARIANTS
  TypeOK
  OrderRespectsEdges
  CycleIsReal
PROPERTIES
  AlwaysCloser
