SPECIFICATION Spec
CONSTANTS
  NNODE = 4
  INF = 5
  LinkCosts = {0, 1, 3}
  Costs <- Networks
INVARIANTS
  TypeOK
  ShortestPaths
  RouteBack
  Certificate
PROPERTIES
  FinishedKeep
CHECK_DEADLOCK FALSE
