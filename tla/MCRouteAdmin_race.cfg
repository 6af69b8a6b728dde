SPECIFICATION RoutesSpec
CONSTANTS
  p1 = p1
  p2 = p2
  p3 = p3
  a = a
  b = b
  Puts <- MCPuts
  Bodies <- MCBodies
  FirstRoutes <- MCFirstRoutes
  ReplayEnabled = TRUE
  MaxFaults = 0
  MaxCrashes = 0
SYMMETRY Symmetry
PROPERTY
  AnswersAreAlwaysTrue
CHECK_DEADLOCK FALSE
