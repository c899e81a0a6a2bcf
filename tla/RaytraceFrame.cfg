SPECIFICATION Spec
CONSTANTS
  InitSize <- MCInitSize
  WindowSizes <- MCWindowSizes
  Keys <- MCKeys
  Turns <- MCTurns
  Room <- MCRoom
  None = None
INVARIANTS
  RaysMatchRaster
  NothingLeftBound
PROPERTIES
  WindowIsOfOneLaunch
CHECK_DEADLOCK FALSE
