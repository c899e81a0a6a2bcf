SPECIFICATION Spec
CONSTANTS
  Names <- MCNames
  PositionTracks <- MCPositionTracks
  RotationTracks <- MCRotationTracks
  VisibilityTracks <- MCVisibilityTracks
  Times <- MCTimes
  Q = 1
  LastTime = 2
  Tensions = {0}
  Continuities = {0, 1}
  Biases = {0, 1}
  MaxBlocks = 2
  MaxMotions = 2
INVARIANTS
  SearchStaysInside
  SplinesMeetKeys
  SmoothThroughKeys
  RotationsTakeShortWay
CHECK_DEADLOCK FALSE
