SPECIFICATION Spec
INVARIANTS
  QueryFollowsTurns
  NeverAborts
PROPERTIES
  EveryMeasureRead
  ExitEndsProgram
  MeasuringGoesOn
  FramesGoOn
CHECK_DEADLOCK FALSE
