SPECIFICATION ProgramSpec
CONSTANTS
  Texts <- MCTexts
  Name <- MCName
  Property <- MCProperty
  Word <- MCWord
  None = None
  Dimensions = "Dimensions"
  LogicUpdateRate = "logic_update_rate"
  Zero = "0"
  Number <- MCNumber
  MaxLines = 4
  Key = {a}
  a = a
  Point <- MCPoint
INVARIANTS
  ValuesFromOwnSection
  LookupMatchesText
  KeysFollowHands
PROPERTIES
  TurnsIfHeldAndMoved
  CameraFollowsKeys
  LoopBegins
CHECK_DEADLOCK FALSE
