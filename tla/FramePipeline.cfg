SPECIFICATION Spec
CONSTANTS
  SceneLists <- MCSceneLists
  Texture <- MCTexture
  Material <- MCMaterial
  Id <- MCId
  Registered <- MCRegistered
  Size <- MCSize
  InitSize = "640x480"
  None = None
  JetMaterial = "red_cube"
INVARIANTS
  NoFeedbackLoop
  ProgramInUse
  DrawsOwnTextures
PROPERTIES
  ClearedFromSecondFrame
