SPECIFICATION Spec
CONSTANTS
  Scenes <- FormatScenes
  Main = "main"
  FileName <- BFFileName
  XformName <- BFXformName
  Transform <- BFTransform
  Mesh <- BFMesh
  Material <- BFMaterial
  Texture <- BFTexture
  Detail <- BFDetail
  UIntRange = 4
  None = None
  MainLength = 4
PROPERTIES
  IncludeRestoresMaterial
CHECK_DEADLOCK FALSE
