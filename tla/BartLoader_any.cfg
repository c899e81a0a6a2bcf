SPECIFICATION Spec
CONSTANTS
  Scenes <- AllScenes
  Main = "main"
  FileName <- MCFileName
  XformName <- MCXformName
  Transform <- MCTransform
  Mesh <- MCMesh
  Material <- MCMaterial
  Texture <- MCTexture
  Detail <- MCDetail
  UIntRange = 4
  None = None
  MainLength = 4
  IncludedLength = 2
  MixedLength = 3
INVARIANTS
  StacksInStep
  NodeStackIsPath
  OneSubtreePerFile
  MatrixIsPathProduct
  GoodScenesNeverOverflow
PROPERTIES
  MatchedBraceNeverFails
  LoadReturns
CHECK_DEADLOCK FALSE
