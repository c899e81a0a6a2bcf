SPECIFICATION SpecS
CONSTANTS
  Scenes <- AllScenes
  Main = "main"
  FileName <- MCFileName
  XformName <- MCXformName
  Transform <- MCTransform
  Mesh <- MCMesh
  Material <- MCMaterial
  Texture <- MCTexture
  Detail <- MCDetail
  UIntRange = 4
  None = None
  MainLength = 4
INVARIANTS
  SharedMeshLooksAlike
  SingleUseInSync
PROPERTIES
  DeliversSceneText
  TracesDelivered
CHECK_DEADLOCK FALSE
