\* Three shaders of six choices of files, three materials of either kind.
SPECIFICATION Spec
CONSTANTS
  Source <- MCSource
  Broken <- MCBroken
  Declared <- MCDeclared
  Loads <- MCLoads
  Empty <- MCEmpty
  Missing <- MCMissing
  Values <- MCValues
  MaxShaders = 3
  MaxMaterials = 3
INVARIANTS
  StagesAreOwn
  MaterialsShown
CHECK_DEADLOCK FALSE
