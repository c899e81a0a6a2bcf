SPECIFICATION Spec
CONSTANTS
  Models <- MCModels
  CellCounts <- MCCellCounts
  MaxObjects = 2
INVARIANTS
  AttributesReadOwnData
  ElementsAreOwn
  OptixReadsNormals
  StripCoversGrid
