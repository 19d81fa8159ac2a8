SPECIFICATION Spec
CHECK_DEADLOCK FALSE
CONSTANTS
  TreeSize = 4
  Trees <- MCTrees
  Sections = 2
  Directories <- MCDirectories
  Depth = 2
  circularbufCount = 2
  MaxBatches = 3
  MaxSignals = 2
INVARIANTS
  PruningKeepsContexts
  GraphsAreTheCode
  MessagesSurvive
  DumpMissesOnlyOverrun
