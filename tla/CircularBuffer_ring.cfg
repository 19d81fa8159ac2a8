SPECIFICATION FairSpec
CONSTANTS
  Collectors = {c1, c2}
  circularbufCount = 2
  Contexts = {x1}
  WordBits = 64
  MaxBatches = 3
  MaxPcId = 1
INVARIANTS
  TypeOK
  TrackerIsRight
  NoSlotShared
  Window
  ReplyComplete
PROPERTIES
  ImplementsFifo
  SpinOnlyWhenFull
  SlotWhileSampling
  RequestReturns
