SPECIFICATION Spec
CONSTANTS
  Collectors = {c1, c2}
  circularbufCount = 2
  Contexts = {}
  WordBits = 64
  MaxBatches = 4
  MaxPcId = 0
SYMMETRY Symmetry
INVARIANT UsedIsTracked
