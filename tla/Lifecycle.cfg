SPECIFICATION Spec
CONSTANTS
  p1 = p1
  p2 = p2
  Pids = {p1, p2}
  Launchers = {p1, p2}
  Nodes = {p1, p2}
  Path <- MCPath
  Kernels = {p1}
  RingCells = 2
  Kinds <- MCKinds
  MaxCells <- MCMaxCells
  MaxTime = 2
  MaxLaunches = 2
  Settings <- MCSettings
  Mortal = {p2}
  Requests = 2
INVARIANTS
  TypeOK
  StackIsOneSample
  TimeIsNotInvented
  NothingLeftOn
  CollectionIsAlive
PROPERTIES
  RequestReturns
  ExitEnds
CHECK_DEADLOCK FALSE
