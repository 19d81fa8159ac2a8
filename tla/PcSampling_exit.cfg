SPECIFICATION Spec
CONSTANTS
  x1 = x1
  x2 = x2
  t1 = t1
  t2 = t2
  Contexts = {x1, x2}
  Threads = {t1, t2}
  Handler = Handler
  Settings <- MCNoRPC
  circularbufSize = 2
  pcConfigBufRecordCount = 1
  MaxRecords = 3
INVARIANT ExitQueuesRest
