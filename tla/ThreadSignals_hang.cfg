SPECIFICATION FairSpec
CONSTANTS
  Threads = {m, t1}
  Main = m
  Launchers = {m, t1}
  Early = {m}
  Workers = {}
  Mortal = {}
  Modes = {FALSE}
  Calm = FALSE
  NoThread = NoThread
PROPERTIES
  RequestReturns
CHECK_DEADLOCK FALSE
