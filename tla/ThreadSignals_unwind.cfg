SPECIFICATION Spec
CONSTANTS
  Threads = {m, t1, t2}
  Main = m
  Launchers = {m, t1, t2}
  Early = {m, t1, t2}
  Workers = {t1, t2}
  Mortal = {}
  Modes = {TRUE}
  Calm = FALSE
  NoThread = NoThread
PROPERTIES
  StackIsWhole
