SPECIFICATION FairSpec
CONSTANTS
  Threads = {m, t1, t2}
  Main = m
  Launchers = {m, t1, t2}
  Early = {m, t1}
  Workers = {t1}
  Mortal = {t1, t2}
  Modes = {TRUE, FALSE}
  Calm = TRUE
  NoThread = NoThread
INVARIANTS
  TypeOK
  StartedOnce
  CleanBetween
PROPERTIES
  AllHeldAtStart
  AllHeldAtStop
  StackIsWhole
  RequestReturns
  ProgramsResume
