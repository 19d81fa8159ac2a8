SPECIFICATION Spec
CONSTANTS
  m = m
  w = w
  f = f
  py = py
  g = g
  r1 = r1
  r2 = r2
  Threads = {m, w}
  Sampler = Sampler
  Pcs = {f, py, g}
  NoPc = NoPc
  PyPcs = {py}
  EvalPcs = {py}
  Rsps = {r1, r2}
  Calls <- MCCalls
  Sampled <- MCSampled
  Confs <- MCUncached
  Calm = FALSE
  MaxNodes = 12
INVARIANT PathIsWhole
