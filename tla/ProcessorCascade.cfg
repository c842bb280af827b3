SPECIFICATION Spec
CONSTANTS
  m = m
  n = n
  p = p
  q = q
  c1 = c1
  c2 = c2
  c3 = c3
  t1 = t1
  t2 = t2
  NoChain = NoChain
  Modules = {m, n, p, q}
  Threads = {t1}
  Chains = {c1}
  Orders <- TwoProcessors
  Starts <- OneThread
  Nested = {}
  MaxCommands = 2
  MaxNesting = 2
INVARIANT CascadeComplete
