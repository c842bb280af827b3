SPECIFICATION Spec
CONSTANTS
  m = m
  n = n
  p = p
  q = q
  c1 = c1
  c2 = c2
  c3 = c3
  t1 = t1
  t2 = t2
  NoChain = NoChain
  Modules = {m, n, p, q}
  Threads = {t1, t2}
  Chains = {c1, c2, c3}
  Orders <- LayeredOrders
  Starts <- LayeredStarts
  Nested <- LayeredNested
  MaxCommands = 2
  MaxNesting = 3
INVARIANTS TypeOK InputsFreed ChainRestored CascadeComplete
