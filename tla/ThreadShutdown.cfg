SPECIFICATION FairSpec
CONSTANTS
  c1 = c1
  c2 = c2
  r = r
  NoReply = NoReply
  Backend = "translated"
  Callers <- TwoCallers
  Home <- OnRunnerOne
  Initial = 2
  Capacity = 4
  MaxId = 2
  Replies = {r}
  Commanders = {1}
  Reentrant = {}
  Faults = {"acquire", "os_create"}
PROPERTIES ShutdownReturns CreationSettles
