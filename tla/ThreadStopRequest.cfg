SPECIFICATION FairSpec
CONSTANTS
  c1 = c1
  c2 = c2
  r = r
  NoReply = NoReply
  Backend = "wasmtime"
  Callers <- TwoCallers
  Home <- OnRunnerZero
  Initial = 1
  Capacity = 2
  MaxId = 1
  Replies = {r}
  Commanders = {}
  Reentrant = {}
  Faults = {"acquire", "os_create"}
PROPERTY StopIsDelivered
