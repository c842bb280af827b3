SPECIFICATION Spec
CONSTANTS
  c1 = c1
  c2 = c2
  r = r
  NoReply = NoReply
  Backend = "wamr"
  Callers <- OneCaller
  Home <- OnRunnerZero
  Initial = 1
  Capacity = 2
  MaxId = 1
  Replies = {r}
  Commanders = {1}
  Reentrant = {1}
  Faults = {}
INVARIANT NoSelfWait
