SPECIFICATION Spec
CONSTANTS
  c1 = c1
  c2 = c2
  NoReply = NoReply
  r = r
  Backend = "wasmtime"
  Callers <- TwoCallers
  Home <- OwnRunners
  Initial = 2
  Capacity = 4
  MaxId = 3
  Replies = {r}
  Commanders = {1, 2}
  Reentrant = {1, 2}
  Faults <- AllFaults
INVARIANTS TypeOK WorkerRunnerIntact ExclusiveSlots UniqueIds ReplyHandedOver NoLeak ShutdownIsFinal
PROPERTY ImplementsLifecycle
