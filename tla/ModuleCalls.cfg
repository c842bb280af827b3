SPECIFICATION FairSpec
CONSTANTS
  a = a
  b = b
  t1 = t1
  t2 = t2
  NoRunner = NoRunner
  Builds <- EitherRuntime
  Threads = {t1, t2}
  Modules = {a, b}
  Runners <- MCRunners
  CallGraph <- Layered
  MaxDepth = 3
  MayTrap = {a, b}
INVARIANTS TypeOK RunnerExclusive RoutedToCaller OneReporter
PROPERTIES TrappedRunnerStaysOut FailureEndsProcess CallsReturn
