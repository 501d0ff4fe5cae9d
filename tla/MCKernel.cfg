SPECIFICATION Spec
CHECK_DEADLOCK FALSE
CONSTANTS
  Module = {"mind", "store", "arms"}
  Kind = {"tokens", "cpu"}
  Manifest <- MCManifest
  Listeners <- MCListeners
  Reacting = {"reacts"}
  Reported = {"HEALTHY", "DEGRADED", "FAILED"}
  HealthBudget = 3
  Task = {"t1"}
  Spender = {"mind"}
  NoManifest <- MCNoManifest
  Default <- MCDefault
  Least <- MCLeast
  MaxUse = 3
  Coroutine = {c1, c2}
  Context = {"simulate", "live"}
  Enabled <- MCEnabled
  MaxDepth = 2
  Caller = {w1, w2}
  Name = {"vision"}
  MaxPools = 3
  MaxWork = 3
  MaxRegistrations <- MCMaxRegistrations
INVARIANTS
  StartupOrderExact
  DependentsExact
  ListenersUpToDate
  OverrunReported
  NestingRestores
  RefusedOnlyByShutdown
  StoppedMeansDone
