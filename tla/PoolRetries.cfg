SPECIFICATION Spec
CONSTANTS
  w1 = w1
  a1 = a1
  Terminals = {w1}
  Accounts = {a1}
  Tasks <- InitialAndScheduled
  NoTask = NoTask
  FromScheduler <- NobodysTask
  Outcomes <- WorkerOutcomes
  MaxTaskRetries = 1
  RestartAttempts = 1
  SpawnBatch = 1
  Managed = TRUE
INVARIANTS OnePlace RetryBudget HardCount NothingOnUnusable
PROPERTIES HardJumpsTheLine KeepsPromise
CHECK_DEADLOCK FALSE
