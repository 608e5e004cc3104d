SPECIFICATION ServiceSpec
CONSTANTS
  w1 = w1
  a1 = a1
  Terminals = {w1}
  Accounts = {a1}
  Tasks <- InitialAndScheduled
  NoTask = NoTask
  FromScheduler <- Second
  Outcomes <- ProgressOutcomes
  MaxTaskRetries = 1
  RestartAttempts = 2
  SpawnBatch = 1
  Managed = TRUE
INVARIANT RegistryIsLive
PROPERTY EveryTaskEnds
CHECK_DEADLOCK FALSE
