SPECIFICATION FairSchedulerSpec
CONSTANTS
  Accounts = {a1, a2}
  Terminals = {t1}
  Unsteady = {t1}
  DueBatch = 1
  Asked = {a1}
  Patched = {a1}
  Threshold = 1
  NoAccount = NoAccount
  Nobody = Nobody
CHECK_DEADLOCK FALSE
INVARIANT OneScheduled
PROPERTY EveryTurnComes
