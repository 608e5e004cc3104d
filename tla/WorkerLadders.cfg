SPECIFICATION FairSpec
CONSTANTS
  Pids = {p1, p2, p3}
  NoPid = NoPid
  RestartAttempts = 2
CHECK_DEADLOCK FALSE
PROPERTY ComesBack
INVARIANTS AloneIsClean HandleIsNotCondemned
