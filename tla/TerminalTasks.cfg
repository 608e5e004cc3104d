SPECIFICATION Spec
CONSTANTS
  Pids = {q1, q2, q3, q4}
  NoPid = NoPid
  Logins = {a, b, c}
  Accepted = {a, b}
  NoLogin = NoLogin
  Endpoints = {x, y}
  FailuresBeforeKill = 2
  MaxWasted = 5
INVARIANTS StrikesComeFromStarts TroubleIsOver
PROPERTIES OwnHistory OwnRoute ZombieIsEarned
SYMMETRY AnyPid
