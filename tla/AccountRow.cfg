SPECIFICATION Spec
CONSTANTS
  Terminals = {w1}
  Passwords = {p1, p2}
  Accepted = {p2}
  NoPassword = NoPassword
  Slots = {s1}
  NoSlot = NoSlot
  MaxRows = 1
  Threshold = 2
  ClientOps = {"patch", "delete"}
  NoRow = NoRow
  NoTask = NoTask
INVARIANTS TypeOK ErrorIsEarned
CHECK_DEADLOCK FALSE
