SPECIFICATION Spec
CONSTANTS
  Terminals = {w1}
  Passwords = {p1, p2}
  Accepted = {p2}
  NoPassword = NoPassword
  Slots = {s1, s2}
  NoSlot = NoSlot
  MaxRows = 1
  Threshold = 2
  ClientOps = {"patch"}
  NoRow = NoRow
  NoTask = NoTask
PROPERTY OnlyTheRejected
CHECK_DEADLOCK FALSE
