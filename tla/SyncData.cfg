SPECIFICATION SyncDataSpec
CONSTANTS
  q1 = q1
  q2 = q2
  u = u
  d = d
  Positions = {q1, q2, u}
  Payments = {d}
  Start <- Begun
  Deals <- DealCounts
  MaxDeals = 7
  Parts <- SomeParts
  Pair <- OneSymbol
  Failing = {u}
  Empty = {}
  EnrichLimit = 2
  SymbolFailureLimit = 2
  ErrorThreshold = 2
  NoRow = NoRow
  Weeks = 8
  Begins = 7
  Offsets = {4, 11}
  Window = 6
INVARIANTS MeasuredWhole NoFalseSwitch AgreedWeeksAreTrue ThisWeekIsTrue
PROPERTIES NothingIsLost CatchesUp EveryoneMeasured
CHECK_DEADLOCK FALSE
