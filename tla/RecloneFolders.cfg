SPECIFICATION Spec
CONSTANTS
  Builds = {b1}
  NoFolder = NoFolder
  Brokers = {x, y}
  Size <- Cardinality
INVARIANTS MasterSurvives CloneIsClean ServersSurvive
