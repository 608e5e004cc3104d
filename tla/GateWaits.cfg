SPECIFICATION FairGateSpec
CONSTANTS
  Workers = {w1, w2, w3}
  Nobody = Nobody
  Hold = 3
  Poll = 2
  KilledAt = {"start"}
INVARIANTS NobodyWaitsLonger HolderKeepsLock
PROPERTY GateMovesOn
