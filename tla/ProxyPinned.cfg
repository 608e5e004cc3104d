SPECIFICATION Spec
CONSTANTS
  Terminals = {t1, t2, t3}
  Proxies = {p1, p2}
  NoProxy = NoProxy
INVARIANTS OwnProxyAlone HeldIsAssigned
PROPERTY Pinned
SYMMETRY Alike
