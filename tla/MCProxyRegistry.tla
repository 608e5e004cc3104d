--------------------------- MODULE MCProxyRegistry ---------------------------
EXTENDS ProxyRegistry, TLC

\* No proxy and no terminal differs from another.
Alike == Permutations(Proxies) \cup Permutations(Terminals)
=============================================================================
