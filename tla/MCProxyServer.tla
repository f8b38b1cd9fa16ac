--------------------------- MODULE MCProxyServer ---------------------------
EXTENDS ProxyServer, TLC

CONSTANTS t1, t2
TwoThreads == {t1, t2}
OneThread  == {t1}
Symmetry   == Permutations(TwoThreads)
=============================================================================
