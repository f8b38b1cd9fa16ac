--------------------------- MODULE MCGitFetchJob ---------------------------
EXTENDS GitFetchJob, TLC

CONSTANTS p1, p2, r1, r2

TwoProcs == {p1, p2}
OneProc  == {p1}
TwoRepos == {r1, r2}
OneRepo  == {r1}
Both     == {"proxy", "native"}
JustProxy  == {"proxy"}
JustNative == {"native"}
Symmetry == Permutations(TwoProcs) \cup Permutations(TwoRepos)
=============================================================================
