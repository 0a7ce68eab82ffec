--------------------------- MODULE MCGraphRefresh ---------------------------
EXTENDS GraphRefresh, TLC

CONSTANTS f1, f2, p1, p2

TwoFiles == {f1, f2}
TwoWorkers == {p1, p2}

Interchangeable == Permutations(Files) \cup Permutations(Workers)

=============================================================================
