------------------------- MODULE MCObservationQueue -------------------------
EXTENDS ObservationQueue

CONSTANTS c1, h1, j1, j2

OneContent == {c1}
OneHook == {h1}
TwoJobs == {j1, j2}
BothBackends == {"sqlite", "postgres"}

=============================================================================
