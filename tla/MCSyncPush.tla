----------------------------- MODULE MCSyncPush -----------------------------
EXTENDS SyncPush, TLC

CONSTANTS e1, e2, w1, w2, p1, p2

OneEntry == {e1}
TwoEntries == {e1, e2}
OneWriter == {w1}
TwoWriters == {w1, w2}
OnePusher == {p1}
TwoPushers == {p1, p2}

NoPushers == {}
NoEntries == {}

\* Nothing tells two entries or two writers apart, nor two pushers of one build
\* that are both started by hand.
Interchangeable ==
    Permutations(Entries) \cup Permutations(Writers) \cup Permutations(Pushers)

=============================================================================
