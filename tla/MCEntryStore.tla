---------------------------- MODULE MCEntryStore ----------------------------
EXTENDS EntryStore, TLC

CONSTANTS a, b, x, t1, s1, s2, d1, none

OneTopic == {t1}
\* x is a with a secret in it.
ThreeContents == {a, b, x}
Scrubbed == a :> a @@ b :> b @@ x :> a
TwoSavers == {s1, s2}
OneCleaner == {d1}

Interchangeable == Permutations(Savers) \cup Permutations(Cleaners)

=============================================================================
