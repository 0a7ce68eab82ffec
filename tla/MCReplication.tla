--------------------------- MODULE MCReplication ---------------------------
EXTENDS Replication, TLC

CONSTANTS e1, e2, m1, m2, s1, s2

OneEntry == {e1}
TwoEntries == {e1, e2}
TwoMachines == {m1, m2}
TwoSyncers == {s1, s2}
Both == {"push", "pull", "boot"}
Uneven == s1 :> {"push"} @@ s2 :> Both
OneWay == s1 :> {"push"} @@ s2 :> {"pull", "boot"}
OneEach == s1 :> m1 @@ s2 :> m2
OneMachine == {m1}
Together == s1 :> m1 @@ s2 :> m1

\* Nothing tells two entries apart.
SameEntries == Permutations(Entries)

=============================================================================
