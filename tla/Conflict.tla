------------------------------ MODULE Conflict ------------------------------
(***************************************************************************)
(* sync/conflict.rs: what happens when a row of one store meets the row    *)
(* another store has of the same entry.  The pure decision, without the    *)
(* reads and writes around it (module Replication).                        *)
(***************************************************************************)
EXTENDS Naturals

\* The columns the decision looks at, and ver, which stands for the rest of the
\* row: the number of the edit that wrote it.
Version(Time, Ver) == [ver: Ver, at: Time, verified: BOOLEAN, deleted: BOOLEAN]

\* No row of the entry.
NoRow == [ver |-> 0, at |-> 0, verified |-> FALSE, deleted |-> FALSE]

\* Resolution: what is written, and the policy that decided.
Insert == [act |-> "insert", policy |-> "none"]
Update(policy) == [act |-> "update", policy |-> policy]
Skip(policy) == [act |-> "skip", policy |-> policy]

\* Slip: a delete has to be later than what it deletes.
ResolveDeleteByTime(existing, incoming) ==
    CASE existing = NoRow -> Insert
      [] existing # NoRow /\ existing.deleted /\ ~incoming.deleted -> Skip("resurrect")
      [] OTHER -> IF incoming.at > existing.at THEN Update("lww") ELSE Skip("lww")

\* resolve: the rules in the order of the source, the first that applies.
Resolve(existing, incoming) ==
    CASE existing = NoRow -> Insert
      [] existing # NoRow /\ existing.deleted /\ ~incoming.deleted -> Skip("resurrect")
      [] existing # NoRow /\ ~existing.deleted /\ incoming.deleted -> Update("delete")
      [] existing # NoRow /\ existing.deleted = incoming.deleted
            /\ existing.verified /\ ~incoming.verified -> Skip("verified")
      [] existing # NoRow /\ existing.deleted = incoming.deleted
            /\ ~existing.verified /\ incoming.verified -> Update("verified")
      [] OTHER -> IF incoming.at > existing.at THEN Update("lww") ELSE Skip("lww")

\* The order the rules amount to: tombstones over live rows, then verified over
\* unverified, then the later updated_at.
Outranks(a, b) ==
    \/ a.deleted /\ ~b.deleted
    \/ a.deleted = b.deleted /\ a.verified /\ ~b.verified
    \/ a.deleted = b.deleted /\ a.verified = b.verified /\ a.at > b.at

=============================================================================
