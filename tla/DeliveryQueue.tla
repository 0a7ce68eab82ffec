--------------------------- MODULE DeliveryQueue ---------------------------
(***************************************************************************)
(* What the sync queue promises its clients, without claims, pushers,      *)
(* crashes or time: a row that was accepted stays queued until the remote  *)
(* has been given that row or a newer one of the same entry.  Delivery is  *)
(* at least once, in any order, and newer rows subsume older ones of their *)
(* entry.  The only other way out of the queue is to be a row the remote   *)
(* refuses for good.                                                       *)
(***************************************************************************)
EXTENDS Naturals

CONSTANTS
    Entries,
    MaxRows    \* bound: rows ever accepted

VARIABLES
    queue,      \* rows accepted and not retired, as [id, entry, refused]
    accepted,   \* rows accepted so far; ids count up
    delivered   \* [Entries -> newest row the remote has been given]

vars == <<queue, accepted, delivered>>

Init ==
    /\ queue = {}
    /\ accepted = 0
    /\ delivered = [e \in Entries |-> 0]

Accept(e, refused) ==
    /\ accepted < MaxRows
    /\ accepted' = accepted + 1
    /\ queue' = queue \cup {[id |-> accepted + 1, entry |-> e, refused |-> refused]}
    /\ UNCHANGED delivered

\* The remote is given row r of entry e, perhaps not for the first time, and
\* perhaps after r was retired.
Deliver(e, r) ==
    /\ delivered[e] < r
    /\ delivered' = [delivered EXCEPT ![e] = r]
    /\ UNCHANGED <<queue, accepted>>

Retire(rows) ==
    /\ \A row \in rows : row.id <= delivered[row.entry]
    /\ queue' = queue \ rows
    /\ UNCHANGED <<accepted, delivered>>

Discard(rows) ==
    /\ \A row \in rows : row.refused
    /\ queue' = queue \ rows
    /\ UNCHANGED <<accepted, delivered>>

Next ==
    \/ \E e \in Entries, refused \in BOOLEAN : Accept(e, refused)
    \/ \E e \in Entries, r \in 1..accepted : Deliver(e, r)
    \/ \E rows \in SUBSET queue : Retire(rows) \/ Discard(rows)

Spec == Init /\ [][Next]_vars

=============================================================================
