------------------------------- MODULE Outbox -------------------------------
(***************************************************************************)
(* The table sync_outbox of the local store: the durable queue of row      *)
(* snapshots that `runar sync push` drains to the remote.  Each statement  *)
(* the storage adapters run against it (storage/sqlite.rs, and its twin    *)
(* storage/postgres.rs) is one operator from the table before it to the    *)
(* table after it; who runs which statement, and in what order, is module  *)
(* SyncPush.                                                               *)
(*                                                                         *)
(* A table is a function from row ids to rows.  Ids are handed out in the  *)
(* order of created_at, the column every scan of the table sorts by.       *)
(*                                                                         *)
(* Operators introduced as slips are not part of the model: each is a      *)
(* definition as a plausible mistake in the code would have it, and one of *)
(* the properties is false of the system with it.                          *)
(***************************************************************************)
EXTENDS Naturals, FiniteSets, Functions

CONSTANTS
    Entries,      \* memory entries the rows are snapshots of
    MaxAttempts   \* the dead-letter cap handed to claim_outbox

ASSUME MaxAttemptsAssumption == MaxAttempts \in Nat \ {0}

\* A nullable timestamp column, by what the queries ask of it: NULL, younger
\* than the cutoff of the sweep that reads the column, or older than it.
Stamp == {"null", "recent", "old"}

\* What the pushing binary and the remote make of a snapshot.
\*   good       any build parses it and the remote's constraints allow it
\*   newer      written by a newer build: an older build cannot parse it
\*   stub       the id-only delete payload of an earlier build: no build can
\*   oversized  content beyond the remote's CHECK: the remote always refuses
Payload == {"good", "newer", "stub", "oversized"}

Op == {"upsert", "delete"}

\* tomb: the snapshot carries deleted_at, i.e. it was taken of a dead row.
Row == [entry: Entries, op: Op, payload: Payload,
        tomb: BOOLEAN, attempts: Nat, claimed: Stamp, confirmed: Stamp]

IsTable(t) == t \in [DOMAIN t -> Row]

-----------------------------------------------------------------------------
(* Queries *)

Unconfirmed(t) == {r \in DOMAIN t : t[r].confirmed = "null"}

Claimed(t) == {r \in Unconfirmed(t) : t[r].claimed # "null"}

\* Two of outbox_health's buckets.
DeadLettered(t) == {r \in Unconfirmed(t) : t[r].attempts >= MaxAttempts}
InFlight(t) == {r \in Claimed(t) : t[r].attempts < MaxAttempts}

\* Slips: claim_outbox without one of its guards.
ClaimableByAnyone(t) == {r \in Unconfirmed(t) : t[r].attempts < MaxAttempts}
ClaimableForever(t) == {r \in Unconfirmed(t) : t[r].claimed = "null"}

\* The rows claim_outbox selects from.
Claimable(t) ==
    {r \in Unconfirmed(t) : t[r].claimed = "null" /\ t[r].attempts < MaxAttempts}

\* ORDER BY created_at ASC LIMIT n
Oldest(S, n) == {r \in S : Cardinality({s \in S : s < r}) < n}

\* deleted_entries_without_tombstone: dead entries the table has rows of, none
\* of them a delete.
Orphans(t, dead) ==
    {e \in dead : /\ \E r \in DOMAIN t : t[r].entry = e
                  /\ \A r \in DOMAIN t : t[r].entry = e => t[r].op # "delete"}

\* malformed_delete_payloads
MalformedDeletes(t) ==
    {r \in Unconfirmed(t) : t[r].op = "delete" /\ t[r].payload = "stub"}

\* unsendable_outbox_rows
Unsendable(t) == {r \in Unconfirmed(t) : t[r].payload = "oversized"}

-----------------------------------------------------------------------------
(* Statements *)

\* enqueue_outbox
AppendRow(t, id, e, op, payload, tomb) ==
    [r \in DOMAIN t \cup {id} |->
        IF r = id
        THEN [entry |-> e, op |-> op, payload |-> payload, tomb |-> tomb,
              attempts |-> 0, claimed |-> "null", confirmed |-> "null"]
        ELSE t[r]]

\* claim_outbox stamps the rows it selected, in the same transaction.
ClaimRows(t, S) ==
    [r \in DOMAIN t |-> IF r \in S THEN [t[r] EXCEPT !.claimed = "recent"] ELSE t[r]]

\* confirm_outbox asks nothing of the row; claimed_at keeps its stamp.
ConfirmRows(t, S) ==
    [r \in DOMAIN t |-> IF r \in S THEN [t[r] EXCEPT !.confirmed = "recent"] ELSE t[r]]

\* Slip: a strike that leaves the claim standing.
FailRowKeepingClaim(t, id) ==
    [r \in DOMAIN t |-> IF r = id THEN [t[r] EXCEPT !.attempts = @ + 1] ELSE t[r]]

\* fail_outbox asks nothing of the row either: not whose claim it clears, nor
\* whether the row has been confirmed since.
FailRow(t, id) ==
    [r \in DOMAIN t |->
        IF r = id THEN [t[r] EXCEPT !.attempts = @ + 1, !.claimed = "null"] ELSE t[r]]

\* release_outbox, confined to unconfirmed rows.
ReleaseRows(t, S) ==
    [r \in DOMAIN t |->
        IF r \in S /\ t[r].confirmed = "null" THEN [t[r] EXCEPT !.claimed = "null"] ELSE t[r]]

\* reap_stale_claims with the staleness cutoff (900 s unless overridden) ...
StaleClaims(t) == {r \in Claimed(t) : t[r].claimed = "old"}
ReapStale(t) == ReleaseRows(t, StaleClaims(t))

\* rewrite_outbox_payload: a fresh snapshot, no strikes, no claim.
RewriteRow(t, id, payload, tomb) ==
    [r \in DOMAIN t |->
        IF r = id /\ t[r].confirmed = "null"
        THEN [t[r] EXCEPT !.payload = payload, !.tomb = tomb, !.attempts = 0,
                          !.claimed = "null"]
        ELSE t[r]]

\* delete_outbox_rows
DeleteRows(t, S) == Restrict(t, DOMAIN t \ S)

\* Slip: the retention applied to rows nobody has confirmed.
GcRowsOfAnyAge(t) == DeleteRows(t, {r \in DOMAIN t : t[r].confirmed # "recent"})

\* gc_outbox: confirmed rows beyond the retention.
GcRows(t) == DeleteRows(t, {r \in DOMAIN t : t[r].confirmed = "old"})

\* The clock: every claim, or every confirmation, made so far falls behind the
\* cutoff of its sweep.  (A cutoff that separates two claims is this step taken
\* between them; nothing asks for the age of a confirmed row's claim.)
AgeClaims(t) ==
    [r \in DOMAIN t |->
        IF r \in Claimed(t) THEN [t[r] EXCEPT !.claimed = "old"] ELSE t[r]]

AgeConfirmations(t) ==
    [r \in DOMAIN t |->
        IF t[r].confirmed = "recent" THEN [t[r] EXCEPT !.confirmed = "old"] ELSE t[r]]

=============================================================================
