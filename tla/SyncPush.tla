------------------------------ MODULE SyncPush ------------------------------
(***************************************************************************)
(* Getting local writes to the remote.  Writers (MCP servers, CLI          *)
(* commands) change memory entries and enqueue snapshots of them; pushers  *)
(* (the auto-sync loop inside every MCP server, `runar sync push`) drain   *)
(* the queue; `runar sync repair` and `runar sync gc` maintain it.  All of *)
(* them are processes that share one database file and talk to one remote, *)
(* so between any two statements of one, statements of the others run.     *)
(*                                                                         *)
(* Every action is one transaction on the local store, one statement on    *)
(* the remote, or a failure between two of them.                           *)
(***************************************************************************)
EXTENDS Outbox

CONSTANTS
    Writers,       \* processes that write memory entries
    Pushers,       \* processes that run cmd_push
    AutoPushers,   \* the pushers that are auto loops: they never dry-run
    NewPushers,    \* the pushers whose build parses "newer" payloads
    Kinds,         \* the payloads writers enqueue
    Deletable,     \* bound: the entries that are ever deleted
    Repairs,       \* whether an operator runs `sync repair` and `sync gc`
    BatchLimit,    \* LIMIT of a claim (500 in the auto loop)
    MaxRows,       \* bound: rows ever enqueued
    MaxFaults      \* bound: crashes and failed bookkeeping statements

ASSUME SyncPushAssumption ==
    /\ IsFiniteSet(Pushers)
    /\ AutoPushers \subseteq Pushers
    /\ NewPushers \subseteq Pushers
    /\ Kinds \subseteq Payload
    /\ Deletable \subseteq Entries
    /\ Repairs \in BOOLEAN
    /\ BatchLimit \in Nat \ {0}
    /\ MaxRows \in Nat
    /\ MaxFaults \in Nat

RowId == 1..MaxRows

VARIABLES
    deleted,   \* the entries that are soft-deleted in the local store
    outbox,    \* the local table sync_outbox
    issued,    \* rows enqueued so far
    remote,    \* [Entries -> what the remote holds]
    writer,    \* [Writers -> the write in progress]
    pusher,    \* [Pushers -> the push in progress]
    repair,    \* the repair in progress
    faults,    \* crashes and failed bookkeeping so far
    dropped,   \* history: entries with a delete whose enqueue was dropped
    landed,    \* history: [Entries -> newest row the remote has accepted]
    stranded,  \* history: claims whose pusher is gone without settling them
    reclaimed  \* history: rows whose claim was taken away from its pusher

store == <<deleted, outbox, issued>>
mishaps == <<faults, dropped>>
history == <<landed, stranded, reclaimed>>
vars == <<store, remote, writer, pusher, repair, mishaps, history>>

-----------------------------------------------------------------------------
(* The processes' own state. *)

IdleWriter == [stage |-> "idle"]

Writing == [stage: {"snapshot", "enqueue"}, entry: Entries,
            op: Op, tomb: BOOLEAN]

\* A claimed row as the pusher holds it in memory.
Snapshot == [entry: Entries, payload: Payload, tomb: BOOLEAN]

\* phase    where cmd_push stands
\* batch    the rows it claimed, as they were when it claimed them
\* todo     representatives (the newest row of each entry) still to push
\* confirm  rows to confirm at the end
\* release  subsumed rows of a representative that failed, still to release
\* seen     what the remote's `get` returned for the row being applied
IdlePusher == [phase |-> "idle", batch |-> <<>>, todo |-> {}, confirm |-> {},
               release |-> {}, seen |-> "absent"]

IdleRepair == [pass |-> "idle", todo |-> {}]

RemoteState == {"absent", "live", "tomb"}

Init ==
    /\ deleted = {}
    /\ outbox = <<>>
    /\ issued = 0
    /\ remote = [e \in Entries |-> "absent"]
    /\ writer = [w \in Writers |-> IdleWriter]
    /\ pusher = [p \in Pushers |-> IdlePusher]
    /\ repair = IdleRepair
    /\ faults = 0
    /\ dropped = {}
    /\ landed = [e \in Entries |-> 0]
    /\ stranded = {}
    /\ reclaimed = {}

\* The next row of the table, enqueued at this instant.
Enqueue(e, op, payload, tomb) ==
    /\ issued < MaxRows
    /\ issued' = issued + 1
    /\ outbox' = AppendRow(outbox, issued + 1, e, op, payload, tomb)

Fault ==
    /\ faults < MaxFaults
    /\ faults' = faults + 1

-----------------------------------------------------------------------------
(* Writers.  The entry is changed, then read back, then the snapshot is     *)
(* enqueued: three transactions.                                            *)

\* Save, retag or mark verified: storage.update fails on a deleted entry.
WriteEntry(w, e) ==
    /\ writer[w] = IdleWriter
    /\ e \notin deleted
    /\ writer' = [writer EXCEPT ![w] = [stage |-> "snapshot", entry |-> e,
                                        op |-> "upsert", tomb |-> FALSE]]
    /\ UNCHANGED <<store, remote, pusher, repair, mishaps, history>>

\* deprecate: the soft delete is unconditional.
DeprecateEntry(w, e) ==
    /\ e \in Deletable
    /\ writer[w] = IdleWriter
    /\ deleted' = deleted \cup {e}
    /\ writer' = [writer EXCEPT ![w] = [stage |-> "snapshot", entry |-> e,
                                        op |-> "delete", tomb |-> FALSE]]
    /\ UNCHANGED <<outbox, issued, remote, pusher, repair, mishaps, history>>

\* Supersession by topic key, eviction and the crawl sweep delete rows and
\* enqueue nothing.
DeleteSilently(e) ==
    /\ e \in Deletable \ deleted
    /\ deleted' = deleted \cup {e}
    /\ UNCHANGED <<outbox, issued, remote, writer, pusher, repair, mishaps, history>>

\* outbox_snapshot, through the reader that sees deleted rows.
TakeSnapshot(w) ==
    /\ writer[w].stage = "snapshot"
    /\ writer' = [writer EXCEPT ![w].stage = "enqueue",
                                ![w].tomb = writer[w].entry \in deleted]
    /\ UNCHANGED <<store, remote, pusher, repair, mishaps, history>>

EnqueueSnapshot(w) ==
    /\ writer[w].stage = "enqueue"
    /\ \E payload \in Kinds :
        /\ payload = "stub" => writer[w].op = "delete"
        /\ Enqueue(writer[w].entry, writer[w].op, payload, writer[w].tomb)
    /\ writer' = [writer EXCEPT ![w] = IdleWriter]
    /\ UNCHANGED <<deleted, remote, pusher, repair, mishaps, history>>

\* The enqueue is best effort: the snapshot or the insert fails and is only
\* logged, or the process dies first.
EnqueueLost(w) ==
    /\ writer[w] # IdleWriter
    /\ Fault
    /\ writer' = [writer EXCEPT ![w] = IdleWriter]
    /\ dropped' = IF writer[w].op = "delete" THEN dropped \cup {writer[w].entry}
                  ELSE dropped
    /\ UNCHANGED <<store, remote, pusher, repair, history>>

-----------------------------------------------------------------------------
(* Pushers. *)

\* Rows of p's batch for the entry of row r: r and the rows it subsumes.
GroupOf(p, r) ==
    {s \in DOMAIN pusher[p].batch : pusher[p].batch[s].entry = pusher[p].batch[r].entry}

\* Slip: coalesce_latest's comparison the wrong way round.
OldestOfEachEntry(batch) ==
    {r \in DOMAIN batch :
        \A s \in DOMAIN batch : batch[s].entry = batch[r].entry => s >= r}

\* The newest row of every entry of a batch.
Representatives(batch) ==
    {r \in DOMAIN batch :
        \A s \in DOMAIN batch : batch[s].entry = batch[r].entry => s <= r}

\* A pusher that has just claimed batch.
Working(phase, batch) ==
    [phase |-> phase, batch |-> batch, todo |-> Representatives(batch),
     confirm |-> {}, release |-> {}, seen |-> "absent"]

\* The rows p claimed and has neither confirmed, failed nor released yet.
Holds(p) ==
    pusher[p].confirm \cup pusher[p].release
        \cup UNION {GroupOf(p, r) : r \in pusher[p].todo}

Parses(p, payload) ==
    payload \in {"good", "oversized"} \/ (payload = "newer" /\ p \in NewPushers)

\* Slip: no reaping, as before the claims of dead pushers were noticed.
StartPushWithoutReaping(p) ==
    /\ pusher[p].phase = "idle"
    /\ pusher' = [pusher EXCEPT ![p].phase = "claim"]
    /\ UNCHANGED <<store, remote, writer, repair, mishaps, history>>

\* cmd_push begins by reaping claims it takes for a dead pusher's.
StartPush(p) ==
    /\ pusher[p].phase = "idle"
    /\ outbox' = ReapStale(outbox)
    /\ stranded' = stranded \ StaleClaims(outbox)
    /\ reclaimed' = reclaimed \cup StaleClaims(outbox)
    /\ pusher' = [pusher EXCEPT ![p].phase = "claim"]
    /\ UNCHANGED <<deleted, issued, remote, writer, repair, mishaps, landed>>

\* claim_outbox, then coalesce_latest over what it returned.
Claim(p, dry) ==
    LET rows == Oldest(Claimable(outbox), BatchLimit)
        batch == [r \in rows |-> [entry |-> outbox[r].entry,
                                  payload |-> outbox[r].payload,
                                  tomb |-> outbox[r].tomb]]
    IN  /\ pusher[p].phase = "claim"
        /\ dry => p \notin AutoPushers
        /\ outbox' = ClaimRows(outbox, rows)
        /\ pusher' = [pusher EXCEPT ![p] =
                        IF rows = {} THEN IdlePusher
                        ELSE Working(IF dry THEN "dry" ELSE "push", batch)]
        /\ UNCHANGED <<deleted, issued, remote, writer, repair, mishaps, history>>

\* Slip: a dry run that hands back only the rows it listed.
ReleaseDryRunOfListed(p) ==
    /\ pusher[p].phase = "dry"
    /\ outbox' = ReleaseRows(outbox, pusher[p].todo)
    /\ pusher' = [pusher EXCEPT ![p] = IdlePusher]
    /\ stranded' = stranded \ pusher[p].todo
    /\ UNCHANGED <<deleted, issued, remote, writer, repair, mishaps, landed, reclaimed>>

\* A dry run hands every claim back.
ReleaseDryRun(p) ==
    /\ pusher[p].phase = "dry"
    /\ outbox' = ReleaseRows(outbox, DOMAIN pusher[p].batch)
    /\ pusher' = [pusher EXCEPT ![p] = IdlePusher]
    /\ stranded' = stranded \ DOMAIN pusher[p].batch
    /\ UNCHANGED <<deleted, issued, remote, writer, repair, mishaps, landed, reclaimed>>

\* r is the representative cmd_push has come to: oldest first.
IsNext(p, r) == r \in pusher[p].todo /\ \A s \in pusher[p].todo : r <= s

\* push_one on the remote, first half: apply_remote_entry reads the existing
\* row.  `get` hides a deleted row, so a tombstone reads as no row at all.
ReadRemote(p) ==
    /\ pusher[p].phase = "push"
    /\ \E r \in pusher[p].todo :
        /\ IsNext(p, r)
        /\ Parses(p, pusher[p].batch[r].payload)
        /\ LET there == remote[pusher[p].batch[r].entry]
           IN  pusher' = [pusher EXCEPT ![p].phase = "apply",
                                        ![p].seen = IF there = "live" THEN "live"
                                                    ELSE "absent"]
    /\ UNCHANGED <<store, remote, writer, repair, mishaps, history>>

\* Second half: what the write decided on that read may leave behind; nothing
\* when the remote refuses it.  Insert is ON CONFLICT DO NOTHING; Update
\* replaces the whole row, deleted_at included.  Between two live versions the
\* verified flag and last-write-wins may skip the write instead.
Inserted(there, row) ==
    IF there # "absent" THEN there ELSE IF row.tomb THEN "tomb" ELSE "live"

Written(there, seen, row) ==
    IF row.payload = "oversized" THEN {}
    ELSE IF seen = "absent" THEN {Inserted(there, row)}
    ELSE IF row.tomb THEN {"tomb"} ELSE {"live"}

Skipped(there, seen, row) == IF seen = "live" /\ ~row.tomb THEN {there} ELSE {}

Applied(there, seen, row) == Written(there, seen, row) \cup Skipped(there, seen, row)

ApplyRow(r, seen, row) ==
    /\ \E after \in Applied(remote[row.entry], seen, row) :
            remote' = [remote EXCEPT ![row.entry] = after]
    /\ landed' = [landed EXCEPT ![row.entry] = IF r > @ THEN r ELSE @]

\* The remote took the row: it and the rows it subsumes will be confirmed.
PushRow(p) ==
    /\ pusher[p].phase = "apply"
    /\ \E r \in pusher[p].todo :
        LET row == pusher[p].batch[r]
        IN  /\ IsNext(p, r)
            /\ ApplyRow(r, pusher[p].seen, row)
            /\ pusher' = [pusher EXCEPT ![p].phase = "push",
                                        ![p].seen = "absent",
                                        ![p].todo = @ \ {r},
                                        ![p].confirm = @ \cup GroupOf(p, r)]
    /\ UNCHANGED <<store, writer, repair, mishaps, stranded, reclaimed>>

\* Slip: the subsumed rows are dropped on the floor.
AfterFailureDropping(p, r) ==
    [pusher EXCEPT ![p].phase = "push", ![p].seen = "absent", ![p].todo = @ \ {r}]

\* The pusher after representative r failed: next come its subsumed rows.
AfterFailure(p, r) ==
    [pusher EXCEPT ![p].phase = IF GroupOf(p, r) = {r} THEN "push" ELSE "release",
                   ![p].seen = "absent",
                   ![p].todo = @ \ {r},
                   ![p].release = GroupOf(p, r) \ {r}]

\* The remote refuses the row, or applies it and the answer is lost: one more
\* attempt.
FailPush(p) ==
    /\ pusher[p].phase = "apply"
    /\ \E r \in pusher[p].todo :
        LET row == pusher[p].batch[r]
        IN  /\ IsNext(p, r)
            /\ UNCHANGED <<remote, landed>> \/ ApplyRow(r, pusher[p].seen, row)
            /\ outbox' = FailRow(outbox, r)
            /\ pusher' = AfterFailure(p, r)
            /\ stranded' = stranded \ {r}
    /\ UNCHANGED <<deleted, issued, writer, repair, mishaps, reclaimed>>

\* Slip: an unparseable row treated like any other failure.
PenalizeUnparseable(p) ==
    /\ pusher[p].phase = "push"
    /\ \E r \in pusher[p].todo :
        /\ IsNext(p, r)
        /\ ~Parses(p, pusher[p].batch[r].payload)
        /\ outbox' = FailRow(outbox, r)
        /\ pusher' = AfterFailure(p, r)
        /\ stranded' = stranded \ {r}
    /\ UNCHANGED <<deleted, issued, remote, writer, repair, mishaps, landed, reclaimed>>

\* An unparseable row is released without spending an attempt.
ReleaseUnparseable(p) ==
    /\ pusher[p].phase = "push"
    /\ \E r \in pusher[p].todo :
        /\ IsNext(p, r)
        /\ ~Parses(p, pusher[p].batch[r].payload)
        /\ outbox' = ReleaseRows(outbox, {r})
        /\ pusher' = AfterFailure(p, r)
        /\ stranded' = stranded \ {r}
    /\ UNCHANGED <<deleted, issued, remote, writer, repair, mishaps, landed, reclaimed>>

\* fail_outbox or release_outbox itself fails; that is only logged.
BookkeepingLost(p) ==
    /\ pusher[p].phase \in {"push", "apply"}
    /\ Fault
    /\ \E r \in pusher[p].todo :
        /\ IsNext(p, r)
        /\ pusher[p].phase = "push" <=> ~Parses(p, pusher[p].batch[r].payload)
        /\ pusher' = AfterFailure(p, r)
        /\ stranded' = stranded \cup ({r} \cap Claimed(outbox))
    /\ UNCHANGED <<store, remote, writer, repair, dropped, landed, reclaimed>>

ReleaseSubsumed(p) ==
    /\ pusher[p].phase = "release"
    /\ outbox' = ReleaseRows(outbox, pusher[p].release)
    /\ pusher' = [pusher EXCEPT ![p].phase = "push", ![p].release = {}]
    /\ stranded' = stranded \ pusher[p].release
    /\ UNCHANGED <<deleted, issued, remote, writer, repair, mishaps, landed, reclaimed>>

SubsumedLost(p) ==
    /\ pusher[p].phase = "release"
    /\ Fault
    /\ pusher' = [pusher EXCEPT ![p].phase = "push", ![p].release = {}]
    /\ stranded' = stranded \cup (pusher[p].release \cap Claimed(outbox))
    /\ UNCHANGED <<store, remote, writer, repair, dropped, landed, reclaimed>>

\* Slips: everything claimed is confirmed; the pusher keeps its batch.
FinishPushConfirmingAll(p) ==
    /\ pusher[p].phase = "push"
    /\ pusher[p].todo = {}
    /\ outbox' = ConfirmRows(outbox, DOMAIN pusher[p].batch)
    /\ pusher' = [pusher EXCEPT ![p] = IdlePusher]
    /\ stranded' = stranded \ DOMAIN pusher[p].batch
    /\ UNCHANGED <<deleted, issued, remote, writer, repair, mishaps, landed, reclaimed>>

FinishPushKeepingBatch(p) ==
    /\ pusher[p].phase = "push"
    /\ pusher[p].todo = {}
    /\ outbox' = ConfirmRows(outbox, pusher[p].confirm)
    /\ pusher' = [pusher EXCEPT ![p].phase = "idle"]
    /\ stranded' = stranded \ pusher[p].confirm
    /\ UNCHANGED <<deleted, issued, remote, writer, repair, mishaps, landed, reclaimed>>

\* All representatives are done: confirm_outbox, if there is anything to confirm.
FinishPush(p) ==
    /\ pusher[p].phase = "push"
    /\ pusher[p].todo = {}
    /\ outbox' = ConfirmRows(outbox, pusher[p].confirm)
    /\ pusher' = [pusher EXCEPT ![p] = IdlePusher]
    /\ stranded' = stranded \ pusher[p].confirm
    /\ UNCHANGED <<deleted, issued, remote, writer, repair, mishaps, landed, reclaimed>>

\* The process dies, or a statement whose error cmd_push returns fails.
CrashPusher(p) ==
    /\ pusher[p].batch # <<>>
    /\ Fault
    /\ pusher' = [pusher EXCEPT ![p] = IdlePusher]
    /\ stranded' = stranded \cup (Holds(p) \cap Claimed(outbox))
    /\ UNCHANGED <<store, remote, writer, repair, dropped, landed, reclaimed>>

-----------------------------------------------------------------------------
(* `runar sync repair`, pass by pass, and `runar sync gc`.                  *)

\* Pass 1: release claims, if any is in flight.  --release-all also takes claims
\* of a running pusher, and is documented for use only when nothing is pushing.
StartRepair(all) ==
    /\ Repairs
    /\ repair = IdleRepair
    /\ all => \A p \in Pushers : pusher[p].phase = "idle"
    /\ LET gone == IF InFlight(outbox) = {} THEN {}
                   ELSE IF all THEN Claimed(outbox) ELSE StaleClaims(outbox)
       IN  /\ outbox' = ReleaseRows(outbox, gone)
           /\ stranded' = stranded \ gone
           /\ reclaimed' = reclaimed \cup gone
    /\ repair' = [pass |-> "orphans", todo |-> {}]
    /\ UNCHANGED <<deleted, issued, remote, writer, pusher, mishaps, landed>>

\* Pass 2: enqueue the tombstones that never reached the queue.
ListOrphans ==
    /\ repair.pass = "orphans"
    /\ repair' = [pass |-> "tombstones", todo |-> Orphans(outbox, deleted)]
    /\ UNCHANGED <<store, remote, writer, pusher, mishaps, history>>

EnqueueTombstone ==
    /\ repair.pass = "tombstones"
    /\ \E e \in repair.todo, payload \in Kinds \ {"stub"} :
        /\ Enqueue(e, "delete", payload, e \in deleted)
        /\ repair' = [repair EXCEPT !.todo = @ \ {e}]
    /\ UNCHANGED <<deleted, remote, writer, pusher, mishaps, history>>

\* Pass 3: rewrite delete rows that carry an id-only stub.
ListMalformed ==
    /\ repair.pass = "tombstones"
    /\ repair.todo = {}
    /\ repair' = [pass |-> "payloads", todo |-> MalformedDeletes(outbox)]
    /\ UNCHANGED <<store, remote, writer, pusher, mishaps, history>>

\* (The entries of stubs are taken to fit the remote's limit.)
RewriteStub ==
    /\ repair.pass = "payloads"
    /\ \E r \in repair.todo, payload \in Kinds \ {"stub", "oversized"} :
        /\ outbox' = IF r \in DOMAIN outbox
                     THEN RewriteRow(outbox, r, payload, outbox[r].entry \in deleted)
                     ELSE outbox
        /\ repair' = [repair EXCEPT !.todo = @ \ {r}]
        /\ stranded' = stranded \ {r}
        /\ reclaimed' = reclaimed \cup ({r} \cap Claimed(outbox))
    /\ UNCHANGED <<deleted, issued, remote, writer, pusher, mishaps, landed>>

\* Passes 2 and 3 go on when an item is unreadable, its statement fails, or it
\* is beyond --limit.
SkipItem ==
    /\ repair.pass \in {"tombstones", "payloads"}
    /\ \E x \in repair.todo : repair' = [repair EXCEPT !.todo = @ \ {x}]
    /\ UNCHANGED <<store, remote, writer, pusher, mishaps, history>>

\* Pass 4: drop rows the remote can never accept, if --purge-unsendable.
ListUnsendable(purge) ==
    /\ repair.pass = "payloads"
    /\ repair.todo = {}
    /\ repair' = IF purge /\ Unsendable(outbox) # {}
                 THEN [pass |-> "purge", todo |-> Unsendable(outbox)]
                 ELSE IdleRepair
    /\ UNCHANGED <<store, remote, writer, pusher, mishaps, history>>

PurgeUnsendable ==
    /\ repair.pass = "purge"
    /\ outbox' = DeleteRows(outbox, repair.todo)
    /\ repair' = IdleRepair
    /\ stranded' = stranded \ repair.todo
    /\ UNCHANGED <<deleted, issued, remote, writer, pusher, mishaps, landed, reclaimed>>

\* The operator stops it, or a statement fails: any prefix of the passes runs.
StopRepair ==
    /\ repair # IdleRepair
    /\ repair' = IdleRepair
    /\ UNCHANGED <<store, remote, writer, pusher, mishaps, history>>

CollectConfirmed ==
    /\ Repairs
    /\ outbox' = GcRows(outbox)
    /\ outbox' # outbox
    /\ UNCHANGED <<deleted, issued, remote, writer, pusher, repair, mishaps, history>>

-----------------------------------------------------------------------------
(* Time. *)

ClaimsExpire ==
    /\ \E r \in Claimed(outbox) : outbox[r].claimed = "recent"
    /\ outbox' = AgeClaims(outbox)
    /\ UNCHANGED <<deleted, issued, remote, writer, pusher, repair, mishaps, history>>

RetentionPasses ==
    /\ Repairs
    /\ \E r \in DOMAIN outbox : outbox[r].confirmed = "recent"
    /\ outbox' = AgeConfirmations(AgeClaims(outbox))
    /\ UNCHANGED <<deleted, issued, remote, writer, pusher, repair, mishaps, history>>

-----------------------------------------------------------------------------
PushStep(p) ==
    \/ StartPush(p) \/ Claim(p, FALSE) \/ ReadRemote(p) \/ PushRow(p) \/ FailPush(p)
    \/ ReleaseUnparseable(p) \/ ReleaseSubsumed(p) \/ FinishPush(p)

WriterNext ==
    \/ \E w \in Writers, e \in Entries : WriteEntry(w, e) \/ DeprecateEntry(w, e)
    \/ \E w \in Writers : TakeSnapshot(w) \/ EnqueueSnapshot(w) \/ EnqueueLost(w)
    \/ \E e \in Entries : DeleteSilently(e)

PusherNext ==
    \E p \in Pushers :
        \/ PushStep(p)
        \/ Claim(p, TRUE) \/ ReleaseDryRun(p)
        \/ BookkeepingLost(p) \/ SubsumedLost(p) \/ CrashPusher(p)

RepairNext ==
    \/ \E all \in BOOLEAN : StartRepair(all)
    \/ ListOrphans \/ EnqueueTombstone \/ ListMalformed \/ RewriteStub \/ SkipItem
    \/ \E purge \in BOOLEAN : ListUnsendable(purge)
    \/ PurgeUnsendable \/ StopRepair \/ CollectConfirmed

Next == WriterNext \/ PusherNext \/ RepairNext \/ ClaimsExpire \/ RetentionPasses

Spec == Init /\ [][Next]_vars

\* An auto loop lives as long as its MCP server and pushes again after every
\* sleep, whether the last push worked or not; and time passes.
FairSpec ==
    /\ Spec
    /\ \A p \in AutoPushers : WF_vars(PushStep(p))
    /\ WF_vars(ClaimsExpire)

-----------------------------------------------------------------------------
(* Properties *)

Phase == {"idle", "claim", "dry", "push", "apply", "release"}

Batches == UNION {[S -> Snapshot] : S \in SUBSET RowId}

PusherState ==
    [phase: Phase, batch: Batches, todo: SUBSET RowId, confirm: SUBSET RowId,
     release: SUBSET RowId, seen: {"absent", "live"}]

RepairState ==
    [pass: {"idle", "orphans"}, todo: {{}}]
        \cup [pass: {"tombstones"}, todo: SUBSET Entries]
        \cup [pass: {"payloads", "purge"}, todo: SUBSET RowId]

\* Every set of rows a pusher holds is a set of rows it claimed, and a pusher
\* that has claimed nothing holds nothing.
PusherTypeOK(s) ==
    /\ s \in PusherState
    /\ DOMAIN s.batch \subseteq 1..issued
    /\ s.todo \cup s.confirm \cup s.release \subseteq DOMAIN s.batch
    /\ s.phase \in {"idle", "claim"} => s.batch = <<>>

StoreTypeOK ==
    /\ deleted \subseteq Entries
    /\ IsTable(outbox)
    /\ issued \in 0..MaxRows
    /\ DOMAIN outbox \subseteq 1..issued

\* The shape of the state: ids are handed out once, and a process remembers
\* only rows that were enqueued.
TypeOK ==
    /\ StoreTypeOK
    /\ remote \in [Entries -> RemoteState]
    /\ writer \in [Writers -> {IdleWriter} \cup Writing]
    /\ pusher \in [Pushers -> PusherState]
    /\ \A p \in Pushers : PusherTypeOK(pusher[p])
    /\ repair \in RepairState
    /\ faults \in 0..MaxFaults
    /\ dropped \subseteq Entries
    /\ landed \in [Entries -> 0..MaxRows]
    /\ stranded \subseteq RowId
    /\ reclaimed \subseteq RowId

\* A row is covered once the remote has accepted it or a newer row of its entry.
Covered(e, r) == r <= landed[e]

\* cmd_push retires a subsumed row only after "the payload that subsumes them
\* has landed": whatever crashes, claims lost to the reaper and late
\* bookkeeping of other pushers came before, no row is confirmed that the
\* remote has not been given itself or in a newer version.
ConfirmedIsCovered ==
    \A r \in DOMAIN outbox :
        outbox[r].confirmed # "null" => Covered(outbox[r].entry, r)

\* The bug coalesce_latest's comment tells of: a claim nobody will settle makes
\* a row invisible.  Every claim on an unconfirmed row is one a running pusher
\* still has to confirm, fail or release, or one left by a pusher that died or
\* whose bookkeeping failed (and those the reaper takes).
ClaimsAreAccountedFor ==
    \A r \in Claimed(outbox) : r \in stranded \/ \E p \in Pushers : r \in Holds(p)

\* outbox_health's buckets and repair's `in_flight > 0` gate count a claimed
\* row as in flight only below the cap; no late failure of a slow pusher may
\* produce a claim that those counts miss.
ClaimsAreBelowTheCap == Claimed(outbox) \cap DeadLettered(outbox) = {}

\* fail_outbox adds a strike for everybody who still believes to hold the row,
\* so the cap can be overrun, by no more than the other pushers.
AttemptsAreBounded ==
    \A r \in DOMAIN outbox :
        outbox[r].attempts < MaxAttempts + Cardinality(Pushers)

\* Two pushers are about to push the same row only if its claim was once taken
\* from a pusher that had held it for too long, or whose row repair rewrote.
ClaimsAreExclusive ==
    \A p, q \in Pushers : p # q => Holds(p) \cap Holds(q) \subseteq reclaimed

\* A row no running build can parse is never dead-lettered: an upgrade or a
\* repair must still find it claimable.
VersionSkewIsNotPenalised ==
    \A r \in DeadLettered(outbox) :
        \E p \in Pushers : Parses(p, outbox[r].payload)

\* A row leaves the unconfirmed part of the queue only as the promise of
\* DeliveryQueue allows.
Promise == INSTANCE DeliveryQueue WITH
    queue <- {[id |-> r, entry |-> outbox[r].entry,
               refused |-> outbox[r].payload = "oversized"] : r \in Unconfirmed(outbox)},
    accepted <- issued,
    delivered <- landed

KeepsThePromise == Promise!Spec

\* Every row is eventually confirmed, or parked at the cap (or purged).
EveryRowIsSettled ==
    \A r \in RowId :
        r \in Unconfirmed(outbox) ~>
            (r \notin Unconfirmed(outbox) \/ r \in DeadLettered(outbox))

\* claim_outbox refuses a row at the cap "so one poisoned payload cannot be
\* retried forever ahead of the rows behind it": every row a pusher can parse
\* is eventually confirmed or parked, whatever is queued in front of it.
GoodRowsAreSettled ==
    \A r \in RowId :
        (r \in Unconfirmed(outbox) /\ outbox[r].payload = "good")
            ~> (r \notin Unconfirmed(outbox) \/ r \in DeadLettered(outbox))

\* deprecate's and cmd_push's comments: the delete row of an entry, once
\* confirmed, has reached the remote.
ConfirmedDeleteIsEffective ==
    \A r \in DOMAIN outbox :
        outbox[r].op = "delete" /\ outbox[r].confirmed # "null"
            => remote[outbox[r].entry] = "tomb"

\* enqueue_outbox_snapshot's comment: dropping the enqueue "leaves the entry
\* visible to `sync repair`", which it must be while the remote has it alive.
LostDeleteIsRepairable ==
    \A e \in dropped : remote[e] = "live" => \E r \in DOMAIN outbox : outbox[r].entry = e

=============================================================================
