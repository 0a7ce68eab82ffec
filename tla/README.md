# Verification of Runar Forge

Runar Forge is a memory store for coding agents: a local SQLite database of
memory entries that many short-lived processes share, an optional Postgres
remote that several machines replicate through, a code graph that is indexed in
the background, and an MCP server and CLI in front of it all. This directory
holds TLA+ models of its concurrent parts, the configurations TLC checks them
with, and theorems that TLAPS proves for every value of the constants.

Paths below are relative to `src/crates/muninn/src/`.

## 1. The system

### Components, their state and operations

| component | state | operations |
|---|---|---|
| **Outbox table** (`storage/sqlite.rs`, `storage/postgres.rs`) | table `sync_outbox`: rows with op, payload, attempts, claimed_at, confirmed_at | enqueue, claim, confirm, fail, reap, release, rewrite, delete, gc; health and repair queries |
| **Push** (`sync/push.rs`, `sync/auto.rs`) | the batch a process has claimed (in memory) | reap, claim, coalesce, push, confirm / fail / release; the auto loop that repeats it |
| **Repair and gc** (`sync/repair.rs`, `sync/gc.rs`) | the item lists of the pass under way | release claims, enqueue missing tombstones, rewrite stub payloads, purge unsendable rows; collect confirmed rows |
| **Librarian write path** (`librarian/mod.rs`) | memory entries | propose, retag, mark verified, deprecate: change, snapshot, enqueue |
| **Remote application, conflicts** (`sync/conflict.rs`, `apply_remote_entry`) | an entry on either side | read, resolve, insert / update / skip, audit |
| **Pull, bootstrap, init, cursors** (`sync/pull.rs`, `sync/bootstrap.rs`, `sync/init.rs`) | row `sync_state`: cursor, last push / pull | list changes after the cursor, apply, advance |
| **Observation queue** (`storage/sqlite.rs`, `capture.rs`) | table of raw observations with a status | enqueue, claim, confirm, recover stale |
| **Circuit breakers** (`breaker.rs`) | a JSON state file, and a database twin | success, failure, trip, cool down |
| **Entry store and lifecycle** (`storage/*.rs`, `maintenance.rs`) | memory entries, edges | dedup, topic-key supersession, decay, eviction, two-stage gc |
| **Code graph refresh** (`codegraph/refresh.rs`, `index.rs`, `freshness.rs`, `store.rs`) | lock file, stamp file, baseline, graph tables | lock, observe, judge, index, commit the baseline |
| **Crawler** (`huginn/`) | resume state | discover, save, retire |
| **Plans** (`plans.rs`) | plan and phase status in tags | create, advance, complete, expire |
| code graph extraction, MCP server and CLI, setup / doctor / update, redaction, embedding, search | – | sequential |

### How they interact

Every process (an MCP server per editor session, CLI commands, hooks) opens the
same SQLite file; nothing but the database and a few files in the state
directory is shared, and no process knows of another. A write goes through the
librarian, which changes the entry, reads it back and appends a snapshot of it to
`sync_outbox` in three separate transactions, the last two best effort. Pushers
(the auto loop in each MCP server, `runar sync push`) claim rows of the outbox,
write them to the remote one by one and confirm them; the same remote is written
by the pushers of other machines. Pull copies what changed on the remote back.
`sync repair` and `sync gc` run against the outbox while all of this goes on.

### What is hard

- Claims outlive the process that made them, and a slow pusher cannot be told from
  a dead one: the reaper (`push.rs:112`) may take a claim from a pusher that is
  still at work, and `confirm_outbox`, `fail_outbox` and `release_outbox` do not
  ask whose claim they settle.
- Rows of one entry are coalesced, and the fate of a row that was never pushed
  depends on that of the row that subsumed it.
- Any statement may fail and is then often only logged; any process may die
  between two statements; the remote may apply a row and the answer be lost.
- Rows of other builds: payloads this build cannot parse, payloads no build can,
  payloads the remote always refuses.
- Deletions reach the remote only as outbox rows, but the outbox is best effort and
  the reader of the remote (`get`) does not see deleted rows.
- Cursors over clocks of several machines; files read, changed and written back;
  lock files judged stale by two processes at once.

### What makes each component correct

- Outbox and push: no row is retired that the remote has not been given; no claim
  is forgotten; two pushers share a row only after a claim was taken over; strikes
  are bounded; every row settles.
- Repair and gc: run beside pushers without losing rows; find what was dropped.
- Conflict resolution: an order in which tombstones come first, then verification,
  then time; no store goes back in it.
- Pull: no cursor passes what the machine was not offered; what a machine knows
  better than the remote, or the remote better than a machine, is on its way; when
  nothing is, they hold the same version.
- Observation queue: each observation is summarised before it is confirmed, by one
  job at a time, and none is left behind.
- Breaker: counts the failures since the last success.
- Entry lifecycle: at most one live entry per content and per topic; no content
  that was saved is lost unless somebody takes it away.
- Refresh: one indexer at a time; what is called fresh is what is on disk.
- Crawler: what later crawls pass over is current; what is gone can be found.

## 2. Plan

The modules in the order in which they were planned and written, the most
important behaviour first:

| module | what it models | proved | state |
|---|---|---|---|
| `Outbox`, `SyncPush`, `DeliveryQueue` | outbox statements; writers, pushers, repair, gc; the abstract queue they implement | every safety property, refinement | done |
| `Conflict` | the resolution table of `conflict.rs` and the order it amounts to | that it is one, and what resolve makes of it | done |
| `Replication` | several machines and a remote: the effect of push, pull, bootstrap, cursors, the remote's update trigger, the `sync_state` write-back | type correctness, every safety property; that machines converge | done |
| `ObservationQueue` | enqueue, claim in one statement or two, confirm, recover; the breaker file | type correctness, every safety property | done |
| `GraphRefresh` | lock file, signals, scan, index pass, baseline | type correctness, every safety property | done |
| `EntryStore` | save, dedup, sweeps, purge, scrub | type correctness, every safety property | done |
| `Crawl` | crawl state, entries and tech debt per file | type correctness, every safety property | done |

`Replication` composes `Conflict` with the promise of `DeliveryQueue` in place of the
whole push, so that its state stays small. The planned modules `RefreshLock` and
`Breaker` became parts of `GraphRefresh` and `ObservationQueue`: what they can do wrong
shows only in what runs under them. What would come next: the
database breaker; plans.

## 3. Modules

### `Outbox`

The table `sync_outbox` as a function from row ids to rows, and each SQL statement
on it as an operator from table to table. Timestamps are abstracted to what the
queries ask of them (`Stamp`: NULL, younger, or older than the cutoff of the sweep
that reads the column), payloads to what the reading binary and the remote make of
them (`Payload`). `claim_outbox`, a SELECT and an UPDATE in one transaction, is
`Claimable`, `Oldest` and `ClaimRows`. The SQLite and Postgres adapters run the
same statements.

### `SyncPush`

The processes. Each action is one transaction of the local store, one statement
on the remote, or a failure between two of them:

| code | actions |
|---|---|
| propose, retag, mark_verified, deprecate → `enqueue_outbox_for_entry` | `WriteEntry` / `DeprecateEntry`, then `TakeSnapshot`, then `EnqueueSnapshot` or `EnqueueLost` |
| supersession, eviction, crawl sweep | `DeleteSilently` |
| `cmd_push`: reap; claim and coalesce | `StartPush`; `Claim` |
| `cmd_push`: `--dry-run` | `Claim(p, TRUE)`, `ReleaseDryRun` |
| `push_one` → `apply_remote_entry` on the remote: read; decide and write | `ReadRemote`; `PushRow`, or `FailPush` when it fails or its answer is lost |
| the error arm: `UnparseablePayload`, other errors, subsumed rows | `ReleaseUnparseable`, `FailPush`, `ReleaseSubsumed` |
| a bookkeeping statement that fails and is logged | `BookkeepingLost`, `SubsumedLost` |
| `confirm_outbox` | `FinishPush` |
| the process dies, or returns an error with `?` | `CrashPusher` |
| `cmd_repair` passes 1 to 4 | `StartRepair`; `ListOrphans`, `EnqueueTombstone`; `ListMalformed`, `RewriteStub`; `ListUnsendable`, `PurgeUnsendable`; `SkipItem`, `StopRepair` |
| `cmd_gc` | `CollectConfirmed` |
| time | `ClaimsExpire`, `RetentionPasses` |

A pusher's state is what `cmd_push` has in its local variables: the claimed rows as
they were when claimed, the representatives still to push, the ids to confirm, and
what the remote's `get` returned. Four variables are history and guard nothing:
`dropped`, `landed`, `stranded` and `reclaimed`.

Decisions worth knowing:

- The remote holds an entry `absent`, `live` or `tomb`. Which of two live versions
  wins is not decided here: an update of a live row by a live row may write or skip.
- Rows of the same machine only: other machines' writes to the remote, and the
  `sync_state` row that `cmd_push` rewrites at its end, are left to `Replication`.
- `StartRepair` reads the health figures and releases claims in one step. The gate
  on `in_flight` could miss a claim only if a claimed row were at the cap, which
  `ClaimsAreBelowTheCap` excludes. `--dry-run` of repair and gc only prints.
  `--release-all` is documented for use when nothing is pushing, and guarded so.
- `SkipItem` covers unreadable entries, failed statements and `--limit`.
- Oversized rows come from earlier builds and from re-snapshots of entries that were
  saved verbatim; a stub comes from an earlier build, and repair rewrites it with a
  snapshot of its entry, which is assumed to fit the remote's limit.
- Entries are not hard-deleted here (stage two of entry gc belongs to `EntryStore`).

### `DeliveryQueue`

What the queue promises, without claims, pushers, crashes or time: a row stays
queued until the remote has been given it or a newer row of its entry, or is
discarded because the remote refuses it for good. `SyncPush!KeepsThePromise`
instantiates it with the unconfirmed rows, the number of rows enqueued and the
newest row landed of every entry.

### `Conflict`, `Replication`

`Resolve` is `conflict::resolve` rule by rule over the columns it looks at; `Outranks`
is the order those rules amount to. `Replication` surrounds it with the two stores:

| code | actions |
|---|---|
| propose, retag, mark_verified, deprecate, search hits | `Create`, `Retag`, `MarkVerified`, `Deprecate`, `Touch` |
| `cmd_push`: start, read, apply, error arm, write of `sync_state` | `StartPush`, `ReadRemote`, `PushRow`, `PushFails`, `EndPush` |
| `cmd_pull`, `cmd_bootstrap`: start | `StartPull` (with `--since`), `StartBootstrap` (with a project filter) |
| a page; the local read; the local write; a row that fails | `ListPage`, `ReadLocal`, `ApplyLocal`, `ApplyFails` |
| the cursor is written | `EndPull`, `EndBootstrap` |
| death, `?` exits; the clock | `Abort`; `Tick` |

A row has the columns conflicts are decided by and the number of the edit that wrote
it. The clock is one for all machines. What a pull or push holds in its local
variables is one record, with the fields `Idle` lists. History, which no guard reads:
`unseen` (updates of the remote a machine was not offered yet), `missed` (machine and
entry whose remote row may be behind the machine's cursor), `raced` (entries the
remote decided on by a stale read) and `touched`. They are how the properties say
what they excuse. A pair moves from `unseen` to `missed` when the row

- lands while a bootstrap runs, within the skew of its start, or outside its filter:
  the cursor the bootstrap sets is past it;
- is cut off from a page that ends within a group of equal times: the next page
  starts strictly after that time (`CutOff`);
- fails to be applied: the cursor goes on.

An insert is in `missed` for every machine but the one it is from: it keeps its
writer's time and may be behind any cursor. So is a row a store takes by a stale read.
A pair leaves `missed` when the remote updates the entry, which stamps it anew, or the
machine applies the row the remote has. Each of these is a way to lose a row that the
code has; the hazards list them.

### `ObservationQueue`

`run_enqueue` as `CheckPasses`, `CheckFails`, `Enqueue`; `run_summarize` as `Recover`, the
claim (`ClaimPostgres`, or `SelectSqlite` and `UpdateSqlite`), `Gate`, `Fails` and
`Succeeds`, the breaker's bookkeeping (`ReadBreaker`, then `RecordSuccess` or
`RecordFailure`), `Land`, `Confirm`; `Crash`. Time is two kinds of step, `HalfMinute` (the
deduplication window) and `Minute` (the staleness and the trip).  A job keeps what it read of the breaker
file and writes back what it makes of that. A count of failures past the threshold is kept
as the threshold.

### `GraphRefresh`

Three kinds of worker do the same things in different orders (`Plan`): a refresh by
hand locks, observes and scans; a hook's observes, judges, locks and scans; a crawl
scans, waits a while for the lock, and observes when it indexes. `TryLock`, `Steal`
and `CreateAgain` are the three file operations of `try_acquire`; `GoOn` is a crawl
that stops waiting; `Unlock` is the drop, which removes whichever file is there.
`Begin` to `Stamp` are `index_project`, a file at a time. A file's symbols, its edges and
the baseline are versions: the version of the file they were made from. A file may be
edited to any version, one it had before too. History: `past` (the trees there were, by
which the properties tell that a tree `CameBack`), `doubtful` and `excused`, and the
worker's `clean`.

### `EntryStore`

`save` is `StartSave`, `NoDuplicate` or `FindDuplicate` and `BumpDuplicate`, `Lookup`,
`Supersede`, `Insert`: a statement each, in an `Order` of their own. `ListClusters` and
`RetireLoser` are `runar dedup`; `ListUnused` and `Sweep` the two sweeps; `Purge`, `Scrub`,
`Touch`, `MarkVerified`, `Deprecate` single statements. Contents are equal or not, and
`Redacted` says what a scrub makes of them. History: `raced`, and `kept`, what a save
has answered for.

### `Crawl`

A crawl goes through the phases of `run`: `Begin` (state, scan), `Choose` (change set,
`deprecate_removed`), `Read`, the look for markers (`LookDeep`, `LookAgain`, `LookAway`),
`Save`, `SaveDebt`, `RetireClean`, `Record`. A file is a version or absent, an entry is
the version it describes, a hash the version it was made of. `RecrawlFile` is the MCP
tool, `CollectEntries` and `CollectState` are `runar gc`, which may collect what a crawl
keeps. History: `slipped` and `unlooked`, and the crawl's `disturbed` and `touched`: the
files whose entries went wrong by an edit under a crawl, a failed call, a death or a
collection, each until a later crawl sets them right.

### Slips

Some definitions are introduced as slips (`ClaimableForever`,
`FinishPushConfirmingAll`, ...). They are not part of the model. Each is a mapped
definition as a plausible mistake would have it; put in its place, it makes TLC
find the property it is paired with violated, which shows that the property, and
the bounds of its run, can tell correct code from broken code.

## 4. Runs

The MC modules give the constants their small sets and the symmetry: writers,
entries, pushers, files and workers that the configuration does not tell apart are
interchangeable. No run with a temporal property has symmetry, but `GraphRefresh`,
whose temporal property is about single steps.

| run | instance | shows |
|---|---|---|
| `PushClaims` | 2 entries, 1 writer, 2 pushers, cap 2, batch 2, 2 rows, 1 fault; 1.0 M states | with claims taken over from slow pushers, dry runs, crashes and lost bookkeeping: `ConfirmedIsCovered`, `ClaimsAreAccountedFor`, `AttemptsAreBounded`, `ClaimsAreExclusive`, `KeepsThePromise` |
| `PushRepair` | 1 entry, 1 pusher of an older build, all payload kinds, deletions, repair, gc, cap 1, 2 rows, 1 fault; 1.8 M states | maintenance beside a push: `TypeOK`, `ClaimsAreAccountedFor`, `ClaimsAreBelowTheCap`, `VersionSkewIsNotPenalised`, `KeepsThePromise` |
| `PushLiveness` | 1 entry, 2 auto loops, good and oversized rows, 1 fault; 0.16 M states | `EveryRowIsSettled` under `FairSpec` |
| `PushTombstone` | 1 entry, 2 writers, 1 pusher, 3 rows | a violation: see findings |
| `PushLostDelete` | 1 entry, repair and gc, 1 fault | a violation |
| `PushHeadOfLine` | 2 entries, a row of a newer build before a good one, batch 1, `FairSpec` | a violation |
| `ReplicationCursor` | 1 machine, 2 entries, a syncer that pushes beside one that pulls and bootstraps, page 1, 3 ticks, 2 edits, 1 failing row; 2.1 M states | `TypeOK`, `EveryUpdateIsPulled`, `RemoteAheadIsComing` |
| `ReplicationMerge` | 2 machines that edit, search and push 1 entry, one of which pulls; 3 ticks, 2 edits; 1.4 M states | `LocalAheadIsQueued`, `RemoteAheadIsComing`, `SettledStoresAgree`, `RowsOnlyAdvance` |
| `Observations` | 2 jobs, both backends, 2 rows of equal content, batch 1, threshold 2, 1 crash; 1.1 M states | `TypeOK`, `ConfirmedIsSummarized`, `ClaimedTwiceIsRecovered`, `BreakerCountsTheStreak`, `EveryObservationIsConfirmed` |
| `GraphRefresh` | 2 workers of any kind, 2 files, 1 edit, 1 crash, 1 stale lock; 7.7 M states | `TypeOK`, `PassesAreExclusive`, `FreshMeansIndexed`, `UndisturbedPassHeals` |
| `EntryStore` | 2 savers, 1 dedup, 3 contents of which one scrubs to another, 1 topic, 1 legacy row, 2 rows and those of saves under way; 3.0 M states | `TypeOK`, `OneLiveRow`, `KeptIsLive` |
| `Crawl` | 2 files, 3 texts (with a marker, without, too big to be listed), 2 events; 3.4 M states | `TypeOK`, `EntriesAreCurrent`, `DebtIsCurrent`, `NoOrphans` |

**Why the bounds are enough.** Two rows are the least for which coalescing,
subsumption and ordering matter, with one entry (both in a group) and with two (two
groups). Two pushers are the least for which claims are taken over; the second
can complete a whole push while the first is between two statements. A cap of 1
reaches dead-lettering with one failure; with a cap of 2 a row survives a failure,
is claimed again and can be struck by both. One fault suffices for each property's
hard case: the histories keep what a fault left behind for the rest of the run.
`MaxRows` and `MaxFaults` bound counters; `Deletable` restricts deletions to the
runs that ask about them.

In `ReplicationCursor` everything is on one machine, so that a push can roll back
the cursor of a pull; the updates the machine has to be offered are then its own, as
the remote restamped them, which the cursor cannot tell from others'. Two entries are
the least for which one row's time moves the cursor past another row. A page holds
one of them, so that a listing takes several and may cut a group of equal times. Three
ticks are two more than the skew: a row is written, listed and updated again.
`ReplicationMerge` has both machines push, so that they meet on the remote, and one
pull; two edits make a conflict. In `Observations`
two jobs and two rows let one job take over, and confirm, what the other holds; a
threshold of 2 tells a count from a flag. In `GraphRefresh` one edit falls between any
two steps of two passes; in `EntryStore` two rows and one more per saver make every
duplicate there is. In `Crawl` two events are an edit during a crawl and one after
it, or an edit and a failure. By hand, `Crawl` was also run with three events
(17 M states), and `GraphRefresh` with two edits, after which the tree may be what it
was: of two files without faults (14.5 M states), of one with them (9.3 M). All pass.

Deadlock is checked except where a bound of the model stops it: in the runs of
`Replication` (ticks and edits run out with nothing to pull) and in `EntryStore` (rows
run out, and all are gone). Every other run goes on for ever.

**Fairness.** `FairSpec` assumes weak fairness of each auto loop's next step: the
loop (`auto.rs`, `run_loop`) pushes, sleeps and pushes again for as long as its MCP
server lives, after errors too, and each step of a push ends, with a time-out if
not otherwise. It also assumes that time passes (`ClaimsExpire`). Nothing is assumed
of writers, of commands people type, or of the remote: a push may fail forever,
which the cap turns into a parked row.

`ObservationQueue!Fairness` assumes that sessions go on ending (weak fairness of what
a job does next: every session end runs `summarize`, and each of its steps is a
statement or a file operation that ends), that time passes (`Minute`), and that the
summarizer does not fail for ever (strong fairness of `Succeeds`; the heuristic one,
which runs without an API key, never fails). Nothing is assumed of hooks. Without strong
fairness a failing summarizer leaves its observations pending, as it should.

## 5. Findings

Three statements of the source that the model refutes, each with its run:

1. `PushTombstone`. A retag reads a live snapshot, a deprecate of the entry commits
   and enqueues its delete row, and then the retag enqueues. The newer, live row
   subsumes the delete, both are confirmed, and the remote keeps the entry alive.
2. `PushLostDelete`. An entry whose delete could not be enqueued is said to stay
   visible to `sync repair`; once `sync gc` has collected the entry's earlier,
   confirmed rows it is not, and the remote keeps it.
3. `PushHeadOfLine`. The cap is said to keep a bad payload from being retried
   forever ahead of others. Rows this build cannot parse never reach the cap; a
   batch of them at the head of the queue is claimed again on every push and what is
   behind it is not reached by this build.

Other comments the models do not bear out, for which no run was set apart; the
hazards have the details:

- `storage/sqlite.rs:1500`: the mutex around the connection serializes writers. It does
  within one process; `summarize` is a process per session, and two of them can claim
  the same observations (`ObservationQueue`, where the property is asked of Postgres).
- `sync/pull.rs:120`: the cursor advances only after the entire batch applied. It
  advances past rows that failed.
- `sync/bootstrap.rs:138`: the last batch's time would miss rows that landed during the
  bootstrap. The time of the end less two seconds misses them too, unless they landed
  in those two seconds.
- `codegraph/refresh.rs:158` and `codegraph/index.rs:53`: the signals are observed before
  the scan. Not by a crawl, which scans first and has `index_project` observe.
- `codegraph/freshness.rs:24`: never a false all-clear. A pass that dies and a tree that
  goes back to the recorded one, or a full pass that dies, leave a graph that is judged
  fresh and is not.
- `main.rs:1781`: everything has landed when the observations are confirmed. Errors of
  the proposals and of the end of the session are ignored.

## 6. Proofs

All proofs are checked by TLAPS with Z3, Zenon and LS4, for any values of the constants
under the assumptions the modules name: `MaxAttemptsAssumption` (the cap is a
positive number), `SyncPushAssumption`, `ReplicationAssumption`, `QueueAssumption`,
`RefreshAssumption`, `CrawlAssumption` and `StoreAssumption` (sets of constants are subsets of
each other, or disjoint, where their comments say so; limits, thresholds, tries and the skew are
positive; bounds are numbers; there are finitely many pushers and savers, which only
`StrikesAreBounded` and `EntryStoreProofs!TypeCorrectness` need, for they count them).

| theorem | argument |
|---|---|
| `SyncPushProofs!TypeCorrectness` | `TypeOK` is inductive; it says, besides types, that ids are handed out once and that what a pusher holds is part of the batch it claimed |
| `PromiseProofs!ConfirmedRowsAreCovered` | `ConfirmedIsCovered` alone is not inductive: when `confirm_outbox` runs, nothing in the table says that the rows landed, for others may have claimed, failed, confirmed or purged them since. `CoverageInv` carries the fact in the pusher's memory: its batch mirrors the table's entries, a representative is the newest of its group, and what is set aside to confirm is covered |
| `PromiseProofs!PushImplementsDelivery` | every step of `SyncPush` is one step of `DeliveryQueue` or leaves it alone. Needs `CoverageInv` for confirmations and `RepairInv` for purges: the rows repair listed still are what they were when it listed them, because only repair changes payloads |
| `ClaimsProofs!EveryClaimIsAccountedFor` | each statement is shown to settle the claims it names and no others (`Settles`). The strengthening `ClaimsInv` says that rows wait for release only in the release phase, since a second failure would overwrite them; coalescing is shown to lose no row, from the existence of a newest row in every group |
| `ClaimsProofs!NoClaimAtTheCap` | no statement strikes a row that keeps its claim, and a claim looks at the cap in the same transaction |
| `ClaimsProofs!ClaimsStayExclusive` | `ExclusionInv` adds that a row a pusher holds is not free to be claimed unless the claim was taken from it, and that the parts of a batch stay apart: what a pusher gives up it no longer holds, and what it frees it held |
| `ClaimsProofs!StrikesAreBounded` | `StrikesInv`: the attempts of a row and the number of pushers that hold it add up to less than the cap and the number of all pushers. A failure takes one from the holders and adds one to the attempts; a claim adds a holder only below the cap |
| `PromiseProofs!SkewedRowsKeepTheirAttempts` | `SkewInv`: a pusher remembers the payload the table has, or the stub that repair has replaced since, and is about to apply only what it parsed. So what a late failure strikes is a row this build can parse, though not always the row as it was claimed |
| `ReplicationProofs!OutranksIsAnOrder`, `ResolveFollowsTheOrder` | by cases over the flags, the times compared last |
| `ReplicationProofs!TypeCorrectness` | inductive with `Typed`, which adds that no time is later than now: without it the remote's stamp could be earlier than what it replaces |
| `ReplicationProofs!StoresOnlyAdvance` | from `Typed` and the two theorems on the order: what a store makes of a row is never outranked by what it had, if it decides on what it has; edits and searches stamp now |
| `ReplicationProofs!WhatIsAheadIsQueued` | `AheadInv`: either the remote has got as far as the machine, or the machine has queued as far as it got; and nothing a pull has fetched is ahead of the remote. "Not ahead", which takes all tombstones for alike, is transitive, so a queue that is retired hands the fact on to the remote |
| `ReplicationProofs!UpdatesAreNotPassed` | `CursorInv`: every cursor, and every value a command is going to write there, is earlier than now and than what its machine was not offered (`Minds`); what a pull was not offered is on its page or of after it (`OnPage`), and a bootstrap has all that it did not give up at its start in reach: about to be listed, on its page, or of after a full page (`InReach`). A page is a prefix by time, so what it leaves is of after it, or of its last time and cut off. The assumption that the skew is not 0 (`CLOCK_SKEW_SECS` is 2) is needed: else a row could be updated again in the instant it was listed |
| `ReplicationProofs!WhatIsBehindIsComing` | the dual of `WhatIsAheadIsQueued`. `ComingInv`: where the remote is ahead of a machine the pair is in `unseen` or `missed`. It needs that a row on a page which has the time of the remote's row is that row (`Dated`: what is listed is older than now, and every update is stamped now), so that a store which applies it has caught up; and, for the machine an insert comes from, that while the remote has no row neither the queue nor what a push claimed is ahead of the store (`Led`). With `CursorInv` for what is unseen |
| `ReplicationProofs!SettledStoresAreAlike`, `CaughtUpMachinesAreAlike` | the two directions together: neither side is ahead, and the order tells apart all that differs in what it looks at. The second puts the cursor, which a user can see, for the history `unseen`, by `CursorInv` |
| `ObservationProofs!TypeCorrectness` | inductive with `TriesLeft`: a job that calls the summarizer has a try left |
| `ObservationProofs!ConfirmedAreSummarized` | `SummaryInv`: a job that is about to confirm has handed over what it holds |
| `ObservationProofs!ClaimsAreTakenOnce` | `ClaimsInv`: on Postgres a row that a job holds is pending only if it was handed back, so a claim takes none that another job holds |
| `ObservationProofs!BreakerIsAccurate` | inductive: a job that writes what it made of an outdated read is what `collided` records |
| `GraphRefreshProofs!TypeCorrectness` | inductive with `WorkerOK` |
| `GraphRefreshProofs!PassesExcludeEachOther` | `LockInv`: without excuses the lock is never stale, one worker holds it, and a worker whose list of things to do has the lock behind it holds it |
| `GraphRefreshProofs!FreshGraphsAreIndexed`, `UndisturbedPassesHeal` | for any files, versions, changes and workers; where the tree came back to what it once was both fail, for the signals cannot tell it, and are excused. `FreshInv`, for each worker: what it observed and scanned are trees there have been, in order (`Sound`); an undisturbed pass over the tree as it is indexes alone, has done right what it has done and has the rest on its list (`WorksOf`); while the graph is judged fresh, a pass finds nothing to do (`Harmless`), because whoever is about to begin has looked since (`Current`) or is marked as disturbed |
| `CrawlProofs!TypeCorrectness` | inductive with `PhaseOK`, what each phase has behind it |
| `CrawlProofs!WhatIsPassedOverIsCurrent`, `DebtFollowsTheText`, `WhatIsGoneCanBeFound` | `CrawlInv`, a conjunction file by file: the hash a crawl started from accounts for what the store has of the file (`Accounts`), and the hash in the store is that one or none; what the crawl read, found and wrote of a file that nobody disturbed is of the text on disk (`Works`). When it ends, the hash it records accounts for the file again. A step on one file spares the others, so each is argued for that file alone |
| `EntryStoreProofs!TypeCorrectness` | `Typed`, and `Room`: the rows and the saves under way, which may still insert one each, are no more than the bound and the savers |
| `EntryStoreProofs!NoUnexplainedTwins` | `OneInv`: two saves busy with one content are in `raced`, and a save that has found no duplicate (`Ahead`) may rely on it, unless another save did the same meanwhile |
| `EntryStoreProofs!KeptStaysReadable` | `KeepInv`: a dedup that is alone has, for every content, a live row it does not mean to retire. When it lists its losers there is one because some member of a cluster is not worse than any other (by well-foundedness, over access count, verification and age); a row a save answered for while a dedup was after it is not counted on. A save supersedes only rows of its own topic, and is late until the new row is there |

The lemmas about single statements, on which the proofs about `SyncPush` rest, open
`SyncPushProofs`.

**Only model-checked**: liveness
(`EveryRowIsSettled`, `EveryObservationIsConfirmed`), which is outside what the prover
can do, as are ENABLED and whatever a recursive definition computes for every input.
No module here has a RECURSIVE operator.

## 7. Not modelled

Components without a module, with the reason:

- extraction and name resolution of the code graph, redaction, embedding, search,
  summarizing: sequential text processing, nothing shared;
- setup, doctor, update and configuration: run once by a person;
- the MCP server and the CLI: dispatch and presentation;
- plans: reads and retags of entries by the one session that works on a plan.

Of the modelled components: wording and logging, `last_error`, the byte layout of
payloads, and clocks beyond the order of the cutoffs are abstracted. `sync init`,
`status` and `heartbeat`, `--dry-run` of pull and the cap of 100 pages are left out; so are
decay and graduation of entries, edges, sessions, `purge_noise`; the breaker of database
connections, the same code over another file; two crawls at once, and the entries of a crawl that span files.
