---------------------------- MODULE Replication ----------------------------
(***************************************************************************)
(* Several machines, each with its own store, replicate memory entries     *)
(* through one remote: `runar sync push` offers local rows to the remote,  *)
(* `runar sync pull` and `runar sync bootstrap` offer remote rows to the   *)
(* local store, and each side decides by Conflict whether to take them.    *)
(* A machine runs several of these commands at once: one auto loop for     *)
(* every MCP server, and whatever is typed.                                *)
(*                                                                         *)
(* The outbox is taken for what it promises (DeliveryQueue): the newest    *)
(* snapshot of an entry stays queued until the remote was offered it.      *)
(* Every action is one statement on one store.                             *)
(***************************************************************************)
EXTENDS Conflict, FiniteSets, Functions

CONSTANTS
    Entries,
    Machines,
    Syncers,     \* processes that push and pull
    Home,        \* [Syncers -> Machines]
    Tasks,       \* [Syncers -> the commands it gives, of "push", "pull" and "boot"]
    Editors,     \* machines whose users write
    Touches,     \* whether searches touch entries
    Skew,        \* CLOCK_SKEW_SECS, in ticks of the model's clock
    Limit,       \* page size of a pull
    MaxTime,     \* bound: ticks of the clock
    MaxEdits,    \* bound: edits ever made
    MaxFaults    \* bound: rows that one side fails to take

ASSUME ReplicationAssumption ==
    /\ Home \in [Syncers -> Machines]
    /\ Touches \in BOOLEAN
    /\ Tasks \in [Syncers -> SUBSET {"push", "pull", "boot"}]
    /\ Editors \subseteq Machines
    /\ Skew \in Nat \ {0}
    /\ Limit \in Nat \ {0}
    /\ MaxTime \in Nat \ {0}
    /\ MaxEdits \in Nat
    /\ MaxFaults \in Nat

VARIABLES
    now,       \* the clock, the same on every machine
    local,     \* [Machines -> [Entries -> row of the machine's store]]
    queue,     \* [Machines -> [Entries -> newest snapshot not yet pushed]]
    cursor,    \* [Machines -> sync_state.last_pulled_updated_at], 0 for NULL
    remote,    \* [Entries -> row of the remote]
    syncer,    \* [Syncers -> the command under way]
    edits,     \* edits so far; the number of an edit is its version
    faults,    \* failures so far
    unseen,    \* history: machine and entry whose remote row was updated, and not
               \* offered to the machine since
    missed,    \* history: machine and entry whose remote row may be behind the cursor:
               \* it was inserted, given up by a bootstrap or a page, failed to apply,
               \* or was applied by a stale read
    raced,     \* history: entries the remote decided on by a stale read
    touched    \* history: machine and entry that a search touched there

history == <<unseen, missed, raced, touched>>
vars == <<now, local, queue, cursor, remote, syncer, edits, faults, history>>

Time == 0..MaxTime

-----------------------------------------------------------------------------
(* State of a command. *)

\* task    the command under way
\* step    where it stands: "list" a page, "read" the other side's row, "apply" it
\* saved   for a push, the sync_state it read at its start
\* from    for a pull, the cursor it has reached
\* filter  for a bootstrap, the entries of the project it is confined to
\* todo    rows still to be offered, as they were when listed or claimed
\* last    for a pull, updated_at of the last row of the page
\* full    for a pull, whether the page was as long as the limit
\* entry   the entry being applied, as a set of at most one
\* seen    what `get` returned for it
Idle == [task |-> "idle", step |-> "none", saved |-> 0, from |-> 0, filter |-> Entries,
         todo |-> <<>>, last |-> 0, full |-> FALSE, entry |-> {}, seen |-> NoRow]

\* Get the row through `get`, which does not see tombstones.
Visible(row) == IF row.deleted THEN NoRow ELSE row

Stored(row) == row # NoRow

Init ==
    /\ now = 1
    /\ local = [m \in Machines |-> [e \in Entries |-> NoRow]]
    /\ queue = [m \in Machines |-> [e \in Entries |-> NoRow]]
    /\ cursor = [m \in Machines |-> 0]
    /\ remote = [e \in Entries |-> NoRow]
    /\ syncer = [s \in Syncers |-> Idle]
    /\ edits = 0
    /\ faults = 0
    /\ unseen = {}
    /\ missed = {}
    /\ raced = {}
    /\ touched = {}

Fault ==
    /\ faults < MaxFaults
    /\ faults' = faults + 1

-----------------------------------------------------------------------------
(* Edits on a machine.  Each changes the row and queues a snapshot of it. *)

Write(m, e, row) ==
    /\ local' = [local EXCEPT ![m][e] = row]
    /\ queue' = [queue EXCEPT ![m][e] = row]
    /\ UNCHANGED <<now, cursor, remote, syncer, faults, history>>

Edit(m, e, row) ==
    /\ edits < MaxEdits
    /\ edits' = edits + 1
    /\ Write(m, e, [row EXCEPT !.ver = edits', !.at = now])

\* propose: a fresh id.
Create(m, e) ==
    /\ \A other \in Machines : local[other][e] = NoRow
    /\ Edit(m, e, NoRow)

\* retag: update and mark_verified do not find deleted rows.
Retag(m, e) ==
    /\ Stored(Visible(local[m][e]))
    /\ Edit(m, e, local[m][e])

MarkVerified(m, e) ==
    /\ Stored(Visible(local[m][e]))
    /\ Edit(m, e, [local[m][e] EXCEPT !.verified = TRUE])

\* deprecate: `delete` leaves updated_at alone.
Deprecate(m, e) ==
    /\ Stored(local[m][e])
    /\ Write(m, e, [local[m][e] EXCEPT !.deleted = TRUE])
    /\ UNCHANGED edits

\* touch_entries, on every hit of a search: updated_at moves, nothing is queued.
Touch(m, e) ==
    /\ Touches
    /\ Stored(Visible(local[m][e]))
    /\ local' = [local EXCEPT ![m][e].at = now]
    /\ touched' = touched \cup {<<m, e>>}
    /\ UNCHANGED <<now, queue, cursor, remote, syncer, edits, faults, unseen, missed, raced>>

-----------------------------------------------------------------------------
(* apply_remote_entry: `get`, resolve, then import or replace.              *)

\* Slip: import_entry as an upsert.
ImportedOver(row, incoming) == incoming

\* import_entry ignores a row that is there, be it a tombstone.
Imported(row, incoming) == IF Stored(row) THEN row ELSE incoming

\* What a store holds after the decision taken on seen.
Applied(row, seen, incoming) ==
    LET act == Resolve(seen, incoming).act
    IN  CASE act = "insert" -> Imported(row, incoming)
          [] act = "update" -> incoming
          [] act = "skip" -> row

\* The remote's trigger stamps every UPDATE with the time it happens.
Restamps(seen, incoming) == Resolve(seen, incoming).act = "update"

\* Slip: the stamp is of a clock that runs ahead.
OnRemoteAhead(row, seen, incoming) ==
    IF Restamps(seen, incoming) THEN [incoming EXCEPT !.at = now + 1]
    ELSE Applied(row, seen, incoming)

\* Slip: an update keeps its writer's time.
OnRemoteAsOffered(row, seen, incoming) == Applied(row, seen, incoming)

OnRemote(row, seen, incoming) ==
    IF Restamps(seen, incoming) THEN [incoming EXCEPT !.at = now]
    ELSE Applied(row, seen, incoming)

\* Machines in the middle of a bootstrap, which sets the cursor past what is
\* updated meanwhile.
Bootstrapping == {Home[s] : s \in {t \in Syncers : syncer[t].task = "boot"}}

Offer(s, e) ==
    LET seen == syncer[s].seen
        row == syncer[s].todo[e]
        update == Restamps(seen, row)
        behind == IF update THEN Bootstrapping ELSE Machines \ {Home[s]}
    IN  /\ remote' = [remote EXCEPT ![e] = OnRemote(@, seen, row)]
        /\ unseen' = IF update
                     THEN (unseen \ (Bootstrapping \X {e}))
                             \cup ((Machines \ Bootstrapping) \X {e})
                     ELSE unseen
        /\ missed' = IF update \/ remote'[e] # remote[e]
                     THEN (missed \ (Machines \X {e})) \cup (behind \X {e})
                     ELSE missed
        /\ raced' = IF seen = Visible(remote[e]) THEN raced ELSE raced \cup {e}

-----------------------------------------------------------------------------
(* cmd_push *)

NextRow(s, e) ==
    [syncer[s] EXCEPT !.step = "read", !.entry = {}, !.seen = NoRow,
                      !.todo = Restrict(@, DOMAIN @ \ {e})]

StartPush(s) ==
    LET m == Home[s]
        rows == {e \in Entries : Stored(queue[m][e])}
    IN  /\ syncer[s] = Idle
        /\ "push" \in Tasks[s]
        /\ rows # {}
        /\ syncer' = [syncer EXCEPT ![s] =
                        [Idle EXCEPT !.task = "push", !.step = "read", !.saved = cursor[m],
                                     !.todo = Restrict(queue[m], rows)]]
        /\ UNCHANGED <<now, local, queue, cursor, remote, edits, faults, history>>

ReadRemote(s) ==
    /\ syncer[s].task = "push"
    /\ syncer[s].step = "read"
    /\ \E e \in DOMAIN syncer[s].todo :
        syncer' = [syncer EXCEPT ![s].step = "apply", ![s].entry = {e},
                                 ![s].seen = Visible(remote[e])]
    /\ UNCHANGED <<now, local, queue, cursor, remote, edits, faults, history>>

\* Slip: whatever is queued of the entry is retired.
RetiredByEntry(m, e, row) == [queue EXCEPT ![m][e] = NoRow]

\* The row that was pushed is retired; one enqueued since is not.
Retired(m, e, row) == [queue EXCEPT ![m][e] = IF @ = row THEN NoRow ELSE @]

PushRow(s) ==
    /\ syncer[s].task = "push"
    /\ syncer[s].step = "apply"
    /\ \E e \in syncer[s].entry :
        /\ Offer(s, e)
        /\ queue' = Retired(Home[s], e, syncer[s].todo[e])
        /\ syncer' = [syncer EXCEPT ![s] = NextRow(s, e)]
    /\ UNCHANGED <<now, local, cursor, edits, faults, touched>>

\* The remote refuses the row, or takes it and the answer, or the confirmation,
\* is lost: it stays queued.
PushFails(s) ==
    /\ syncer[s].task = "push"
    /\ syncer[s].step = "apply"
    /\ Fault
    /\ \E e \in syncer[s].entry :
        /\ UNCHANGED <<remote, unseen, missed, raced>> \/ Offer(s, e)
        /\ syncer' = [syncer EXCEPT ![s] = NextRow(s, e)]
    /\ UNCHANGED <<now, local, queue, cursor, edits, touched>>

\* sync_state is written back as it was read, but for last_push_at.
EndPush(s) ==
    /\ syncer[s].task = "push"
    /\ syncer[s].step = "read"
    /\ syncer[s].todo = <<>>
    /\ cursor' = [cursor EXCEPT ![Home[s]] = syncer[s].saved]
    /\ syncer' = [syncer EXCEPT ![s] = Idle]
    /\ UNCHANGED <<now, local, queue, remote, edits, faults, history>>

-----------------------------------------------------------------------------
(* cmd_pull and cmd_bootstrap *)

\* A pull needs a cursor; --since sets it back.
StartPull(s, since) ==
    /\ syncer[s] = Idle
    /\ "pull" \in Tasks[s]
    /\ since \in 1..cursor[Home[s]]
    /\ syncer' = [syncer EXCEPT ![s] =
                    [Idle EXCEPT !.task = "pull", !.step = "list", !.from = since]]
    /\ UNCHANGED <<now, local, queue, cursor, remote, edits, faults, history>>

\* What is no longer going to be listed.
GivesUp(pairs) ==
    /\ unseen' = unseen \ pairs
    /\ missed' = missed \cup (unseen \cap pairs)

\* A bootstrap starts from nothing and may be confined to one project.  What
\* changed within the skew of its start is behind the cursor it will set.
StartBootstrap(s, filter) ==
    LET m == Home[s]
    IN  /\ syncer[s] = Idle
        /\ "boot" \in Tasks[s]
        /\ syncer' = [syncer EXCEPT ![s] =
                        [Idle EXCEPT !.task = "boot", !.step = "list", !.filter = filter]]
        /\ GivesUp({<<m, e>> : e \in {f \in Entries : remote[f].at + Skew > now}})
        /\ UNCHANGED <<now, local, queue, cursor, remote, edits, faults, raced, touched>>

\* Slip: no upper bound on a listing.
ListedUpToNow(s) ==
    {e \in syncer[s].filter : Stored(remote[e]) /\ remote[e].at > syncer[s].from}

\* list_changed_since: strictly after the cursor, and not within the skew of now.
Listed(s) ==
    {e \in syncer[s].filter :
        Stored(remote[e]) /\ remote[e].at > syncer[s].from /\ remote[e].at + Skew <= now}

\* Slip: a page of rows in no order.
IsAnyPage(page, rows) ==
    /\ page \subseteq rows
    /\ Cardinality(page) <= Limit
    /\ page # rows => Cardinality(page) = Limit

\* The first rows by updated_at (the order of equal ones is by id).
IsPage(page, rows) ==
    /\ page \subseteq rows
    /\ Cardinality(page) <= Limit
    /\ page # rows => Cardinality(page) = Limit
    /\ \A e \in page, f \in rows \ page : remote[e].at <= remote[f].at

\* Rows of the last time on the page that are left to the next one, which starts
\* strictly after it.
CutOff(page, rows) ==
    {f \in rows \ page : \E e \in page : remote[e].at = remote[f].at}

ListPage(s) ==
    /\ syncer[s].task \in {"pull", "boot"}
    /\ syncer[s].step = "list"
    /\ \E page \in SUBSET Listed(s) :
        /\ IsPage(page, Listed(s))
        /\ \/ /\ page = {}
              /\ syncer' = [syncer EXCEPT ![s].step = "end"]
              /\ UNCHANGED <<unseen, missed>>
           \/ \E e \in page :
              /\ \A f \in page : remote[f].at <= remote[e].at
              /\ syncer' = [syncer EXCEPT ![s] =
                   [@ EXCEPT !.step = "read", !.todo = Restrict(remote, page),
                             !.last = remote[e].at, !.full = Cardinality(page) = Limit]]
              /\ GivesUp({<<Home[s], f>> : f \in CutOff(page, Listed(s))})
    /\ UNCHANGED <<now, local, queue, cursor, remote, edits, faults, raced, touched>>

\* The row of a page that is next: pages are applied in their order.
IsNext(todo, e) == \A f \in DOMAIN todo : todo[e].at <= todo[f].at

ReadLocal(s) ==
    /\ syncer[s].task \in {"pull", "boot"}
    /\ syncer[s].step = "read"
    /\ \E e \in DOMAIN syncer[s].todo :
        /\ IsNext(syncer[s].todo, e)
        /\ syncer' = [syncer EXCEPT ![s].step = "apply", ![s].entry = {e},
                                    ![s].seen = Visible(local[Home[s]][e])]
    /\ UNCHANGED <<now, local, queue, cursor, remote, edits, faults, history>>

\* After the last row of a page the cursor of the command moves to it, and a
\* full page is followed by another.
Advance(s, e) ==
    IF DOMAIN syncer[s].todo # {e} THEN NextRow(s, e)
    ELSE [NextRow(s, e) EXCEPT !.from = syncer[s].last, !.last = 0, !.full = FALSE,
                               !.step = IF syncer[s].full THEN "list" ELSE "end"]

\* The row is what the remote has of the entry now.
IsCurrent(e, row) == row.at = remote[e].at

ApplyLocal(s) ==
    /\ syncer[s].task \in {"pull", "boot"}
    /\ syncer[s].step = "apply"
    /\ \E e \in syncer[s].entry :
        LET m == Home[s]
            row == syncer[s].todo[e]
        IN  /\ local' = [local EXCEPT ![m][e] = Applied(@, syncer[s].seen, row)]
            /\ unseen' = IF IsCurrent(e, row) THEN unseen \ {<<m, e>>} ELSE unseen
            /\ missed' = IF syncer[s].seen # Visible(local[m][e]) THEN missed \cup {<<m, e>>}
                         ELSE IF IsCurrent(e, row) THEN missed \ {<<m, e>>} ELSE missed
            /\ syncer' = [syncer EXCEPT ![s] = Advance(s, e)]
    /\ UNCHANGED <<now, queue, cursor, remote, edits, faults, raced, touched>>

\* An error is logged and the page goes on.
ApplyFails(s) ==
    /\ syncer[s].task \in {"pull", "boot"}
    /\ syncer[s].step = "apply"
    /\ Fault
    /\ \E e \in syncer[s].entry :
        /\ GivesUp(IF IsCurrent(e, syncer[s].todo[e]) THEN {<<Home[s], e>>} ELSE {})
        /\ syncer' = [syncer EXCEPT ![s] = Advance(s, e)]
    /\ UNCHANGED <<now, local, queue, cursor, remote, edits, raced, touched>>

EndPull(s) ==
    /\ syncer[s].task = "pull"
    /\ syncer[s].step = "end"
    /\ cursor' = [cursor EXCEPT ![Home[s]] = syncer[s].from]
    /\ syncer' = [syncer EXCEPT ![s] = Idle]
    /\ UNCHANGED <<now, local, queue, remote, edits, faults, history>>

\* The cursor is the time less the skew, whatever was listed; of other projects
\* nothing was.
EndBootstrap(s) ==
    LET m == Home[s]
    IN  /\ syncer[s].task = "boot"
        /\ syncer[s].step = "end"
        /\ now > Skew
        /\ cursor' = [cursor EXCEPT ![m] = now - Skew]
        /\ syncer' = [syncer EXCEPT ![s] = Idle]
        /\ GivesUp({m} \X (Entries \ syncer[s].filter))
        /\ UNCHANGED <<now, local, queue, remote, edits, faults, raced, touched>>

-----------------------------------------------------------------------------
\* A command is killed, or fails on a listing or on writing sync_state.
Abort(s) ==
    /\ syncer[s] # Idle
    /\ syncer' = [syncer EXCEPT ![s] = Idle]
    /\ UNCHANGED <<now, local, queue, cursor, remote, edits, faults, history>>

Tick ==
    /\ now < MaxTime
    /\ now' = now + 1
    /\ UNCHANGED <<local, queue, cursor, remote, syncer, edits, faults, history>>

EditStep ==
    \E m \in Editors, e \in Entries :
        Create(m, e) \/ Retag(m, e) \/ MarkVerified(m, e) \/ Deprecate(m, e) \/ Touch(m, e)

PushStep(s) == StartPush(s) \/ ReadRemote(s) \/ PushRow(s) \/ PushFails(s) \/ EndPush(s)

PullStep(s) ==
    \/ \E since \in Time : StartPull(s, since)
    \/ \E filter \in {Entries} \cup {{e} : e \in Entries} : StartBootstrap(s, filter)
    \/ ListPage(s)
    \/ ReadLocal(s)
    \/ ApplyLocal(s)
    \/ ApplyFails(s)
    \/ EndPull(s)
    \/ EndBootstrap(s)

Next ==
    \/ Tick
    \/ EditStep
    \/ \E s \in Syncers : PushStep(s) \/ PullStep(s) \/ Abort(s)

Spec == Init /\ [][Next]_vars

-----------------------------------------------------------------------------
(* Properties. *)

Row == Version(Time, 0..MaxEdits)

TypeOK ==
    /\ now \in 1..MaxTime
    /\ local \in [Machines -> [Entries -> Row]]
    /\ queue \in [Machines -> [Entries -> Row]]
    /\ cursor \in [Machines -> Time]
    /\ remote \in [Entries -> Row]
    /\ edits \in 0..MaxEdits
    /\ faults \in 0..MaxFaults
    /\ DOMAIN syncer = Syncers
    /\ \A s \in Syncers :
        /\ syncer[s].task \in {"idle", "push", "pull", "boot"}
        /\ syncer[s].step \in {"none", "list", "read", "apply", "end"}
        /\ syncer[s].saved \in Time /\ syncer[s].from \in Time /\ syncer[s].last \in Time
        /\ syncer[s].filter \subseteq Entries
        /\ syncer[s].full \in BOOLEAN
        /\ DOMAIN syncer[s].todo \subseteq Entries
        /\ \A e \in DOMAIN syncer[s].todo : syncer[s].todo[e] \in Row
        /\ syncer[s].entry \subseteq DOMAIN syncer[s].todo
        /\ syncer[s].seen \in Row

\* A cursor never passes a remote update the machine was not offered: whatever
\* the remote last updated at or before the cursor was applied, failed to apply,
\* or was given up by a bootstrap or by a page that ends within its time.
EveryUpdateIsPulled ==
    \A m \in Machines, e \in Entries : <<m, e>> \in unseen => remote[e].at > cursor[m]

\* A step that applies an entry to a store by a read the store has moved on from.
Stale(s, stored) == \E e \in syncer[s].entry : syncer[s].seen # Visible(stored[e])

\* No store gives up a row for one it outranks: a tombstone is not undone, a
\* verification not lost, a later edit not replaced by an earlier one, unless
\* another command or an edit came between the read and the write.
RowsOnlyAdvance ==
    [][/\ \A m \in Machines, e \in Entries :
            Outranks(local[m][e], local'[m][e])
                => \E s \in Syncers : Home[s] = m /\ Stale(s, local[m])
       /\ \A e \in Entries :
            Outranks(remote[e], remote'[e]) => \E s \in Syncers : Stale(s, remote)]_vars

\* What a machine knows better than the remote is on its way: a local row that
\* outranks the remote one is queued, unless the two sides raced for the entry or
\* a search moved its updated_at.
LocalAheadIsQueued ==
    \A m \in Machines, e \in Entries \ raced :
        /\ <<m, e>> \notin touched
        /\ Outranks(local[m][e], remote[e])
        /\ ~(local[m][e].deleted /\ remote[e].deleted)
        => Stored(queue[m][e])

\* And what the remote knows better than a machine is on its way there: a remote row
\* that outranks the local one is ahead of the machine's cursor, unless it was missed.
RemoteAheadIsComing ==
    \A m \in Machines, e \in Entries :
        /\ <<m, e>> \notin missed
        /\ Outranks(remote[e], local[m][e])
        /\ ~(local[m][e].deleted /\ remote[e].deleted)
        => remote[e].at > cursor[m]

\* Rows of which the order prefers neither.
Alike(a, b) ==
    \/ a.deleted /\ b.deleted
    \/ a.deleted = b.deleted /\ a.verified = b.verified /\ a.at = b.at

\* Nothing of the entry is under way between the machine and the remote, or was missed.
Settled(m, e) ==
    /\ ~Stored(queue[m][e])
    /\ <<m, e>> \notin unseen \cup missed \cup touched
    /\ e \notin raced

\* Replication converges: a machine that has pushed what it had of an entry, and was
\* offered what the remote has, holds the version that the remote holds.
SettledStoresAgree ==
    \A m \in Machines, e \in Entries : Settled(m, e) => Alike(local[m][e], remote[e])

=============================================================================
