----------------------------- MODULE EntryStore -----------------------------
(***************************************************************************)
(* The memory entries of one namespace in one SQLite file, and the         *)
(* processes that write them: `save`, four statements without a            *)
(* transaction; `runar dedup`, which lists clusters of equal rows and then *)
(* retires all but one of each; the sweeps of `runar gc` and of the        *)
(* session end, which list rows nobody uses and then delete them; searches *)
(* and verifications in between.                                           *)
(*                                                                         *)
(* A row's age is left out: any row may be old enough for a sweep.  So is  *)
(* its confidence.  Every action is one statement.                         *)
(***************************************************************************)
EXTENDS Naturals, Sequences, FiniteSets

CONSTANTS
    Contents,    \* what content_hash tells apart
    Topics,
    None,        \* no topic_key
    Redacted,    \* [Contents -> Contents], what `runar scrub` makes of a content
    Savers,      \* processes that save
    Cleaners,    \* processes that run `runar dedup`
    Legacy,      \* rows of older builds at the start
    Batch,       \* most rows of one sweep
    MaxRows,     \* bound: rows ever
    MaxUses      \* bound: access_count

\* Contents and topics are apart because histories hold both.
ASSUME StoreAssumption ==
    /\ None \notin Topics
    /\ Contents \cap (Topics \cup {None}) = {}
    /\ Redacted \in [Contents -> Contents]
    /\ \A c \in Contents : Redacted[Redacted[c]] = Redacted[c]
    /\ IsFiniteSet(Savers)
    /\ Batch \in Nat
    /\ MaxRows \in Nat
    /\ Legacy \in 0..MaxRows
    /\ MaxUses \in Nat

VARIABLES
    rows,     \* the rows ever inserted, in the order of created_at
    saver,    \* [Savers -> the save under way]
    cleaner,  \* [Cleaners -> what it has listed and not yet retired]
    sweep,    \* rows the sweep under way has listed
    raced,    \* history: contents and topics that legacy rows share, that a scrub made
              \* equal, or that two saves were busy with at once
    kept      \* history: contents and topics a save answered for and nobody took away

history == <<raced, kept>>
vars == <<rows, saver, cleaner, sweep, history>>

Ids == DOMAIN rows

Live(id) == rows[id].state = "live"

Copies(content) == {id \in Ids : Live(id) /\ rows[id].content = content}
OfTopic(topic) == {id \in Ids : Live(id) /\ rows[id].topic = topic}

Fresh(content, topic) ==
    [content |-> content, topic |-> topic, state |-> "live", uses |-> 0, verified |-> FALSE]

Gone == [content |-> None, topic |-> None, state |-> "gone", uses |-> 0, verified |-> FALSE]

\* A saver: todo, the statements before the INSERT that are left; old, the row it is
\* to supersede, as a set of at most one; late, whether it has superseded one.
Idle == [todo |-> <<>>, content |-> None, topic |-> None, old |-> {}, late |-> FALSE]
Saving(s) == saver[s] # Idle

Resting == [losers |-> {}, alone |-> TRUE]

Init ==
    /\ rows \in [1..Legacy -> {Fresh(c, t) : c \in Contents, t \in Topics \cup {None}}]
    /\ saver = [s \in Savers |-> Idle]
    /\ cleaner = [d \in Cleaners |-> Resting]
    /\ sweep = {}
    /\ raced = {c \in Contents : Cardinality(Copies(c)) > 1}
                 \cup {t \in Topics : Cardinality(OfTopic(t)) > 1}
    /\ kept = {rows[id].content : id \in Ids} \cup ({rows[id].topic : id \in Ids} \ {None})

-----------------------------------------------------------------------------
(* save, as propose calls it: the content is scrubbed. *)

\* Slip: the topic is superseded before duplicates are looked for.
TopicFirst == <<"lookup", "guard">>

\* The exact-duplicate guard comes before the topic_key branch.
Order == <<"guard", "lookup">>

\* What s shares with another save under way.
Shared(s, content, topic) ==
    (UNION {{saver[o].content, saver[o].topic} : o \in Savers \ {s}})
      \cap ({content, topic} \ {None})

StartSave(s, content, topic) ==
    /\ ~Saving(s)
    /\ Len(rows) < MaxRows
    /\ Redacted[content] = content
    /\ saver' = [saver EXCEPT ![s] = [Idle EXCEPT !.todo = Order, !.content = content,
                                                  !.topic = topic]]
    /\ raced' = raced \cup Shared(s, content, topic)
    /\ UNCHANGED <<rows, cleaner, sweep, kept>>

Ready(s, what) ==
    /\ saver[s].todo # <<>>
    /\ Head(saver[s].todo) = what
    /\ saver[s].old = {}

\* Slip: a row of another topic is no duplicate.
DuplicatesOfTopic(s) == {id \in Copies(saver[s].content) : rows[id].topic = saver[s].topic}

\* Whatever the topic.
Duplicates(s) == Copies(saver[s].content)

NoDuplicate(s) ==
    /\ Ready(s, "guard")
    /\ Duplicates(s) = {}
    /\ saver' = [saver EXCEPT ![s].todo = Tail(@)]
    /\ UNCHANGED <<rows, cleaner, sweep, history>>

FindDuplicate(s) ==
    /\ Ready(s, "guard")
    /\ \E id \in Duplicates(s) :
         saver' = [saver EXCEPT ![s] = [@ EXCEPT !.todo = <<"bump">>, !.old = {id}]]
    /\ UNCHANGED <<rows, cleaner, sweep, history>>

\* Rows a dedup has listed for retirement.
Doomed == UNION {cleaner[d].losers : d \in Cleaners}

\* updated_at moves, alive or not, and the answer is the id of that row; nothing is
\* promised of one that is dead or doomed.
BumpDuplicate(s) ==
    /\ saver[s].todo = <<"bump">>
    /\ kept' = kept \cup {rows[id].content : id \in {i \in saver[s].old \ Doomed : Live(i)}}
    /\ saver' = [saver EXCEPT ![s] = Idle]
    /\ UNCHANGED <<rows, cleaner, sweep, raced>>

\* The newest live row of the topic.
Newest(topic) == {id \in OfTopic(topic) : \A i \in OfTopic(topic) : i <= id}

Lookup(s) ==
    LET found == IF saver[s].topic = None THEN {} ELSE Newest(saver[s].topic)
    IN  /\ Ready(s, "lookup")
        /\ saver' = [saver EXCEPT ![s].todo = Tail(@), ![s].old = found]
        /\ UNCHANGED <<rows, cleaner, sweep, history>>

\* Slip: rows are removed, and no tombstone stays.
Removed(ids) == [id \in Ids \ ids |-> rows[id]]

\* The rows with some of them deleted, those that are still there.
Deleted(ids) ==
    [id \in Ids |-> IF id \in ids /\ Live(id) THEN [rows[id] EXCEPT !.state = "dead"]
                    ELSE rows[id]]

Taken(ids) == {rows[id].content : id \in ids} \cup {rows[id].topic : id \in ids}

\* The topic is not given up: its new row follows.
Supersede(s) ==
    /\ saver[s].todo # <<"bump">>
    /\ saver[s].old # {}
    /\ rows' = Deleted(saver[s].old)
    /\ kept' = kept \ {rows[id].content : id \in saver[s].old}
    /\ saver' = [saver EXCEPT ![s] = [@ EXCEPT !.old = {}, !.late = TRUE]]
    /\ UNCHANGED <<cleaner, sweep, raced>>

Insert(s) ==
    LET row == Fresh(saver[s].content, saver[s].topic)
    IN  /\ Saving(s)
        /\ saver[s].todo = <<>>
        /\ saver[s].old = {}
        /\ rows' = Append(rows, row)
        /\ kept' = kept \cup ({row.content, row.topic} \ {None})
        /\ saver' = [saver EXCEPT ![s] = Idle]
        /\ UNCHANGED <<cleaner, sweep, raced>>

\* A statement fails, or the process dies: what was superseded stays so.
AbandonSave(s) ==
    /\ Saving(s)
    /\ saver' = [saver EXCEPT ![s] = Idle]
    /\ kept' = IF saver[s].late THEN kept \ {saver[s].topic} ELSE kept
    /\ UNCHANGED <<rows, cleaner, sweep, raced>>

-----------------------------------------------------------------------------
(* run_dedup *)

\* find_duplicate_clusters
Members(content) == IF Cardinality(Copies(content)) > 1 THEN Copies(content) ELSE {}

\* Higher access_count, then verified, then newer.
Better(a, b) ==
    \/ rows[a].uses > rows[b].uses
    \/ rows[a].uses = rows[b].uses /\ rows[a].verified /\ ~rows[b].verified
    \/ rows[a].uses = rows[b].uses /\ rows[a].verified = rows[b].verified /\ a > b

\* All but the most valuable member of each cluster.
Losers == UNION {{a \in Members(c) : \E b \in Members(c) : Better(b, a)} : c \in Contents}

ListClusters(d) ==
    /\ cleaner[d].losers = {}
    /\ Losers # {}
    /\ cleaner' = [e \in Cleaners |->
         IF e = d THEN [losers |-> Losers,
                        alone |-> \A o \in Cleaners \ {d} : cleaner[o].losers = {}]
         ELSE [cleaner[e] EXCEPT !.alone = @ /\ cleaner[e].losers = {}]]
    /\ UNCHANGED <<rows, saver, sweep, history>>

\* deprecate, alive or not.  A dedup that is alone takes away no content.
RetireLoser(d) ==
    /\ \E id \in cleaner[d].losers :
        /\ rows' = Deleted({id})
        /\ kept' = kept \ (IF cleaner[d].alone THEN {rows[id].topic} ELSE Taken({id}))
        /\ cleaner' = [cleaner EXCEPT ![d] = IF @.losers = {id} THEN Resting
                                             ELSE [losers |-> @.losers \ {id}, alone |-> @.alone]]
    /\ UNCHANGED <<saver, sweep, raced>>

AbandonDedup(d) ==
    /\ cleaner[d].losers # {}
    /\ cleaner' = [cleaner EXCEPT ![d] = Resting]
    /\ UNCHANGED <<rows, saver, sweep, history>>

-----------------------------------------------------------------------------
(* soft_delete_stale_crawl and evict_stale *)

Unused == {id \in Ids : Live(id) /\ rows[id].uses = 0 /\ ~rows[id].verified}

\* Up to a limit, the oldest, and of low confidence or from a crawl: any of them.
ListUnused ==
    /\ sweep = {}
    /\ \E victims \in SUBSET Unused :
        /\ Cardinality(victims) \in 1..Batch
        /\ sweep' = victims
    /\ UNCHANGED <<rows, saver, cleaner, history>>

\* By id alone: what happened since the listing does not matter.
Sweep ==
    /\ sweep # {}
    /\ rows' = Deleted(sweep)
    /\ kept' = kept \ Taken(sweep)
    /\ sweep' = {}
    /\ UNCHANGED <<saver, cleaner, raced>>

\* purge_soft_deleted: tombstones go for good.
Purge(id) ==
    /\ rows[id].state = "dead"
    /\ rows' = [rows EXCEPT ![id] = Gone]
    /\ UNCHANGED <<saver, cleaner, sweep, history>>

-----------------------------------------------------------------------------
(* Single statements of other commands. *)

Using(id, row) ==
    /\ Live(id)
    /\ rows' = [rows EXCEPT ![id] = row]
    /\ UNCHANGED <<saver, cleaner, sweep, history>>

\* touch_entries, on a search hit.
Touch(id) ==
    /\ rows[id].uses < MaxUses
    /\ Using(id, [rows[id] EXCEPT !.uses = @ + 1])

MarkVerified(id) ==
    /\ ~rows[id].verified
    /\ Using(id, [rows[id] EXCEPT !.verified = TRUE])

\* A crawl or a plan retires an entry.
Deprecate(id) ==
    /\ Live(id)
    /\ rows' = Deleted({id})
    /\ kept' = kept \ Taken({id})
    /\ UNCHANGED <<saver, cleaner, sweep, raced>>

\* redact_entry_row, on a tombstone too.  It may make the keeper of a dedup differ
\* from the loser.
Scrub(id) ==
    LET c == rows[id].content
    IN  /\ rows[id].state # "gone"
        /\ Redacted[c] # c
        /\ rows' = [rows EXCEPT ![id].content = Redacted[c]]
        /\ raced' = raced \cup {Redacted[c]}
        /\ kept' = IF Live(id) THEN (kept \ {c}) \cup {Redacted[c]} ELSE kept
        /\ cleaner' = [d \in Cleaners |-> [cleaner[d] EXCEPT !.alone = @ /\ cleaner[d].losers = {}]]
        /\ UNCHANGED <<saver, sweep>>

-----------------------------------------------------------------------------
SaveStep(s) ==
    \/ \E c \in Contents, t \in Topics \cup {None} : StartSave(s, c, t)
    \/ NoDuplicate(s) \/ FindDuplicate(s) \/ BumpDuplicate(s)
    \/ Lookup(s) \/ Supersede(s) \/ Insert(s) \/ AbandonSave(s)

Next ==
    \/ \E s \in Savers : SaveStep(s)
    \/ \E d \in Cleaners : ListClusters(d) \/ RetireLoser(d) \/ AbandonDedup(d)
    \/ ListUnused
    \/ Sweep
    \/ \E id \in Ids : Purge(id) \/ Touch(id) \/ MarkVerified(id) \/ Deprecate(id) \/ Scrub(id)

Spec == Init /\ [][Next]_vars

-----------------------------------------------------------------------------
(* Properties. *)

TypeOK ==
    /\ \E n \in 0..MaxRows + Cardinality(Savers) : Ids = 1..n
    /\ \A id \in Ids :
        /\ rows[id].content \in Contents \/ rows[id] = Gone
        /\ rows[id].topic \in Topics \cup {None}
        /\ rows[id].state \in {"live", "dead", "gone"}
        /\ rows[id].uses \in 0..MaxUses
        /\ rows[id].verified \in BOOLEAN
    /\ \A s \in Savers :
        /\ saver[s].old \subseteq Ids /\ Cardinality(saver[s].old) <= 1
        /\ ~Saving(s) <=> saver[s].content = None
    /\ \A d \in Cleaners : cleaner[d].losers \subseteq Ids
    /\ sweep \subseteq Ids
    /\ kept \cup raced \subseteq Contents \cup Topics

\* Two rows are alive with one content, or of one topic, only if it was so at the
\* start, a scrub made them equal, or two saves were busy with it at once.
OneLiveRow ==
    /\ \A c \in Contents \ raced : Cardinality(Copies(c)) <= 1
    /\ \A t \in Topics \ raced : Cardinality(OfTopic(t)) <= 1

\* A content that was saved stays in some row until that row is deliberately taken
\* away, and a dedup that runs alone never takes the last one.  A topic stays
\* readable, but for the moment in which a save replaces its row.
KeptIsLive ==
    /\ \A c \in Contents \cap kept : Copies(c) # {}
    /\ \A t \in Topics \cap kept :
         OfTopic(t) # {} \/ \E s \in Savers : saver[s].topic = t /\ saver[s].late

=============================================================================
