-------------------------------- MODULE Crawl --------------------------------
(***************************************************************************)
(* A crawl of one project (huginn), the files people edit under it, and    *)
(* the entries it keeps about them: one of each file, one of each file's   *)
(* tech debt, and the crawl state, the hash of every file as of the last   *)
(* crawl, by which the next crawl tells what changed and what is gone.     *)
(* Nobody locks the tree: a crawl reads a file up to four times, and the   *)
(* hash it records is not of the text it analysed.                         *)
(*                                                                         *)
(* One crawl runs at a time, always from one root.  What spans files (the  *)
(* patterns, the summary, the tables of a migration) is left out, and so   *)
(* is the code graph, which is GraphRefresh's.                             *)
(***************************************************************************)
EXTENDS Naturals

CONSTANTS
    Files,
    Versions,  \* texts of a file
    Marked,    \* texts with a TODO in them
    Unlisted,  \* versions the scanner passes over: too big, or a symlink
    None,      \* no file, no entry, no hash
    Empty,     \* what an analysis makes of a file it cannot read
    MaxEvents  \* bound: edits, failures, deaths, collections, recrawls

ASSUME CrawlAssumption ==
    /\ Marked \subseteq Versions
    /\ Unlisted \subseteq Versions
    /\ None \notin Versions
    /\ Empty \notin Versions \cup {None}
    /\ MaxEvents \in Nat

VARIABLES
    tree,      \* [Files -> the version on disk]
    entry,     \* [Files -> the version that its live entry describes]
    debt,      \* [Files -> the version that its live tech-debt entry describes]
    recorded,  \* [Files -> the hash in the live crawl state]
    crawl,     \* the crawl under way
    events,    \* how many edits, failures, deaths, collections, recrawls there were
    slipped,   \* history: files of which an edit, a failed call, a crash, a deletion
               \* or a recrawl left entries that the crawl state does not account for
    unlooked   \* history: files last analysed without a look for markers

stored == <<entry, debt, recorded>>
history == <<slipped, unlooked>>
vars == <<tree, stored, crawl, events, history>>

Nothing == [f \in Files |-> None]

\* at, the phase; todo, what the phase has still to do; text, what was read of each
\* file; found, the marked text each file was found with, Empty if it was found clean;
\* disturbed and touched are history: files the crawl gets wrong, files it wrote of.
Idle == [at |-> "idle", focused |-> FALSE, prior |-> Nothing, inventory |-> {}, todo |-> {},
         text |-> Nothing, found |-> Nothing, disturbed |-> {}, touched |-> {}]

Init ==
    /\ tree \in [Files -> Versions \cup {None}]
    /\ entry = Nothing
    /\ debt = Nothing
    /\ recorded = Nothing
    /\ crawl = Idle
    /\ events = 0
    /\ slipped = {}
    /\ unlooked = {}

Event == events < MaxEvents /\ events' = events + 1

\* Calls fail, which the crawl logs at most.
Failing(files) == IF files = {} THEN UNCHANGED events ELSE Event

Known(f) == entry[f] # None \/ debt[f] # None

\* The files whose text the crawl has read.
Analysed == {f \in Files : crawl.text[f] # None}

-----------------------------------------------------------------------------
(* The phases of run. *)

Visible == {f \in Files : tree[f] \notin Unlisted \cup {None}}

\* load_state, then the scan, narrowed to the focus.
Begin(focused, scope) ==
    /\ crawl.at = "idle"
    /\ ~focused => scope = Files
    /\ crawl' = [Idle EXCEPT !.at = "choose", !.focused = focused, !.prior = recorded,
                             !.inventory = Visible \cap scope]
    /\ UNCHANGED <<tree, stored, events, history>>

\* changed_from_hashes: added, or of another hash, or unreadable.
Changed ==
    {f \in crawl.inventory : crawl.prior[f] # tree[f] \/ tree[f] = None}

\* Slip: what git names is analysed whether the scan listed it or not.
AffectedAnywhere(changed) == {s \in SUBSET Files : changed \subseteq s}

\* A full crawl analyses the inventory; an incremental one the changes and whatever
\* git diff and the import graph add to them.
Affected(changed) == {s \in SUBSET crawl.inventory : changed \subseteq s}

\* Recorded and no longer listed.
Missing == {f \in Files \ crawl.inventory : crawl.prior[f] # None /\ ~crawl.focused}

Without(of, files) == [f \in Files |-> IF f \in files THEN None ELSE of[f]]

\* The change set, and deprecate_removed: a file that is not listed but is there keeps
\* its entries, and loses its hash all the same.
Choose ==
    /\ crawl.at = "choose"
    /\ \E set \in Affected(Changed), retired \in SUBSET {f \in Missing : tree[f] = None} :
        /\ entry' = Without(entry, retired)
        /\ debt' = Without(debt, retired)
        /\ crawl' = [crawl EXCEPT !.at = "read", !.todo = set, !.touched = retired,
                                  !.disturbed = @ \cup (Missing \ retired)]
        /\ Failing({f \in Missing \ retired : tree[f] = None})
    /\ UNCHANGED <<tree, recorded, history>>

At(phase, f) == crawl.at = phase /\ f \in crawl.todo

Did(f) == [crawl EXCEPT !.todo = @ \ {f}]

\* analyze_file.  A file that cannot be read is analysed as an empty one.
Read(f) ==
    /\ At("read", f)
    /\ crawl' = IF tree[f] = None
                THEN [Did(f) EXCEPT !.text[f] = Empty, !.disturbed = @ \cup {f}]
                ELSE [Did(f) EXCEPT !.text[f] = tree[f], !.disturbed = @ \ {f}]
    /\ UNCHANGED <<tree, stored, events, history>>

\* Its importance score says Skip.
Skip(f) ==
    /\ At("read", f)
    /\ crawl' = [Did(f) EXCEPT !.disturbed = @ \cup {f}]
    /\ UNCHANGED <<tree, stored, events, history>>

Verdict(text) == IF text \in Marked THEN text ELSE Empty

\* A deep analysis has the markers of the text it read, and is believed to have found
\* none only if the file is still there.
LookDeep(f) ==
    /\ At("look", f)
    /\ crawl' = [Did(f) EXCEPT !.found[f] =
                   IF crawl.text[f] \in Marked \/ tree[f] # None
                   THEN Verdict(crawl.text[f]) ELSE None]
    /\ UNCHANGED <<tree, stored, events, history>>

\* A medium or light one reads the file again.
LookAgain(f) ==
    /\ At("look", f)
    /\ crawl' = [Did(f) EXCEPT !.found[f] =
                   IF tree[f] # None THEN Verdict(tree[f]) ELSE None]
    /\ UNCHANGED <<tree, stored, events, history>>

\* Markdown: nobody looks.
LookAway(f) ==
    /\ At("look", f)
    /\ crawl' = Did(f)
    /\ UNCHANGED <<tree, stored, events, history>>

\* propose the file's entry, and go on if that fails.
Save(f) ==
    /\ At("save", f)
    /\ \/ /\ entry' = [entry EXCEPT ![f] = crawl.text[f]]
          /\ crawl' = [Did(f) EXCEPT !.touched = @ \cup {f}]
          /\ UNCHANGED events
       \/ /\ Event
          /\ crawl' = [Did(f) EXCEPT !.disturbed = @ \cup {f}]
          /\ UNCHANGED entry
    /\ UNCHANGED <<tree, debt, recorded, history>>

WithMarkers == {f \in Files : crawl.found[f] \in Marked}

SaveDebt(f) ==
    /\ At("debt", f)
    /\ \/ /\ debt' = [debt EXCEPT ![f] = crawl.found[f]]
          /\ crawl' = [Did(f) EXCEPT !.touched = @ \cup {f}]
          /\ UNCHANGED events
       \/ /\ Event
          /\ crawl' = [Did(f) EXCEPT !.disturbed = @ \cup {f}]
          /\ UNCHANGED debt
    /\ UNCHANGED <<tree, entry, recorded, history>>

\* Slip: whatever the scan listed and brought no marker is clean.
CleanOfInventory == crawl.inventory \ WithMarkers

\* Looked at, and without a marker.
Clean == {f \in Files : crawl.found[f] = Empty}

\* deprecate_clean_techdebt, of as many as it can.
RetireClean ==
    /\ crawl.at = "clean"
    /\ LET stale == {f \in Clean : debt[f] # None}
       IN  \E retired \in SUBSET stale :
            /\ debt' = Without(debt, retired)
            /\ crawl' = [crawl EXCEPT !.at = "record", !.touched = @ \cup retired,
                                      !.disturbed = @ \cup (stale \ retired)]
            /\ Failing(stale \ retired)
    /\ UNCHANGED <<tree, entry, recorded, history>>

\* The phases that go file by file.
Following ==
    [read |-> [at |-> "look", todo |-> Analysed], look |-> [at |-> "save", todo |-> Analysed],
     save |-> [at |-> "debt", todo |-> WithMarkers], debt |-> [at |-> "clean", todo |-> {}]]

NextPhase ==
    /\ crawl.at \in DOMAIN Following
    /\ crawl.todo = {}
    /\ LET next == Following[crawl.at]
       IN  crawl' = [crawl EXCEPT !.at = next.at, !.todo = next.todo]
    /\ UNCHANGED <<tree, stored, events, history>>

\* Slip: only the focus is recorded.
CarriedNever(f) == None

\* A focused crawl keeps the hashes of what it did not list.
Carried(f) == IF crawl.focused THEN crawl.prior[f] ELSE None

\* Slip: the prior hash wins over the fresh one.
PersistedPriorFirst(f) ==
    IF Carried(f) # None THEN Carried(f)
    ELSE IF f \in crawl.inventory THEN tree[f] ELSE None

\* build_persisted_state: each listed file is read once more.
Persisted(f) ==
    IF f \in crawl.inventory /\ tree[f] # None THEN tree[f] ELSE Carried(f)

Record ==
    /\ crawl.at = "record"
    /\ recorded' = [f \in Files |-> Persisted(f)]
    /\ slipped' = (slipped \ crawl.touched) \cup crawl.disturbed
    /\ unlooked' = (unlooked \ Analysed) \cup {f \in Analysed : crawl.found[f] = None}
    /\ crawl' = Idle
    /\ UNCHANGED <<tree, entry, debt, events>>

\* The crawl dies, or its state cannot be saved.
Abandon ==
    /\ crawl.at # "idle"
    /\ Event
    /\ slipped' = slipped \cup crawl.touched
    /\ crawl' = Idle
    /\ UNCHANGED <<tree, stored, unlooked>>

-----------------------------------------------------------------------------
(* Others. *)

Disturbing(f) ==
    crawl' = IF f \in crawl.inventory THEN [crawl EXCEPT !.disturbed = @ \cup {f}] ELSE crawl

\* Somebody writes, removes, restores or creates a file.
Edit(f) ==
    /\ Event
    /\ \E version \in (Versions \cup {None}) \ {tree[f]} : tree' = [tree EXCEPT ![f] = version]
    /\ Disturbing(f)
    /\ UNCHANGED <<stored, history>>

\* huginn_recrawl_file: a deep analysis of one file as it is, saved at once.  It looks
\* for no markers and leaves the crawl state alone.
RecrawlFile(f) ==
    /\ tree[f] # None
    /\ Event
    /\ entry' = [entry EXCEPT ![f] = tree[f]]
    /\ slipped' = IF recorded[f] = tree[f] THEN slipped ELSE slipped \cup {f}
    /\ crawl' = IF f \in Missing THEN [crawl EXCEPT !.disturbed = @ \cup {f}] ELSE crawl
    /\ UNCHANGED <<tree, debt, recorded, unlooked>>

\* `runar gc` collects the entries of crawls that nobody reads.
CollectEntries(f) ==
    /\ Known(f)
    /\ Event
    /\ \/ entry' = Without(entry, {f}) /\ UNCHANGED debt
       \/ debt' = Without(debt, {f}) /\ UNCHANGED entry
    /\ slipped' = slipped \cup {f}
    /\ Disturbing(f)
    /\ UNCHANGED <<tree, recorded, unlooked>>

\* The crawl state is such an entry.
CollectState ==
    /\ recorded # Nothing
    /\ Event
    /\ recorded' = Nothing
    /\ slipped' = slipped \cup {f \in Files : Known(f)}
    /\ UNCHANGED <<tree, entry, debt, crawl, unlooked>>

-----------------------------------------------------------------------------
Next ==
    \/ \E focused \in BOOLEAN, scope \in SUBSET Files : Begin(focused, scope)
    \/ Choose
    \/ NextPhase
    \/ RetireClean
    \/ Record
    \/ Abandon
    \/ \E f \in Files :
        \/ Read(f) \/ Skip(f) \/ LookDeep(f) \/ LookAgain(f) \/ LookAway(f)
        \/ Save(f) \/ SaveDebt(f)
        \/ Edit(f) \/ RecrawlFile(f) \/ CollectEntries(f)
    \/ CollectState

Spec == Init /\ [][Next]_vars

-----------------------------------------------------------------------------
(* Properties. *)

\* What each variable holds.  A crawl analyses only what its scan listed.
TypeOK ==
    /\ tree \in [Files -> Versions \cup {None}]
    /\ entry \in [Files -> Versions \cup {None, Empty}]
    /\ debt \in [Files -> Marked \cup {None}]
    /\ recorded \in [Files -> Versions \cup {None}]
    /\ crawl.prior \in [Files -> Versions \cup {None}]
    /\ crawl.text \in [Files -> Versions \cup {None, Empty}]
    /\ crawl.found \in [Files -> Marked \cup {None, Empty}]
    /\ crawl.todo \cup Analysed \subseteq crawl.inventory
    /\ events \in 0..MaxEvents
    /\ slipped \cup unlooked \cup crawl.touched \cup crawl.disturbed \subseteq Files

\* Nothing went wrong with the file, nor is the crawl under way at work on it.
Quiet(f) == f \notin slipped \cup crawl.touched

\* The next crawl will pass over this file.
Settled(f) == tree[f] # None /\ recorded[f] = tree[f] /\ Quiet(f)

\* A file whose hash is in the crawl state, which later crawls therefore leave alone,
\* has an entry that describes it as it is.
EntriesAreCurrent == \A f \in Files : Settled(f) => entry[f] = tree[f]

\* Its tech-debt entry, too, is about its present text, and there is none if that text
\* has no marker.
DebtIsCurrent ==
    \A f \in Files : Settled(f) /\ f \notin unlooked =>
        debt[f] = IF tree[f] \in Marked THEN tree[f] ELSE None

\* The entries of a file that is gone can still be retired: its hash is in the crawl
\* state, whatever focused crawls came in between.
NoOrphans ==
    \A f \in Files : Known(f) /\ tree[f] = None /\ Quiet(f) => recorded[f] # None

=============================================================================
