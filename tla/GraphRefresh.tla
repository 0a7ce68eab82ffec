---------------------------- MODULE GraphRefresh ----------------------------
(***************************************************************************)
(* The symbol graph of one project and the processes that bring it in line *)
(* with the working tree: `runar graph refresh` ("hand"), the detached     *)
(* refresh a hook starts ("auto") and the deep crawl ("crawl").  Each      *)
(* looks at the freshness signals, scans the tree for its inventory, takes *)
(* a lock file, indexes file by file, and records the signals as the       *)
(* baseline that later readers judge the graph by.                         *)
(*                                                                         *)
(* Files change at any time, to a new version or back to an earlier one,   *)
(* as by `git stash`.  The signals of two trees are the same only if the   *)
(* trees are; they do not tell a tree that has come back from one that was *)
(* never left.                                                             *)
(***************************************************************************)
EXTENDS Naturals, Sequences, FiniteSets, Functions

CONSTANTS
    Files,
    Workers,     \* processes that index
    Kinds,       \* what they are: "hand", "auto", "crawl"
    MaxEdits,    \* bound: changes of the tree
    MaxCrashes,  \* bound: passes that fail or workers that die
    MaxStale     \* bound: locks that get older than LOCK_STALE

ASSUME RefreshAssumption ==
    /\ Kinds \subseteq {"hand", "auto", "crawl"}
    /\ MaxEdits \in Nat
    /\ MaxCrashes \in Nat
    /\ MaxStale \in Nat

VARIABLES
    tree,      \* [Files -> version on disk], 0 for none
    files,     \* [Files -> version whose symbols are in the graph]
    edges,     \* [Files -> version whose edges are in the graph]
    baseline,  \* the tree whose signals are recorded
    lock,      \* the lock file: "none", "young" or "stale"
    worker,    \* [Workers -> what the worker is doing]
    edits,     \* changes of the tree so far
    crashes,   \* passes that failed and workers that died so far
    stales,    \* locks that got stale so far
    past,      \* history: trees there were and are no more, or are again
    doubtful,  \* history: a pass that clears the graph, or that another disturbs, has
               \* begun and no undisturbed pass has finished since
    excused    \* history: a lock got stale, or a crawl did not wait for it

history == <<past, doubtful, excused>>
vars == <<tree, files, edges, baseline, lock, worker, edits, crashes, stales, history>>

Versions == 0..MaxEdits + 1

Nothing == [f \in Files |-> 0]

-----------------------------------------------------------------------------
\* plan: what is left to do before indexing, of "lock", "observe", "scan"
\* stage: "plan" until then; "steal" and "create" within try_acquire
\* observed, inventory: what it observed and scanned; seen: the tree as it was scanned
\* known: hashes read at the start; todo: files to look at; got: the file in hand
\* mine: versions it wrote; holds: whether it took the lock; clean: whether nothing disturbed it
Idle == [kind |-> "none", plan |-> <<>>, stage |-> "idle", full |-> FALSE,
         observed |-> Nothing, inventory |-> {}, known |-> Nothing, todo |-> {},
         got |-> <<>>, mine |-> <<>>, holds |-> FALSE, clean |-> TRUE]

\* Slip: a refresh by hand scans, then observes.
PlanScansFirst(kind) ==
    CASE kind = "hand" -> <<"lock", "scan", "observe">>
      [] kind = "auto" -> <<"observe", "lock", "scan">>
      [] kind = "crawl" -> <<"scan", "lock", "observe">>

\* run, decide_and_run, and the crawl, which scans long before it indexes and has
\* index_project observe.
Plan(kind) ==
    CASE kind = "hand" -> <<"lock", "observe", "scan">>
      [] kind = "auto" -> <<"observe", "lock", "scan">>
      [] kind = "crawl" -> <<"scan", "lock", "observe">>

Present == {f \in Files : tree[f] # 0}

\* The project has been crawled once.
Init ==
    /\ tree \in [Files -> {0, 1}]
    /\ Present # {}
    /\ files = tree
    /\ edges = tree
    /\ baseline = tree
    /\ lock = "none"
    /\ worker = [p \in Workers |-> Idle]
    /\ edits = 0
    /\ crashes = 0
    /\ stales = 0
    /\ past = {}
    /\ doubtful = FALSE
    /\ excused = FALSE

Graph == <<files, edges, baseline>>

\* Fresh, by freshness::judge.
Judge(base, observed) == base = observed

Start(p, kind, full) ==
    /\ worker[p] = Idle
    /\ full => kind # "auto"
    /\ worker' = [worker EXCEPT ![p] = [Idle EXCEPT !.kind = kind, !.plan = Plan(kind),
                                                    !.stage = "plan", !.full = full]]
    /\ UNCHANGED <<tree, Graph, lock, edits, crashes, stales, history>>

Ready(p, what) ==
    /\ worker[p].stage = "plan"
    /\ worker[p].plan # <<>>
    /\ Head(worker[p].plan) = what

Done(p) == [worker[p] EXCEPT !.stage = "plan", !.plan = Tail(@)]

\* snapshot; a hook's refresh gives up if nothing changed.
Observe(p) ==
    /\ Ready(p, "observe")
    /\ worker' = [worker EXCEPT ![p] =
                    IF worker[p].kind = "auto" /\ Judge(baseline, tree) THEN Idle
                    ELSE [Done(p) EXCEPT !.observed = tree]]
    /\ UNCHANGED <<tree, Graph, lock, edits, crashes, stales, history>>

\* scan_project; a hook's refresh gives up on an empty inventory.
Scan(p) ==
    /\ Ready(p, "scan")
    /\ worker' = [worker EXCEPT ![p] =
                    [Done(p) EXCEPT !.inventory = Present,
                                    !.stage = IF worker[p].kind = "auto" /\ Present = {}
                                              THEN "unlock" ELSE "plan"]]
    /\ UNCHANGED <<tree, Graph, lock, edits, crashes, stales, history>>

-----------------------------------------------------------------------------
(* RefreshLock *)

\* Slip: the file is opened, not created.
Opens == {"none", "young"}

\* create_new succeeds only if there is no file.
Creates == {"none"}

\* Slip: a worker that gives up keeps what it observed.
RefusedHalfway(p) ==
    IF worker[p].kind = "crawl" THEN [worker[p] EXCEPT !.stage = "plan"]
    ELSE [worker[p] EXCEPT !.stage = "idle"]

\* A worker that does not get the lock: a crawl tries again, the others give up.
Refused(p) ==
    IF worker[p].kind = "crawl" THEN [worker[p] EXCEPT !.stage = "plan"] ELSE Idle

TryLock(p) ==
    /\ Ready(p, "lock")
    /\ \/ /\ lock \in Creates
          /\ lock' = "young"
          /\ worker' = [worker EXCEPT ![p] = [Done(p) EXCEPT !.holds = TRUE]]
       \/ /\ lock \notin Creates
          /\ worker' = [worker EXCEPT ![p] = IF lock = "stale" THEN [@ EXCEPT !.stage = "steal"]
                                             ELSE Refused(p)]
          /\ UNCHANGED lock
    /\ UNCHANGED <<tree, Graph, edits, crashes, stales, history>>

\* The file found stale is removed, or whichever is there by now,
Steal(p) ==
    /\ worker[p].stage = "steal"
    /\ lock' = "none"
    /\ worker' = [worker EXCEPT ![p].stage = "create"]
    /\ UNCHANGED <<tree, Graph, edits, crashes, stales, history>>

\* and created anew.
CreateAgain(p) ==
    /\ worker[p].stage = "create"
    /\ IF lock = "none"
       THEN lock' = "young" /\ worker' = [worker EXCEPT ![p] = [Done(p) EXCEPT !.holds = TRUE]]
       ELSE UNCHANGED lock /\ worker' = [worker EXCEPT ![p] = Refused(p)]
    /\ UNCHANGED <<tree, Graph, edits, crashes, stales, history>>

\* A crawl that has waited long enough goes on without the lock.
GoOn(p) ==
    /\ Ready(p, "lock")
    /\ worker[p].kind = "crawl"
    /\ lock # "none"
    /\ worker' = [worker EXCEPT ![p] = Done(p)]
    /\ excused' = TRUE
    /\ UNCHANGED <<tree, Graph, lock, edits, crashes, stales, past, doubtful>>

LockAges ==
    /\ stales < MaxStale
    /\ lock = "young"
    /\ lock' = "stale"
    /\ stales' = stales + 1
    /\ excused' = TRUE
    /\ UNCHANGED <<tree, Graph, worker, edits, crashes, past, doubtful>>

\* Drop removes the file, whoever created it.
Unlock(p) ==
    /\ worker[p].stage = "unlock"
    /\ lock' = IF worker[p].holds THEN "none" ELSE lock
    /\ worker' = [worker EXCEPT ![p] = Idle]
    /\ UNCHANGED <<tree, Graph, edits, crashes, stales, history>>

-----------------------------------------------------------------------------
(* index_project *)

Indexing(p) == worker[p].stage \in {"index", "write", "forget", "rebuild", "stamp"}

\* Workers other than p that looked at all they will look at and have not finished.
Overlapping(p) ==
    {q \in Workers \ {p} : Indexing(q) \/ (worker[q].stage = "plan" /\ worker[q].plan = <<>>)}

\* No other pass is indexing, and a crawl scanned the files it then observed.
StartsClean(p) ==
    /\ worker[p].clean
    /\ \A q \in Workers \ {p} : ~Indexing(q)
    /\ worker[p].kind = "crawl" =>
         worker[p].inventory = {f \in Files : worker[p].observed[f] # 0}

\* begin_project clears the project for a full pass.
Cleared(full, rows) == IF full THEN Nothing ELSE rows

Begin(p) ==
    /\ worker[p].stage = "plan"
    /\ worker[p].plan = <<>>
    /\ files' = Cleared(worker[p].full, files)
    /\ edges' = Cleared(worker[p].full, edges)
    /\ worker' = [q \in Workers |->
         IF q = p THEN [worker[p] EXCEPT !.stage = "index", !.known = files',
                                         !.todo = worker[p].inventory,
                                         !.clean = StartsClean(p)]
         ELSE [worker[q] EXCEPT !.clean = @ /\ q \notin Overlapping(p)]]
    /\ doubtful' = (doubtful \/ worker[p].full \/ ~StartsClean(p))
    /\ UNCHANGED <<tree, baseline, lock, edits, crashes, stales, past, excused>>

\* A file is read; one that is still as it was indexed is left alone.  A file that
\* is gone counts as one without symbols.
ReadFile(p) ==
    /\ worker[p].stage = "index"
    /\ \E f \in worker[p].todo :
        worker' = [worker EXCEPT ![p] =
            [@ EXCEPT !.todo = worker[p].todo \ {f},
                      !.got = IF tree[f] = worker[p].known[f] THEN <<>> ELSE <<f, tree[f]>>,
                      !.stage = IF tree[f] = worker[p].known[f] THEN "index" ELSE "write"]]
    /\ UNCHANGED <<tree, Graph, lock, edits, crashes, stales, history>>

\* replace_file; the edges of its old symbols go with them.
WriteFile(p) ==
    LET f == worker[p].got[1]
        v == worker[p].got[2]
    IN  /\ worker[p].stage = "write"
        /\ files' = [files EXCEPT ![f] = v]
        /\ edges' = [edges EXCEPT ![f] = 0]
        /\ worker' = [worker EXCEPT ![p] =
                        [@ EXCEPT !.stage = "index", !.got = <<>>,
                                  !.mine = [g \in DOMAIN worker[p].mine \cup {f} |->
                                                IF g = f THEN v ELSE worker[p].mine[g]]]]
        /\ UNCHANGED <<tree, baseline, lock, edits, crashes, stales, history>>

\* An incremental pass forgets the files it knew that are gone from the inventory.
Forgotten(p) == {f \in Files : worker[p].known[f] # 0} \ worker[p].inventory

Forget(p) ==
    /\ worker[p].stage = "index"
    /\ worker[p].todo = {}
    /\ files' = [f \in Files |-> IF f \in Forgotten(p) THEN 0 ELSE files[f]]
    /\ edges' = [f \in Files |-> IF f \in Forgotten(p) THEN 0 ELSE edges[f]]
    /\ worker' = [worker EXCEPT ![p].stage = "rebuild", ![p].inventory = {},
                                ![p].known = Nothing]
    /\ UNCHANGED <<tree, baseline, lock, edits, crashes, stales, history>>

\* Slip: edges are resolved from the files of this pass alone.
FactsOfPass(p) ==
    [f \in Files |-> IF f \in DOMAIN worker[p].mine THEN worker[p].mine[f] ELSE 0]

\* What edges are resolved from: what this pass extracted, and what is stored of the rest.
Facts(p) ==
    [f \in Files |-> IF f \in DOMAIN worker[p].mine THEN worker[p].mine[f] ELSE files[f]]

\* rebuild_edges
Rebuild(p) ==
    /\ worker[p].stage = "rebuild"
    /\ edges' = Facts(p)
    /\ worker' = [worker EXCEPT ![p].stage = "stamp", ![p].mine = <<>>]
    /\ UNCHANGED <<tree, files, baseline, lock, edits, crashes, stales, history>>

\* stamp: the baseline is what was observed before the pass.
Stamp(p) ==
    /\ worker[p].stage = "stamp"
    /\ baseline' = worker[p].observed
    /\ doubtful' = ~worker[p].clean
    /\ worker' = [worker EXCEPT ![p] = [Idle EXCEPT !.kind = worker[p].kind, !.stage = "unlock",
                                                    !.holds = worker[p].holds]]
    /\ UNCHANGED <<tree, files, edges, lock, edits, crashes, stales, past, excused>>

-----------------------------------------------------------------------------
\* A file is written, created or deleted, or put back as it was.
Edit(f, v) ==
    /\ edits < MaxEdits
    /\ tree[f] # v
    /\ tree' = [tree EXCEPT ![f] = v]
    /\ past' = past \cup {tree}
    /\ edits' = edits + 1
    /\ UNCHANGED <<Graph, lock, worker, crashes, stales, doubtful, excused>>

\* A statement fails, and the pass with it: what it wrote stays.
Fail(p) ==
    /\ Indexing(p)
    /\ crashes < MaxCrashes
    /\ crashes' = crashes + 1
    /\ worker' = [worker EXCEPT ![p] = [Idle EXCEPT !.kind = worker[p].kind, !.stage = "unlock",
                                                    !.holds = worker[p].holds]]
    /\ UNCHANGED <<tree, Graph, lock, edits, stales, history>>

\* A worker is killed: its lock file stays too.
Crash(p) ==
    /\ worker[p].stage # "idle"
    /\ crashes < MaxCrashes
    /\ crashes' = crashes + 1
    /\ worker' = [worker EXCEPT ![p] = Idle]
    /\ UNCHANGED <<tree, Graph, lock, edits, stales, history>>

Next ==
    \/ \E f \in Files, v \in 0..edits + 2 : Edit(f, v)
    \/ LockAges
    \/ \E p \in Workers :
        \/ \E kind \in Kinds, full \in BOOLEAN : Start(p, kind, full)
        \/ Observe(p) \/ Scan(p)
        \/ TryLock(p) \/ Steal(p) \/ CreateAgain(p) \/ GoOn(p) \/ Unlock(p)
        \/ Begin(p) \/ ReadFile(p) \/ WriteFile(p) \/ Forget(p) \/ Rebuild(p) \/ Stamp(p)
        \/ Fail(p) \/ Crash(p)

Spec == Init /\ [][Next]_vars

-----------------------------------------------------------------------------
(* Properties. *)

Trees == [Files -> Versions]

TypeOK ==
    /\ {tree, files, edges, baseline} \cup past \subseteq Trees
    /\ lock \in {"none", "young", "stale"}
    /\ \A p \in Workers :
        /\ worker[p].kind \in Kinds \cup {"none"}
        /\ worker[p].stage \in {"idle", "plan", "steal", "create", "index", "write", "forget",
                                "rebuild", "stamp", "unlock"}
        /\ worker[p].observed \in Trees /\ worker[p].known \in Trees
        /\ worker[p].todo \subseteq worker[p].inventory
        /\ DOMAIN worker[p].mine \subseteq Files
        /\ worker[p].stage = "idle" <=> worker[p] = Idle

\* Two passes index at once only where a lock got stale or a crawl would not wait.
PassesAreExclusive ==
    ~excused => \A p, q \in Workers : Indexing(p) /\ Indexing(q) => p = q

InLine == files = tree /\ edges = tree

\* The tree has come back to what it was before.
CameBack == tree \in past

\* A graph judged fresh describes the tree, unless a full pass is under way or died,
\* or the last pass was disturbed, or the tree has come back.
FreshMeansIndexed == ~doubtful /\ ~CameBack /\ Judge(baseline, tree) => InLine

\* An undisturbed pass over a tree that is still what it observed brings the graph in
\* line, whatever earlier passes left of it, unless the tree has come back.
UndisturbedPassHeals ==
    [][\A p \in Workers :
         Stamp(p) /\ worker[p].clean /\ worker[p].observed = tree /\ ~CameBack => InLine]_vars

=============================================================================
