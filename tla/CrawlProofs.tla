---------------------------- MODULE CrawlProofs ----------------------------
(***************************************************************************)
(* Proofs about Crawl, for any files, texts and bounds.                    *)
(***************************************************************************)
EXTENDS Crawl, TLAPS

-----------------------------------------------------------------------------
(* Type correctness. *)

Phases == {"idle", "choose", "read", "look", "save", "debt", "clean", "record"}

CrawlState ==
    [at: Phases, focused: BOOLEAN, prior: [Files -> Versions \cup {None}],
     inventory: SUBSET Files, todo: SUBSET Files,
     text: [Files -> Versions \cup {None, Empty}],
     found: [Files -> Marked \cup {None, Empty}],
     disturbed: SUBSET Files, touched: SUBSET Files]

Typed ==
    /\ tree \in [Files -> Versions \cup {None}]
    /\ entry \in [Files -> Versions \cup {None, Empty}]
    /\ debt \in [Files -> Marked \cup {None}]
    /\ recorded \in [Files -> Versions \cup {None}]
    /\ crawl \in CrawlState
    /\ events \in 0..MaxEvents
    /\ slipped \subseteq Files
    /\ unlooked \subseteq Files

\* What a phase has behind it, and what it still has to do.
PhaseOK ==
    /\ crawl.at \in {"idle", "choose"} => crawl.touched = {}
    /\ crawl.at = "choose" => crawl.text = Nothing
    /\ crawl.at \in {"choose", "read"} => crawl.found = Nothing
    /\ crawl.todo \cup Analysed \subseteq crawl.inventory
    /\ crawl.at \in {"look", "save"} => crawl.todo \subseteq Analysed
    /\ crawl.at = "debt" => crawl.todo \subseteq WithMarkers
    /\ \A f \in Files : crawl.found[f] # None => f \in Analysed

LEMMA IdleIsTyped == Idle \in CrawlState
BY DEF Idle, CrawlState, Phases, Nothing

LEMMA InitTyped == Init => Typed
BY IdleIsTyped, CrawlAssumption DEF Init, Typed, Nothing

LEMMA EventTyped == ASSUME Typed, Event \/ UNCHANGED events PROVE events' \in 0..MaxEvents
BY CrawlAssumption DEF Typed, Event

LEMMA WithoutTyped ==
    ASSUME NEW T, NEW of \in [Files -> T], None \in T, NEW files
    PROVE  Without(of, files) \in [Files -> T]
BY DEF Without

\* What a step on one file leaves of the crawl, before it notes what it found.
LEMMA DidTyped ==
    ASSUME Typed, NEW f \in Files
    PROVE  /\ Did(f) \in CrawlState
           /\ Did(f).at = crawl.at /\ Did(f).focused = crawl.focused
           /\ Did(f).prior = crawl.prior /\ Did(f).inventory = crawl.inventory
           /\ Did(f).todo = crawl.todo \ {f}
           /\ Did(f).text = crawl.text /\ Did(f).found = crawl.found
           /\ Did(f).disturbed = crawl.disturbed /\ Did(f).touched = crawl.touched
BY DEF Did, Typed, CrawlState

LEMMA TypedStep == Typed /\ PhaseOK /\ [Next]_vars => Typed'
<1> SUFFICES ASSUME Typed, PhaseOK, [Next]_vars PROVE Typed'
  OBVIOUS
<1> USE CrawlAssumption
<1>1. ASSUME NEW focused \in BOOLEAN, NEW scope \in SUBSET Files, Begin(focused, scope)
      PROVE  Typed'
  <2>1. crawl' \in CrawlState
    BY <1>1, IdleIsTyped DEF Begin, Typed, CrawlState, Phases, Visible
  <2> QED
    BY <1>1, <2>1 DEF Begin, Typed, stored, history
<1>2. CASE Choose
  <2>1. PICK set \in Affected(Changed), retired \in SUBSET {f \in Missing : tree[f] = None} :
          /\ entry' = Without(entry, retired)
          /\ debt' = Without(debt, retired)
          /\ crawl' = [crawl EXCEPT !.at = "read", !.todo = set, !.touched = retired,
                                    !.disturbed = @ \cup (Missing \ retired)]
          /\ Failing({f \in Missing \ retired : tree[f] = None})
    BY <1>2 DEF Choose
  <2>2. set \subseteq Files /\ retired \subseteq Files /\ Missing \subseteq Files
    BY DEF Affected, Missing, Typed, CrawlState
  <2>3. crawl' \in CrawlState
    BY <2>1, <2>2 DEF Typed, CrawlState, Phases
  <2>4. entry' \in [Files -> Versions \cup {None, Empty}] /\ debt' \in [Files -> Marked \cup {None}]
    BY <2>1, WithoutTyped DEF Typed
  <2>5. events' \in 0..MaxEvents
    BY <2>1, EventTyped DEF Failing
  <2> QED
    BY <1>2, <2>3, <2>4, <2>5 DEF Choose, Typed, history
<1>3. CASE NextPhase
  <2>1. Analysed \subseteq Files /\ WithMarkers \subseteq Files
    BY DEF Analysed, WithMarkers
  <2>2. Following[crawl.at].at \in Phases /\ Following[crawl.at].todo \subseteq Files
    BY <1>3, <2>1 DEF NextPhase, Following, Phases
  <2>3. crawl' \in CrawlState
    BY <1>3, <2>2 DEF NextPhase, Typed, CrawlState
  <2> QED
    BY <1>3, <2>3 DEF NextPhase, Typed, stored, history
<1>4. CASE RetireClean
  <2> DEFINE stale == {f \in Clean : debt[f] # None}
  <2>1. PICK retired \in SUBSET stale :
          /\ debt' = Without(debt, retired)
          /\ crawl' = [crawl EXCEPT !.at = "record", !.touched = @ \cup retired,
                                    !.disturbed = @ \cup (stale \ retired)]
          /\ Failing(stale \ retired)
    BY <1>4 DEF RetireClean
  <2>2. stale \subseteq Files
    BY DEF Clean
  <2>3. crawl' \in CrawlState
    BY <2>1, <2>2 DEF Typed, CrawlState, Phases
  <2>4. debt' \in [Files -> Marked \cup {None}]
    BY <2>1, WithoutTyped DEF Typed
  <2>5. events' \in 0..MaxEvents
    BY <2>1, EventTyped DEF Failing
  <2> QED
    BY <1>4, <2>3, <2>4, <2>5 DEF RetireClean, Typed, history
<1>5. CASE Record
  <2>1. \A f \in Files : Persisted(f) \in Versions \cup {None}
    BY DEF Persisted, Carried, Typed, CrawlState
  <2> QED
    BY <1>5, <2>1, IdleIsTyped DEF Record, Typed, CrawlState, Analysed
<1>6. CASE Abandon
  BY <1>6, IdleIsTyped, EventTyped DEF Abandon, Typed, CrawlState, stored
<1>7. ASSUME NEW f \in Files, Read(f) \/ Skip(f) \/ LookDeep(f) \/ LookAgain(f) \/ LookAway(f)
      PROVE  Typed'
  <2> DEFINE d == Did(f)
  <2>1. d \in CrawlState
    BY DidTyped
  <2> HIDE DEF d
  <2>2. Verdict(crawl.text[f]) \in Marked \cup {Empty} /\ Verdict(tree[f]) \in Marked \cup {Empty}
    BY DEF Verdict
  <2>3. tree[f] \in Versions \cup {None}
    BY DEF Typed
  <2>4. \A v \in Versions \cup {None, Empty} :
          /\ [d EXCEPT !.text[f] = v, !.disturbed = @ \cup {f}] \in CrawlState
          /\ [d EXCEPT !.text[f] = v, !.disturbed = @ \ {f}] \in CrawlState
    BY <2>1 DEF CrawlState
  <2>5. \A v \in Marked \cup {None, Empty} : [d EXCEPT !.found[f] = v] \in CrawlState
    BY <2>1 DEF CrawlState
  <2>6. [d EXCEPT !.disturbed = @ \cup {f}] \in CrawlState
    BY <2>1 DEF CrawlState
  <2>7. crawl' \in CrawlState
    <3>1. CASE Read(f)
      BY <3>1, <2>3, <2>4 DEF Read, d
    <3>2. CASE LookDeep(f)
      BY <3>2, <2>2, <2>5 DEF LookDeep, d
    <3>3. CASE LookAgain(f)
      BY <3>3, <2>2, <2>5 DEF LookAgain, d
    <3> QED
      BY <1>7, <2>1, <2>6, <3>1, <3>2, <3>3 DEF Skip, LookAway, d
  <2> QED
    BY <1>7, <2>7 DEF Read, Skip, LookDeep, LookAgain, LookAway, Typed, stored, history
<1>8. ASSUME NEW f \in Files, Save(f) \/ SaveDebt(f) PROVE Typed'
  <2> DEFINE d == Did(f)
  <2>1. d \in CrawlState
    BY DidTyped
  <2> HIDE DEF d
  <2>2. /\ [d EXCEPT !.touched = @ \cup {f}] \in CrawlState
        /\ [d EXCEPT !.disturbed = @ \cup {f}] \in CrawlState
    BY <2>1 DEF CrawlState
  <2>3. crawl' \in CrawlState
    BY <1>8, <2>2 DEF Save, SaveDebt, d
  <2>4. entry' \in [Files -> Versions \cup {None, Empty}]
    BY <1>8 DEF Save, SaveDebt, Typed, CrawlState
  <2>5. debt' \in [Files -> Marked \cup {None}]
    BY <1>8 DEF Save, SaveDebt, At, PhaseOK, WithMarkers, Typed
  <2>6. events' \in 0..MaxEvents
    BY <1>8, EventTyped DEF Save, SaveDebt
  <2> QED
    BY <1>8, <2>3, <2>4, <2>5, <2>6 DEF Save, SaveDebt, Typed, history
<1>10. ASSUME NEW f \in Files, Edit(f) PROVE Typed'
  <2>1. crawl' \in CrawlState
    BY <1>10 DEF Edit, Disturbing, Typed, CrawlState
  <2> QED
    BY <1>10, <2>1, EventTyped DEF Edit, Typed, stored, history
<1>11. ASSUME NEW f \in Files, RecrawlFile(f) PROVE Typed'
  <2>1. crawl' \in CrawlState
    BY <1>11 DEF RecrawlFile, Typed, CrawlState
  <2> QED
    BY <1>11, <2>1, EventTyped DEF RecrawlFile, Typed
<1>12. ASSUME NEW f \in Files, CollectEntries(f) PROVE Typed'
  <2>1. crawl' \in CrawlState
    BY <1>12 DEF CollectEntries, Disturbing, Typed, CrawlState
  <2>2. /\ Without(entry, {f}) \in [Files -> Versions \cup {None, Empty}]
        /\ Without(debt, {f}) \in [Files -> Marked \cup {None}]
    BY WithoutTyped DEF Typed
  <2> QED
    BY <1>12, <2>1, <2>2, EventTyped DEF CollectEntries, Typed
<1>13. CASE CollectState
  BY <1>13, EventTyped DEF CollectState, Typed, Nothing
<1>14. CASE UNCHANGED vars
  BY <1>14 DEF vars, stored, history, Typed
<1> QED
  BY <1>1, <1>2, <1>3, <1>4, <1>5, <1>6, <1>7, <1>8, <1>10, <1>11, <1>12, <1>13, <1>14 DEF Next

-----------------------------------------------------------------------------
(* The crawl's memory, field by field. *)

\* The crawl goes on, from the same hashes over the same files.
Fields(at, todo, text, found, disturbed, touched) ==
    /\ crawl'.at = at /\ crawl'.todo = todo
    /\ crawl'.text = text /\ crawl'.found = found
    /\ crawl'.disturbed = disturbed /\ crawl'.touched = touched
    /\ crawl'.focused = crawl.focused /\ crawl'.prior = crawl.prior
    /\ crawl'.inventory = crawl.inventory

\* What the actions on one file make of the fields they touch.
TextRead(f) == [crawl.text EXCEPT ![f] = IF tree[f] = None THEN Empty ELSE tree[f]]
DisturbedRead(f) == IF tree[f] = None THEN crawl.disturbed \cup {f} ELSE crawl.disturbed \ {f}

LEMMA LooksFields ==
    ASSUME Typed, NEW f \in Files
    PROVE  /\ Read(f) => Fields(crawl.at, crawl.todo \ {f}, TextRead(f), crawl.found,
                                DisturbedRead(f), crawl.touched)
           /\ Skip(f) => Fields(crawl.at, crawl.todo \ {f}, crawl.text, crawl.found,
                                crawl.disturbed \cup {f}, crawl.touched)
           /\ LookDeep(f) =>
                Fields(crawl.at, crawl.todo \ {f}, crawl.text,
                       [crawl.found EXCEPT ![f] = IF crawl.text[f] \in Marked \/ tree[f] # None
                                                  THEN Verdict(crawl.text[f]) ELSE None],
                       crawl.disturbed, crawl.touched)
           /\ LookAgain(f) =>
                Fields(crawl.at, crawl.todo \ {f}, crawl.text,
                       [crawl.found EXCEPT ![f] = IF tree[f] # None THEN Verdict(tree[f]) ELSE None],
                       crawl.disturbed, crawl.touched)
           /\ LookAway(f) => Fields(crawl.at, crawl.todo \ {f}, crawl.text, crawl.found,
                                    crawl.disturbed, crawl.touched)
<1> DEFINE d == Did(f)
<1>1. /\ d \in CrawlState /\ d.at = crawl.at /\ d.focused = crawl.focused
      /\ d.prior = crawl.prior /\ d.inventory = crawl.inventory /\ d.todo = crawl.todo \ {f}
      /\ d.text = crawl.text /\ d.found = crawl.found
      /\ d.disturbed = crawl.disturbed /\ d.touched = crawl.touched
  BY DidTyped
<1> HIDE DEF d
<1> USE DEF Fields, CrawlState
<1>2. Read(f) => Fields(crawl.at, crawl.todo \ {f}, TextRead(f), crawl.found,
                        DisturbedRead(f), crawl.touched)
  BY <1>1 DEF Read, TextRead, DisturbedRead, d
<1>3. Skip(f) => Fields(crawl.at, crawl.todo \ {f}, crawl.text, crawl.found,
                        crawl.disturbed \cup {f}, crawl.touched)
  BY <1>1 DEF Skip, d
<1>4. LookDeep(f) =>
        Fields(crawl.at, crawl.todo \ {f}, crawl.text,
               [crawl.found EXCEPT ![f] = IF crawl.text[f] \in Marked \/ tree[f] # None
                                          THEN Verdict(crawl.text[f]) ELSE None],
               crawl.disturbed, crawl.touched)
  BY <1>1 DEF LookDeep, d
<1>5. LookAgain(f) =>
        Fields(crawl.at, crawl.todo \ {f}, crawl.text,
               [crawl.found EXCEPT ![f] = IF tree[f] # None THEN Verdict(tree[f]) ELSE None],
               crawl.disturbed, crawl.touched)
  BY <1>1 DEF LookAgain, d
<1>6. LookAway(f) => Fields(crawl.at, crawl.todo \ {f}, crawl.text, crawl.found,
                            crawl.disturbed, crawl.touched)
  BY <1>1 DEF LookAway, d
<1> QED
  BY <1>2, <1>3, <1>4, <1>5, <1>6

\* A statement on one file, done or failed.
LEMMA SavesFields ==
    ASSUME Typed, NEW f \in Files, Save(f) \/ SaveDebt(f)
    PROVE  \E touched, disturbed \in SUBSET {f} :
             /\ Fields(crawl.at, crawl.todo \ {f}, crawl.text, crawl.found,
                       crawl.disturbed \cup disturbed, crawl.touched \cup touched)
             /\ \/ disturbed = {f} /\ entry' = entry /\ debt' = debt
                \/ touched = {f} /\ Save(f) /\ entry' = [entry EXCEPT ![f] = crawl.text[f]]
                                 /\ debt' = debt
                \/ touched = {f} /\ SaveDebt(f) /\ debt' = [debt EXCEPT ![f] = crawl.found[f]]
                                 /\ entry' = entry
<1> DEFINE d == Did(f)
<1>1. /\ d \in CrawlState /\ d.at = crawl.at /\ d.focused = crawl.focused
      /\ d.prior = crawl.prior /\ d.inventory = crawl.inventory /\ d.todo = crawl.todo \ {f}
      /\ d.text = crawl.text /\ d.found = crawl.found
      /\ d.disturbed = crawl.disturbed /\ d.touched = crawl.touched
  BY DidTyped
<1> HIDE DEF d
<1> DEFINE effect ==
      \/ Save(f) /\ entry' = [entry EXCEPT ![f] = crawl.text[f]] /\ debt' = debt
      \/ SaveDebt(f) /\ debt' = [debt EXCEPT ![f] = crawl.found[f]] /\ entry' = entry
<1>2. CASE crawl' = [d EXCEPT !.touched = @ \cup {f}] /\ effect
  <2>1. Fields(crawl.at, crawl.todo \ {f}, crawl.text, crawl.found,
               crawl.disturbed \cup {}, crawl.touched \cup {f})
    BY <1>1, <1>2 DEF Fields, CrawlState
  <2>2. {f} \in SUBSET {f} /\ {} \in SUBSET {f}
    OBVIOUS
  <2> QED
    BY <1>2, <2>1, <2>2
<1>3. CASE crawl' = [d EXCEPT !.disturbed = @ \cup {f}] /\ entry' = entry /\ debt' = debt
  <2>1. Fields(crawl.at, crawl.todo \ {f}, crawl.text, crawl.found,
               crawl.disturbed \cup {f}, crawl.touched \cup {})
    BY <1>1, <1>3 DEF Fields, CrawlState
  <2>2. {f} \in SUBSET {f} /\ {} \in SUBSET {f}
    OBVIOUS
  <2> QED
    BY <1>3, <2>1, <2>2
<1> QED
  BY <1>2, <1>3 DEF Save, SaveDebt, d

LEMMA EditFields ==
    ASSUME Typed, NEW f \in Files, Edit(f) \/ CollectEntries(f)
    PROVE  Fields(crawl.at, crawl.todo, crawl.text, crawl.found,
                  IF f \in crawl.inventory THEN crawl.disturbed \cup {f} ELSE crawl.disturbed,
                  crawl.touched)
BY DEF Fields, Edit, CollectEntries, Disturbing, Typed, CrawlState

LEMMA RecrawlFields ==
    ASSUME Typed, NEW f \in Files, RecrawlFile(f)
    PROVE  Fields(crawl.at, crawl.todo, crawl.text, crawl.found,
                  IF f \in Missing THEN crawl.disturbed \cup {f} ELSE crawl.disturbed,
                  crawl.touched)
BY DEF Fields, RecrawlFile, Typed, CrawlState

LEMMA ChooseFields ==
    ASSUME Typed, Choose
    PROVE  \E set \in Affected(Changed), retired \in SUBSET {f \in Missing : tree[f] = None} :
             /\ entry' = Without(entry, retired)
             /\ debt' = Without(debt, retired)
             /\ Fields("read", set, crawl.text, crawl.found,
                       crawl.disturbed \cup (Missing \ retired), retired)
<1>1. PICK set \in Affected(Changed), retired \in SUBSET {f \in Missing : tree[f] = None} :
        /\ entry' = Without(entry, retired)
        /\ debt' = Without(debt, retired)
        /\ crawl' = [crawl EXCEPT !.at = "read", !.todo = set, !.touched = retired,
                                  !.disturbed = @ \cup (Missing \ retired)]
  BY DEF Choose
<1>2. Fields("read", set, crawl.text, crawl.found, crawl.disturbed \cup (Missing \ retired), retired)
  BY <1>1 DEF Fields, Typed, CrawlState
<1> QED
  BY <1>1, <1>2

\* The phases that go file by file follow each other when all files are done.
Follows(from, to, todo) == crawl.at = from /\ crawl'.at = to /\ crawl'.todo = todo

LEMMA NextPhaseFields ==
    ASSUME Typed, NextPhase
    PROVE  /\ \/ Follows("read", "look", Analysed) \/ Follows("look", "save", Analysed)
              \/ Follows("save", "debt", WithMarkers) \/ Follows("debt", "clean", {})
           /\ crawl.todo = {}
           /\ Fields(crawl'.at, crawl'.todo, crawl.text, crawl.found, crawl.disturbed, crawl.touched)
<1>1. /\ crawl.at \in DOMAIN Following /\ crawl.todo = {}
      /\ crawl' = [crawl EXCEPT !.at = Following[crawl.at].at, !.todo = Following[crawl.at].todo]
  BY DEF NextPhase
<1>2. Fields(Following[crawl.at].at, Following[crawl.at].todo, crawl.text, crawl.found,
             crawl.disturbed, crawl.touched)
  BY <1>1 DEF Fields, Typed, CrawlState
<1>3. /\ DOMAIN Following = {"read", "look", "save", "debt"}
      /\ Following["read"] = [at |-> "look", todo |-> Analysed]
      /\ Following["look"] = [at |-> "save", todo |-> Analysed]
      /\ Following["save"] = [at |-> "debt", todo |-> WithMarkers]
      /\ Following["debt"] = [at |-> "clean", todo |-> {}]
  BY DEF Following
<1> HIDE DEF Following
<1> QED
  BY <1>1, <1>2, <1>3 DEF Follows, Fields

LEMMA RetireFields ==
    ASSUME Typed, RetireClean
    PROVE  \E retired \in SUBSET {f \in Clean : debt[f] # None} :
             /\ debt' = Without(debt, retired)
             /\ Fields("record", crawl.todo, crawl.text, crawl.found,
                       crawl.disturbed \cup ({f \in Clean : debt[f] # None} \ retired),
                       crawl.touched \cup retired)
<1>1. PICK retired \in SUBSET {f \in Clean : debt[f] # None} :
        /\ debt' = Without(debt, retired)
        /\ crawl' = [crawl EXCEPT !.at = "record", !.touched = @ \cup retired,
                       !.disturbed = @ \cup ({f \in Clean : debt[f] # None} \ retired)]
  BY DEF RetireClean
<1>2. Fields("record", crawl.todo, crawl.text, crawl.found,
             crawl.disturbed \cup ({f \in Clean : debt[f] # None} \ retired),
             crawl.touched \cup retired)
  BY <1>1 DEF Fields, Typed, CrawlState
<1> QED
  BY <1>1, <1>2

-----------------------------------------------------------------------------
(* Phases. *)

\* What happens to one file at a time.
OnFile(f) ==
    \/ Read(f) \/ Skip(f) \/ LookDeep(f) \/ LookAgain(f) \/ LookAway(f)
    \/ Save(f) \/ SaveDebt(f)
    \/ Edit(f) \/ RecrawlFile(f) \/ CollectEntries(f)

\* Nothing that bears on g changes.
Spared(g) ==
    /\ crawl'.at = crawl.at /\ crawl'.focused = crawl.focused
    /\ crawl'.prior = crawl.prior /\ crawl'.inventory = crawl.inventory
    /\ g \in crawl'.todo <=> g \in crawl.todo
    /\ crawl'.text[g] = crawl.text[g] /\ crawl'.found[g] = crawl.found[g]
    /\ g \in crawl'.disturbed <=> g \in crawl.disturbed
    /\ g \in crawl'.touched <=> g \in crawl.touched
    /\ tree'[g] = tree[g] /\ entry'[g] = entry[g] /\ debt'[g] = debt[g]
    /\ recorded'[g] = recorded[g]
    /\ g \in slipped' <=> g \in slipped
    /\ g \in unlooked' <=> g \in unlooked

LEMMA OthersAreSpared ==
    ASSUME Typed, NEW f \in Files, OnFile(f), NEW g \in Files, g # f
    PROVE  Spared(g)
<1> USE DEF Spared, Fields
<1>1. crawl.text \in [Files -> Versions \cup {None, Empty}] /\ crawl.found \in [Files -> Marked \cup {None, Empty}]
  BY DEF Typed, CrawlState
<1>2. CASE Read(f) \/ Skip(f) \/ LookDeep(f) \/ LookAgain(f) \/ LookAway(f)
  <2>1. UNCHANGED <<tree, stored, history>>
    BY <1>2 DEF Read, Skip, LookDeep, LookAgain, LookAway
  <2>2. CASE Read(f)
    BY <1>1, <2>1, <2>2, LooksFields DEF TextRead, DisturbedRead, stored, history
  <2>3. CASE LookDeep(f)
    BY <1>1, <2>1, <2>3, LooksFields DEF stored, history
  <2>4. CASE LookAgain(f)
    BY <1>1, <2>1, <2>4, LooksFields DEF stored, history
  <2> QED
    BY <1>2, <2>1, <2>2, <2>3, <2>4, LooksFields DEF stored, history
<1>3. CASE Save(f) \/ SaveDebt(f)
  <2>1. tree' = tree /\ recorded' = recorded /\ slipped' = slipped /\ unlooked' = unlooked
    BY <1>3 DEF Save, SaveDebt, history
  <2> QED
    BY <1>3, <2>1, SavesFields DEF Typed
<1>4. CASE Edit(f)
  <2>1. tree'[g] = tree[g]
    BY <1>4 DEF Edit, Typed
  <2> QED
    BY <1>4, <2>1, EditFields DEF Edit, stored, history
<1>5. CASE RecrawlFile(f)
  BY <1>5, RecrawlFields DEF RecrawlFile, Typed
<1>6. CASE CollectEntries(f)
  BY <1>6, EditFields DEF CollectEntries, Without, Typed
<1> QED
  BY <1>2, <1>3, <1>4, <1>5, <1>6 DEF OnFile

LEMMA OnFileKeepsPhase ==
    ASSUME Typed, PhaseOK, NEW f \in Files, OnFile(f)
    PROVE  PhaseOK'
<1> USE DEF Fields, At, Analysed, WithMarkers
<1>1. crawl.text \in [Files -> Versions \cup {None, Empty}] /\ crawl.found \in [Files -> Marked \cup {None, Empty}]
  BY DEF Typed, CrawlState
<1>2. CASE Read(f)
  <2>1. \E v : v # None /\ crawl'.text = [crawl.text EXCEPT ![f] = v]
    <3>1. crawl'.text = [crawl.text EXCEPT ![f] = IF tree[f] = None THEN Empty ELSE tree[f]]
      BY <1>2, LooksFields DEF TextRead
    <3> QED
      BY <3>1, CrawlAssumption
  <2>2. f \in crawl.todo /\ crawl.at = "read"
    BY <1>2 DEF Read
  <2>3. /\ crawl'.at = crawl.at /\ crawl'.todo = crawl.todo \ {f} /\ crawl'.found = crawl.found
        /\ crawl'.inventory = crawl.inventory
    BY <1>2, LooksFields
  <2> QED
    BY <1>1, <2>1, <2>2, <2>3 DEF PhaseOK
<1>3. CASE LookDeep(f) \/ LookAgain(f)
  <2>1. \E v : crawl'.found = [crawl.found EXCEPT ![f] = v]
    BY <1>3, LooksFields
  <2>2. f \in crawl.todo /\ crawl.at = "look"
    BY <1>3 DEF LookDeep, LookAgain
  <2>3. /\ crawl'.at = crawl.at /\ crawl'.todo = crawl.todo \ {f} /\ crawl'.text = crawl.text
        /\ crawl'.inventory = crawl.inventory
    BY <1>3, LooksFields
  <2> QED
    BY <1>1, <2>1, <2>2, <2>3 DEF PhaseOK
<1>4. CASE Skip(f) \/ LookAway(f)
  BY <1>4, LooksFields DEF PhaseOK
<1>5. CASE Save(f) \/ SaveDebt(f)
  BY <1>5, SavesFields DEF Save, SaveDebt, PhaseOK
<1>6. CASE Edit(f) \/ CollectEntries(f)
  BY <1>6, EditFields DEF PhaseOK
<1>7. CASE RecrawlFile(f)
  BY <1>7, RecrawlFields DEF PhaseOK
<1> QED
  BY <1>2, <1>3, <1>4, <1>5, <1>6, <1>7 DEF OnFile

LEMMA PhaseStep == Typed /\ PhaseOK /\ [Next]_vars => PhaseOK'
<1> SUFFICES ASSUME Typed, PhaseOK, [Next]_vars PROVE PhaseOK'
  OBVIOUS
<1> USE DEF Analysed, WithMarkers
<1>1. ASSUME NEW focused \in BOOLEAN, NEW scope \in SUBSET Files, Begin(focused, scope)
      PROVE  PhaseOK'
  BY <1>1 DEF Begin, Idle, PhaseOK, Nothing
<1>2. CASE Choose
  <2>1. crawl.at = "choose"
    BY <1>2 DEF Choose
  <2> QED
    BY <1>2, <2>1, ChooseFields DEF Fields, PhaseOK, Affected
<1>3. CASE NextPhase
  <2>1. WithMarkers \subseteq Analysed
    BY CrawlAssumption DEF PhaseOK
  <2> QED
    BY <1>3, <2>1, NextPhaseFields DEF Follows, Fields, PhaseOK
<1>4. CASE RetireClean
  <2>1. crawl.at = "clean"
    BY <1>4 DEF RetireClean
  <2> QED
    BY <1>4, <2>1, RetireFields DEF Fields, PhaseOK
<1>5. CASE Record \/ Abandon
  BY <1>5 DEF Record, Abandon, Idle, PhaseOK, Nothing
<1>6. ASSUME NEW f \in Files, OnFile(f) PROVE PhaseOK'
  BY <1>6, OnFileKeepsPhase
<1>7. CASE CollectState \/ UNCHANGED vars
  BY <1>7 DEF CollectState, vars, PhaseOK
<1> QED
  BY <1>1, <1>2, <1>3, <1>4, <1>5, <1>6, <1>7 DEF Next, OnFile

-----------------------------------------------------------------------------
(* What the store and the crawl under way know of each file. *)

MarkerOf(version) == IF version \in Marked THEN version ELSE None

\* The hash accounts for the file's entries: unless something went wrong they describe the
\* text it was made of, and there is a hash where there are entries.
Accounts(hash, f) ==
    Quiet(f) =>
      /\ hash # None => entry[f] = hash
      /\ Known(f) => hash # None
      /\ hash # None /\ f \notin unlooked => debt[f] = MarkerOf(hash)

\* Listed, and so far all went well.
Firm(f) == f \in crawl.inventory \ crawl.disturbed

\* The crawl is done with f in a phase, or is in a later one.
Past(f, phase, later) == (crawl.at = phase /\ f \notin crawl.todo) \/ crawl.at \in later

\* What a crawl found and wrote of a file with which all went well is of the text on disk,
\* and what it wrote of a file that is gone will be known to have gone wrong.
Works(f) ==
    /\ Accounts(crawl.prior[f], f)
    /\ recorded[f] \in {crawl.prior[f], None}
    /\ f \in crawl.touched \ crawl.inventory => f \in Missing /\ (f \in crawl.disturbed \/ ~Known(f))
    /\ f \in crawl.touched \cap crawl.inventory => f \in Analysed
    /\ crawl.at # "choose" /\ f \in Missing => f \in crawl.touched \cup crawl.disturbed
    /\ Firm(f) => tree[f] # None
    /\ Firm(f) /\ f \in Analysed => crawl.text[f] = tree[f]
    /\ Firm(f) /\ f \in Analysed /\ Past(f, "save", {"debt", "clean", "record"})
         => entry[f] = crawl.text[f]
    /\ Firm(f) /\ f \notin Analysed /\ Past(f, "read", {"look", "save", "debt", "clean", "record"})
         => crawl.prior[f] = tree[f]
    /\ Firm(f) /\ crawl.found[f] # None => crawl.found[f] = Verdict(crawl.text[f])
    /\ Firm(f) /\ f \in WithMarkers /\ Past(f, "debt", {"clean", "record"})
         => debt[f] = crawl.found[f]
    /\ Firm(f) /\ f \in Clean /\ crawl.at = "record" => debt[f] = None

FileOK(f) == Accounts(recorded[f], f) /\ (crawl.at # "idle" => Works(f))

LEMMA SparedIsOK == ASSUME Typed, NEW g \in Files, Spared(g), FileOK(g) PROVE FileOK(g)'
BY DEF Spared, FileOK, Accounts, Works, Firm, Past, Quiet, Known, Missing, Analysed, WithMarkers,
       Clean

LEMMA LooksAreOK ==
    ASSUME Typed, PhaseOK, NEW f \in Files, FileOK(f),
           Read(f) \/ Skip(f) \/ LookDeep(f) \/ LookAgain(f) \/ LookAway(f)
    PROVE  FileOK(f)'
<1> USE DEF FileOK, Accounts, Works, Firm, Past, Quiet, Known, Missing, Analysed, WithMarkers, Clean,
            Fields, At
<1>1. /\ crawl.text \in [Files -> Versions \cup {None, Empty}]
      /\ crawl.found \in [Files -> Marked \cup {None, Empty}]
  BY DEF Typed, CrawlState
<1>2. UNCHANGED <<tree, entry, debt, recorded, slipped, unlooked>>
  BY DEF Read, Skip, LookDeep, LookAgain, LookAway, stored, history
<1>3. CASE Read(f)
  <2>1. f \in crawl.todo /\ crawl.at = "read" /\ f \in crawl.inventory /\ crawl.found[f] = None
    BY <1>3 DEF Read, PhaseOK, Nothing
  <2>2. crawl'.text[f] = IF tree[f] = None THEN Empty ELSE tree[f]
    BY <1>1, <1>3, LooksFields DEF TextRead
  <2> QED
    BY <1>2, <1>3, <2>1, <2>2, LooksFields, CrawlAssumption DEF DisturbedRead
<1>4. CASE Skip(f)
  <2>1. crawl.at = "read" /\ f \in crawl.todo
    BY <1>4 DEF Skip
  <2> QED
    BY <1>2, <1>4, <2>1, LooksFields
<1>5. CASE LookDeep(f) \/ LookAgain(f) \/ LookAway(f)
  <2>1. f \in crawl.todo /\ crawl.at = "look" /\ f \in Analysed /\ f \in crawl.inventory
    BY <1>5 DEF LookDeep, LookAgain, LookAway, PhaseOK
  <2>2. /\ crawl'.at = crawl.at /\ crawl'.todo = crawl.todo \ {f} /\ crawl'.text = crawl.text
        /\ crawl'.disturbed = crawl.disturbed /\ crawl'.touched = crawl.touched
        /\ crawl'.focused = crawl.focused /\ crawl'.prior = crawl.prior
        /\ crawl'.inventory = crawl.inventory
    BY <1>5, LooksFields
  <2>3. \/ crawl'.found[f] = crawl.found[f]
        \/ tree[f] # None /\ crawl'.found[f] = Verdict(tree[f])
        \/ crawl'.found[f] = Verdict(crawl.text[f])
        \/ crawl'.found[f] = None
    BY <1>1, <1>5, LooksFields
  <2> QED
    BY <1>2, <2>1, <2>2, <2>3
<1> QED
  BY <1>3, <1>4, <1>5

LEMMA SavesAreOK ==
    ASSUME Typed, PhaseOK, NEW f \in Files, FileOK(f), Save(f) \/ SaveDebt(f)
    PROVE  FileOK(f)'
<1> USE DEF FileOK, Accounts, Works, Firm, Past, Quiet, Known, Missing, Analysed, WithMarkers, Clean,
            Fields, At
<1>1. UNCHANGED <<tree, recorded, slipped, unlooked>>
  BY DEF Save, SaveDebt, history
<1>2. CASE Save(f)
  <2>1. f \in crawl.todo /\ crawl.at = "save" /\ f \in Analysed /\ f \in crawl.inventory
    BY <1>2 DEF Save, PhaseOK
  <2> QED
    BY <1>1, <1>2, <2>1, SavesFields DEF SaveDebt, Typed
<1>3. CASE SaveDebt(f)
  <2>1. f \in crawl.todo /\ crawl.at = "debt" /\ f \in WithMarkers /\ f \in crawl.inventory
        /\ f \in Analysed
    BY <1>3, CrawlAssumption DEF SaveDebt, PhaseOK
  <2> QED
    BY <1>1, <1>3, <2>1, SavesFields DEF Save, Typed
<1> QED
  BY <1>2, <1>3

\* Of an entry that goes, the file's hash accounts no longer.
LEMMA EventsAreOK ==
    ASSUME Typed, PhaseOK, NEW f \in Files, FileOK(f),
           Edit(f) \/ RecrawlFile(f) \/ CollectEntries(f)
    PROVE  FileOK(f)'
<1> USE DEF FileOK, Accounts, Works, Firm, Past, Quiet, Known, Missing, Analysed, WithMarkers, Clean,
            Fields
<1>1. CASE Edit(f)
  <2>1. UNCHANGED <<entry, debt, recorded, slipped, unlooked>>
    BY <1>1 DEF Edit, stored, history
  <2> QED
    BY <1>1, <2>1, EditFields
<1>2. CASE RecrawlFile(f)
  <2>1. UNCHANGED <<tree, debt, recorded, unlooked>>
    BY <1>2 DEF RecrawlFile
  <2>2. /\ tree[f] # None
        /\ entry'[f] = tree[f]
        /\ slipped' = IF recorded[f] = tree[f] THEN slipped ELSE slipped \cup {f}
    BY <1>2 DEF RecrawlFile, Typed
  <2>3. Accounts(recorded[f], f)'
    BY <1>2, <2>1, <2>2, RecrawlFields
  <2>4. f \in Missing' <=> f \in Missing
    BY <1>2, RecrawlFields
  <2>5. ASSUME crawl.at # "idle" PROVE Works(f)'
    <3>1. Accounts(crawl.prior[f], f)'
      BY <1>2, <2>1, <2>2, <2>5, RecrawlFields
    <3>2. f \in (crawl.touched \ crawl.inventory)' => f \in Missing' /\ f \in crawl'.disturbed
      BY <1>2, <2>4, <2>5, RecrawlFields
    <3> QED
      BY <1>2, <2>1, <2>2, <2>4, <2>5, <3>1, <3>2, RecrawlFields
  <2> QED
    BY <1>2, <2>3, <2>5, RecrawlFields
<1>3. CASE CollectEntries(f)
  <2>1. UNCHANGED <<tree, recorded, unlooked>> /\ slipped' = slipped \cup {f}
    BY <1>3 DEF CollectEntries
  <2>2. entry'[f] \in {entry[f], None} /\ debt'[f] \in {debt[f], None}
    BY <1>3 DEF CollectEntries, Without, Typed
  <2> QED
    BY <1>3, <2>1, <2>2, EditFields
<1> QED
  BY <1>1, <1>2, <1>3

LEMMA ChooseIsOK ==
    ASSUME Typed, PhaseOK, Choose, NEW f \in Files, FileOK(f)
    PROVE  FileOK(f)'
<1> USE DEF FileOK, Accounts, Works, Firm, Past, Quiet, Known, Missing, Analysed, WithMarkers, Clean,
            Fields
<1>1. crawl.at = "choose" /\ UNCHANGED <<tree, recorded, slipped, unlooked>>
  BY DEF Choose, history
<1>2. crawl.touched = {} /\ crawl.text[f] = None /\ crawl.found[f] = None
  BY <1>1 DEF PhaseOK, Nothing
<1>3. PICK set \in Affected(Changed), retired \in SUBSET {g \in Missing : tree[g] = None} :
        /\ entry' = Without(entry, retired)
        /\ debt' = Without(debt, retired)
        /\ Fields("read", set, crawl.text, crawl.found,
                  crawl.disturbed \cup (Missing \ retired), retired)
  BY ChooseFields
<1>4. CASE f \in retired
  <2>1. entry'[f] = None /\ debt'[f] = None
    BY <1>3, <1>4 DEF Without
  <2> QED
    BY <1>1, <1>2, <1>3, <1>4, <2>1
<1>5. CASE f \notin retired
  <2>1. entry'[f] = entry[f] /\ debt'[f] = debt[f]
    BY <1>3, <1>5 DEF Without
  <2>2. f \in crawl.inventory /\ f \notin set => crawl.prior[f] = tree[f]
    BY DEF Affected, Changed
  <2> QED
    BY <1>1, <1>2, <1>3, <1>5, <2>1, <2>2
<1> QED
  BY <1>4, <1>5

LEMMA NextPhaseIsOK ==
    ASSUME Typed, PhaseOK, NextPhase, NEW f \in Files, FileOK(f)
    PROVE  FileOK(f)'
<1> USE DEF FileOK, Accounts, Works, Firm, Past, Quiet, Known, Missing, Analysed, WithMarkers, Clean,
            Fields
<1>1. UNCHANGED <<tree, entry, debt, recorded, slipped, unlooked>>
  BY DEF NextPhase, stored, history
<1> QED
  BY <1>1, NextPhaseFields, CrawlAssumption DEF Follows

LEMMA RetireIsOK ==
    ASSUME Typed, PhaseOK, RetireClean, NEW f \in Files, FileOK(f)
    PROVE  FileOK(f)'
<1> USE DEF FileOK, Accounts, Works, Firm, Past, Quiet, Known, Missing, Analysed, WithMarkers, Clean,
            Fields
<1>1. crawl.at = "clean" /\ UNCHANGED <<tree, entry, recorded, slipped, unlooked>>
  BY DEF RetireClean, history
<1>2. PICK retired \in SUBSET {g \in Clean : debt[g] # None} :
        /\ debt' = Without(debt, retired)
        /\ Fields("record", crawl.todo, crawl.text, crawl.found,
                  crawl.disturbed \cup ({g \in Clean : debt[g] # None} \ retired),
                  crawl.touched \cup retired)
  BY RetireFields
<1>3. debt'[f] = IF f \in retired THEN None ELSE debt[f]
  BY <1>2 DEF Without
<1>4. f \in Clean => f \in Analysed /\ f \in crawl.inventory /\ f \notin WithMarkers
  BY CrawlAssumption DEF PhaseOK
<1> QED
  BY <1>1, <1>2, <1>3, <1>4

LEMMA BeginIsOK ==
    ASSUME Typed, PhaseOK, NEW focused \in BOOLEAN, NEW scope \in SUBSET Files, Begin(focused, scope),
           NEW f \in Files, FileOK(f)
    PROVE  FileOK(f)'
<1>1. UNCHANGED <<tree, entry, debt, recorded, slipped, unlooked>> /\ crawl.touched = {}
  BY DEF Begin, stored, history, PhaseOK
<1>2. /\ crawl'.at = "choose" /\ crawl'.prior = recorded /\ crawl'.inventory \subseteq Visible
      /\ crawl'.todo = {} /\ crawl'.text = Nothing /\ crawl'.found = Nothing
      /\ crawl'.disturbed = {} /\ crawl'.touched = {}
  BY DEF Begin, Idle
<1>3. Accounts(recorded[f], f)' /\ Accounts(crawl.prior[f], f)'
  BY <1>1, <1>2 DEF FileOK, Accounts, Quiet, Known
<1> QED
  BY <1>1, <1>2, <1>3, CrawlAssumption
     DEF FileOK, Works, Firm, Past, Visible, Analysed, WithMarkers, Clean, Nothing

\* What a crawl that ends makes the hash of f accounts for what it left of f.
LEMMA RecordIsOK ==
    ASSUME Typed, PhaseOK, Record, NEW f \in Files, FileOK(f)
    PROVE  FileOK(f)'
<1> USE DEF FileOK, Works, Firm, Past, Analysed, WithMarkers, Clean, Accounts, Quiet, Known
<1>1. /\ crawl.at = "record" /\ UNCHANGED <<tree, entry, debt>>
      /\ recorded'[f] = Persisted(f)
      /\ slipped' = (slipped \ crawl.touched) \cup crawl.disturbed
      /\ unlooked' = (unlooked \ Analysed) \cup {g \in Analysed : crawl.found[g] = None}
      /\ crawl'.at = "idle" /\ crawl'.touched = {}
  BY DEF Record, Idle
<1>2. ASSUME Quiet(f)', f \in crawl.inventory PROVE Accounts(recorded[f], f)'
  <2>1. Firm(f) /\ recorded'[f] = tree[f] /\ tree[f] # None
    BY <1>1, <1>2 DEF Persisted
  <2>2. CASE f \in Analysed
    <3>1. entry[f] = tree[f] /\ crawl.text[f] = tree[f]
      BY <1>1, <2>1, <2>2
    <3>2. f \notin unlooked' => crawl.found[f] # None
      BY <1>1, <2>2
    <3>3. crawl.found[f] # None => debt[f] = MarkerOf(tree[f])
      BY <1>1, <2>1, <3>1, CrawlAssumption DEF Verdict, MarkerOf, Typed, CrawlState
    <3> QED
      BY <1>1, <2>1, <3>1, <3>2, <3>3
  <2>3. CASE f \notin Analysed
    <3>1. crawl.prior[f] = tree[f] /\ f \notin crawl.touched
      BY <1>1, <1>2, <2>1, <2>3
    <3>2. Quiet(f) /\ (f \in unlooked' <=> f \in unlooked)
      BY <1>1, <1>2, <2>3, <3>1
    <3> QED
      BY <1>1, <2>1, <3>1, <3>2
  <2> QED
    BY <2>2, <2>3
<1>3. ASSUME Quiet(f)', f \notin crawl.inventory PROVE Accounts(recorded[f], f)'
  <2>1. f \notin Analysed /\ (f \in unlooked' <=> f \in unlooked)
    BY <1>1, <1>3 DEF PhaseOK
  <2>2. CASE crawl.focused
    <3>1. recorded'[f] = crawl.prior[f] /\ f \notin crawl.touched
      BY <1>1, <1>3, <2>2 DEF Persisted, Carried, Missing
    <3> QED
      BY <1>1, <1>3, <2>1, <3>1
  <2>3. CASE ~crawl.focused
    <3>1. recorded'[f] = None
      BY <1>1, <1>3, <2>3 DEF Persisted, Carried
    <3>2. ~Known(f)
      BY <1>1, <1>3, <2>3 DEF Missing
    <3> QED
      BY <1>1, <3>1, <3>2
  <2> QED
    BY <2>2, <2>3, crawl.focused \in BOOLEAN DEF Typed, CrawlState
<1> QED
  BY <1>1, <1>2, <1>3

LEMMA EndIsOK ==
    ASSUME Typed, PhaseOK, Abandon \/ CollectState, NEW f \in Files, FileOK(f)
    PROVE  FileOK(f)'
<1>1. CASE Abandon
  <2>1. /\ UNCHANGED <<entry, debt, recorded, unlooked>> /\ slipped' = slipped \cup crawl.touched
        /\ crawl'.at = "idle" /\ crawl'.touched = {}
    BY <1>1 DEF Abandon, Idle, stored
  <2> QED
    BY <2>1 DEF FileOK, Accounts, Quiet, Known
<1>2. CASE CollectState
  <2>1. /\ UNCHANGED <<tree, entry, debt, unlooked, crawl>> /\ recorded'[f] = None
        /\ slipped' = slipped \cup {g \in Files : Known(g)}
    BY <1>2 DEF CollectState, Nothing
  <2>2. Accounts(recorded[f], f)'
    BY <2>1 DEF Accounts, Quiet, Known
  <2>3. crawl.at # "idle" => Works(f)'
    BY <2>1 DEF FileOK, Works, Accounts, Quiet, Known, Firm, Past, Missing, Analysed, WithMarkers, Clean
  <2> QED
    BY <2>1, <2>2, <2>3 DEF FileOK
<1> QED
  BY <1>1, <1>2

-----------------------------------------------------------------------------
(* The theorems. *)

CrawlInv == Typed /\ PhaseOK /\ \A f \in Files : FileOK(f)

LEMMA InitCrawlInv == Init => CrawlInv
<1> SUFFICES ASSUME Init PROVE CrawlInv
  OBVIOUS
<1>1. PhaseOK
  BY DEF Init, PhaseOK, Idle, Nothing, Analysed, WithMarkers
<1>2. \A f \in Files : FileOK(f)
  BY DEF Init, Idle, Nothing, FileOK, Accounts, Known
<1> QED
  BY InitTyped, <1>1, <1>2 DEF CrawlInv

LEMMA CrawlInvStep == CrawlInv /\ [Next]_vars => CrawlInv'
<1> SUFFICES ASSUME CrawlInv, [Next]_vars, NEW f \in Files PROVE FileOK(f)'
  BY TypedStep, PhaseStep DEF CrawlInv
<1>1. Typed /\ PhaseOK /\ FileOK(f)
  BY DEF CrawlInv
<1>2. ASSUME NEW g \in Files, OnFile(g) PROVE FileOK(f)'
  <2>1. CASE g # f
    BY <1>1, <1>2, <2>1, OthersAreSpared, SparedIsOK
  <2>2. CASE g = f
    BY <1>1, <1>2, <2>2, LooksAreOK, SavesAreOK, EventsAreOK DEF OnFile
  <2> QED
    BY <2>1, <2>2
<1>3. ASSUME NEW focused \in BOOLEAN, NEW scope \in SUBSET Files, Begin(focused, scope)
      PROVE  FileOK(f)'
  BY <1>1, <1>3, BeginIsOK
<1>4. CASE UNCHANGED vars
  BY <1>1, <1>4
     DEF vars, stored, history, FileOK, Accounts, Works, Firm, Past, Quiet, Known, Missing, Analysed,
         WithMarkers, Clean
<1> QED
  BY <1>1, <1>2, <1>3, <1>4, ChooseIsOK, NextPhaseIsOK, RetireIsOK, RecordIsOK, EndIsOK
     DEF Next, OnFile

LEMMA CrawlInvHolds == Spec => []CrawlInv
BY InitCrawlInv, CrawlInvStep, PTL DEF Spec

\* A crawl is where the code can be: it analyses only what its scan listed, whatever it is
\* interrupted by.
THEOREM TypeCorrectness == Spec => []TypeOK
<1>1. CrawlInv => TypeOK
  BY DEF CrawlInv, Typed, CrawlState, PhaseOK, TypeOK
<1> QED
  BY <1>1, CrawlInvHolds, PTL

\* A file that later crawls pass over has an entry that describes it as it is.
THEOREM WhatIsPassedOverIsCurrent == Spec => []EntriesAreCurrent
<1>1. CrawlInv => EntriesAreCurrent
  BY DEF CrawlInv, FileOK, Accounts, Settled, EntriesAreCurrent
<1> QED
  BY <1>1, CrawlInvHolds, PTL

\* Its tech-debt entry is about its present text, or absent if that has no marker.
THEOREM DebtFollowsTheText == Spec => []DebtIsCurrent
<1>1. CrawlInv => DebtIsCurrent
  BY DEF CrawlInv, FileOK, Accounts, Settled, MarkerOf, DebtIsCurrent
<1> QED
  BY <1>1, CrawlInvHolds, PTL

\* The entries of a file that is gone are still to be found by its hash.
THEOREM WhatIsGoneCanBeFound == Spec => []NoOrphans
<1>1. CrawlInv => NoOrphans
  BY DEF CrawlInv, FileOK, Accounts, NoOrphans
<1> QED
  BY <1>1, CrawlInvHolds, PTL

=============================================================================
