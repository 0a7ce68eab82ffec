-------------------------- MODULE EntryStoreProofs --------------------------
(***************************************************************************)
(* Proofs about EntryStore, for any contents, topics, processes and        *)
(* bounds.                                                                 *)
(***************************************************************************)
EXTENDS EntryStore, SequenceTheorems, FiniteSetTheorems, WellFoundedInduction, TLAPS

-----------------------------------------------------------------------------
(* Type correctness. *)

Row == [content: Contents, topic: Topics \cup {None}, state: {"live", "dead"},
        uses: 0..MaxUses, verified: BOOLEAN] \cup {Gone}

\* The statements a save still has to make, before its INSERT.
Agendas == {Order, <<"lookup">>, <<>>, <<"bump">>}

SaverState == [todo: Agendas, content: Contents, topic: Topics \cup {None}, old: SUBSET Nat,
               late: BOOLEAN] \cup {Idle}

CleanerState == [losers: SUBSET Nat, alone: BOOLEAN]

Typed ==
    /\ rows \in Seq(Row)
    /\ saver \in [Savers -> SaverState]
    /\ cleaner \in [Cleaners -> CleanerState]
    /\ \A s \in Savers : saver[s].old \subseteq Ids /\ \E i : saver[s].old \subseteq {i}
    /\ \A d \in Cleaners : cleaner[d].losers \subseteq Ids
    /\ sweep \subseteq Ids
    /\ kept \subseteq Contents \cup Topics
    /\ raced \subseteq Contents \cup Topics

LEMMA AgendaFacts ==
    /\ Order # <<>> /\ Order # <<"lookup">> /\ Order # <<"bump">>
    /\ <<"lookup">> # <<>> /\ <<"bump">> # <<>> /\ <<"lookup">> # <<"bump">>
    /\ Head(Order) = "guard" /\ Tail(Order) = <<"lookup">>
    /\ Head(<<"lookup">>) = "lookup" /\ Tail(<<"lookup">>) = <<>> /\ Head(<<"bump">>) = "bump"
BY DEF Order

\* Where a save stands, by the statement it makes.
LEMMA WhereReady ==
    ASSUME Typed, NEW s \in Savers
    PROVE  /\ Ready(s, "guard") => saver[s].todo = Order /\ Saving(s)
           /\ Ready(s, "lookup") => saver[s].todo = <<"lookup">> /\ Saving(s)
<1>1. saver[s].todo \in Agendas \/ saver[s] = Idle
  BY DEF Typed, SaverState
<1> QED
  BY <1>1, AgendaFacts DEF Ready, Agendas, Idle, Saving

LEMMA SavingIsActive ==
    ASSUME Typed, NEW s \in Savers
    PROVE  Saving(s) <=> saver[s].content \in Contents
BY StoreAssumption DEF Typed, SaverState, Saving, Idle

LEMMA RowsFacts ==
    ASSUME Typed
    PROVE  /\ Len(rows) \in Nat /\ Ids = 1..Len(rows) /\ rows \in [Ids -> Row] /\ Ids \subseteq Nat
           /\ \A i \in Ids : Live(i) => rows[i].content \in Contents /\ rows[i].topic \in Topics \cup {None}
<1>1. Len(rows) \in Nat /\ Ids = 1..Len(rows) /\ rows \in [Ids -> Row]
  BY LenProperties DEF Typed, Ids
<1>2. \A r \in Row : r.state = "live" => r.content \in Contents /\ r.topic \in Topics \cup {None}
  BY DEF Row, Gone
<1> QED
  BY <1>1, <1>2 DEF Live

LEMMA DeletedFacts ==
    ASSUME Typed, NEW S
    PROVE  /\ Deleted(S) \in Seq(Row) /\ DOMAIN Deleted(S) = Ids
           /\ \A i \in Ids : Deleted(S)[i] = IF i \in S /\ Live(i) THEN [rows[i] EXCEPT !.state = "dead"]
                                             ELSE rows[i]
<1>1. \A i \in Ids : Deleted(S)[i] \in Row
  BY RowsFacts DEF Deleted, Row, Live, Gone
<1>2. Deleted(S) \in [1..Len(rows) -> Row]
  BY <1>1, RowsFacts DEF Deleted
<1>3. Deleted(S) \in Seq(Row)
  BY <1>2, RowsFacts, SeqDef
<1> QED
  BY <1>3 DEF Deleted

LEMMA ChangedFacts ==
    ASSUME Typed, NEW id \in Ids, NEW row \in Row
    PROVE  LET changed == [rows EXCEPT ![id] = row]
           IN  /\ changed \in Seq(Row) /\ DOMAIN changed = Ids
               /\ \A i \in Ids : changed[i] = IF i = id THEN row ELSE rows[i]
BY RowsFacts, ExceptSeq DEF Typed, Ids

LEMMA InsertFacts ==
    ASSUME Typed, NEW row \in Row
    PROVE  LET grown == Append(rows, row)
           IN  /\ grown \in Seq(Row) /\ DOMAIN grown = Ids \cup {Len(rows) + 1}
               /\ Len(rows) + 1 \notin Ids /\ Len(grown) = Len(rows) + 1
               /\ grown[Len(rows) + 1] = row
               /\ \A i \in Ids : grown[i] = rows[i]
BY RowsFacts, AppendProperties DEF Typed, Ids

Active == [todo: Agendas, content: Contents, topic: Topics \cup {None}, old: SUBSET Nat,
           late: BOOLEAN]

\* The save goes on.
Moved(s, todo, old, late) ==
    /\ saver' \in [Savers -> SaverState]
    /\ \A o \in Savers \ {s} : saver'[o] = saver[o]
    /\ saver'[s].content = saver[s].content /\ saver'[s].topic = saver[s].topic
    /\ saver'[s].todo = todo /\ saver'[s].old = old /\ saver'[s].late = late

\* The row a save is to supersede, if there is one.
Found(s) == IF saver[s].topic = None THEN {} ELSE Newest(saver[s].topic)

LEMMA SaverMoves ==
    ASSUME Typed, NEW s \in Savers
    PROVE  /\ NoDuplicate(s) => Moved(s, <<"lookup">>, saver[s].old, saver[s].late)
           /\ FindDuplicate(s) => \E id \in Duplicates(s) : Moved(s, <<"bump">>, {id}, saver[s].late)
           /\ Lookup(s) => Moved(s, <<>>, Found(s), saver[s].late)
           /\ Supersede(s) => Moved(s, saver[s].todo, {}, TRUE)
<1>1. /\ saver \in [Savers -> SaverState] /\ Active \subseteq SaverState
      /\ Saving(s) => saver[s] \in Active
  BY DEF Typed, SaverState, Active, Saving
<1>2. /\ \A id \in Duplicates(s) : id \in Nat
      /\ Found(s) \in SUBSET Nat
  BY RowsFacts DEF Duplicates, Copies, Found, Newest, OfTopic
<1>3. NoDuplicate(s) => Moved(s, <<"lookup">>, saver[s].old, saver[s].late)
  <2> SUFFICES ASSUME NoDuplicate(s) PROVE Moved(s, <<"lookup">>, saver[s].old, saver[s].late)
    OBVIOUS
  <2>1. saver[s] \in Active /\ <<"lookup">> \in Agendas
    BY <1>1, WhereReady DEF NoDuplicate, Agendas
  <2>2. saver' = [saver EXCEPT ![s] = [saver[s] EXCEPT !.todo = <<"lookup">>]]
    BY WhereReady, AgendaFacts DEF NoDuplicate
  <2> QED
    BY <1>1, <2>1, <2>2 DEF Moved, Active
<1>4. FindDuplicate(s) => \E id \in Duplicates(s) : Moved(s, <<"bump">>, {id}, saver[s].late)
  <2> SUFFICES ASSUME FindDuplicate(s)
               PROVE  \E id \in Duplicates(s) : Moved(s, <<"bump">>, {id}, saver[s].late)
    OBVIOUS
  <2>1. saver[s] \in Active /\ <<"bump">> \in Agendas
    BY <1>1, WhereReady DEF FindDuplicate, Agendas
  <2>2. PICK id \in Duplicates(s) :
          saver' = [saver EXCEPT ![s] = [saver[s] EXCEPT !.todo = <<"bump">>, !.old = {id}]]
    BY DEF FindDuplicate
  <2>3. Moved(s, <<"bump">>, {id}, saver[s].late)
    BY <1>1, <1>2, <2>1, <2>2 DEF Moved, Active
  <2> QED
    BY <2>3
<1>5. Lookup(s) => Moved(s, <<>>, Found(s), saver[s].late)
  <2> SUFFICES ASSUME Lookup(s) PROVE Moved(s, <<>>, Found(s), saver[s].late)
    OBVIOUS
  <2>1. saver[s] \in Active /\ <<>> \in Agendas
    BY <1>1, WhereReady DEF Lookup, Agendas
  <2>2. saver' = [saver EXCEPT ![s].todo = Tail(@), ![s].old = Found(s)]
    BY DEF Lookup, Found
  <2>3. Tail(saver[s].todo) = <<>>
    BY WhereReady, AgendaFacts DEF Lookup
  <2> QED
    BY <1>1, <1>2, <2>1, <2>2, <2>3 DEF Moved, Active
<1>6. Supersede(s) => Moved(s, saver[s].todo, {}, TRUE)
  <2> SUFFICES ASSUME Supersede(s) PROVE Moved(s, saver[s].todo, {}, TRUE)
    OBVIOUS
  <2>1. saver[s] \in Active
    BY <1>1 DEF Supersede, Saving, Idle
  <2>2. saver' = [saver EXCEPT ![s] = [saver[s] EXCEPT !.old = {}, !.late = TRUE]]
    BY DEF Supersede
  <2> QED
    BY <1>1, <2>1, <2>2 DEF Moved, Active
<1> QED
  BY <1>3, <1>4, <1>5, <1>6

\* Row by row, what a statement does that adds and renames none: some rows die.
Loses(S) ==
    /\ Ids' = Ids
    /\ \A i \in Ids : Live(i)' => /\ Live(i)
                                  /\ rows'[i].content = rows[i].content
                                  /\ rows'[i].topic = rows[i].topic
    /\ \A i \in Ids \ S : Live(i) => Live(i)'

LEMMA RowEffects ==
    ASSUME Typed
    PROVE  /\ UNCHANGED rows => Loses({})
           /\ \A S : rows' = Deleted(S) => /\ rows' \in Seq(Row) /\ Loses(S)
                                           /\ \A i \in Ids : Live(i)' => i \notin S
           /\ \A i \in Ids : Purge(i) \/ Touch(i) \/ MarkVerified(i) => rows' \in Seq(Row) /\ Loses({})
<1>1. UNCHANGED rows => Loses({})
  BY DEF Loses, Ids, Live
<1>2. ASSUME NEW S, rows' = Deleted(S)
      PROVE  rows' \in Seq(Row) /\ Loses(S) /\ \A i \in Ids : Live(i)' => i \notin S
  <2>1. Ids' = Ids
    BY <1>2, DeletedFacts DEF Ids
  <2>2. ASSUME NEW i \in Ids
        PROVE  rows'[i] = IF i \in S /\ Live(i) THEN [rows[i] EXCEPT !.state = "dead"] ELSE rows[i]
    BY <1>2, DeletedFacts
  <2>3. \A i \in Ids : Live(i) => rows[i] \in [content: Contents, topic: Topics \cup {None},
                              state: {"live", "dead"}, uses: 0..MaxUses, verified: BOOLEAN]
    BY RowsFacts DEF Live, Row, Gone
  <2>4. \A i \in Ids : Live(i)' => i \notin S \/ ~Live(i)
    BY <2>2, <2>3 DEF Live
  <2> QED
    BY <1>2, <2>1, <2>2, <2>4, DeletedFacts DEF Loses, Live
<1>3. ASSUME NEW id \in Ids, NEW row \in Row, rows' = [rows EXCEPT ![id] = row],
             row.state = "live" => row.content = rows[id].content /\ row.topic = rows[id].topic,
             row.state = "live" <=> Live(id)
      PROVE  rows' \in Seq(Row) /\ Loses({})
  BY <1>3, ChangedFacts DEF Loses, Ids, Live
<1>4. ASSUME NEW i \in Ids, Purge(i) PROVE rows' \in Seq(Row) /\ Loses({})
  <2>1. rows' = [rows EXCEPT ![i] = Gone] /\ Gone \in Row /\ ~Live(i)
    BY <1>4 DEF Purge, Row, Live
  <2> QED
    BY <1>3, <2>1 DEF Gone
<1>5. ASSUME NEW i \in Ids, Touch(i) \/ MarkVerified(i) PROVE rows' \in Seq(Row) /\ Loses({})
  <2> DEFINE touched == [rows[i] EXCEPT !.uses = @ + 1]
             verified == [rows[i] EXCEPT !.verified = TRUE]
  <2>1. Live(i) /\ rows[i] \in [content: Contents, topic: Topics \cup {None},
                              state: {"live", "dead"}, uses: 0..MaxUses, verified: BOOLEAN]
    BY <1>5, RowsFacts DEF Touch, MarkVerified, Using, Live, Row, Gone
  <2>0. rows[i].uses < MaxUses => rows[i].uses + 1 \in 0..MaxUses
    BY <2>1, StoreAssumption
  <2>2. /\ touched.state = "live" /\ touched.content = rows[i].content /\ touched.topic = rows[i].topic
        /\ rows[i].uses < MaxUses => touched \in Row
        /\ verified.state = "live" /\ verified.content = rows[i].content /\ verified.topic = rows[i].topic
        /\ verified \in Row
    BY <2>0, <2>1 DEF Row, Live
  <2>3. \/ rows' = [rows EXCEPT ![i] = touched] /\ touched \in Row
        \/ rows' = [rows EXCEPT ![i] = verified]
    BY <1>5, <2>2 DEF Touch, MarkVerified, Using
  <2> HIDE DEF touched, verified
  <2> QED
    BY <1>3, <2>1, <2>2, <2>3
<1> QED
  BY <1>1, <1>2, <1>4, <1>5

LEMMA ScrubEffects ==
    ASSUME Typed, NEW id \in Ids, Scrub(id)
    PROVE  /\ rows' \in Seq(Row) /\ Ids' = Ids
           /\ \A i \in Ids : /\ Live(i)' <=> Live(i)
                             /\ rows'[i].topic = rows[i].topic
                             /\ rows'[i].content = IF i = id THEN Redacted[rows[i].content]
                                                   ELSE rows[i].content
           /\ rows[id].content \in Contents /\ Redacted[rows[id].content] \in Contents
<1> DEFINE row == [rows[id] EXCEPT !.content = Redacted[rows[id].content]]
<1>1. rows[id] \in [content: Contents, topic: Topics \cup {None},
                    state: {"live", "dead"}, uses: 0..MaxUses, verified: BOOLEAN]
  BY RowsFacts DEF Scrub, Row, Gone
<1>2. Redacted[rows[id].content] \in Contents
  BY <1>1, StoreAssumption
<1>3. row \in Row /\ row.state = rows[id].state /\ row.topic = rows[id].topic
      /\ row.content = Redacted[rows[id].content]
  BY <1>1, <1>2 DEF Row
<1>4. rows' = [rows EXCEPT ![id] = row]
  BY DEF Scrub
<1> HIDE DEF row
<1> QED
  BY <1>1, <1>2, <1>3, <1>4, ChangedFacts DEF Ids, Live

LEMMA StartFields ==
    ASSUME Typed, NEW s \in Savers, NEW c \in Contents, NEW t \in Topics \cup {None}, StartSave(s, c, t)
    PROVE  /\ saver' \in [Savers -> SaverState]
           /\ \A o \in Savers \ {s} : saver'[o] = saver[o]
           /\ saver'[s].content = c /\ saver'[s].topic = t
           /\ saver'[s].todo = Order /\ saver'[s].old = {} /\ saver'[s].late = FALSE
<1> DEFINE start == [Idle EXCEPT !.todo = Order, !.content = c, !.topic = t]
<1>1. start \in Active
  BY DEF Idle, Active, Agendas
<1>2. /\ start.todo = Order /\ start.content = c /\ start.topic = t
      /\ start.old = {} /\ start.late = FALSE
  BY DEF Idle
<1>3. saver' = [saver EXCEPT ![s] = start]
  BY DEF StartSave
<1> HIDE DEF start
<1> QED
  BY <1>1, <1>2, <1>3 DEF Typed, SaverState, Active

LEMMA InitTyped == Init => Typed
<1> SUFFICES ASSUME Init PROVE Typed
  OBVIOUS
<1>1. \A c \in Contents, t \in Topics \cup {None} :
        Fresh(c, t) \in Row /\ Fresh(c, t).content = c /\ Fresh(c, t).topic = t
  BY StoreAssumption DEF Fresh, Row
<1>2. rows \in [1..Legacy -> Row] /\ Legacy \in Nat
  BY <1>1, StoreAssumption DEF Init
<1>3. rows \in Seq(Row)
  BY <1>2, SeqDef
<1>4. saver \in [Savers -> SaverState] /\ cleaner \in [Cleaners -> CleanerState]
  BY DEF Init, SaverState, CleanerState, Resting
<1>5. kept \subseteq Contents \cup Topics
  BY <1>1, <1>2 DEF Init, Ids
<1> QED
  BY <1>3, <1>4, <1>5 DEF Init, Typed, Idle, Resting

LEMMA SaveStepTyped ==
    ASSUME Typed, NEW s \in Savers, SaveStep(s)
    PROVE  Typed'
<1>1. CASE \E c \in Contents, t \in Topics \cup {None} : StartSave(s, c, t)
  <2>1. PICK c \in Contents, t \in Topics \cup {None} : StartSave(s, c, t)
    BY <1>1
  <2>2. raced' \subseteq Contents \cup Topics
    <3> DEFINE others == UNION {{saver[o].content, saver[o].topic} : o \in Savers \ {s}}
    <3>2. Shared(s, c, t) = others \cap ({c, t} \ {None})
      BY DEF Shared
    <3> HIDE DEF others
    <3>1. Shared(s, c, t) \subseteq {c, t} \ {None}
      BY <3>2
    <3> QED
      BY <2>1, <3>1 DEF StartSave, Typed
  <2> QED
    BY <2>1, <2>2, StartFields DEF StartSave, Typed, Ids
<1>2. CASE NoDuplicate(s)
  BY <1>2, SaverMoves DEF NoDuplicate, history, Typed, Ids, Moved
<1>3. CASE FindDuplicate(s)
  <2>1. PICK id \in Duplicates(s) : Moved(s, <<"bump">>, {id}, saver[s].late)
    BY <1>3, SaverMoves
  <2>2. id \in Ids
    BY DEF Duplicates, Copies
  <2> QED
    BY <1>3, <2>1, <2>2 DEF FindDuplicate, history, Typed, Ids, Moved
<1>4. CASE BumpDuplicate(s)
  <2>1. kept' \subseteq Contents \cup Topics
    BY <1>4, RowsFacts DEF BumpDuplicate, Typed
  <2>2. saver' = [saver EXCEPT ![s] = Idle] /\ Idle \in SaverState /\ Idle.old = {}
    BY <1>4 DEF BumpDuplicate, SaverState, Idle
  <2> QED
    BY <1>4, <2>1, <2>2 DEF BumpDuplicate, Typed, Ids
<1>5. CASE Lookup(s)
  <2>1. Moved(s, <<>>, Found(s), saver[s].late)
    BY <1>5, SaverMoves
  <2>2. Found(s) \subseteq Ids
    BY DEF Found, Newest, OfTopic
  <2>3. \E i : Found(s) \subseteq {i}
    <3>1. CASE Found(s) = {}
      BY <3>1
    <3>2. CASE Found(s) # {}
      <4>1. PICK i \in Found(s) : TRUE
        BY <3>2
      <4>2. \A j \in Found(s) : j <= i /\ i <= j /\ i \in Nat /\ j \in Nat
        BY <2>2, RowsFacts DEF Found, Newest
      <4> QED
        BY <4>2
    <3> QED
      BY <3>1, <3>2
  <2> QED
    BY <1>5, <2>1, <2>2, <2>3 DEF Lookup, history, Typed, Ids, Moved
<1>6. CASE Supersede(s)
  <2>1. Moved(s, saver[s].todo, {}, TRUE)
    BY <1>6, SaverMoves
  <2>2. rows' \in Seq(Row) /\ Ids' = Ids
    BY <1>6, RowEffects DEF Supersede, Loses
  <2> QED
    BY <1>6, <2>1, <2>2 DEF Supersede, Typed, Moved
<1>7. CASE Insert(s)
  <2> DEFINE row == Fresh(saver[s].content, saver[s].topic)
  <2>1. saver[s].content \in Contents /\ saver[s].topic \in Topics \cup {None}
    BY <1>7 DEF Insert, Saving, Typed, SaverState
  <2>2. row \in Row /\ row.content = saver[s].content /\ row.topic = saver[s].topic
    BY <2>1, StoreAssumption DEF Row, Fresh
  <2>3. rows' = Append(rows, row)
    BY <1>7 DEF Insert
  <2> HIDE DEF row
  <2>4. rows' \in Seq(Row) /\ Ids \subseteq Ids'
    BY <2>2, <2>3, InsertFacts DEF Ids
  <2>5. kept' \subseteq Contents \cup Topics
    BY <1>7, <2>1, <2>2 DEF Insert, Typed, row
  <2>6. saver' = [saver EXCEPT ![s] = Idle] /\ Idle \in SaverState /\ Idle.old = {}
    BY <1>7 DEF Insert, SaverState, Idle
  <2> QED
    BY <1>7, <2>4, <2>5, <2>6 DEF Insert, Typed
<1>8. CASE AbandonSave(s)
  <2>1. saver' = [saver EXCEPT ![s] = Idle] /\ Idle \in SaverState /\ Idle.old = {}
    BY <1>8 DEF AbandonSave, SaverState, Idle
  <2>2. kept' \subseteq Contents \cup Topics
    BY <1>8 DEF AbandonSave, Typed
  <2> QED
    BY <1>8, <2>1, <2>2 DEF AbandonSave, Typed, Ids
<1> QED
  BY <1>1, <1>2, <1>3, <1>4, <1>5, <1>6, <1>7, <1>8 DEF SaveStep

\* The steps of others.
OtherStep ==
    \/ \E d \in Cleaners : ListClusters(d) \/ RetireLoser(d) \/ AbandonDedup(d)
    \/ ListUnused \/ Sweep
    \/ \E id \in Ids : Purge(id) \/ Touch(id) \/ MarkVerified(id) \/ Deprecate(id) \/ Scrub(id)

LEMMA OtherStepTyped ==
    ASSUME Typed, OtherStep
    PROVE  Typed'
<1>1. ASSUME NEW d \in Cleaners, ListClusters(d) PROVE Typed'
  <2>1. Losers \subseteq Ids /\ Losers \subseteq Nat
    BY RowsFacts DEF Losers, Members, Copies
  <2>2. \A e \in Cleaners : cleaner'[e].losers \in {cleaner[e].losers, Losers}
                            /\ cleaner'[e] \in CleanerState
    BY <1>1, <2>1 DEF ListClusters, CleanerState, Typed
  <2>3. cleaner' \in [Cleaners -> CleanerState]
    BY <1>1, <2>2 DEF ListClusters
  <2> QED
    BY <1>1, <2>1, <2>2, <2>3 DEF ListClusters, Typed, Ids, history
<1>2. ASSUME NEW d \in Cleaners, RetireLoser(d) PROVE Typed'
  <2>1. PICK id \in cleaner[d].losers :
          /\ rows' = Deleted({id})
          /\ kept' = kept \ (IF cleaner[d].alone THEN {rows[id].topic} ELSE Taken({id}))
          /\ cleaner' = [cleaner EXCEPT ![d] =
               IF @.losers = {id} THEN Resting
               ELSE [losers |-> @.losers \ {id}, alone |-> @.alone]]
    BY <1>2 DEF RetireLoser
  <2>2. rows' \in Seq(Row) /\ Ids' = Ids
    BY <2>1, RowEffects DEF Loses
  <2>3. /\ cleaner' \in [Cleaners -> CleanerState]
        /\ \A e \in Cleaners : cleaner'[e].losers \subseteq cleaner[e].losers
    BY <2>1 DEF Typed, CleanerState, Resting
  <2> QED
    BY <1>2, <2>1, <2>2, <2>3 DEF RetireLoser, Typed
<1>3. ASSUME NEW d \in Cleaners, AbandonDedup(d) PROVE Typed'
  BY <1>3 DEF AbandonDedup, Typed, Ids, history, CleanerState, Resting
<1>4. CASE ListUnused
  BY <1>4 DEF ListUnused, Unused, Typed, Ids, history
<1>5. CASE Sweep
  <2>1. rows' \in Seq(Row) /\ Ids' = Ids
    BY <1>5, RowEffects DEF Sweep, Loses
  <2> QED
    BY <1>5, <2>1 DEF Sweep, Typed
<1>6. ASSUME NEW id \in Ids, Purge(id) \/ Touch(id) \/ MarkVerified(id) PROVE Typed'
  <2>1. rows' \in Seq(Row) /\ Ids' = Ids
    BY <1>6, RowEffects DEF Loses
  <2> QED
    BY <1>6, <2>1 DEF Purge, Touch, MarkVerified, Using, history, Typed
<1>7. ASSUME NEW id \in Ids, Deprecate(id) PROVE Typed'
  <2>1. rows' \in Seq(Row) /\ Ids' = Ids
    BY <1>7, RowEffects DEF Deprecate, Loses
  <2> QED
    BY <1>7, <2>1 DEF Deprecate, Typed
<1>8. ASSUME NEW id \in Ids, Scrub(id) PROVE Typed'
  <2>1. rows' \in Seq(Row) /\ Ids' = Ids /\ Redacted[rows[id].content] \in Contents
    BY <1>8, ScrubEffects
  <2>2. kept' \subseteq Contents \cup Topics /\ raced' \subseteq Contents \cup Topics
    BY <1>8, <2>1 DEF Scrub, Typed
  <2>3. /\ cleaner' \in [Cleaners -> CleanerState]
        /\ \A e \in Cleaners : cleaner'[e].losers = cleaner[e].losers
    BY <1>8 DEF Scrub, Typed, CleanerState
  <2> QED
    BY <1>8, <2>1, <2>2, <2>3 DEF Scrub, Typed
<1> QED
  BY <1>1, <1>2, <1>3, <1>4, <1>5, <1>6, <1>7, <1>8 DEF OtherStep

LEMMA TypedStep == Typed /\ [Next]_vars => Typed'
<1> SUFFICES ASSUME Typed, [Next]_vars PROVE Typed'
  OBVIOUS
<1>1. CASE UNCHANGED vars
  BY <1>1 DEF vars, history, Typed, Ids
<1> QED
  BY <1>1, SaveStepTyped, OtherStepTyped DEF Next, OtherStep

-----------------------------------------------------------------------------
(* The bound on the rows: each save under way may still insert one. *)

Busy == {s \in Savers : Saving(s)}

Room == Len(rows) + Cardinality(Busy) <= MaxRows + Cardinality(Savers)

LEMMA BusyFacts ==
    /\ IsFiniteSet(Savers) /\ Cardinality(Savers) \in Nat
    /\ \A S \in SUBSET Savers : IsFiniteSet(S) /\ Cardinality(S) \in Nat
                                /\ Cardinality(S) <= Cardinality(Savers)
BY StoreAssumption, FS_Subset, FS_CardinalityType

LEMMA SameLength ==
    ASSUME Typed, Typed', Ids' = Ids
    PROVE  Len(rows') = Len(rows)
<1>1. Len(rows) \in Nat /\ Ids = 1..Len(rows)
  BY RowsFacts
<1>2. Len(rows') \in Nat /\ Ids' = 1..Len(rows')
  BY LenProperties DEF Typed, Ids
<1> QED
  BY <1>1, <1>2

LEMMA InitRoom == Init => Room
<1> SUFFICES ASSUME Init PROVE Room
  OBVIOUS
<1>1. Len(rows) = Legacy
  <2>1. Typed
    BY InitTyped
  <2>2. Ids = 1..Legacy /\ Legacy \in Nat
    BY StoreAssumption DEF Init, Ids
  <2> QED
    BY <2>1, <2>2, RowsFacts
<1>2. Busy = {}
  BY DEF Init, Busy, Saving
<1> QED
  BY <1>1, <1>2, BusyFacts, FS_EmptySet, StoreAssumption DEF Room

\* No row comes and no save starts.
LEMMA QuietRoom ==
    ASSUME Typed, Room, Typed', Ids' = Ids, Busy' \subseteq Busy
    PROVE  Room'
<1>1. Len(rows') = Len(rows) /\ Len(rows) \in Nat
  BY SameLength, RowsFacts
<1>2. IsFiniteSet(Busy) /\ Cardinality(Busy) \in Nat
  BY BusyFacts DEF Busy
<1>3. Cardinality(Busy') <= Cardinality(Busy) /\ Cardinality(Busy') \in Nat
  BY <1>2, FS_Subset, FS_CardinalityType
<1> QED
  BY <1>1, <1>2, <1>3, BusyFacts, StoreAssumption DEF Room

LEMMA SaveStepRoom ==
    ASSUME Typed, Room, Typed', NEW s \in Savers, SaveStep(s)
    PROVE  Room'
<1>0. Len(rows) \in Nat /\ MaxRows \in Nat
  BY RowsFacts, StoreAssumption
<1>1. ASSUME NEW c \in Contents, NEW t \in Topics \cup {None}, StartSave(s, c, t) PROVE Room'
  <2>1. Len(rows') = Len(rows) /\ Len(rows) < MaxRows
    BY <1>1 DEF StartSave
  <2>2. Busy' \in SUBSET Savers
    BY DEF Busy
  <2> QED
    BY <1>0, <2>1, <2>2, BusyFacts DEF Room
<1>2. ASSUME ~Insert(s), Saving(s), Ids' = Ids, \A o \in Savers \ {s} : saver'[o] = saver[o]
      PROVE  Room'
  <2>1. Busy' \subseteq Busy
    BY <1>2 DEF Busy, Saving
  <2> QED
    BY <1>2, <2>1, QuietRoom
<1>3. CASE Insert(s)
  <2>1. s \in Busy /\ Busy \in SUBSET Savers
    BY <1>3 DEF Insert, Busy
  <2>2. Busy' = Busy \ {s}
    BY <1>3 DEF Insert, Busy, Saving, Typed
  <2>3. Cardinality(Busy') = Cardinality(Busy) - 1 /\ Cardinality(Busy) \in Nat
    BY <2>1, <2>2, BusyFacts, FS_RemoveElement
  <2>4. Len(rows') = Len(rows) + 1
    BY <1>3, AppendProperties DEF Insert, Typed
  <2> QED
    BY <1>0, <2>3, <2>4, BusyFacts DEF Room
<1>4. ASSUME ~Insert(s), NoDuplicate(s) \/ FindDuplicate(s) \/ Lookup(s) PROVE Room'
  <2>1. Saving(s) /\ Ids' = Ids
    BY <1>4, WhereReady DEF NoDuplicate, FindDuplicate, Lookup, Ids, history
  <2>2. \A o \in Savers \ {s} : saver'[o] = saver[o]
    BY <1>4, SaverMoves DEF Moved
  <2> QED
    BY <1>2, <1>4, <2>1, <2>2
<1>5. ASSUME ~Insert(s), Supersede(s) PROVE Room'
  <2>1. Saving(s)
    BY <1>5 DEF Supersede, Saving, Idle
  <2>2. Ids' = Ids
    BY <1>5, RowEffects DEF Supersede, Loses
  <2>3. \A o \in Savers \ {s} : saver'[o] = saver[o]
    BY <1>5, SaverMoves DEF Moved
  <2> QED
    BY <1>2, <1>5, <2>1, <2>2, <2>3
<1>6. ASSUME ~Insert(s), BumpDuplicate(s) \/ AbandonSave(s) PROVE Room'
  <2>1. Ids' = Ids /\ saver' = [saver EXCEPT ![s] = Idle]
    BY <1>6 DEF BumpDuplicate, AbandonSave, Ids
  <2>2. Saving(s)
    BY <1>6, AgendaFacts DEF BumpDuplicate, AbandonSave, Saving, Idle
  <2> QED
    BY <1>2, <1>6, <2>1, <2>2 DEF Typed
<1> QED
  BY <1>1, <1>3, <1>4, <1>5, <1>6 DEF SaveStep

LEMMA OtherStepKeepsSaves ==
    ASSUME Typed, OtherStep
    PROVE  Ids' = Ids /\ saver' = saver
<1>1. \A S : rows' = Deleted(S) => Ids' = Ids
  BY RowEffects DEF Loses
<1>2. ASSUME NEW d \in Cleaners, ListClusters(d) \/ RetireLoser(d) \/ AbandonDedup(d)
      PROVE  Ids' = Ids /\ saver' = saver
  BY <1>1, <1>2 DEF ListClusters, RetireLoser, AbandonDedup, history, Ids
<1>3. CASE ListUnused \/ Sweep
  BY <1>1, <1>3 DEF ListUnused, Sweep, history, Ids
<1>4. ASSUME NEW id \in Ids, Purge(id) \/ Touch(id) \/ MarkVerified(id)
      PROVE  Ids' = Ids /\ saver' = saver
  BY <1>4, RowEffects DEF Loses, Purge, Touch, MarkVerified, Using, history
<1>5. ASSUME NEW id \in Ids, Deprecate(id) PROVE Ids' = Ids /\ saver' = saver
  BY <1>1, <1>5 DEF Deprecate
<1>6. ASSUME NEW id \in Ids, Scrub(id) PROVE Ids' = Ids /\ saver' = saver
  BY <1>6, ScrubEffects DEF Scrub
<1> QED
  BY <1>2, <1>3, <1>4, <1>5, <1>6 DEF OtherStep

LEMMA NextRoom == Typed /\ Room /\ [Next]_vars => Room'
<1> SUFFICES ASSUME Typed, Room, [Next]_vars PROVE Room'
  OBVIOUS
<1>0. Typed'
  BY TypedStep
<1>1. CASE UNCHANGED vars
  BY <1>0, <1>1, QuietRoom DEF vars, history, Ids, Busy, Saving
<1>2. CASE OtherStep
  BY <1>0, <1>2, OtherStepKeepsSaves, QuietRoom DEF Busy, Saving
<1> QED
  BY <1>0, <1>1, <1>2, SaveStepRoom DEF Next, OtherStep

LEMMA TypeFollows == Typed /\ Room => TypeOK
<1> SUFFICES ASSUME Typed, Room PROVE TypeOK
  OBVIOUS
<1>1. \E n \in 0..MaxRows + Cardinality(Savers) : Ids = 1..n
  <2>1. Len(rows) \in Nat /\ Ids = 1..Len(rows) /\ Cardinality(Busy) \in Nat
        /\ MaxRows \in Nat /\ Cardinality(Savers) \in Nat
    BY RowsFacts, BusyFacts, StoreAssumption DEF Busy
  <2>2. Len(rows) \in 0..MaxRows + Cardinality(Savers)
    BY <2>1 DEF Room
  <2> QED
    BY <2>1, <2>2
<1>2. \A id \in Ids :
        /\ rows[id].content \in Contents \/ rows[id] = Gone
        /\ rows[id].topic \in Topics \cup {None}
        /\ rows[id].state \in {"live", "dead", "gone"}
        /\ rows[id].uses \in 0..MaxUses
        /\ rows[id].verified \in BOOLEAN
  <2>1. Gone.topic = None /\ Gone.state = "gone" /\ Gone.uses = 0 /\ Gone.verified = FALSE
    BY DEF Gone
  <2>2. 0 \in 0..MaxUses
    BY StoreAssumption
  <2>3. ASSUME NEW id \in Ids PROVE rows[id] = Gone \/ rows[id] \in
               [content: Contents, topic: Topics \cup {None}, state: {"live", "dead"},
                uses: 0..MaxUses, verified: BOOLEAN]
    BY RowsFacts DEF Row
  <2> QED
    BY <2>1, <2>2, <2>3
<1>3. ASSUME NEW s \in Savers
      PROVE  /\ saver[s].old \subseteq Ids /\ Cardinality(saver[s].old) <= 1
             /\ ~Saving(s) <=> saver[s].content = None
  <2>1. PICK i : saver[s].old \subseteq {i}
    BY DEF Typed
  <2>2. saver[s].old = {} \/ saver[s].old = {i}
    BY <2>1
  <2>3. Cardinality(saver[s].old) <= 1
    <3>1. Cardinality({}) = 0 /\ Cardinality({i}) = 1
      BY FS_EmptySet, FS_Singleton
    <3> QED
      BY <2>2, <3>1
  <2>4. ~Saving(s) <=> saver[s].content = None
    BY StoreAssumption DEF Typed, SaverState, Saving, Idle
  <2> QED
    BY <2>3, <2>4 DEF Typed
<1> QED
  BY <1>1, <1>2, <1>3 DEF TypeOK, Typed

\* TypeOK, of the rows, the saves, the dedups and the sweep.
THEOREM TypeCorrectness == Spec => []TypeOK
<1>1. Init => Typed /\ Room
  BY InitTyped, InitRoom
<1>2. Typed /\ Room /\ [Next]_vars => (Typed /\ Room)'
  BY TypedStep, NextRoom
<1>3. Typed /\ Room => TypeOK
  BY TypeFollows
<1> QED
  BY <1>1, <1>2, <1>3, PTL DEF Spec

-----------------------------------------------------------------------------
(* One live row per content and per topic. *)

\* The row is live and has this content, or is of this topic.
Has(i, c) == Live(i) /\ rows[i].content = c
Is(i, t) == Live(i) /\ rows[i].topic = t

Unique ==
    \A i, j \in Ids : i # j /\ Live(i) /\ Live(j) =>
        /\ rows[i].content = rows[j].content => rows[i].content \in raced
        /\ rows[i].topic = rows[j].topic /\ rows[i].topic # None => rows[i].topic \in raced

\* Two saves are busy with one content or topic only where raced says so.
Apart ==
    \A s, o \in Savers : s # o /\ Saving(s) /\ Saving(o) =>
        /\ saver[s].content = saver[o].content => saver[s].content \in raced
        /\ saver[s].topic = saver[o].topic /\ saver[s].topic # None => saver[s].topic \in raced

\* Once a save has found no duplicate there is none, and once it has looked its topic up
\* no row is of that topic but the one it is to supersede.
Ahead(s) ==
    /\ saver[s].todo \in {<<"lookup">>, <<>>} /\ saver[s].content \notin raced =>
         \A i \in Ids : ~Has(i, saver[s].content)
    /\ saver[s].todo = <<>> /\ saver[s].topic # None /\ saver[s].topic \notin raced =>
         \A i \in Ids : Is(i, saver[s].topic) => i \in saver[s].old

OneInv == Unique /\ Apart /\ \A s \in Savers : Saving(s) => Ahead(s)

LEMMA InitOne == Init => OneInv
<1> SUFFICES ASSUME Init PROVE OneInv
  OBVIOUS
<1> USE DEF Copies, OfTopic
<1>1. Typed
  BY InitTyped
<1>2. \A S \in SUBSET Ids : IsFiniteSet(S)
  <2>1. Ids = 1..Len(rows) /\ Len(rows) \in Int
    BY <1>1, RowsFacts
  <2>2. IsFiniteSet(Ids)
    BY <2>1, FS_Interval
  <2> QED
    BY <2>2, FS_Subset
<1>3. ASSUME NEW S \in SUBSET Ids, NEW i \in S, NEW j \in S, i # j PROVE Cardinality(S) > 1
  <2>1. IsFiniteSet({i}) /\ Cardinality({i}) = 1
    BY FS_Singleton
  <2>2. IsFiniteSet({i} \cup {j}) /\ Cardinality({i} \cup {j}) = 2
    BY <1>3, <2>1, FS_AddElement
  <2>3. {i} \cup {j} \subseteq S
    OBVIOUS
  <2> QED
    BY <1>2, <2>2, <2>3, FS_Subset, FS_CardinalityType
<1>4. ASSUME NEW i \in Ids, NEW j \in Ids, i # j, Live(i), Live(j)
      PROVE  /\ rows[i].content = rows[j].content => rows[i].content \in raced
             /\ rows[i].topic = rows[j].topic /\ rows[i].topic # None => rows[i].topic \in raced
  <2>1. rows[i].content \in Contents /\ rows[i].topic \in Topics \cup {None}
    BY <1>1, <1>4, RowsFacts
  <2>2. /\ rows[i].content = rows[j].content => Cardinality(Copies(rows[i].content)) > 1
        /\ rows[i].topic = rows[j].topic => Cardinality(OfTopic(rows[i].topic)) > 1
    BY <1>3, <1>4
  <2> QED
    BY <2>1, <2>2 DEF Init
<1> QED
  BY <1>4 DEF OneInv, Unique, Apart, Init, Saving

LEMMA OneLiveRowFollows == Typed /\ OneInv => OneLiveRow
<1> SUFFICES ASSUME Typed, OneInv PROVE OneLiveRow
  OBVIOUS
<1>1. ASSUME NEW S, \A i, j \in S : i = j PROVE Cardinality(S) <= 1
  <2>1. CASE S = {}
    BY <2>1, FS_EmptySet
  <2>2. ASSUME NEW i \in S PROVE Cardinality(S) <= 1
    <3>1. S = {i}
      BY <1>1
    <3> QED
      BY <3>1, FS_Singleton
  <2> QED
    BY <2>1, <2>2
<1>2. ASSUME NEW c \in Contents \ raced PROVE Cardinality(Copies(c)) <= 1
  BY <1>1 DEF OneInv, Unique, Copies
<1>3. ASSUME NEW t \in Topics \ raced PROVE Cardinality(OfTopic(t)) <= 1
  BY <1>1, StoreAssumption DEF OneInv, Unique, OfTopic
<1> QED
  BY <1>2, <1>3 DEF OneLiveRow

\* Where rows only die and no save goes on, nothing is lost of it.
LEMMA DyingKeepsOne ==
    ASSUME Typed, OneInv, NEW S, Loses(S), saver' = saver, raced' = raced
    PROVE  OneInv'
<1>1. Unique'
  BY DEF OneInv, Unique, Loses
<1>2. Apart'
  BY DEF OneInv, Apart, Saving
<1>3. \A s \in Savers : Saving(s)' => Ahead(s)'
  BY DEF OneInv, Ahead, Has, Is, Loses, Saving
<1> QED
  BY <1>1, <1>2, <1>3 DEF OneInv

\* One save goes on, and keeps its content and topic, or ends; rows only die.
LEMMA SavingKeepsOne ==
    ASSUME Typed, OneInv, NEW s \in Savers, NEW S, Loses(S), raced' = raced,
           \A o \in Savers \ {s} : saver'[o] = saver[o],
           Saving(s)' => /\ Saving(s)
                         /\ saver'[s].content = saver[s].content
                         /\ saver'[s].topic = saver[s].topic
                         /\ Ahead(s)'
    PROVE  OneInv'
<1>1. Unique'
  BY DEF OneInv, Unique, Loses
<1>2. Apart'
  BY DEF OneInv, Apart, Saving
<1>3. ASSUME NEW o \in Savers, Saving(o)' PROVE Ahead(o)'
  <2>1. CASE o = s
    BY <1>3, <2>1
  <2>2. CASE o # s
    BY <1>3, <2>2 DEF OneInv, Ahead, Has, Is, Loses, Saving
  <2> QED
    BY <2>1, <2>2
<1> QED
  BY <1>1, <1>2, <1>3 DEF OneInv

LEMMA SaveStepOne ==
    ASSUME Typed, OneInv, NEW s \in Savers, SaveStep(s)
    PROVE  OneInv'
<1>0. UNCHANGED rows => Loses({})
  BY RowEffects
<1>1. ASSUME NEW c \in Contents, NEW t \in Topics \cup {None}, StartSave(s, c, t) PROVE OneInv'
  <2>1. /\ \A o \in Savers \ {s} : saver'[o] = saver[o]
        /\ saver'[s].content = c /\ saver'[s].topic = t /\ saver'[s].todo = Order
    BY <1>1, StartFields
  <2>2. raced \subseteq raced' /\ Loses({}) /\ ~Saving(s)
    BY <1>0, <1>1 DEF StartSave
  <2>3. ASSUME NEW o \in Savers \ {s}
        PROVE  /\ saver[o].content = c => c \in raced'
               /\ saver[o].topic = t /\ t # None => t \in raced'
    <3>1. Shared(s, c, t) \subseteq raced' /\ c # None
      BY <1>1, StoreAssumption DEF StartSave
    <3>2. /\ saver[o].content = c => c \in Shared(s, c, t)
          /\ saver[o].topic = t /\ t # None => t \in Shared(s, c, t)
      BY <3>1 DEF Shared
    <3> QED
      BY <3>1, <3>2
  <2>4. Unique'
    BY <2>2 DEF OneInv, Unique, Loses
  <2>5. Apart'
    BY <2>1, <2>2, <2>3 DEF OneInv, Apart, Saving
  <2>6. ASSUME NEW o \in Savers, Saving(o)' PROVE Ahead(o)'
    <3>1. CASE o = s
      BY <2>1, <3>1, AgendaFacts DEF Ahead
    <3>2. CASE o # s
      BY <2>1, <2>2, <2>6, <3>2 DEF OneInv, Ahead, Has, Is, Loses, Saving
    <3> QED
      BY <3>1, <3>2
  <2> QED
    BY <2>4, <2>5, <2>6 DEF OneInv
<1>2. CASE NoDuplicate(s)
  <2>1. Moved(s, <<"lookup">>, saver[s].old, saver[s].late) /\ Saving(s)
    BY <1>2, SaverMoves, WhereReady DEF NoDuplicate
  <2>2. Ahead(s)'
    BY <1>2, <2>1, AgendaFacts DEF NoDuplicate, Duplicates, Copies, Ahead, Has, Live, Ids, Moved
  <2> QED
    BY <1>0, <1>2, <2>1, <2>2, SavingKeepsOne DEF NoDuplicate, history, Moved
<1>3. CASE FindDuplicate(s)
  <2>1. Saving(s)
    BY <1>3, WhereReady DEF FindDuplicate
  <2>2. PICK id \in Duplicates(s) : Moved(s, <<"bump">>, {id}, saver[s].late)
    BY <1>3, SaverMoves
  <2>3. Ahead(s)'
    BY <2>2, AgendaFacts DEF Ahead, Moved
  <2> QED
    BY <1>0, <1>3, <2>1, <2>2, <2>3, SavingKeepsOne DEF FindDuplicate, history, Moved
<1>4. CASE BumpDuplicate(s) \/ AbandonSave(s)
  <2>1. saver' = [saver EXCEPT ![s] = Idle] /\ UNCHANGED <<rows, raced>>
    BY <1>4 DEF BumpDuplicate, AbandonSave
  <2>2. ~Saving(s)' /\ \A o \in Savers \ {s} : saver'[o] = saver[o]
    BY <2>1 DEF Saving, Typed
  <2> QED
    BY <1>0, <2>1, <2>2, SavingKeepsOne
<1>5. CASE Lookup(s)
  <2>1. /\ Moved(s, <<>>, Found(s), saver[s].late) /\ saver[s].todo = <<"lookup">> /\ Saving(s)
        /\ UNCHANGED <<rows, raced>>
    BY <1>5, SaverMoves, WhereReady DEF Lookup, history
  <2>2. ASSUME saver[s].topic # None, saver[s].topic \notin raced,
               NEW i \in Ids, Is(i, saver[s].topic)
        PROVE  i \in Found(s)
    <3>1. \A j \in OfTopic(saver[s].topic) : j = i
      BY <2>2 DEF OneInv, Unique, OfTopic, Is
    <3>2. i \in Nat
      BY RowsFacts
    <3>3. i \in OfTopic(saver[s].topic) /\ i <= i
      BY <2>2, <3>2 DEF OfTopic, Is
    <3>4. i \in Newest(saver[s].topic)
      BY <3>1, <3>3 DEF Newest
    <3> QED
      BY <2>2, <3>4 DEF Found
  <2>3. Ahead(s)'
    <3>1. saver[s].content \notin raced => \A i \in Ids : ~Has(i, saver[s].content)
      BY <2>1 DEF OneInv, Ahead
    <3> QED
      BY <2>1, <2>2, <3>1 DEF Ahead, Has, Is, Live, Ids, Moved
  <2> QED
    BY <1>0, <2>1, <2>3, SavingKeepsOne DEF Moved
<1>6. CASE Supersede(s)
  <2>1. Moved(s, saver[s].todo, {}, TRUE) /\ raced' = raced /\ Saving(s)
    <3>1. Saving(s) /\ raced' = raced
      BY <1>6 DEF Supersede, Saving, Idle
    <3>2. Moved(s, saver[s].todo, {}, TRUE)
      BY <1>6, SaverMoves
    <3> QED
      BY <3>1, <3>2
  <2>2. Loses(saver[s].old) /\ \A i \in Ids : Live(i)' => i \notin saver[s].old
    BY <1>6, RowEffects DEF Supersede
  <2>3. Ahead(s)'
    <3>1. Ahead(s)
      BY <2>1 DEF OneInv
    <3>2. \A i \in Ids' : i \in Ids /\ (Live(i)' => Live(i) /\ i \notin saver[s].old
                              /\ rows'[i].content = rows[i].content /\ rows'[i].topic = rows[i].topic)
      BY <2>2 DEF Loses
    <3> QED
      BY <2>1, <3>1, <3>2 DEF Ahead, Has, Is, Moved
  <2> QED
    BY <2>1, <2>2, <2>3, SavingKeepsOne DEF Moved
<1>7. CASE Insert(s)
  <2> DEFINE row == Fresh(saver[s].content, saver[s].topic)
             n == Len(rows) + 1
  <2>1. saver[s].content \in Contents /\ saver[s].topic \in Topics \cup {None}
    BY <1>7 DEF Insert, Saving, Typed, SaverState
  <2>2. row \in Row /\ row.content = saver[s].content /\ row.topic = saver[s].topic
    BY <2>1, StoreAssumption DEF Row, Fresh
  <2>3. rows' = Append(rows, row) /\ Saving(s) /\ saver[s].todo = <<>> /\ saver[s].old = {}
        /\ raced' = raced
    BY <1>7 DEF Insert
  <2> HIDE DEF row
  <2>4. Ids' = Ids \cup {n} /\ n \notin Ids /\ rows'[n] = row /\ \A i \in Ids : rows'[i] = rows[i]
    BY <2>2, <2>3, InsertFacts DEF Ids
  <2> HIDE DEF n
  <2>5. ASSUME NEW i \in Ids, Live(i)
        PROVE  /\ rows[i].content = saver[s].content => saver[s].content \in raced
               /\ rows[i].topic = saver[s].topic /\ saver[s].topic # None => saver[s].topic \in raced
    BY <2>3, <2>5 DEF OneInv, Ahead, Has, Is
  <2>6. Unique'
    <3>1. ASSUME NEW i \in Ids', NEW j \in Ids', i # j, Live(i)', Live(j)'
          PROVE  /\ rows'[i].content = rows'[j].content => rows'[i].content \in raced
                 /\ rows'[i].topic = rows'[j].topic /\ rows'[i].topic # None => rows'[i].topic \in raced
      <4>1. CASE i \in Ids /\ j \in Ids
        BY <2>4, <3>1, <4>1 DEF OneInv, Unique, Live
      <4>2. CASE i = n /\ j \in Ids
        BY <2>2, <2>4, <2>5, <3>1, <4>2 DEF Live
      <4>3. CASE i \in Ids /\ j = n
        BY <2>2, <2>4, <2>5, <3>1, <4>3 DEF Live
      <4> QED
        BY <2>4, <3>1, <4>1, <4>2, <4>3
    <3> QED
      BY <2>3, <3>1 DEF Unique
  <2>7. ~Saving(s)' /\ \A o \in Savers \ {s} : saver'[o] = saver[o]
    BY <1>7 DEF Insert, Saving, Typed
  <2>8. Apart'
    BY <2>3, <2>7 DEF OneInv, Apart, Saving
  <2>9. ASSUME NEW o \in Savers, Saving(o)' PROVE Ahead(o)'
    <3>1. o # s /\ saver'[o] = saver[o] /\ Saving(o)
      BY <2>7, <2>9 DEF Saving
    <3>2. /\ saver[o].content = saver[s].content => saver[o].content \in raced
          /\ saver[o].topic = saver[s].topic /\ saver[o].topic # None => saver[o].topic \in raced
      BY <2>3, <3>1 DEF OneInv, Apart
    <3>3. Ahead(o)
      BY <3>1 DEF OneInv
    <3> QED
      BY <2>2, <2>3, <2>4, <3>1, <3>2, <3>3 DEF Ahead, Has, Is, Live
  <2> QED
    BY <2>6, <2>8, <2>9 DEF OneInv
<1> QED
  BY <1>1, <1>2, <1>3, <1>4, <1>5, <1>6, <1>7 DEF SaveStep

LEMMA OtherStepOne ==
    ASSUME Typed, OneInv, OtherStep
    PROVE  OneInv'
<1>1. CASE /\ \E S : Loses(S)
           /\ saver' = saver /\ raced' = raced
  BY <1>1, DyingKeepsOne
<1>2. ASSUME NEW id \in Ids, Scrub(id) PROVE OneInv'
  <2> DEFINE c == Redacted[rows[id].content]
  <2>1. /\ Ids' = Ids
        /\ \A i \in Ids : /\ Live(i)' <=> Live(i)
                          /\ rows'[i].topic = rows[i].topic
                          /\ rows'[i].content = IF i = id THEN c ELSE rows[i].content
    BY <1>2, ScrubEffects
  <2>2. raced' = raced \cup {c} /\ saver' = saver
    BY <1>2 DEF Scrub
  <2> HIDE DEF c
  <2>3. Unique'
    BY <2>1, <2>2 DEF OneInv, Unique
  <2>4. Apart'
    BY <2>2 DEF OneInv, Apart, Saving
  <2>5. \A s \in Savers : Saving(s)' => Ahead(s)'
    BY <2>1, <2>2 DEF OneInv, Ahead, Has, Is, Saving
  <2> QED
    BY <2>3, <2>4, <2>5 DEF OneInv
<1>3. (UNCHANGED rows => Loses({})) /\ (\A S : rows' = Deleted(S) => Loses(S))
  BY RowEffects
<1>4. ASSUME NEW d \in Cleaners, ListClusters(d) \/ RetireLoser(d) \/ AbandonDedup(d) PROVE OneInv'
  BY <1>1, <1>3, <1>4 DEF ListClusters, RetireLoser, AbandonDedup, history
<1>5. CASE ListUnused \/ Sweep
  BY <1>1, <1>3, <1>5 DEF ListUnused, Sweep, history
<1>6. ASSUME NEW id \in Ids, Purge(id) \/ Touch(id) \/ MarkVerified(id) PROVE OneInv'
  <2>1. Loses({})
    BY <1>6, RowEffects
  <2> QED
    BY <1>1, <1>6, <2>1 DEF Purge, Touch, MarkVerified, Using, history
<1>7. ASSUME NEW id \in Ids, Deprecate(id) PROVE OneInv'
  BY <1>1, <1>3, <1>7 DEF Deprecate
<1> QED
  BY <1>2, <1>4, <1>5, <1>6, <1>7 DEF OtherStep

LEMMA NextOne == Typed /\ OneInv /\ [Next]_vars => OneInv'
<1> SUFFICES ASSUME Typed, OneInv, [Next]_vars PROVE OneInv'
  OBVIOUS
<1>1. CASE UNCHANGED vars
  BY <1>1, RowEffects, DyingKeepsOne DEF vars, history
<1> QED
  BY <1>1, SaveStepOne, OtherStepOne DEF Next, OtherStep

\* OneLiveRow, of `save`, `runar dedup` and `runar scrub`: two rows share a content or a
\* topic only where raced says why.
THEOREM NoUnexplainedTwins == Spec => []OneLiveRow
<1>1. Init => Typed /\ OneInv
  BY InitTyped, InitOne
<1>2. Typed /\ OneInv /\ [Next]_vars => (Typed /\ OneInv)'
  BY TypedStep, NextOne
<1>3. Typed /\ OneInv => OneLiveRow
  BY OneLiveRowFollows
<1> QED
  BY <1>1, <1>2, <1>3, PTL DEF Spec

-----------------------------------------------------------------------------
(* What was kept is live. *)

ContentsKept == \A c \in Contents \cap kept : \E i \in Ids : Has(i, c)

\* A dedup that is alone has a live row to spare for every content.
DedupSpares(d) ==
    cleaner[d].alone /\ cleaner[d].losers # {} =>
        /\ \A o \in Cleaners \ {d} : cleaner[o].losers = {}
        /\ \A c \in Contents \cap kept : \E i \in Ids \ cleaner[d].losers : Has(i, c)

TopicsKept ==
    \A t \in Topics \cap kept :
        \/ \E i \in Ids : Is(i, t)
        \/ \E s \in Savers : saver[s].topic = t /\ saver[s].late

\* A row is superseded only under its own topic.
SaveReplaces(s) ==
    /\ saver[s].late => saver[s].todo = <<>>
    /\ saver[s].old # {} => saver[s].todo \in {<<>>, <<"bump">>}
    /\ saver[s].todo # <<"bump">> =>
         \A i \in saver[s].old : Live(i) => rows[i].topic = saver[s].topic

KeepInv ==
    /\ ContentsKept
    /\ \A d \in Cleaners : DedupSpares(d)
    /\ TopicsKept
    /\ \A s \in Savers : SaveReplaces(s)

LEMMA InitKeeps == Init => KeepInv
<1> SUFFICES ASSUME Init PROVE KeepInv
  OBVIOUS
<1>1. \A i \in Ids : Live(i)
  BY DEF Init, Ids, Live, Fresh
<1>2. ContentsKept
  <2>1. \A x \in Contents : x \notin Topics \cup {None}
    BY StoreAssumption
  <2>2. \A i \in Ids : rows[i].topic \in Topics \cup {None}
    BY DEF Init, Ids, Fresh
  <2>3. kept = {rows[i].content : i \in Ids} \cup ({rows[i].topic : i \in Ids} \ {None})
    BY DEF Init
  <2> QED
    BY <1>1, <2>1, <2>2, <2>3 DEF ContentsKept, Has
<1>3. \A x \in Contents \cup {None} : x \notin Topics
  BY StoreAssumption
<1>4. TopicsKept
  <2>1. \A i \in Ids : rows[i].content \in Contents
    BY DEF Init, Ids, Fresh
  <2> QED
    BY <1>1, <1>3, <2>1 DEF Init, TopicsKept, Is
<1>5. \A d \in Cleaners : DedupSpares(d)
  BY DEF Init, DedupSpares, Resting
<1>6. \A s \in Savers : SaveReplaces(s)
  BY DEF Init, SaveReplaces, Idle
<1> QED
  BY <1>2, <1>4, <1>5, <1>6 DEF KeepInv

LEMMA KeptFollows == KeepInv => KeptIsLive
BY DEF KeepInv, ContentsKept, TopicsKept, KeptIsLive, Copies, OfTopic, Has, Is

\* All rows but those in S survive as they are.
Spares(S) ==
    /\ Ids \subseteq Ids'
    /\ \A i \in Ids \ S : Live(i) => /\ Live(i)'
                                     /\ rows'[i].content = rows[i].content
                                     /\ rows'[i].topic = rows[i].topic

LEMMA LosesSpares == ASSUME NEW S, Loses(S) PROVE Spares(S)
BY DEF Loses, Spares

\* The dedups go on or end.
DedupsShrink ==
    \A d \in Cleaners :
        /\ cleaner'[d].losers \subseteq cleaner[d].losers
        /\ cleaner'[d].alone /\ cleaner'[d].losers # {} => cleaner[d].alone

\* Contents: what is still kept lost no row, or has one no dedup is after.
LEMMA ContentsStep ==
    ASSUME Typed, KeepInv, NEW S, Spares(S), DedupsShrink,
           \A c \in Contents \cap kept' :
               \/ c \in kept /\ \A i \in S \cap Ids : ~Has(i, c)
               \/ \E i \in Ids' : Has(i, c)' /\ \A d \in Cleaners : i \notin cleaner[d].losers
    PROVE  ContentsKept' /\ \A d \in Cleaners : DedupSpares(d)'
<1>1. ASSUME NEW c \in Contents \cap kept' PROVE \E i \in Ids' : Has(i, c)'
  BY DEF KeepInv, ContentsKept, Spares, Has
<1>2. ASSUME NEW d \in Cleaners, cleaner'[d].alone, cleaner'[d].losers # {}
      PROVE  /\ \A o \in Cleaners \ {d} : cleaner'[o].losers = {}
             /\ \A c \in Contents \cap kept' : \E i \in Ids' \ cleaner'[d].losers : Has(i, c)'
  <2>1. cleaner[d].alone /\ cleaner[d].losers # {} /\ cleaner'[d].losers \subseteq cleaner[d].losers
    BY <1>2 DEF DedupsShrink
  <2>2. /\ \A o \in Cleaners \ {d} : cleaner[o].losers = {}
        /\ \A c \in Contents \cap kept : \E i \in Ids \ cleaner[d].losers : Has(i, c)
    BY <2>1 DEF KeepInv, DedupSpares
  <2>3. \A o \in Cleaners \ {d} : cleaner'[o].losers = {}
    BY <2>2 DEF DedupsShrink
  <2>4. ASSUME NEW c \in Contents \cap kept' PROVE \E i \in Ids' \ cleaner'[d].losers : Has(i, c)'
    <3>1. CASE c \in kept /\ \A i \in S \cap Ids : ~Has(i, c)
      <4>1. PICK i \in Ids \ cleaner[d].losers : Has(i, c)
        BY <2>2, <3>1
      <4>2. i \in Ids' /\ Has(i, c)'
        BY <3>1, <4>1 DEF Spares, Has
      <4> QED
        BY <2>1, <4>1, <4>2
    <3>2. CASE \E i \in Ids' : Has(i, c)' /\ \A e \in Cleaners : i \notin cleaner[e].losers
      BY <2>1, <3>2
    <3> QED
      BY <3>1, <3>2
  <2> QED
    BY <2>3, <2>4
<1> QED
  BY <1>1, <1>2 DEF ContentsKept, DedupSpares

\* Topics: what is still kept lost no row, or has one; a late save stays, or its topic
\* has a row or is given up.
LEMMA TopicsStep ==
    ASSUME Typed, KeepInv, NEW S, Spares(S),
           \A t \in Topics \cap kept' :
               \/ t \in kept /\ \A i \in S \cap Ids : ~Is(i, t)
               \/ \E i \in Ids' : Is(i, t)'
               \/ \E s \in Savers : saver'[s].topic = t /\ saver'[s].late,
           \A s \in Savers, t \in Topics : saver[s].late /\ t = saver[s].topic =>
               \/ saver'[s].late /\ saver'[s].topic = t
               \/ t \notin kept'
               \/ \E i \in Ids' : Is(i, t)'
    PROVE  TopicsKept'
<1>1. ASSUME NEW t \in Topics \cap kept', t \in kept, \A i \in S \cap Ids : ~Is(i, t)
      PROVE  \/ \E i \in Ids' : Is(i, t)'
             \/ \E s \in Savers : saver'[s].topic = t /\ saver'[s].late
  <2>1. CASE \E i \in Ids : Is(i, t)
    BY <1>1, <2>1 DEF Spares, Is
  <2>2. CASE \E s \in Savers : saver[s].topic = t /\ saver[s].late
    <3>1. PICK s \in Savers : saver[s].topic = t /\ saver[s].late
      BY <2>2
    <3> QED
      BY <3>1
  <2> QED
    BY <1>1, <2>1, <2>2 DEF KeepInv, TopicsKept
<1> QED
  BY <1>1 DEF TopicsKept

\* Saves: only s moves, and no live row changes its topic.
LEMMA ReplacesStep ==
    ASSUME Typed, KeepInv, NEW s \in Savers,
           \A o \in Savers \ {s} : saver'[o] = saver[o],
           \A i \in Ids : Live(i)' => Live(i) /\ rows'[i].topic = rows[i].topic,
           SaveReplaces(s)'
    PROVE  \A o \in Savers : SaveReplaces(o)'
<1>1. ASSUME NEW o \in Savers \ {s} PROVE SaveReplaces(o)'
  <2>1. SaveReplaces(o) /\ saver'[o] = saver[o] /\ saver[o].old \subseteq Ids
    BY DEF KeepInv, Typed
  <2> QED
    BY <2>1 DEF SaveReplaces
<1> QED
  BY <1>1

-----------------------------------------------------------------------------

LEMMA HighestExists ==
    ASSUME NEW S, S # {}, NEW n \in Nat, NEW f \in [S -> 0..n]
    PROVE  \E x \in S : \A y \in S : f[y] <= f[x]
<1> DEFINE T == {n - f[x] : x \in S}
           R == OpToRel(<, Nat)
<1>1. T \subseteq Nat /\ T # {}
  <2>1. \A x \in S : n - f[x] \in Nat
    OBVIOUS
  <2> QED
    BY <2>1
<1>2. R = {ss \in Nat \X Nat : ss[1] < ss[2]}
  BY DEF OpToRel
<1>3. IsWellFoundedOn(R, Nat)
  BY NatLessThanWellFounded
<1> HIDE DEF R
<1>4. PICK m \in T : \A k \in T : ~ (<<k, m>> \in R)
  <2> HIDE DEF T
  <2> QED
    BY <1>1, <1>3, WFMin
<1>5. PICK x \in S : m = n - f[x]
  BY <1>4
<1>6. ASSUME NEW y \in S PROVE f[y] <= f[x]
  <2>1. n - f[y] \in T /\ n - f[y] \in Nat /\ m \in Nat
    BY <1>1
  <2>2. ~ (<<n - f[y], m>> \in R)
    BY <1>4, <2>1
  <2>3. ~ (n - f[y] < m)
    BY <1>2, <2>1, <2>2
  <2> QED
    BY <1>5, <2>3
<1> QED
  BY <1>6

\* Some member of a cluster is not worse than another.
LEMMA BestExists ==
    ASSUME Typed, NEW S \in SUBSET Ids, S # {}, \A i \in S : Live(i)
    PROVE  \E a \in S : \A b \in S : ~Better(b, a)
<1>0. /\ Len(rows) \in Nat /\ MaxUses \in Nat /\ Ids = 1..Len(rows)
      /\ \A i \in S : rows[i].uses \in 0..MaxUses /\ rows[i].verified \in BOOLEAN
  BY RowsFacts, StoreAssumption DEF Live, Row, Gone
<1> DEFINE used == [i \in S |-> rows[i].uses]
<1>1. PICK u \in S : \A y \in S : used[y] <= used[u]
  <2>1. used \in [S -> 0..MaxUses]
    BY <1>0
  <2> HIDE DEF used
  <2> QED
    BY <1>0, <2>1, HighestExists
<1>2. \A y \in S : rows[y].uses <= rows[u].uses
  BY <1>1
<1> DEFINE S1 == {i \in S : rows[i].uses = rows[u].uses}
           S2 == IF \E i \in S1 : rows[i].verified THEN {i \in S1 : rows[i].verified} ELSE S1
<1>3. S2 # {} /\ S2 \subseteq S /\ \A i \in S2 : i \in 0..Len(rows)
  BY <1>0
<1> DEFINE idle == [i \in S2 |-> i]
<1>4. PICK a \in S2 : \A y \in S2 : idle[y] <= idle[a]
  <2>1. idle \in [S2 -> 0..Len(rows)]
    <3> HIDE DEF S2
    <3> QED
      BY <1>3
  <2> HIDE DEF idle, S2
  <2> QED
    BY <1>0, <1>3, <2>1, HighestExists
<1>5. ASSUME NEW b \in S PROVE ~Better(b, a)
  <2>1. a \in S1 /\ rows[a].uses = rows[u].uses
    BY <1>4
  <2>2. ~(rows[b].uses > rows[a].uses)
    BY <1>0, <1>2, <2>1
  <2>3. ~(rows[b].uses = rows[a].uses /\ rows[b].verified /\ ~rows[a].verified)
    BY <1>4, <2>1
  <2>4. rows[b].uses = rows[a].uses /\ rows[b].verified = rows[a].verified => b \in S2
    BY <1>4, <2>1
  <2>5. b \in S2 => b <= a
    BY <1>4
  <2> QED
    BY <1>0, <1>3, <2>2, <2>3, <2>4, <2>5 DEF Better
<1> QED
  BY <1>3, <1>5

\* Every content that has a live row has one that no dedup would list.
LEMMA ClustersSpareOne ==
    ASSUME Typed, NEW c, \E i \in Ids : Has(i, c)
    PROVE  \E i \in Ids \ Losers : Has(i, c)
<1>1. Copies(c) \in SUBSET Ids /\ Copies(c) # {} /\ \A i \in Copies(c) : Live(i)
  BY DEF Copies, Has
<1>2. PICK a \in Copies(c) : \A b \in Copies(c) : ~Better(b, a)
  BY <1>1, BestExists
<1>3. a \notin Losers
  BY <1>2 DEF Losers, Members, Copies
<1> QED
  BY <1>2, <1>3 DEF Copies, Has


\* Where rows only die, and what they held is no longer kept.
LEMMA LosingKeeps ==
    ASSUME Typed, KeepInv, NEW S, Loses(S), DedupsShrink, kept' \subseteq kept,
           \A i \in S \cap Ids : Live(i) => rows[i].content \notin kept' /\ rows[i].topic \notin kept',
           \A s \in Savers : saver[s].late /\ saver[s].topic \in kept' =>
                               saver'[s].late /\ saver'[s].topic = saver[s].topic,
           \A s \in Savers : SaveReplaces(s)'
    PROVE  KeepInv'
<1>1. Spares(S)
  BY LosesSpares
<1>2. \A c \in Contents \cap kept' : c \in kept /\ \A i \in S \cap Ids : ~Has(i, c)
  BY DEF Has
<1>3. ContentsKept' /\ \A d \in Cleaners : DedupSpares(d)'
  BY <1>1, <1>2, ContentsStep
<1>4. \A t \in Topics \cap kept' : t \in kept /\ \A i \in S \cap Ids : ~Is(i, t)
  BY DEF Is
<1>5. TopicsKept'
  BY <1>1, <1>4, TopicsStep
<1> QED
  BY <1>3, <1>5 DEF KeepInv

LEMMA SaveStepKeeps ==
    ASSUME Typed, KeepInv, NEW s \in Savers, SaveStep(s)
    PROVE  KeepInv'
<1>0. /\ UNCHANGED rows => Loses({})
      /\ UNCHANGED cleaner => DedupsShrink
      /\ SaveReplaces(s)
  BY RowEffects DEF DedupsShrink, KeepInv
<1>1. ASSUME UNCHANGED <<rows, cleaner, kept>>, \A o \in Savers \ {s} : saver'[o] = saver[o],
             saver[s].late => saver'[s].late /\ saver'[s].topic = saver[s].topic,
             SaveReplaces(s)'
      PROVE  KeepInv'
  <2>1. \A o \in Savers : SaveReplaces(o)'
    BY <1>1, ReplacesStep DEF Live
  <2>2. Loses({}) /\ DedupsShrink
    BY <1>0, <1>1
  <2>3. \A o \in Savers : saver[o].late => saver'[o].late /\ saver'[o].topic = saver[o].topic
    BY <1>1
  <2> QED
    BY <1>1, <2>1, <2>2, <2>3, LosingKeeps
<1>2. ASSUME NEW c \in Contents, NEW t \in Topics \cup {None}, StartSave(s, c, t) PROVE KeepInv'
  <2>1. ~saver[s].late
    BY <1>2 DEF StartSave, Saving, Idle
  <2>2. SaveReplaces(s)'
    BY <1>2, StartFields DEF SaveReplaces
  <2> QED
    BY <1>1, <1>2, <2>1, <2>2, StartFields DEF StartSave
<1>3. CASE NoDuplicate(s)
  <2>1. Moved(s, <<"lookup">>, saver[s].old, saver[s].late)
    BY <1>3, SaverMoves
  <2>2. saver[s].todo = Order /\ saver[s].old = {}
    BY <1>3, WhereReady DEF NoDuplicate, Ready
  <2>3. SaveReplaces(s)'
    BY <1>0, <2>1, <2>2, AgendaFacts DEF SaveReplaces, Moved
  <2> QED
    BY <1>1, <1>3, <2>1, <2>3 DEF NoDuplicate, history, Moved
<1>4. CASE FindDuplicate(s)
  <2>1. PICK id \in Duplicates(s) : Moved(s, <<"bump">>, {id}, saver[s].late)
    BY <1>4, SaverMoves
  <2>2. saver[s].todo = Order
    BY <1>4, WhereReady DEF FindDuplicate
  <2>3. SaveReplaces(s)'
    BY <1>0, <2>1, <2>2, AgendaFacts DEF SaveReplaces, Moved
  <2> QED
    BY <1>1, <1>4, <2>1, <2>3 DEF FindDuplicate, history, Moved
<1>5. CASE Lookup(s)
  <2>1. Moved(s, <<>>, Found(s), saver[s].late) /\ UNCHANGED rows
    BY <1>5, SaverMoves DEF Lookup
  <2>2. \A i \in Found(s) : rows[i].topic = saver[s].topic
    BY DEF Found, Newest, OfTopic
  <2>3. SaveReplaces(s)'
    BY <2>1, <2>2 DEF SaveReplaces, Moved
  <2> QED
    BY <1>1, <1>5, <2>1, <2>3 DEF Lookup, history, Moved
<1>6. CASE BumpDuplicate(s)
  <2> DEFINE met == {i \in saver[s].old \ Doomed : Live(i)}
  <2>1. /\ kept' = kept \cup {rows[id].content : id \in met}
        /\ saver' = [saver EXCEPT ![s] = Idle] /\ UNCHANGED <<rows, cleaner>>
    BY <1>6 DEF BumpDuplicate
  <2>2. Spares({}) /\ DedupsShrink
    BY <1>0, <2>1, LosesSpares
  <2>3. ~saver[s].late
    BY <1>0, <1>6, AgendaFacts DEF BumpDuplicate, SaveReplaces
  <2>4. saver'[s] = Idle /\ \A o \in Savers \ {s} : saver'[o] = saver[o]
    BY <2>1 DEF Typed
  <2>5. SaveReplaces(s)'
    BY <2>4 DEF SaveReplaces, Idle
  <2>6. \A o \in Savers : SaveReplaces(o)'
    BY <2>1, <2>4, <2>5, ReplacesStep DEF Live
  <2>7. ASSUME NEW i \in met
        PROVE  /\ i \in Ids' /\ Has(i, rows[i].content) /\ rows[i].content \in Contents
               /\ \A d \in Cleaners : i \notin cleaner[d].losers
    BY <2>1, RowsFacts DEF Typed, Has, Doomed, Ids
  <2>8. ASSUME NEW c \in Contents \cap kept', c \notin kept
        PROVE  \E i \in Ids' : Has(i, c)' /\ \A d \in Cleaners : i \notin cleaner[d].losers
    <3>1. PICK i \in met : c = rows[i].content
      BY <2>1, <2>8
    <3> QED
      BY <2>1, <2>7, <3>1 DEF Has, Live
  <2>9. ContentsKept' /\ \A d \in Cleaners : DedupSpares(d)'
    BY <2>2, <2>8, ContentsStep
  <2>10. Topics \cap kept' \subseteq kept
    BY <2>1, <2>7, StoreAssumption
  <2>11. TopicsKept'
    BY <2>2, <2>3, <2>4, <2>10, TopicsStep
  <2> QED
    BY <2>6, <2>9, <2>11 DEF KeepInv
<1>7. CASE Supersede(s)
  <2>1. Moved(s, saver[s].todo, {}, TRUE) /\ Loses(saver[s].old) /\ DedupsShrink
    BY <1>0, <1>7, SaverMoves, RowEffects DEF Supersede
  <2>2. kept' = kept \ {rows[id].content : id \in saver[s].old} /\ saver[s].old # {}
        /\ saver[s].todo # <<"bump">> /\ saver[s].todo = <<>>
    BY <1>0, <1>7 DEF Supersede, SaveReplaces
  <2>3. Spares(saver[s].old)
    BY <2>1, LosesSpares
  <2>4. \A c \in Contents \cap kept' : c \in kept /\ \A i \in saver[s].old \cap Ids : ~Has(i, c)
    BY <2>2 DEF Has
  <2>5. ContentsKept' /\ \A d \in Cleaners : DedupSpares(d)'
    BY <2>1, <2>3, <2>4, ContentsStep
  <2>6. \A t \in Topics \cap kept' :
          \/ t \in kept /\ \A i \in saver[s].old \cap Ids : ~Is(i, t)
          \/ saver'[s].topic = t /\ saver'[s].late
    BY <1>0, <2>1, <2>2 DEF SaveReplaces, Is, Moved
  <2>7. TopicsKept'
    BY <2>1, <2>3, <2>6, TopicsStep DEF Moved
  <2>8. SaveReplaces(s)'
    BY <2>1, <2>2 DEF SaveReplaces, Moved
  <2>9. \A o \in Savers : SaveReplaces(o)'
    BY <2>1, <2>8, ReplacesStep DEF Loses, Moved
  <2> QED
    BY <2>5, <2>7, <2>9 DEF KeepInv
<1>8. CASE Insert(s)
  <2> DEFINE row == Fresh(saver[s].content, saver[s].topic)
  <2>0. PICK n : n = Len(rows) + 1
    OBVIOUS
  <2>1. saver[s].content \in Contents /\ saver[s].topic \in Topics \cup {None}
    BY <1>8 DEF Insert, Saving, Typed, SaverState
  <2>2. row \in Row /\ row.content = saver[s].content /\ row.topic = saver[s].topic
        /\ row.state = "live"
    BY <2>1, StoreAssumption DEF Row, Fresh
  <2>3. rows' = Append(rows, row) /\ kept' = kept \cup ({row.content, row.topic} \ {None})
        /\ saver' = [saver EXCEPT ![s] = Idle] /\ cleaner' = cleaner
    BY <1>8 DEF Insert
  <2> HIDE DEF row
  <2>4. Ids' = Ids \cup {n} /\ n \notin Ids /\ rows'[n] = row /\ \A i \in Ids : rows'[i] = rows[i]
    BY <2>0, <2>2, <2>3, InsertFacts DEF Ids
  <2>5. Spares({}) /\ DedupsShrink /\ Live(n)'
    BY <1>0, <2>2, <2>3, <2>4 DEF Spares, Live
  <2>6. \A d \in Cleaners : n \notin cleaner[d].losers
    BY <2>4 DEF Typed
  <2>7. \A c \in Contents \cap kept' :
          c \in kept \/ \E i \in Ids' : Has(i, c)' /\ \A d \in Cleaners : i \notin cleaner[d].losers
    <3>1. ASSUME NEW c \in Contents, c = row.content \/ c = row.topic
          PROVE  Has(n, c)'
      BY <2>1, <2>2, <2>4, <2>5, <3>1, StoreAssumption DEF Has
    <3> QED
      BY <2>3, <2>4, <2>6, <3>1
  <2>8. ContentsKept' /\ \A d \in Cleaners : DedupSpares(d)'
    BY <2>5, <2>7, ContentsStep
  <2>9. ASSUME NEW t \in Topics, t = row.content \/ t = row.topic PROVE Is(n, t)'
    BY <2>1, <2>2, <2>4, <2>5, <2>9, StoreAssumption DEF Is
  <2>10. \A t \in Topics \cap kept' : t \in kept \/ Is(n, t)'
    BY <2>3, <2>9
  <2>11. saver'[s] = Idle /\ \A o \in Savers \ {s} : saver'[o] = saver[o]
    BY <2>3 DEF Typed
  <2>12. \A o \in Savers, t \in Topics : saver[o].late /\ t = saver[o].topic =>
            \/ saver'[o].late /\ saver'[o].topic = t
            \/ \E i \in Ids' : Is(i, t)'
    BY <2>2, <2>4, <2>9, <2>11
  <2>13. TopicsKept'
    BY <2>4, <2>5, <2>10, <2>12, TopicsStep
  <2>14. SaveReplaces(s)'
    BY <2>11 DEF SaveReplaces, Idle
  <2>15. \A o \in Savers : SaveReplaces(o)'
    BY <2>4, <2>11, <2>14, ReplacesStep DEF Live
  <2> QED
    BY <2>8, <2>13, <2>15 DEF KeepInv
<1>9. CASE AbandonSave(s)
  <2>1. /\ UNCHANGED <<rows, cleaner>> /\ saver' = [saver EXCEPT ![s] = Idle]
        /\ kept' = IF saver[s].late THEN kept \ {saver[s].topic} ELSE kept
    BY <1>9 DEF AbandonSave
  <2>2. saver'[s] = Idle /\ \A o \in Savers \ {s} : saver'[o] = saver[o]
    BY <2>1 DEF Typed
  <2>3. SaveReplaces(s)'
    BY <2>2 DEF SaveReplaces, Idle
  <2>4. \A o \in Savers : SaveReplaces(o)'
    BY <2>1, <2>2, <2>3, ReplacesStep DEF Live
  <2>5. Loses({}) /\ DedupsShrink
    BY <1>0, <2>1
  <2> QED
    BY <2>1, <2>2, <2>4, <2>5, LosingKeeps
<1> QED
  BY <1>2, <1>3, <1>4, <1>5, <1>6, <1>7, <1>8, <1>9 DEF SaveStep

\* No save moves.
LEMMA QuietKeeps ==
    ASSUME Typed, KeepInv, NEW S, Loses(S), DedupsShrink, saver' = saver, kept' \subseteq kept,
           \A i \in S \cap Ids : Live(i) => rows[i].content \notin kept' /\ rows[i].topic \notin kept'
    PROVE  KeepInv'
<1>1. \A s \in Savers : SaveReplaces(s)'
  BY DEF KeepInv, SaveReplaces, Loses, Typed
<1> QED
  BY <1>1, LosingKeeps

LEMMA ListClustersKeeps ==
    ASSUME Typed, KeepInv, NEW d \in Cleaners, ListClusters(d)
    PROVE  KeepInv'
<1>1. /\ UNCHANGED <<rows, saver, kept>>
      /\ cleaner'[d] = [losers |-> Losers,
                        alone |-> \A o \in Cleaners \ {d} : cleaner[o].losers = {}]
      /\ \A e \in Cleaners \ {d} :
           cleaner'[e] = [cleaner[e] EXCEPT !.alone = @ /\ cleaner[e].losers = {}]
  BY DEF ListClusters, history
<1>2. \A e \in Cleaners \ {d} :
        cleaner'[e].losers = cleaner[e].losers /\ (cleaner'[e].alone => cleaner[e].losers = {})
  BY <1>1 DEF Typed, CleanerState
<1>3. ASSUME cleaner'[d].alone
      PROVE  /\ \A o \in Cleaners \ {d} : cleaner'[o].losers = {}
             /\ \A c \in Contents \cap kept' : \E i \in Ids' \ cleaner'[d].losers : Has(i, c)'
  <2>1. \A c \in Contents \cap kept : \E i \in Ids \ Losers : Has(i, c)
    BY ClustersSpareOne DEF KeepInv, ContentsKept
  <2> QED
    BY <1>1, <1>2, <1>3, <2>1 DEF Has, Live, Ids
<1>4. \A e \in Cleaners : DedupSpares(e)'
  BY <1>2, <1>3 DEF DedupSpares
<1> QED
  BY <1>1, <1>4 DEF KeepInv, ContentsKept, TopicsKept, SaveReplaces, Has, Is, Live, Ids

LEMMA RetireLoserKeeps ==
    ASSUME Typed, KeepInv, NEW d \in Cleaners, RetireLoser(d)
    PROVE  KeepInv'
<1>1. PICK id \in cleaner[d].losers :
        /\ rows' = Deleted({id})
        /\ kept' = kept \ (IF cleaner[d].alone THEN {rows[id].topic} ELSE Taken({id}))
        /\ cleaner' = [cleaner EXCEPT ![d] = IF @.losers = {id} THEN Resting
                                             ELSE [losers |-> @.losers \ {id}, alone |-> @.alone]]
  BY DEF RetireLoser
<1>2. saver' = saver /\ id \in Ids /\ Loses({id}) /\ Spares({id})
  BY <1>1, RowEffects, LosesSpares DEF RetireLoser, Typed
<1>3. /\ DedupsShrink
      /\ \A e \in Cleaners \ {d} : cleaner'[e] = cleaner[e]
  BY <1>1 DEF DedupsShrink, Typed, CleanerState, Resting
<1>4. CASE ~cleaner[d].alone
  BY <1>1, <1>2, <1>3, <1>4, QuietKeeps DEF Taken
<1>5. CASE cleaner[d].alone
  <2>1. /\ \A o \in Cleaners \ {d} : cleaner[o].losers = {}
        /\ \A c \in Contents \cap kept : \E i \in Ids \ cleaner[d].losers : Has(i, c)
    BY <1>1, <1>5 DEF KeepInv, DedupSpares
  <2>2. ASSUME NEW c \in Contents \cap kept' PROVE \E i \in Ids' \ cleaner[d].losers : Has(i, c)'
    <3>1. PICK i \in Ids \ cleaner[d].losers : Has(i, c)
      BY <1>1, <2>1
    <3> QED
      BY <1>1, <1>2, <3>1 DEF Spares, Has
  <2>3. ContentsKept'
    BY <2>2 DEF ContentsKept
  <2>4. \A e \in Cleaners : DedupSpares(e)'
    BY <1>3, <2>1, <2>2 DEF DedupSpares, DedupsShrink
  <2>5. \A t \in Topics \cap kept' : t \in kept /\ \A i \in {id} \cap Ids : ~Is(i, t)
    BY <1>1, <1>5 DEF Is
  <2>6. TopicsKept'
    BY <1>2, <2>5, TopicsStep
  <2>7. \A s \in Savers : SaveReplaces(s)'
    BY <1>2 DEF KeepInv, SaveReplaces, Loses, Typed
  <2> QED
    BY <2>3, <2>4, <2>6, <2>7 DEF KeepInv
<1> QED
  BY <1>4, <1>5

LEMMA ScrubKeeps ==
    ASSUME Typed, KeepInv, NEW id \in Ids, Scrub(id)
    PROVE  KeepInv'
<1>0. PICK old, new : old = rows[id].content /\ new = Redacted[old]
  OBVIOUS
<1>1. /\ Ids' = Ids
      /\ \A i \in Ids : /\ Live(i)' <=> Live(i)
                        /\ rows'[i].topic = rows[i].topic
                        /\ rows'[i].content = IF i = id THEN new ELSE rows[i].content
      /\ old \in Contents /\ new \in Contents
  BY <1>0, ScrubEffects
<1>2. /\ kept' = IF Live(id) THEN (kept \ {old}) \cup {new} ELSE kept
      /\ saver' = saver
      /\ \A d \in Cleaners : cleaner'[d] = [cleaner[d] EXCEPT !.alone = @ /\ cleaner[d].losers = {}]
  BY <1>0 DEF Scrub
<1>3. ASSUME NEW c \in Contents \cap kept' PROVE \E i \in Ids' : Has(i, c)'
  <2>1. CASE Live(id) /\ c = new
    BY <1>1, <2>1 DEF Has
  <2>2. CASE c \in kept /\ (Live(id) => c # old)
    <3>1. PICK i \in Ids : Has(i, c)
      BY <2>2 DEF KeepInv, ContentsKept
    <3>2. i # id
      BY <1>0, <2>2, <3>1 DEF Has
    <3> QED
      BY <1>1, <3>1, <3>2 DEF Has
  <2> QED
    BY <1>2, <1>3, <2>1, <2>2
<1>4. \A d \in Cleaners : DedupSpares(d)'
  BY <1>2 DEF DedupSpares, Typed, CleanerState
<1>5. TopicsKept'
  <2>1. Topics \cap kept' \subseteq kept
    BY <1>1, <1>2, StoreAssumption
  <2> QED
    BY <1>1, <1>2, <2>1 DEF KeepInv, TopicsKept, Is
<1>6. \A s \in Savers : SaveReplaces(s)'
  BY <1>1, <1>2 DEF KeepInv, SaveReplaces, Typed
<1> QED
  BY <1>3, <1>4, <1>5, <1>6 DEF KeepInv, ContentsKept

LEMMA OtherStepKeeps ==
    ASSUME Typed, KeepInv, OtherStep
    PROVE  KeepInv'
<1>0. /\ UNCHANGED rows => Loses({})
      /\ UNCHANGED cleaner => DedupsShrink
      /\ \A S : rows' = Deleted(S) => Loses(S)
  BY RowEffects DEF DedupsShrink
<1>1. ASSUME NEW d \in Cleaners, AbandonDedup(d) PROVE KeepInv'
  <2>1. DedupsShrink
    BY <1>1 DEF AbandonDedup, DedupsShrink, Resting, Typed
  <2> QED
    BY <1>0, <1>1, <2>1, QuietKeeps DEF AbandonDedup, history
<1>2. CASE ListUnused
  BY <1>0, <1>2, QuietKeeps DEF ListUnused, history
<1>3. CASE Sweep
  <2>1. Loses(sweep) /\ DedupsShrink /\ saver' = saver /\ kept' = kept \ Taken(sweep)
    BY <1>0, <1>3 DEF Sweep
  <2> QED
    BY <2>1, QuietKeeps DEF Taken
<1>4. ASSUME NEW id \in Ids, Purge(id) \/ Touch(id) \/ MarkVerified(id) PROVE KeepInv'
  <2>1. Loses({})
    BY <1>4, RowEffects
  <2>2. UNCHANGED <<saver, cleaner, kept>>
    BY <1>4 DEF Purge, Touch, MarkVerified, Using, history
  <2> QED
    BY <1>0, <2>1, <2>2, QuietKeeps
<1>5. ASSUME NEW id \in Ids, Deprecate(id) PROVE KeepInv'
  <2>1. Loses({id}) /\ DedupsShrink /\ saver' = saver /\ kept' = kept \ Taken({id})
    BY <1>0, <1>5 DEF Deprecate
  <2> QED
    BY <2>1, QuietKeeps DEF Taken
<1> QED
  BY <1>1, <1>2, <1>3, <1>4, <1>5, ListClustersKeeps, RetireLoserKeeps, ScrubKeeps DEF OtherStep

LEMMA NextKeeps == Typed /\ KeepInv /\ [Next]_vars => KeepInv'
<1> SUFFICES ASSUME Typed, KeepInv, [Next]_vars PROVE KeepInv'
  OBVIOUS
<1>1. CASE UNCHANGED vars
  BY <1>1, RowEffects, QuietKeeps DEF vars, history, DedupsShrink
<1> QED
  BY <1>1, SaveStepKeeps, OtherStepKeeps DEF Next, OtherStep

\* KeptIsLive, of `save`, the sweeps and `runar dedup`: what a save answered for stays
\* readable until it is taken away on purpose.
THEOREM KeptStaysReadable == Spec => []KeptIsLive
<1>1. Init => Typed /\ KeepInv
  BY InitTyped, InitKeeps
<1>2. Typed /\ KeepInv /\ [Next]_vars => (Typed /\ KeepInv)'
  BY TypedStep, NextKeeps
<1>3. Typed /\ KeepInv => KeptIsLive
  BY KeptFollows
<1> QED
  BY <1>1, <1>2, <1>3, PTL DEF Spec

=============================================================================
