------------------------- MODULE ReplicationProofs -------------------------
(***************************************************************************)
(* Proofs about Conflict and Replication, for any entries, machines,       *)
(* commands, skew, page size and bounds.                                   *)
(***************************************************************************)
EXTENDS Replication, FiniteSetTheorems, TLAPS

-----------------------------------------------------------------------------
(* The decision. *)

Versions == Version(Nat, Nat)

LEMMA NoRowIsAVersion == NoRow \in Versions /\ ~NoRow.deleted /\ ~NoRow.verified /\ NoRow.at = 0
BY DEF NoRow, Versions, Version

\* The rules of conflict.rs are one order on the versions of an entry: no version
\* outranks itself, and what outranks a version outranks what that outranks.
THEOREM OutranksIsAnOrder ==
    /\ \A a \in Versions : ~Outranks(a, a)
    /\ \A a, b, c \in Versions : Outranks(a, b) /\ Outranks(b, c) => Outranks(a, c)
    /\ \A a, b \in Versions :
         Outranks(a, b) \/ Outranks(b, a)
         \/ (a.deleted = b.deleted /\ a.verified = b.verified /\ a.at = b.at)
<1>1. ASSUME NEW a \in Versions PROVE ~Outranks(a, a)
  BY DEF Versions, Version, Outranks
<1>2. ASSUME NEW a \in Versions, NEW b \in Versions, NEW c \in Versions,
             Outranks(a, b), Outranks(b, c)
      PROVE  Outranks(a, c)
  BY <1>2 DEF Versions, Version, Outranks
<1>3. ASSUME NEW a \in Versions, NEW b \in Versions
      PROVE  Outranks(a, b) \/ Outranks(b, a)
             \/ (a.deleted = b.deleted /\ a.verified = b.verified /\ a.at = b.at)
  BY DEF Versions, Version, Outranks
<1> QED
  BY <1>1, <1>2, <1>3

\* Where there is a row, resolve replaces it exactly by what outranks it, in whatever
\* order the rules are looked at; where there is none it inserts.
THEOREM ResolveFollowsTheOrder ==
    ASSUME NEW existing \in Versions, NEW incoming \in Versions
    PROVE  /\ existing = NoRow => Resolve(existing, incoming).act = "insert"
           /\ existing # NoRow =>
                Resolve(existing, incoming).act =
                    IF Outranks(incoming, existing) THEN "update" ELSE "skip"
<1> DEFINE act == Resolve(existing, incoming).act
<1>1. CASE existing = NoRow
  BY <1>1 DEF Resolve, Insert
<1>2. CASE existing # NoRow /\ existing.deleted # incoming.deleted
  <2>1. CASE existing.deleted /\ ~incoming.deleted
    BY <1>2, <2>1 DEF Resolve, Skip, Outranks
  <2>2. CASE ~existing.deleted /\ incoming.deleted
    BY <1>2, <2>2 DEF Resolve, Update, Outranks
  <2> QED
    BY <1>2, <2>1, <2>2 DEF Versions, Version
<1>3. CASE existing # NoRow /\ existing.deleted = incoming.deleted
            /\ existing.verified # incoming.verified
  <2>1. CASE existing.verified /\ ~incoming.verified
    BY <1>3, <2>1 DEF Resolve, Skip, Outranks
  <2>2. CASE ~existing.verified /\ incoming.verified
    BY <1>3, <2>2 DEF Resolve, Update, Outranks
  <2> QED
    BY <1>3, <2>1, <2>2 DEF Versions, Version
<1>4. CASE existing # NoRow /\ existing.deleted = incoming.deleted
            /\ existing.verified = incoming.verified
  <2>1. Resolve(existing, incoming) =
          IF incoming.at > existing.at THEN Update("lww") ELSE Skip("lww")
    BY <1>4 DEF Resolve, Versions, Version
  <2> QED
    BY <1>4, <2>1 DEF Update, Skip, Outranks, Versions, Version
<1> QED
  BY <1>1, <1>2, <1>3, <1>4

\* What a machine knows better: tombstones are all alike.
Ahead(a, b) == Outranks(a, b) /\ ~(a.deleted /\ b.deleted)

LEMMA NotAheadIsTransitive ==
    ASSUME NEW a \in Versions, NEW b \in Versions, NEW c \in Versions,
           ~Ahead(a, b), ~Ahead(b, c)
    PROVE  ~Ahead(a, c)
BY DEF Ahead, Outranks, Versions, Version

LEMMA NotOutrankedNotAhead ==
    ASSUME NEW a \in Versions, NEW b \in Versions
    PROVE  /\ ~Outranks(a, b) => ~Ahead(a, b)
           /\ ~Ahead(a, a)
BY DEF Ahead, Outranks, Versions, Version

-----------------------------------------------------------------------------
(* What a store holds after a decision. *)

LEMMA AppliedIsOneOfTwo ==
    ASSUME NEW row \in Versions, NEW seen \in Versions, NEW incoming \in Versions
    PROVE  Applied(row, seen, incoming) \in {row, incoming}
<1>1. Resolve(seen, incoming).act \in {"insert", "update", "skip"}
  BY ResolveFollowsTheOrder
<1> QED
  BY <1>1 DEF Applied, Imported

LEMMA AppliedAdvances ==
    ASSUME NEW row \in Versions, NEW incoming \in Versions
    PROVE  ~Outranks(row, Applied(row, Visible(row), incoming))
<1>1. CASE row.deleted
  <2>1. Visible(row) = NoRow /\ Stored(row)
    BY <1>1, NoRowIsAVersion DEF Visible, Stored
  <2>2. Applied(row, Visible(row), incoming) = row
    BY <2>1, NoRowIsAVersion, ResolveFollowsTheOrder DEF Applied, Imported
  <2> QED
    BY <2>2, OutranksIsAnOrder
<1>2. CASE row = NoRow
  <2>1. Outranks(NoRow, Applied(row, Visible(row), incoming)) => FALSE
    <3>1. Applied(row, Visible(row), incoming) \in Versions
      BY AppliedIsOneOfTwo, <1>2, NoRowIsAVersion DEF Visible
    <3> QED
      BY <3>1, NoRowIsAVersion DEF Outranks, Versions, Version
  <2> QED
    BY <1>2, <2>1
<1>3. CASE ~row.deleted /\ row # NoRow
  <2>1. Visible(row) = row
    BY <1>3 DEF Visible
  <2>2. Applied(row, row, incoming) = IF Outranks(incoming, row) THEN incoming ELSE row
    BY <1>3, ResolveFollowsTheOrder DEF Applied
  <2> QED
    BY <2>1, <2>2, OutranksIsAnOrder
<1> QED
  BY <1>1, <1>2, <1>3

\* The versions there can be by now.
Known == Version(0..now, 0..MaxEdits)

LEMMA KnownAreVersions ==
    ASSUME now \in Nat
    PROVE  /\ Known \subseteq Versions
           /\ \A row \in Known : row.at <= now /\ [row EXCEPT !.at = now] \in Known
BY ReplicationAssumption DEF Known, Versions, Version

LEMMA OnRemoteIsKnown ==
    ASSUME now \in Nat, NEW row \in Known, NEW seen \in Known, NEW incoming \in Known
    PROVE  OnRemote(row, seen, incoming) \in Known
<1>1. Applied(row, seen, incoming) \in Known
  BY KnownAreVersions, AppliedIsOneOfTwo
<1>2. [incoming EXCEPT !.at = now] \in Known
  BY KnownAreVersions
<1> QED
  BY <1>1, <1>2 DEF OnRemote

\* A remote that decides on what it has goes forward, and is not behind what it was
\* offered.
LEMMA OnRemoteAdvances ==
    ASSUME now \in Nat, NEW row \in Known, NEW incoming \in Known
    PROVE  /\ ~Outranks(row, OnRemote(row, Visible(row), incoming))
           /\ ~Ahead(incoming, OnRemote(row, Visible(row), incoming))
<1>1. row \in Versions /\ incoming \in Versions /\ row.at <= now /\ incoming.at <= now
  BY KnownAreVersions
<1>2. CASE row.deleted
  <2>1. Visible(row) = NoRow /\ Stored(row)
    BY <1>2, NoRowIsAVersion DEF Visible, Stored
  <2>2. OnRemote(row, Visible(row), incoming) = row
    BY <1>1, <2>1, NoRowIsAVersion, ResolveFollowsTheOrder
    DEF OnRemote, Restamps, Applied, Imported
  <2> QED
    BY <1>1, <1>2, <2>2, OutranksIsAnOrder DEF Ahead, Outranks
<1>3. CASE row = NoRow
  <2>1. Visible(row) = NoRow /\ ~Stored(row)
    BY <1>3, NoRowIsAVersion DEF Visible, Stored
  <2>2. OnRemote(row, Visible(row), incoming) = incoming
    BY <1>1, <2>1, NoRowIsAVersion, ResolveFollowsTheOrder
    DEF OnRemote, Restamps, Applied, Imported
  <2>3. ~Outranks(NoRow, incoming)
    BY <1>1, NoRowIsAVersion DEF Outranks, Versions, Version
  <2> QED
    BY <1>1, <1>3, <2>2, <2>3, NotOutrankedNotAhead
<1>4. CASE ~row.deleted /\ row # NoRow
  <2>1. Visible(row) = row
    BY <1>4 DEF Visible
  <2>2. CASE Outranks(incoming, row)
    <3> DEFINE new == [incoming EXCEPT !.at = now]
    <3>1. OnRemote(row, row, incoming) = new
      BY <1>1, <1>4, <2>2, ResolveFollowsTheOrder DEF OnRemote, Restamps
    <3>2. /\ new \in Versions /\ new.at = now
          /\ new.deleted = incoming.deleted /\ new.verified = incoming.verified
      BY <1>1, KnownAreVersions DEF Versions, Version
    <3> HIDE DEF new
    <3>3. ~Outranks(row, new)
      BY <1>1, <2>2, <3>2 DEF Outranks, Versions, Version
    <3>4. ~Ahead(incoming, new)
      BY <1>1, <3>2 DEF Ahead, Outranks, Versions, Version
    <3> QED
      BY <2>1, <3>1, <3>3, <3>4
  <2>3. CASE ~Outranks(incoming, row)
    <3>1. OnRemote(row, row, incoming) = row
      BY <1>1, <1>4, <2>3, ResolveFollowsTheOrder DEF OnRemote, Restamps, Applied
    <3> QED
      BY <1>1, <2>1, <2>3, <3>1, OutranksIsAnOrder, NotOutrankedNotAhead
  <2> QED
    BY <2>2, <2>3
<1> QED
  BY <1>2, <1>3, <1>4

-----------------------------------------------------------------------------
(* Type correctness. *)

SyncerState ==
    [task: {"idle", "push", "pull", "boot"}, step: {"none", "list", "read", "apply", "end"},
     saved: Time, from: Time, filter: SUBSET Entries,
     todo: UNION {[D -> Known] : D \in SUBSET Entries}, last: Time, full: BOOLEAN,
     entry: SUBSET Entries, seen: Known]

\* A command holds rows of entries, and applies one that it holds.
SyncerOK(w) ==
    /\ w \in SyncerState
    /\ w.entry \subseteq DOMAIN w.todo
    /\ w.entry # {} => w.step = "apply"

Typed ==
    /\ now \in 1..MaxTime
    /\ local \in [Machines -> [Entries -> Known]]
    /\ queue \in [Machines -> [Entries -> Known]]
    /\ cursor \in [Machines -> Time]
    /\ remote \in [Entries -> Known]
    /\ edits \in 0..MaxEdits
    /\ faults \in 0..MaxFaults
    /\ DOMAIN syncer = Syncers
    /\ \A s \in Syncers : SyncerOK(syncer[s])

LEMMA NowIsNat == ASSUME Typed PROVE now \in Nat /\ now \in Time
BY ReplicationAssumption DEF Typed, Time

LEMMA KnownAreRows == ASSUME Typed PROVE Known \subseteq Row
BY ReplicationAssumption DEF Typed, Known, Row, Version, Time

LEMMA TodoIsTyped ==
    ASSUME NEW w, SyncerOK(w)
    PROVE  /\ DOMAIN w.todo \subseteq Entries
           /\ \A e \in DOMAIN w.todo : w.todo[e] \in Known
           /\ w.entry \subseteq DOMAIN w.todo /\ w.seen \in Known
<1>1. PICK D \in SUBSET Entries : w.todo \in [D -> Known]
  BY DEF SyncerOK, SyncerState
<1> QED
  BY <1>1 DEF SyncerOK, SyncerState

LEMMA TypedIsTypeOK == Typed => TypeOK
<1> SUFFICES ASSUME Typed PROVE TypeOK
  OBVIOUS
<1>1. ASSUME NEW s \in Syncers
      PROVE  /\ syncer[s].task \in {"idle", "push", "pull", "boot"}
             /\ syncer[s].step \in {"none", "list", "read", "apply", "end"}
             /\ syncer[s].saved \in Time /\ syncer[s].from \in Time /\ syncer[s].last \in Time
             /\ syncer[s].filter \subseteq Entries
             /\ syncer[s].full \in BOOLEAN
  BY DEF Typed, SyncerOK, SyncerState
<1>2. ASSUME NEW s \in Syncers
      PROVE  /\ DOMAIN syncer[s].todo \subseteq Entries
             /\ \A e \in DOMAIN syncer[s].todo : syncer[s].todo[e] \in Row
             /\ syncer[s].entry \subseteq DOMAIN syncer[s].todo
             /\ syncer[s].seen \in Row
  BY TodoIsTyped, KnownAreRows DEF Typed
<1>3. /\ local \in [Machines -> [Entries -> Row]]
      /\ queue \in [Machines -> [Entries -> Row]]
      /\ remote \in [Entries -> Row]
  BY KnownAreRows DEF Typed
<1> QED
  BY <1>1, <1>2, <1>3 DEF Typed, TypeOK

LEMMA VisibleIsKnown ==
    ASSUME now \in Nat, NEW row \in Known
    PROVE  Visible(row) \in Known /\ NoRow \in Known
BY ReplicationAssumption DEF Visible, NoRow, Known, Version

LEMMA IdleIsTyped == ASSUME now \in Nat PROVE SyncerOK(Idle)
<1>1. <<>> \in UNION {[D -> Known] : D \in SUBSET Entries}
  <2>1. <<>> \in [{} -> Known]
    OBVIOUS
  <2> QED
    BY <2>1
<1>2. NoRow \in Known /\ 0 \in Time
  BY ReplicationAssumption DEF NoRow, Known, Version, Time
<1> QED
  BY <1>1, <1>2 DEF Idle, SyncerOK, SyncerState

LEMMA InitTyped == Init => Typed
<1> SUFFICES ASSUME Init PROVE Typed
  OBVIOUS
<1>1. now = 1 /\ now \in Nat /\ now \in 1..MaxTime
  BY ReplicationAssumption DEF Init
<1>2. NoRow \in Known /\ 0 \in Time
  BY <1>1, ReplicationAssumption DEF NoRow, Known, Version, Time
<1> QED
  BY <1>1, <1>2, IdleIsTyped, ReplicationAssumption DEF Init, Typed

\* What a command holds: rows it had, rows of the remote that it lists, or rows of its
\* machine's queue that it claims.
Fetches(m, v, w) ==
    \A e \in DOMAIN w.todo :
        \/ w.task = v.task /\ e \in DOMAIN v.todo /\ w.todo[e] = v.todo[e]
        \/ w.task # "push" /\ w.todo[e] = remote[e] /\ Stored(remote[e]) /\ remote[e].at < now
        \/ w.task = "push" /\ w.todo[e] = queue[m][e]

Moves(s) ==
    \E w : SyncerOK(w) /\ Fetches(Home[s], syncer[s], w) /\ syncer' = [syncer EXCEPT ![s] = w]

LEMMA MovesWitness ==
    ASSUME NEW s, NEW w, SyncerOK(w), Fetches(Home[s], syncer[s], w), syncer' = [syncer EXCEPT ![s] = w]
    PROVE  Moves(s)
BY DEF Moves

\* A command that goes on with what it has, or with less of it.
LEMMA KeepsWitness ==
    ASSUME NEW s, NEW w, SyncerOK(w), w.task = syncer[s].task,
           DOMAIN w.todo \subseteq DOMAIN syncer[s].todo,
           \A e \in DOMAIN w.todo : w.todo[e] = syncer[s].todo[e],
           syncer' = [syncer EXCEPT ![s] = w]
    PROVE  Moves(s)
<1>1. Fetches(Home[s], syncer[s], w)
  BY DEF Fetches
<1> QED
  BY <1>1, MovesWitness

LEMMA IdleMoves ==
    ASSUME Typed, NEW s \in Syncers, syncer' = [syncer EXCEPT ![s] = Idle]
    PROVE  Moves(s)
<1>1. Fetches(Home[s], syncer[s], Idle)
  BY DEF Fetches, Idle
<1> QED
  BY <1>1, NowIsNat, IdleIsTyped, MovesWitness

LEMMA StartPushMoves == ASSUME Typed, NEW s \in Syncers, StartPush(s) PROVE Moves(s)
<1> DEFINE m == Home[s]
           rows == {e \in Entries : Stored(queue[m][e])}
           w == [Idle EXCEPT !.task = "push", !.step = "read", !.saved = cursor[m],
                             !.todo = Restrict(queue[m], rows)]
<1>1. syncer' = [syncer EXCEPT ![s] = w]
  BY DEF StartPush
<1>2. m \in Machines /\ cursor[m] \in Time /\ queue[m] \in [Entries -> Known]
  BY ReplicationAssumption DEF Typed
<1>3. Restrict(queue[m], rows) \in UNION {[D -> Known] : D \in SUBSET Entries}
  <2>1. Restrict(queue[m], rows) \in [rows -> Known] /\ rows \in SUBSET Entries
    BY <1>2 DEF Restrict
  <2> QED
    BY <2>1
<1>5. \A e \in DOMAIN Restrict(queue[m], rows) : Restrict(queue[m], rows)[e] = queue[m][e]
  BY DEF Restrict
<1> HIDE DEF m, rows
<1>4. SyncerOK(w) /\ w.task = "push" /\ w.todo = Restrict(queue[m], rows)
  BY <1>2, <1>3, NowIsNat, IdleIsTyped DEF SyncerOK, SyncerState, Idle
<1> HIDE DEF w
<1>6. Fetches(m, syncer[s], w)
  BY <1>4, <1>5 DEF Fetches
<1> QED
  BY <1>1, <1>4, <1>6, MovesWitness DEF m

LEMMA StartPullMoves ==
    ASSUME Typed, NEW s \in Syncers,
           \/ \E since \in Time : StartPull(s, since)
           \/ \E filter \in {Entries} \cup {{e} : e \in Entries} : StartBootstrap(s, filter)
    PROVE  Moves(s)
<1>1. SyncerOK(Idle)
  BY NowIsNat, IdleIsTyped
<1>2. ASSUME NEW since \in Time, StartPull(s, since) PROVE Moves(s)
  <2> DEFINE w == [Idle EXCEPT !.task = "pull", !.step = "list", !.from = since]
  <2>1. syncer' = [syncer EXCEPT ![s] = w]
    BY <1>2 DEF StartPull
  <2>2. w.todo = <<>> /\ SyncerOK(w)
    BY <1>1 DEF SyncerOK, SyncerState, Idle
  <2> HIDE DEF w
  <2>3. Fetches(Home[s], syncer[s], w)
    BY <2>2 DEF Fetches
  <2> QED
    BY <2>1, <2>2, <2>3, MovesWitness
<1>3. ASSUME NEW filter \in SUBSET Entries, StartBootstrap(s, filter) PROVE Moves(s)
  <2> DEFINE w == [Idle EXCEPT !.task = "boot", !.step = "list", !.filter = filter]
  <2>1. syncer' = [syncer EXCEPT ![s] = w]
    BY <1>3 DEF StartBootstrap
  <2>2. w.todo = <<>> /\ SyncerOK(w)
    BY <1>1 DEF SyncerOK, SyncerState, Idle
  <2> HIDE DEF w
  <2>3. Fetches(Home[s], syncer[s], w)
    BY <2>2 DEF Fetches
  <2> QED
    BY <2>1, <2>2, <2>3, MovesWitness
<1> QED
  BY <1>2, <1>3

\* The reads before an entry is applied.
LEMMA ReadMoves ==
    ASSUME Typed, NEW s \in Syncers, ReadRemote(s) \/ ReadLocal(s)
    PROVE  Moves(s)
<1>1. SyncerOK(syncer[s]) /\ Home[s] \in Machines
  BY ReplicationAssumption DEF Typed
<1>2. ASSUME NEW e \in DOMAIN syncer[s].todo, NEW seen \in Known,
             syncer' = [syncer EXCEPT ![s].step = "apply", ![s].entry = {e}, ![s].seen = seen]
      PROVE  Moves(s)
  <2> DEFINE w == [syncer[s] EXCEPT !.step = "apply", !.entry = {e}, !.seen = seen]
  <2>1. syncer' = [syncer EXCEPT ![s] = w]
    BY <1>2 DEF Typed
  <2>2. e \in Entries
    BY <1>1, TodoIsTyped
  <2>3. SyncerOK(w) /\ w.task = syncer[s].task /\ w.todo = syncer[s].todo
    BY <1>1, <2>2 DEF SyncerOK, SyncerState
  <2> HIDE DEF w
  <2> QED
    BY <2>1, <2>3, KeepsWitness
<1>3. \A e \in Entries : Visible(remote[e]) \in Known /\ Visible(local[Home[s]][e]) \in Known
  BY <1>1, NowIsNat, VisibleIsKnown DEF Typed
<1>4. DOMAIN syncer[s].todo \subseteq Entries
  BY <1>1, TodoIsTyped
<1>5. CASE ReadRemote(s)
  BY <1>2, <1>3, <1>4, <1>5 DEF ReadRemote
<1>6. CASE ReadLocal(s)
  BY <1>2, <1>3, <1>4, <1>6 DEF ReadLocal
<1> QED
  BY <1>5, <1>6

LEMMA NextRowIsTyped ==
    ASSUME Typed, NEW s \in Syncers, NEW e
    PROVE  /\ SyncerOK(NextRow(s, e)) /\ NextRow(s, e).task = syncer[s].task
           /\ NextRow(s, e).entry = {}
           /\ DOMAIN NextRow(s, e).todo \subseteq DOMAIN syncer[s].todo
           /\ \A f \in DOMAIN NextRow(s, e).todo : NextRow(s, e).todo[f] = syncer[s].todo[f]
<1> DEFINE todo == syncer[s].todo
           rest == Restrict(todo, DOMAIN todo \ {e})
           w == [syncer[s] EXCEPT !.step = "read", !.entry = {}, !.seen = NoRow, !.todo = rest]
<1>1. SyncerOK(syncer[s]) /\ NoRow \in Known
  BY NowIsNat, VisibleIsKnown, IdleIsTyped DEF Typed, SyncerOK, SyncerState, Idle
<1>2. /\ DOMAIN rest = DOMAIN todo \ {e}
      /\ \A f \in DOMAIN rest : rest[f] = todo[f]
  BY DEF Restrict
<1>3. rest \in UNION {[D -> Known] : D \in SUBSET Entries}
  <2>1. DOMAIN todo \subseteq Entries /\ \A f \in DOMAIN todo : todo[f] \in Known
    BY <1>1, TodoIsTyped
  <2>2. rest \in [DOMAIN todo \ {e} -> Known]
    BY <2>1 DEF Restrict
  <2>3. DOMAIN todo \ {e} \in SUBSET Entries
    BY <2>1
  <2> QED
    BY <2>2, <2>3
<1>4. NextRow(s, e) = w
  BY DEF NextRow
<1> HIDE DEF rest
<1>5. SyncerOK(w) /\ w.task = syncer[s].task /\ w.todo = rest /\ w.entry = {}
  BY <1>1, <1>3 DEF SyncerOK, SyncerState
<1> HIDE DEF w
<1> QED
  BY <1>2, <1>4, <1>5

LEMMA NextRowMoves ==
    ASSUME Typed, NEW s \in Syncers, NEW e, syncer' = [syncer EXCEPT ![s] = NextRow(s, e)]
    PROVE  Moves(s)
BY NextRowIsTyped, KeepsWitness

LEMMA AdvanceMoves ==
    ASSUME Typed, NEW s \in Syncers, NEW e, syncer' = [syncer EXCEPT ![s] = Advance(s, e)]
    PROVE  Moves(s)
<1>1. CASE DOMAIN syncer[s].todo # {e}
  BY <1>1, NextRowMoves DEF Advance
<1>2. CASE DOMAIN syncer[s].todo = {e}
  <2> DEFINE step == IF syncer[s].full THEN "list" ELSE "end"
             from == syncer[s].last
             v == NextRow(s, e)
             w == [v EXCEPT !.from = from, !.last = 0, !.full = FALSE, !.step = step]
  <2>1. syncer' = [syncer EXCEPT ![s] = w]
    BY <1>2 DEF Advance
  <2>2. from \in Time /\ 0 \in Time /\ step \in {"list", "end"}
    BY NowIsNat, ReplicationAssumption DEF Typed, SyncerOK, SyncerState, Time
  <2>3. /\ SyncerOK(v) /\ v.task = syncer[s].task /\ v.entry = {}
        /\ DOMAIN v.todo \subseteq DOMAIN syncer[s].todo
        /\ \A f \in DOMAIN v.todo : v.todo[f] = syncer[s].todo[f]
    BY NextRowIsTyped
  <2> HIDE DEF v, from, step
  <2>4. SyncerOK(w) /\ w.task = v.task /\ w.todo = v.todo
    BY <2>2, <2>3 DEF SyncerOK, SyncerState
  <2> HIDE DEF w
  <2> QED
    BY <2>1, <2>3, <2>4, KeepsWitness
<1> QED
  BY <1>1, <1>2

LEMMA ListPageMoves == ASSUME Typed, NEW s \in Syncers, ListPage(s) PROVE Moves(s)
<1>1. SyncerOK(syncer[s])
  BY DEF Typed
<1>2. CASE syncer[s].step = "list" /\ syncer' = [syncer EXCEPT ![s].step = "end"]
  <2> DEFINE w == [syncer[s] EXCEPT !.step = "end"]
  <2>1. syncer' = [syncer EXCEPT ![s] = w]
    BY <1>2 DEF Typed
  <2>2. SyncerOK(w) /\ w.task = syncer[s].task /\ w.todo = syncer[s].todo
    BY <1>1, <1>2 DEF SyncerOK, SyncerState
  <2> HIDE DEF w
  <2> QED
    BY <2>1, <2>2, KeepsWitness
<1>3. ASSUME NEW page \in SUBSET Entries, NEW e \in page, NEW full \in BOOLEAN,
             \A f \in page : Stored(remote[f]) /\ remote[f].at < now,
             syncer[s].step = "list",
             syncer[s].task # "push",
             syncer' = [syncer EXCEPT ![s] =
               [@ EXCEPT !.step = "read", !.todo = Restrict(remote, page),
                         !.last = remote[e].at, !.full = full]]
      PROVE  Moves(s)
  <2> DEFINE todo == Restrict(remote, page)
             last == remote[e].at
             w == [syncer[s] EXCEPT !.step = "read", !.todo = todo, !.last = last, !.full = full]
  <2>1. syncer' = [syncer EXCEPT ![s] = w]
    BY <1>3 DEF Typed
  <2>2. last \in Time
    BY KnownAreRows DEF Typed, Row, Version
  <2>3. todo \in [page -> Known] /\ \A f \in page : todo[f] = remote[f]
    BY DEF Restrict, Typed
  <2>4. DOMAIN todo = page /\ todo \in UNION {[D -> Known] : D \in SUBSET Entries}
    BY <2>3
  <2> HIDE DEF todo, last
  <2>5. /\ w \in SyncerState /\ w.todo = todo /\ w.entry = syncer[s].entry
        /\ w.task = syncer[s].task
    BY <1>1, <2>2, <2>4 DEF SyncerOK, SyncerState
  <2> HIDE DEF w
  <2>6. Fetches(Home[s], syncer[s], w)
    BY <1>3, <2>3, <2>4, <2>5 DEF Fetches
  <2>7. SyncerOK(w)
    BY <1>1, <1>3, <2>5 DEF SyncerOK
  <2> QED
    BY <2>1, <2>6, <2>7, MovesWitness
<1>4. CASE /\ syncer[s].step = "list" /\ syncer[s].task # "push"
           /\ \E page \in SUBSET Listed(s) : \E e \in page :
                syncer' = [syncer EXCEPT ![s] =
                  [@ EXCEPT !.step = "read", !.todo = Restrict(remote, page),
                            !.last = remote[e].at, !.full = Cardinality(page) = Limit]]
  <2>1. Listed(s) \subseteq Entries
    BY <1>1 DEF Listed, SyncerOK, SyncerState
  <2>2. \A f \in Listed(s) : Stored(remote[f]) /\ remote[f].at < now
    <3>1. \A f \in Entries : remote[f].at \in Nat
      BY NowIsNat DEF Typed, Known, Version
    <3> QED
      BY <2>1, <3>1, NowIsNat, ReplicationAssumption DEF Listed
  <2> QED
    BY <1>3, <1>4, <2>1, <2>2
<1>5. syncer[s].task # "push" /\ syncer[s].step = "list"
  BY DEF ListPage
<1> QED
  BY <1>2, <1>4, <1>5 DEF ListPage

\* What a step of a command has to show.
LEMMA CommandStepTyped ==
    ASSUME Typed, NEW s \in Syncers, Moves(s), UNCHANGED <<now, edits>>,
           local' \in [Machines -> [Entries -> Known]],
           queue' \in [Machines -> [Entries -> Known]],
           remote' \in [Entries -> Known],
           cursor' \in [Machines -> Time], faults' \in 0..MaxFaults
    PROVE  Typed'
<1>1. Known' = Known
  BY DEF Known
<1>2. PICK w : SyncerOK(w) /\ syncer' = [syncer EXCEPT ![s] = w]
  BY DEF Moves
<1>3. DOMAIN syncer' = Syncers /\ \A t \in Syncers : SyncerOK(syncer'[t])
  BY <1>2 DEF Typed
<1>4. \A t \in Syncers : SyncerOK(syncer[t])'
  BY <1>1, <1>3 DEF SyncerOK, SyncerState
<1> QED
  BY <1>1, <1>3, <1>4 DEF Typed

\* What the remote makes of a row, and whether anything came between.
LEMMA OfferIsTyped ==
    ASSUME Typed, NEW s \in Syncers, NEW e \in syncer[s].entry, Offer(s, e)
    PROVE  /\ e \in Entries /\ syncer[s].todo[e] \in Known
           /\ remote' = [remote EXCEPT ![e] = OnRemote(remote[e], syncer[s].seen, syncer[s].todo[e])]
           /\ remote' \in [Entries -> Known]
           /\ raced \subseteq raced'
           /\ e \notin raced' => syncer[s].seen = Visible(remote[e])
<1>1. /\ e \in Entries /\ syncer[s].todo[e] \in Known /\ syncer[s].seen \in Known
  BY TodoIsTyped DEF Typed
<1>2. remote' = [remote EXCEPT ![e] = OnRemote(remote[e], syncer[s].seen, syncer[s].todo[e])]
  BY DEF Offer
<1>3. OnRemote(remote[e], syncer[s].seen, syncer[s].todo[e]) \in Known
  BY <1>1, NowIsNat, OnRemoteIsKnown DEF Typed
<1>4. remote' \in [Entries -> Known]
  BY <1>1, <1>2, <1>3 DEF Typed
<1>5. raced \subseteq raced' /\ (e \notin raced' => syncer[s].seen = Visible(remote[e]))
  BY DEF Offer
<1> QED
  BY <1>1, <1>2, <1>4, <1>5

\* What a machine makes of a row.
LEMMA ApplyIsTyped ==
    ASSUME Typed, NEW s \in Syncers, NEW e \in syncer[s].entry,
           local' = [local EXCEPT ![Home[s]][e] = Applied(@, syncer[s].seen, syncer[s].todo[e])]
    PROVE  /\ e \in Entries /\ Home[s] \in Machines /\ syncer[s].todo[e] \in Known
           /\ local' \in [Machines -> [Entries -> Known]]
           /\ local'[Home[s]][e] = Applied(local[Home[s]][e], syncer[s].seen, syncer[s].todo[e])
           /\ \A m \in Machines, f \in Entries :
                <<m, f>> # <<Home[s], e>> => local'[m][f] = local[m][f]
<1>1. /\ e \in Entries /\ Home[s] \in Machines
      /\ syncer[s].todo[e] \in Known /\ syncer[s].seen \in Known
  BY TodoIsTyped, ReplicationAssumption DEF Typed
<1> DEFINE new == Applied(local[Home[s]][e], syncer[s].seen, syncer[s].todo[e])
<1>2. new \in Known
  <2>1. local[Home[s]][e] \in Known
    BY <1>1 DEF Typed
  <2> QED
    BY <1>1, <2>1, NowIsNat, KnownAreVersions, AppliedIsOneOfTwo
<1>3. local' = [local EXCEPT ![Home[s]][e] = new]
  OBVIOUS
<1> HIDE DEF new
<1>4. /\ local' \in [Machines -> [Entries -> Known]]
      /\ local'[Home[s]][e] = new
      /\ \A m \in Machines, f \in Entries :
           <<m, f>> # <<Home[s], e>> => local'[m][f] = local[m][f]
  BY <1>1, <1>2, <1>3 DEF Typed
<1> QED
  BY <1>1, <1>4 DEF new

CommandStep(s) == PushStep(s) \/ PullStep(s) \/ Abort(s)

LEMMA CommandMoves == ASSUME Typed, NEW s \in Syncers, CommandStep(s) PROVE Moves(s)
<1>1. CASE StartPush(s) \/ ReadRemote(s) \/ ReadLocal(s) \/ ListPage(s)
  BY <1>1, StartPushMoves, ReadMoves, ListPageMoves
<1>2. CASE PushRow(s) \/ PushFails(s)
  BY <1>2, NextRowMoves DEF PushRow, PushFails
<1>3. CASE ApplyLocal(s) \/ ApplyFails(s)
  BY <1>3, AdvanceMoves DEF ApplyLocal, ApplyFails
<1>4. CASE EndPush(s) \/ EndPull(s) \/ EndBootstrap(s) \/ Abort(s)
  BY <1>4, IdleMoves DEF EndPush, EndPull, EndBootstrap, Abort
<1>5. CASE \/ \E since \in Time : StartPull(s, since)
           \/ \E filter \in {Entries} \cup {{e} : e \in Entries} : StartBootstrap(s, filter)
  BY <1>5, StartPullMoves
<1> QED
  BY <1>1, <1>2, <1>3, <1>4, <1>5 DEF CommandStep, PushStep, PullStep

\* Commands that leave both stores and the queue alone.
Bystands(s) ==
    \/ StartPush(s) \/ ReadRemote(s) \/ EndPush(s)
    \/ \E since \in Time : StartPull(s, since)
    \/ \E filter \in {Entries} \cup {{e} : e \in Entries} : StartBootstrap(s, filter)
    \/ ListPage(s) \/ ReadLocal(s) \/ ApplyFails(s) \/ EndPull(s) \/ EndBootstrap(s)
    \/ Abort(s)

LEMMA BystandsChangesNothing ==
    ASSUME NEW s, Bystands(s)
    PROVE  UNCHANGED <<now, local, queue, remote, edits, raced, touched>>
BY DEF Bystands, StartPush, ReadRemote, EndPush, StartPull, StartBootstrap, ListPage, ReadLocal,
   ApplyFails, EndPull, EndBootstrap, Abort, history

LEMMA CommandTyped == ASSUME Typed, NEW s \in Syncers, CommandStep(s) PROVE Typed'
<1>1. Moves(s)
  BY CommandMoves
<1>2. /\ cursor' \in [Machines -> Time] /\ faults' \in 0..MaxFaults /\ UNCHANGED <<now, edits>>
  <2>1. Home[s] \in Machines /\ syncer[s].saved \in Time /\ syncer[s].from \in Time
    BY ReplicationAssumption DEF Typed, SyncerOK, SyncerState
  <2>2. now > Skew => now - Skew \in Time
    BY ReplicationAssumption DEF Typed, Time
  <2>3. Fault => faults' \in 0..MaxFaults
    BY ReplicationAssumption DEF Fault, Typed
  <2>4. cursor \in [Machines -> Time] /\ faults \in 0..MaxFaults
    BY DEF Typed
  <2>5. CASE EndPush(s) \/ EndPull(s) \/ EndBootstrap(s)
    BY <2>1, <2>2, <2>4, <2>5 DEF EndPush, EndPull, EndBootstrap
  <2>6. CASE PushFails(s) \/ ApplyFails(s)
    BY <2>3, <2>4, <2>6 DEF PushFails, ApplyFails
  <2> QED
    BY <2>4, <2>5, <2>6 DEF CommandStep, PushStep, PullStep, StartPush, ReadRemote, PushRow,
       StartPull, StartBootstrap, ListPage, ReadLocal, ApplyLocal, Abort
<1>3. CASE Bystands(s)
  BY <1>1, <1>2, <1>3, BystandsChangesNothing, CommandStepTyped DEF Typed
<1>4. CASE PushRow(s)
  <2>1. PICK e \in syncer[s].entry :
          Offer(s, e) /\ queue' = Retired(Home[s], e, syncer[s].todo[e])
    BY <1>4 DEF PushRow
  <2>2. remote' \in [Entries -> Known]
    BY <2>1, OfferIsTyped
  <2>3. queue' \in [Machines -> [Entries -> Known]]
    BY <2>1, NowIsNat, VisibleIsKnown DEF Typed, Retired, Known
  <2> QED
    BY <1>1, <1>2, <1>4, <2>2, <2>3, CommandStepTyped DEF Typed, PushRow
<1>5. CASE PushFails(s)
  <2>1. remote' \in [Entries -> Known]
    BY <1>5, OfferIsTyped DEF PushFails, Typed
  <2> QED
    BY <1>1, <1>2, <1>5, <2>1, CommandStepTyped DEF Typed, PushFails
<1>6. CASE ApplyLocal(s)
  <2>1. local' \in [Machines -> [Entries -> Known]]
    BY <1>6, ApplyIsTyped DEF ApplyLocal
  <2> QED
    BY <1>1, <1>2, <1>6, <2>1, CommandStepTyped DEF Typed, ApplyLocal
<1> QED
  BY <1>3, <1>4, <1>5, <1>6 DEF CommandStep, PushStep, PullStep, Bystands

LEMMA WriteIsTyped ==
    ASSUME Typed, NEW m \in Machines, NEW e \in Entries, NEW row \in Known, Write(m, e, row),
           edits' \in 0..MaxEdits
    PROVE  Typed'
<1>1. Known' = Known
  BY DEF Write, Known
<1>2. /\ local' \in [Machines -> [Entries -> Known]]
      /\ queue' \in [Machines -> [Entries -> Known]]
  BY DEF Write, Typed
<1>3. UNCHANGED <<now, cursor, remote, syncer, faults>>
  BY DEF Write
<1>4. \A t \in Syncers : SyncerOK(syncer[t])'
  BY <1>1, <1>3 DEF Typed, SyncerOK, SyncerState
<1> QED
  BY <1>1, <1>2, <1>3, <1>4 DEF Typed

\* What an edit makes of a row: a row that is stored and that the old one does not
\* outrank.
LEMMA EditedRow ==
    ASSUME Typed, NEW old \in Known, NEW ver \in 1..MaxEdits, NEW verified \in BOOLEAN,
           old.verified => verified, ~old.deleted,
           NEW new, new = [old EXCEPT !.ver = ver, !.at = now, !.verified = verified]
    PROVE  new \in Known /\ Stored(new) /\ ~Outranks(old, new)
<1>1. now \in Nat /\ old.at <= now /\ old.at \in Nat /\ old.verified \in BOOLEAN
  BY NowIsNat DEF Typed, Known, Version
<1>2. /\ new.ver = ver /\ new.at = now /\ new.verified = verified
      /\ new.deleted = old.deleted
  BY DEF Known, Version
<1>3. new \in Known /\ new # NoRow
  <2>1. ver \in 0..MaxEdits /\ now \in 0..now /\ ver # 0
    BY <1>1, ReplicationAssumption
  <2>2. new \in Known
    BY <2>1 DEF Known, Version
  <2>3. NoRow.ver = 0
    BY DEF NoRow
  <2> QED
    BY <1>2, <2>1, <2>2, <2>3
<1>4. ~Outranks(old, new)
  BY <1>1, <1>2 DEF Outranks
<1> QED
  BY <1>3, <1>4 DEF Stored

\* An edit: the row that is written is queued, and it goes forward.
Edits(m, e) ==
    /\ \E row \in Known : Write(m, e, row) /\ Stored(row) /\ ~Outranks(local[m][e], row)
    /\ edits' \in 0..MaxEdits

LEMMA EditIsForward ==
    ASSUME Typed, NEW m \in Machines, NEW e \in Entries,
           Create(m, e) \/ Retag(m, e) \/ MarkVerified(m, e) \/ Deprecate(m, e)
    PROVE  Edits(m, e)
<1> DEFINE old == local[m][e]
<1>1. old \in Known /\ old \in Versions
  BY NowIsNat, KnownAreVersions DEF Typed
<1>2. CASE Deprecate(m, e)
  <2> DEFINE new == [old EXCEPT !.deleted = TRUE]
  <2>1. Write(m, e, new) /\ edits' = edits
    BY <1>2 DEF Deprecate
  <2>2. new \in Known /\ new.deleted /\ new.at = old.at /\ new.verified = old.verified
    BY <1>1 DEF Known, Version
  <2> HIDE DEF new
  <2>3. new # NoRow
    BY <2>2, NoRowIsAVersion
  <2>4. ~Outranks(old, new)
    <3>1. old.at \in Nat /\ ~(old.at > new.at)
      BY <1>1, <2>2 DEF Versions, Version
    <3>2. ~(old.verified /\ ~new.verified) /\ ~(old.deleted /\ ~new.deleted)
      BY <2>2
    <3> QED
      BY <3>1, <3>2 DEF Outranks
  <2> QED
    BY <2>1, <2>2, <2>3, <2>4 DEF Edits, Typed, Stored
<1>3. ASSUME Create(m, e) \/ Retag(m, e) \/ MarkVerified(m, e)
      PROVE  /\ edits' \in 1..MaxEdits /\ ~old.deleted
             /\ \E verified \in BOOLEAN :
                  /\ old.verified => verified
                  /\ Write(m, e, [old EXCEPT !.ver = edits', !.at = now, !.verified = verified])
  <2>1. edits' \in 1..MaxEdits
    BY <1>3, ReplicationAssumption DEF Create, Retag, MarkVerified, Edit, Typed
  <2>2. CASE Create(m, e)
    <3>1. old = NoRow
      BY <2>2 DEF Create
    <3>2. [NoRow EXCEPT !.ver = edits', !.at = now, !.verified = FALSE]
            = [NoRow EXCEPT !.ver = edits', !.at = now]
      <4>1. NoRow.verified = FALSE
        BY DEF NoRow
      <4> QED
        BY <4>1, NoRowIsAVersion DEF Versions, Version
    <3> QED
      BY <2>1, <2>2, <3>1, <3>2, NoRowIsAVersion DEF Create, Edit
  <2>3. CASE Retag(m, e)
    <3>1. ~old.deleted
      BY <2>3 DEF Retag, Visible, Stored
    <3>2. [old EXCEPT !.ver = edits', !.at = now, !.verified = old.verified]
            = [old EXCEPT !.ver = edits', !.at = now]
      BY <1>1 DEF Known, Version
    <3>3. Write(m, e, [old EXCEPT !.ver = edits', !.at = now])
      BY <2>3 DEF Retag, Edit
    <3>4. old.verified \in BOOLEAN
      BY <1>1 DEF Known, Version
    <3> QED
      BY <2>1, <3>1, <3>2, <3>3, <3>4
  <2>4. CASE MarkVerified(m, e)
    <3>1. ~old.deleted
      BY <2>4 DEF MarkVerified, Visible, Stored
    <3>2. [old EXCEPT !.ver = edits', !.at = now, !.verified = TRUE]
            = [[old EXCEPT !.verified = TRUE] EXCEPT !.ver = edits', !.at = now]
      BY <1>1 DEF Known, Version
    <3> QED
      BY <2>1, <2>4, <3>1, <3>2 DEF MarkVerified, Edit
  <2> QED
    BY <1>3, <2>2, <2>3, <2>4
<1>4. CASE Create(m, e) \/ Retag(m, e) \/ MarkVerified(m, e)
  <2>1. /\ edits' \in 1..MaxEdits /\ ~old.deleted
        /\ \E verified \in BOOLEAN :
             /\ old.verified => verified
             /\ Write(m, e, [old EXCEPT !.ver = edits', !.at = now, !.verified = verified])
    BY <1>3, <1>4
  <2>2. PICK verified \in BOOLEAN :
          /\ old.verified => verified
          /\ Write(m, e, [old EXCEPT !.ver = edits', !.at = now, !.verified = verified])
    BY <2>1
  <2> DEFINE new == [old EXCEPT !.ver = edits', !.at = now, !.verified = verified]
  <2>3. Write(m, e, new)
    BY <2>2
  <2>4. new \in Known /\ Stored(new) /\ ~Outranks(old, new)
    BY <1>1, <2>1, <2>2, EditedRow
  <2> HIDE DEF new
  <2> QED
    BY <2>1, <2>3, <2>4, ReplicationAssumption DEF Edits
<1> QED
  BY <1>2, <1>4

LEMMA TouchIsTyped ==
    ASSUME Typed, NEW m \in Machines, NEW e \in Entries, Touch(m, e)
    PROVE  /\ Typed'
           /\ \A k \in Machines, f \in Entries : ~Outranks(local[k][f], local'[k][f])
           /\ \A k \in Machines, f \in Entries :
                <<k, f>> # <<m, e>> => local'[k][f] = local[k][f]
<1> DEFINE old == local[m][e]
           new == [old EXCEPT !.at = now]
<1>1. Known' = Known /\ UNCHANGED <<now, queue, cursor, remote, syncer, edits, faults>>
  BY DEF Touch, Known
<1>2. new \in Known /\ old \in Known /\ old \in Versions /\ old.at <= now
  BY NowIsNat, KnownAreVersions DEF Typed
<1>3. local' = [local EXCEPT ![m][e] = new]
  BY DEF Touch
<1>4. ~Outranks(old, new)
  BY <1>2, NowIsNat DEF Outranks, Known, Version
<1> HIDE DEF new
<1>5. /\ local' \in [Machines -> [Entries -> Known]]
      /\ local'[m][e] = new
      /\ \A k \in Machines, f \in Entries : <<k, f>> # <<m, e>> => local'[k][f] = local[k][f]
  BY <1>2, <1>3 DEF Typed
<1>6. \A t \in Syncers : SyncerOK(syncer[t])'
  BY <1>1 DEF Typed, SyncerOK, SyncerState
<1>7. Typed'
  BY <1>1, <1>5, <1>6 DEF Typed
<1>8. ASSUME NEW k \in Machines, NEW f \in Entries PROVE ~Outranks(local[k][f], local'[k][f])
  <2>1. local[k][f] \in Versions
    BY NowIsNat, KnownAreVersions DEF Typed
  <2> QED
    BY <1>4, <1>5, <2>1, OutranksIsAnOrder
<1> QED
  BY <1>5, <1>7, <1>8

LEMMA TickTyped == ASSUME Typed, Tick PROVE Typed'
<1>1. now' = now + 1 /\ now' \in 1..MaxTime
  BY ReplicationAssumption DEF Tick, Typed
<1>2. Known \subseteq Known'
  BY <1>1, NowIsNat DEF Known, Version
<1>3. UNCHANGED <<local, queue, cursor, remote, syncer, edits, faults>>
  BY DEF Tick
<1>4. ASSUME NEW t \in Syncers PROVE SyncerOK(syncer[t])'
  <2>1. SyncerOK(syncer[t])
    BY DEF Typed
  <2>2. PICK D \in SUBSET Entries : syncer[t].todo \in [D -> Known]
    BY <2>1 DEF SyncerOK, SyncerState
  <2>3. syncer[t].todo \in [D -> Known']
    BY <1>2, <2>2
  <2>4. syncer[t] \in SyncerState'
    BY <1>2, <2>1, <2>3 DEF SyncerOK, SyncerState
  <2> QED
    BY <1>3, <2>1, <2>4 DEF SyncerOK
<1>5. /\ local \in [Machines -> [Entries -> Known']]
      /\ queue \in [Machines -> [Entries -> Known']]
      /\ remote \in [Entries -> Known']
  BY <1>2 DEF Typed
<1> QED
  BY <1>1, <1>3, <1>4, <1>5 DEF Typed

LEMMA NextTyped == Typed /\ [Next]_vars => Typed'
<1> SUFFICES ASSUME Typed, [Next]_vars PROVE Typed'
  OBVIOUS
<1>1. CASE UNCHANGED vars
  <2>1. Known' = Known
    BY <1>1 DEF vars, Known
  <2>2. \A t \in Syncers : SyncerOK(syncer[t])'
    BY <1>1, <2>1 DEF vars, Typed, SyncerOK, SyncerState
  <2> QED
    BY <1>1, <2>1, <2>2 DEF vars, Typed
<1>2. CASE Tick
  BY <1>2, TickTyped
<1>3. ASSUME NEW m \in Editors, NEW e \in Entries,
             Create(m, e) \/ Retag(m, e) \/ MarkVerified(m, e) \/ Deprecate(m, e)
      PROVE  Typed'
  <2>1. m \in Machines
    BY ReplicationAssumption
  <2>2. Edits(m, e)
    BY <1>3, <2>1, EditIsForward
  <2> QED
    BY <2>1, <2>2, WriteIsTyped DEF Edits
<1>4. ASSUME NEW m \in Editors, NEW e \in Entries, Touch(m, e) PROVE Typed'
  BY <1>4, TouchIsTyped, ReplicationAssumption
<1>5. ASSUME NEW s \in Syncers, CommandStep(s) PROVE Typed'
  BY <1>5, CommandTyped
<1> QED
  BY <1>1, <1>2, <1>3, <1>4, <1>5 DEF Next, EditStep, CommandStep

\* Every row has a time that has been, and every command holds rows of entries.
THEOREM TypeCorrectness == Spec => []TypeOK
BY InitTyped, NextTyped, TypedIsTypeOK, PTL DEF Spec

-----------------------------------------------------------------------------
(* No row is given up for one it outranks. *)

LEMMA OfferAdvances ==
    ASSUME Typed, NEW s \in Syncers, NEW e \in syncer[s].entry, Offer(s, e), NEW f \in Entries,
           Outranks(remote[f], remote'[f])
    PROVE  Stale(s, remote)
<1>1. /\ e \in Entries /\ syncer[s].todo[e] \in Known
      /\ remote' = [remote EXCEPT ![e] = OnRemote(remote[e], syncer[s].seen, syncer[s].todo[e])]
  BY OfferIsTyped
<1>2. remote[f] \in Known /\ remote[f] \in Versions
  BY NowIsNat, KnownAreVersions DEF Typed
<1>3. f = e
  BY <1>1, <1>2, OutranksIsAnOrder DEF Typed
<1>4. remote'[e] = OnRemote(remote[e], syncer[s].seen, syncer[s].todo[e])
  BY <1>1 DEF Typed
<1>5. syncer[s].seen # Visible(remote[e])
  BY <1>1, <1>2, <1>3, <1>4, NowIsNat, OnRemoteAdvances
<1> QED
  BY <1>5 DEF Stale

LEMMA ApplyAdvances ==
    ASSUME Typed, NEW s \in Syncers, ApplyLocal(s), NEW m \in Machines, NEW f \in Entries,
           Outranks(local[m][f], local'[m][f])
    PROVE  Home[s] = m /\ Stale(s, local[m])
<1>1. PICK e \in syncer[s].entry :
        local' = [local EXCEPT ![Home[s]][e] = Applied(@, syncer[s].seen, syncer[s].todo[e])]
  BY DEF ApplyLocal
<1>2. /\ e \in Entries /\ Home[s] \in Machines /\ syncer[s].todo[e] \in Known
      /\ local'[Home[s]][e] = Applied(local[Home[s]][e], syncer[s].seen, syncer[s].todo[e])
      /\ \A k \in Machines, g \in Entries :
           <<k, g>> # <<Home[s], e>> => local'[k][g] = local[k][g]
  BY <1>1, ApplyIsTyped
<1>3. local[m][f] \in Versions /\ syncer[s].todo[e] \in Versions
  BY <1>2, NowIsNat, KnownAreVersions DEF Typed
<1>4. <<m, f>> = <<Home[s], e>>
  BY <1>2, <1>3, OutranksIsAnOrder
<1>5. syncer[s].seen # Visible(local[m][f])
  BY <1>2, <1>3, <1>4, AppliedAdvances
<1> QED
  BY <1>4, <1>5 DEF Stale

\* No store gives up a row for one it outranks, unless something came between the read
\* and the write of the command that does it: what a whole fleet of machines makes of an
\* entry goes one way.
THEOREM StoresOnlyAdvance == Spec => RowsOnlyAdvance
<1> DEFINE LocalAdvance ==
             \A m \in Machines, e \in Entries :
                Outranks(local[m][e], local'[m][e])
                    => \E s \in Syncers : Home[s] = m /\ Stale(s, local[m])
           RemoteAdvance ==
             \A e \in Entries :
                Outranks(remote[e], remote'[e]) => \E s \in Syncers : Stale(s, remote)
<1>1. ASSUME Typed, [Next]_vars PROVE [LocalAdvance /\ RemoteAdvance]_vars
  <2> SUFFICES ASSUME Next PROVE LocalAdvance /\ RemoteAdvance
    BY <1>1
  <2>1. /\ \A m \in Machines, e \in Entries : ~Outranks(local[m][e], local[m][e])
        /\ \A e \in Entries : ~Outranks(remote[e], remote[e])
    BY <1>1, NowIsNat, KnownAreVersions, OutranksIsAnOrder DEF Typed
  <2>2. CASE local' = local /\ remote' = remote
    BY <2>1, <2>2
  <2>3. ASSUME NEW m \in Editors, NEW e \in Entries,
               Create(m, e) \/ Retag(m, e) \/ MarkVerified(m, e) \/ Deprecate(m, e)
        PROVE  LocalAdvance /\ RemoteAdvance
    <3>1. m \in Machines /\ Edits(m, e)
      BY <1>1, <2>3, EditIsForward, ReplicationAssumption
    <3>2. PICK row \in Known : Write(m, e, row) /\ ~Outranks(local[m][e], row)
      BY <3>1 DEF Edits
    <3>3. local' = [local EXCEPT ![m][e] = row] /\ remote' = remote
      BY <3>2 DEF Write
    <3>4. \A k \in Machines, f \in Entries :
            local'[k][f] = IF k = m /\ f = e THEN row ELSE local[k][f]
      BY <1>1, <3>1, <3>3 DEF Typed
    <3> QED
      BY <2>1, <3>2, <3>3, <3>4
  <2>4. ASSUME NEW m \in Editors, NEW e \in Entries, Touch(m, e)
        PROVE  LocalAdvance /\ RemoteAdvance
    <3>1. m \in Machines /\ remote' = remote
      BY <2>4, ReplicationAssumption DEF Touch
    <3> QED
      BY <1>1, <2>1, <2>4, <3>1, TouchIsTyped
  <2>5. ASSUME NEW s \in Syncers, PushRow(s) \/ PushFails(s), remote' # remote
        PROVE  LocalAdvance /\ RemoteAdvance
    <3>1. PICK e \in syncer[s].entry : Offer(s, e)
      BY <2>5 DEF PushRow, PushFails
    <3>2. local' = local
      BY <2>5 DEF PushRow, PushFails
    <3> QED
      BY <1>1, <2>1, <3>1, <3>2, OfferAdvances
  <2>6. ASSUME NEW s \in Syncers, ApplyLocal(s) PROVE LocalAdvance /\ RemoteAdvance
    <3>1. remote' = remote
      BY <2>6 DEF ApplyLocal
    <3> QED
      BY <1>1, <2>1, <2>6, <3>1, ApplyAdvances
  <2>7. ASSUME NEW s \in Syncers, CommandStep(s)
        PROVE  \/ local' = local /\ remote' = remote
               \/ (PushRow(s) \/ PushFails(s)) /\ remote' # remote
               \/ ApplyLocal(s)
    BY <2>7, BystandsChangesNothing DEF CommandStep, PushStep, PullStep, Bystands, PushRow, PushFails
  <2>8. Tick => local' = local /\ remote' = remote
    BY DEF Tick
  <2> QED
    BY <2>2, <2>3, <2>4, <2>5, <2>6, <2>7, <2>8 DEF Next, EditStep, CommandStep
<1> QED
  BY <1>1, InitTyped, NextTyped, PTL DEF Spec, RowsOnlyAdvance

-----------------------------------------------------------------------------
(* What a machine knows better is on its way. *)

Queued(m, e) == Stored(queue[m][e]) /\ ~Ahead(local[m][e], queue[m][e])

Caught(m, e) == ~Ahead(local[m][e], remote[e]) \/ Queued(m, e)

\* The remote has got as far as every machine, or the machine has queued as far as it
\* got; and no command has fetched what is ahead of the remote.
AheadInv ==
    /\ \A m \in Machines, e \in Entries \ raced : <<m, e>> \notin touched => Caught(m, e)
    /\ \A s \in Syncers :
        syncer[s].task # "push" =>
            \A e \in DOMAIN syncer[s].todo \ raced : ~Ahead(syncer[s].todo[e], remote[e])

AllVersions ==
    /\ \A m \in Machines, e \in Entries :
         local[m][e] \in Versions /\ queue[m][e] \in Versions
    /\ \A e \in Entries : remote[e] \in Versions
    /\ \A s \in Syncers : \A e \in DOMAIN syncer[s].todo :
         e \in Entries /\ syncer[s].todo[e] \in Versions

LEMMA AreVersions == Typed => AllVersions
<1> SUFFICES ASSUME Typed PROVE AllVersions
  OBVIOUS
<1>1. Known \subseteq Versions
  BY NowIsNat, KnownAreVersions
<1>2. \A s \in Syncers : \A e \in DOMAIN syncer[s].todo :
        e \in Entries /\ syncer[s].todo[e] \in Known
  BY TodoIsTyped DEF Typed
<1> QED
  BY <1>1, <1>2 DEF Typed, AllVersions

\* What a step has to show: the remote goes forward, machines stay caught, and a
\* command fetches what the remote had.
LEMMA AheadStep ==
    ASSUME Typed, Typed', AheadInv, raced \subseteq raced', touched \subseteq touched',
           \A e \in Entries \ raced' : ~Ahead(remote[e], remote'[e]),
           \A m \in Machines, e \in Entries \ raced' :
              <<m, e>> \notin touched' /\ Caught(m, e) => Caught(m, e)',
           \A s \in Syncers : syncer'[s] = syncer[s] \/ Fetches(Home[s], syncer[s], syncer'[s])
    PROVE  AheadInv'
<1>1. ASSUME NEW m \in Machines, NEW e \in Entries \ raced', <<m, e>> \notin touched'
      PROVE  Caught(m, e)'
  BY <1>1 DEF AheadInv
<1>2. ASSUME NEW s \in Syncers, syncer'[s].task # "push", NEW e \in DOMAIN syncer'[s].todo \ raced'
      PROVE  ~Ahead(syncer'[s].todo[e], remote'[e])
  <2>1. /\ e \in Entries /\ remote[e] \in Versions /\ remote'[e] \in Versions
        /\ syncer'[s].todo[e] \in Versions
    <3>1. AllVersions /\ AllVersions'
      BY AreVersions, PTL
    <3> QED
      BY <1>2, <3>1 DEF AllVersions
  <2>2. ~Ahead(remote[e], remote'[e])
    BY <1>2, <2>1
  <2>3. ~Ahead(syncer'[s].todo[e], remote[e])
    <3>1. CASE syncer'[s].todo[e] = remote[e]
      BY <2>1, <3>1, NotOutrankedNotAhead
    <3>2. CASE /\ syncer[s].task # "push" /\ e \in DOMAIN syncer[s].todo
               /\ syncer'[s].todo[e] = syncer[s].todo[e]
      BY <1>2, <3>2 DEF AheadInv
    <3> QED
      BY <1>2, <3>1, <3>2 DEF Fetches
  <2> QED
    BY <2>1, <2>2, <2>3, NotAheadIsTransitive
<1> QED
  BY <1>1, <1>2 DEF AheadInv

\* A machine that is caught stays so while the remote goes forward and its own rows and
\* queue are left alone.
LEMMA StaysCaught ==
    ASSUME AllVersions, AllVersions', NEW m \in Machines, NEW e \in Entries,
           local'[m][e] = local[m][e], queue'[m][e] = queue[m][e],
           ~Ahead(remote[e], remote'[e])
    PROVE  Caught(m, e) => Caught(m, e)'
<1>1. ~Ahead(local[m][e], remote[e]) => ~Ahead(local'[m][e], remote'[e])
  BY NotAheadIsTransitive DEF AllVersions
<1> QED
  BY <1>1 DEF Caught, Queued

\* A step that changes one machine's idea of one entry at most.
LEMMA AheadStepAt ==
    ASSUME Typed, Typed', AheadInv, raced \subseteq raced', touched \subseteq touched',
           \A e \in Entries \ raced' : ~Ahead(remote[e], remote'[e]),
           NEW m \in Machines, NEW e \in Entries,
           \A k \in Machines, f \in Entries :
              <<k, f>> # <<m, e>> => local'[k][f] = local[k][f] /\ queue'[k][f] = queue[k][f],
           e \notin raced' /\ <<m, e>> \notin touched' /\ Caught(m, e) => Caught(m, e)',
           \A s \in Syncers : syncer'[s] = syncer[s] \/ Fetches(Home[s], syncer[s], syncer'[s])
    PROVE  AheadInv'
<1>1. AllVersions /\ AllVersions'
  BY AreVersions, PTL
<1>2. ASSUME NEW k \in Machines, NEW f \in Entries \ raced',
             <<k, f>> \notin touched', Caught(k, f)
      PROVE  Caught(k, f)'
  <2>1. CASE <<k, f>> = <<m, e>>
    <3>1. k = m /\ f = e
      BY <2>1
    <3>2. Caught(m, e) /\ Caught(m, e)'
      BY <1>2, <3>1
    <3> QED
      BY <3>1, <3>2 DEF Caught, Queued
  <2>2. CASE <<k, f>> # <<m, e>>
    BY <1>1, <1>2, <2>2, StaysCaught
  <2> QED
    BY <2>1, <2>2
<1> QED
  BY <1>2, AheadStep

LEMMA CommandFetches ==
    ASSUME Typed, NEW s \in Syncers, CommandStep(s)
    PROVE  \A t \in Syncers : syncer'[t] = syncer[t] \/ Fetches(Home[t], syncer[t], syncer'[t])
<1>1. PICK w : Fetches(Home[s], syncer[s], w) /\ syncer' = [syncer EXCEPT ![s] = w]
  BY CommandMoves DEF Moves
<1> QED
  BY <1>1 DEF Typed

LEMMA SameRemote ==
    ASSUME Typed, UNCHANGED remote
    PROVE  \A e \in Entries : ~Ahead(remote[e], remote'[e])
BY AreVersions, NotOutrankedNotAhead DEF AllVersions

\* Pushing: the remote goes forward, and is not behind what it was offered.
LEMMA PushAhead ==
    ASSUME Typed, Typed', AheadInv, NEW s \in Syncers, PushRow(s) \/ PushFails(s)
    PROVE  AheadInv'
<1>1. UNCHANGED <<local, touched>> /\ Home[s] \in Machines
  BY ReplicationAssumption DEF PushRow, PushFails
<1>2. \A t \in Syncers : syncer'[t] = syncer[t] \/ Fetches(Home[t], syncer[t], syncer'[t])
  BY CommandFetches DEF CommandStep, PushStep
<1>3. AllVersions /\ AllVersions'
  BY AreVersions, PTL
<1>4. ASSUME NEW e \in syncer[s].entry, Offer(s, e)
      PROVE  /\ e \in Entries /\ raced \subseteq raced'
             /\ \A f \in Entries \ raced' : ~Ahead(remote[f], remote'[f])
             /\ e \notin raced' => ~Ahead(syncer[s].todo[e], remote'[e])
  <2>1. /\ e \in Entries /\ syncer[s].todo[e] \in Known
        /\ remote' = [remote EXCEPT ![e] = OnRemote(remote[e], syncer[s].seen, syncer[s].todo[e])]
        /\ raced \subseteq raced'
        /\ e \notin raced' => syncer[s].seen = Visible(remote[e])
    BY <1>4, OfferIsTyped
  <2>2. /\ remote'[e] = OnRemote(remote[e], syncer[s].seen, syncer[s].todo[e])
        /\ \A f \in Entries : f # e => remote'[f] = remote[f]
        /\ remote[e] \in Known
    BY <2>1 DEF Typed
  <2>3. e \notin raced' => /\ ~Outranks(remote[e], remote'[e])
                           /\ ~Ahead(syncer[s].todo[e], remote'[e])
    BY <2>1, <2>2, NowIsNat, OnRemoteAdvances
  <2>4. \A f \in Entries \ raced' : ~Ahead(remote[f], remote'[f])
    BY <1>3, <2>2, <2>3, NotOutrankedNotAhead DEF AllVersions
  <2> QED
    BY <2>1, <2>3, <2>4
<1>5. CASE PushRow(s)
  <2>1. PICK e \in syncer[s].entry :
          Offer(s, e) /\ queue' = Retired(Home[s], e, syncer[s].todo[e])
    BY <1>5 DEF PushRow
  <2>2. /\ e \in Entries /\ raced \subseteq raced'
        /\ \A f \in Entries \ raced' : ~Ahead(remote[f], remote'[f])
        /\ e \notin raced' => ~Ahead(syncer[s].todo[e], remote'[e])
    BY <1>4, <2>1
  <2> DEFINE m == Home[s]
             row == syncer[s].todo[e]
  <2>3. /\ queue'[m][e] = IF queue[m][e] = row THEN NoRow ELSE queue[m][e]
        /\ \A k \in Machines, f \in Entries :
             <<k, f>> # <<m, e>> => queue'[k][f] = queue[k][f]
    BY <1>1, <2>1, <2>2 DEF Retired, Typed
  <2>4. ASSUME e \notin raced', Caught(m, e) PROVE Caught(m, e)'
    <3>1. CASE queue[m][e] # row \/ ~Ahead(local[m][e], remote[e])
      <4>1. CASE ~Ahead(local[m][e], remote[e])
        <5>1. ~Ahead(local[m][e], remote'[e])
          BY <1>1, <1>3, <2>2, <2>4, <4>1, NotAheadIsTransitive DEF AllVersions
        <5> QED
          BY <1>1, <5>1 DEF Caught
      <4>2. CASE queue[m][e] # row
        BY <1>1, <1>3, <2>2, <2>3, <2>4, <4>2, StaysCaught
      <4> QED
        BY <3>1, <4>1, <4>2
    <3>2. CASE queue[m][e] = row /\ Queued(m, e)
      <4>1. ~Ahead(local[m][e], row) /\ ~Ahead(row, remote'[e])
        BY <2>2, <2>4, <3>2 DEF Queued
      <4>2. row \in Versions
        BY <1>1, <1>3, <2>2, <3>2 DEF AllVersions
      <4>3. ~Ahead(local[m][e], remote'[e])
        BY <1>1, <1>3, <2>2, <4>1, <4>2, NotAheadIsTransitive DEF AllVersions
      <4> QED
        BY <1>1, <4>3 DEF Caught
    <3> QED
      BY <2>4, <3>1, <3>2 DEF Caught
  <2> HIDE DEF m, row
  <2>5. m \in Machines
    BY <1>1 DEF m
  <2> QED
    BY <1>1, <1>2, <2>2, <2>3, <2>4, <2>5, AheadStepAt
<1>6. CASE PushFails(s)
  <2>1. UNCHANGED queue
    BY <1>6 DEF PushFails
  <2>2. /\ raced \subseteq raced'
        /\ \A f \in Entries \ raced' : ~Ahead(remote[f], remote'[f])
    <3>1. CASE UNCHANGED <<remote, raced>>
      BY <3>1, SameRemote
    <3>2. CASE \E e \in syncer[s].entry : Offer(s, e)
      BY <1>4, <3>2
    <3> QED
      BY <1>6, <3>1, <3>2 DEF PushFails
  <2>3. ASSUME NEW k \in Machines, NEW f \in Entries \ raced', Caught(k, f) PROVE Caught(k, f)'
    BY <1>1, <1>3, <2>1, <2>2, <2>3, StaysCaught
  <2> QED
    BY <1>1, <1>2, <2>2, <2>3, AheadStep
<1> QED
  BY <1>5, <1>6

\* Pulling: what is written came from the remote.
LEMMA ApplyAhead ==
    ASSUME Typed, Typed', AheadInv, NEW s \in Syncers, ApplyLocal(s)
    PROVE  AheadInv'
<1>1. UNCHANGED <<queue, remote, raced, touched>> /\ syncer[s].task # "push"
  BY DEF ApplyLocal
<1>2. \A t \in Syncers : syncer'[t] = syncer[t] \/ Fetches(Home[t], syncer[t], syncer'[t])
  BY CommandFetches DEF CommandStep, PullStep
<1>3. AllVersions /\ AllVersions'
  BY AreVersions, PTL
<1>4. PICK e \in syncer[s].entry :
        local' = [local EXCEPT ![Home[s]][e] = Applied(@, syncer[s].seen, syncer[s].todo[e])]
  BY DEF ApplyLocal
<1> DEFINE m == Home[s]
           row == syncer[s].todo[e]
<1>5. /\ e \in Entries /\ m \in Machines /\ row \in Known
      /\ local'[m][e] = Applied(local[m][e], syncer[s].seen, row)
      /\ \A k \in Machines, f \in Entries : <<k, f>> # <<m, e>> => local'[k][f] = local[k][f]
  BY <1>4, ApplyIsTyped
<1>6. e \in DOMAIN syncer[s].todo /\ syncer[s].seen \in Known
  BY <1>4, TodoIsTyped DEF Typed
<1>7. local'[m][e] \in {local[m][e], row}
  <2>1. local[m][e] \in Versions /\ row \in Versions /\ syncer[s].seen \in Versions
    BY <1>3, <1>5, <1>6, NowIsNat, KnownAreVersions DEF AllVersions
  <2> QED
    BY <1>5, <2>1, AppliedIsOneOfTwo
<1>8. ASSUME e \notin raced, Caught(m, e) PROVE Caught(m, e)'
  <2>1. CASE local'[m][e] = local[m][e]
    BY <1>1, <1>8, <2>1 DEF Caught, Queued
  <2>2. CASE local'[m][e] = row
    <3>1. ~Ahead(row, remote[e])
      BY <1>1, <1>6, <1>8 DEF AheadInv
    <3> QED
      BY <1>1, <2>2, <3>1 DEF Caught
  <2> QED
    BY <1>7, <2>1, <2>2
<1>9. \A f \in Entries : ~Ahead(remote[f], remote'[f])
  BY <1>1, SameRemote
<1> HIDE DEF m, row
<1> QED
  BY <1>1, <1>2, <1>5, <1>8, <1>9, AheadStepAt

LEMMA EditAhead ==
    ASSUME Typed, Typed', AheadInv, NEW m \in Machines, NEW e \in Entries,
           Edits(m, e) \/ Touch(m, e)
    PROVE  AheadInv'
<1>1. UNCHANGED <<remote, syncer, raced>> /\ touched \subseteq touched'
  BY DEF Edits, Write, Touch, history
<1>2. \A f \in Entries : ~Ahead(remote[f], remote'[f])
  BY <1>1, SameRemote
<1>3. AllVersions /\ AllVersions'
  BY AreVersions, PTL
<1>4. CASE Edits(m, e)
  <2>1. PICK row \in Known : Write(m, e, row) /\ Stored(row)
    BY <1>4 DEF Edits
  <2>2. /\ local'[m][e] = row /\ queue'[m][e] = row
        /\ \A k \in Machines, f \in Entries :
             <<k, f>> # <<m, e>> => local'[k][f] = local[k][f] /\ queue'[k][f] = queue[k][f]
    BY <2>1 DEF Write, Typed
  <2>3. Caught(m, e)'
    BY <1>3, <2>1, <2>2, NotOutrankedNotAhead DEF Caught, Queued, AllVersions, Stored
  <2> QED
    BY <1>1, <1>2, <2>2, <2>3, AheadStepAt
<1>5. CASE Touch(m, e)
  <2>1. <<m, e>> \in touched' /\ UNCHANGED queue
    BY <1>5 DEF Touch
  <2>2. \A k \in Machines, f \in Entries : <<k, f>> # <<m, e>> => local'[k][f] = local[k][f]
    BY <1>5, TouchIsTyped
  <2> QED
    BY <1>1, <1>2, <2>1, <2>2, AheadStepAt
<1> QED
  BY <1>4, <1>5

\* Steps that leave both stores and the queue alone.
LEMMA QuietAhead ==
    ASSUME Typed, Typed', AheadInv, UNCHANGED <<local, queue, remote, raced, touched>>,
           \A s \in Syncers : syncer'[s] = syncer[s] \/ Fetches(Home[s], syncer[s], syncer'[s])
    PROVE  AheadInv'
<1>1. \A f \in Entries : ~Ahead(remote[f], remote'[f])
  BY SameRemote
<1>2. \A m \in Machines, e \in Entries \ raced' : Caught(m, e) => Caught(m, e)'
  BY DEF Caught, Queued
<1> QED
  BY <1>1, <1>2, AheadStep

AheadIInv == Typed /\ AheadInv

LEMMA NextAhead == AheadIInv /\ [Next]_vars => AheadIInv'
<1> SUFFICES ASSUME AheadIInv, [Next]_vars PROVE AheadIInv'
  OBVIOUS
<1>1. Typed /\ AheadInv /\ Typed'
  BY NextTyped DEF AheadIInv
<1>2. CASE UNCHANGED vars \/ Tick
  BY <1>1, <1>2, QuietAhead DEF vars, history, Tick, AheadIInv
<1>3. ASSUME NEW m \in Editors, NEW e \in Entries,
             \/ Create(m, e) \/ Retag(m, e) \/ MarkVerified(m, e) \/ Deprecate(m, e)
             \/ Touch(m, e)
      PROVE  AheadIInv'
  BY <1>1, <1>3, EditIsForward, EditAhead, ReplicationAssumption DEF AheadIInv
<1>4. ASSUME NEW s \in Syncers, CommandStep(s) PROVE AheadIInv'
  <2>1. CASE Bystands(s)
    BY <1>1, <1>4, <2>1, BystandsChangesNothing, CommandFetches, QuietAhead DEF AheadIInv
  <2>2. CASE PushRow(s) \/ PushFails(s)
    BY <1>1, <2>2, PushAhead DEF AheadIInv
  <2>3. CASE ApplyLocal(s)
    BY <1>1, <2>3, ApplyAhead DEF AheadIInv
  <2> QED
    BY <1>4, <2>1, <2>2, <2>3 DEF CommandStep, PushStep, PullStep, Bystands
<1> QED
  BY <1>2, <1>3, <1>4 DEF Next, EditStep, CommandStep

LEMMA InitAhead == Init => AheadIInv
<1> SUFFICES ASSUME Init PROVE AheadIInv
  OBVIOUS
<1>1. Typed
  BY InitTyped
<1>2. \A m \in Machines, e \in Entries : local[m][e] = NoRow /\ remote[e] = NoRow
  BY DEF Init
<1>3. \A m \in Machines, e \in Entries : Caught(m, e)
  BY <1>2, NoRowIsAVersion, NotOutrankedNotAhead DEF Caught
<1>4. \A s \in Syncers : syncer[s].todo = <<>>
  BY DEF Init, Idle
<1> QED
  BY <1>1, <1>3, <1>4 DEF AheadIInv, AheadInv

\* What a machine knows better than the remote is queued, for any number of machines and
\* commands that push, pull, fail and die, as long as no two of them race for the entry
\* and no search touches it.
THEOREM WhatIsAheadIsQueued == Spec => []LocalAheadIsQueued
<1>1. AheadIInv => LocalAheadIsQueued
  <2> SUFFICES ASSUME AheadIInv, NEW m \in Machines, NEW e \in Entries \ raced,
                      <<m, e>> \notin touched, Outranks(local[m][e], remote[e]),
                      ~(local[m][e].deleted /\ remote[e].deleted)
               PROVE  Stored(queue[m][e])
    BY DEF LocalAheadIsQueued
  <2>1. Caught(m, e)
    BY DEF AheadIInv, AheadInv
  <2> QED
    BY <2>1 DEF Caught, Queued, Ahead
<1> QED
  BY <1>1, InitAhead, NextAhead, PTL DEF Spec

-----------------------------------------------------------------------------
(* What a cursor passes was offered. *)

\* The remote updated what the machine was not offered since after the time t.
Past(m, t, rem, uns) == \A e \in Entries : <<m, e>> \in uns => rem[e].at > t

\* What the machine was not offered a page of a pull still has, as the remote has it,
\* or it is of after the page.
OnPage(m, w, rem, uns) ==
    \A e \in Entries : <<m, e>> \in uns =>
        \/ rem[e].at > w.last
        \/ e \in DOMAIN w.todo /\ w.todo[e].at = rem[e].at

\* What a listing that starts after the time t returns, if not on its first page.
ToList(row, t, time) == row.at > t /\ row.at + Skew <= time

\* Of the entries it is about, a bootstrap lists all the machine was not offered: it is
\* about to, has them on its page, or is going to list another page for them.
InReach(m, w, time, rem, uns) ==
    \A e \in w.filter : <<m, e>> \in uns =>
        \/ w.step = "list" /\ ToList(rem[e], w.from, time)
        \/ /\ w.step \in {"read", "apply"}
           /\ \/ e \in DOMAIN w.todo /\ w.todo[e].at = rem[e].at
              \/ w.full /\ ToList(rem[e], w.last, time)

\* The cursor that a command is going to write passes nothing, nor do those on the way.
Minds(m, w, time, rem, uns) ==
    /\ w.saved < time /\ w.from < time /\ w.last < time
    /\ w.task = "push" => Past(m, w.saved, rem, uns)
    /\ w.task = "pull" =>
        /\ w.filter = Entries
        /\ Past(m, w.from, rem, uns)
        /\ w.step \in {"read", "apply"} => OnPage(m, w, rem, uns)
    /\ w.task = "boot" => InReach(m, w, time, rem, uns)

CursorInv ==
    /\ \A m \in Machines : cursor[m] < now /\ Past(m, cursor[m], remote, unseen)
    /\ \A s \in Syncers : Minds(Home[s], syncer[s], now, remote, unseen)

\* Time goes on, and what is not offered was not offered before, or is updated now and
\* the machine is not in a bootstrap.
Onward ==
    /\ now \in Nat /\ now' \in Nat /\ now <= now'
    /\ \A m \in Machines, e \in Entries : <<m, e>> \in unseen' =>
        \/ <<m, e>> \in unseen /\ remote'[e].at = remote[e].at
        \/ remote'[e].at = now /\ m \notin Bootstrapping

LEMMA StateFields ==
    ASSUME NEW w, SyncerOK(w)
    PROVE  /\ w.saved \in Nat /\ w.from \in Nat /\ w.last \in Nat
           /\ w.filter \subseteq Entries /\ w.entry \subseteq DOMAIN w.todo
BY ReplicationAssumption DEF SyncerOK, SyncerState, Time

LEMMA TimesAreNat ==
    ASSUME Typed
    PROVE  /\ Skew \in Nat /\ now \in Nat
           /\ \A e \in Entries : remote[e].at \in Nat /\ remote[e].at <= now
           /\ \A m \in Machines : cursor[m] \in Nat
<1>1. \A row \in Known : row.at \in Nat /\ row.at <= now
  BY NowIsNat DEF Known, Version
<1> QED
  BY <1>1, NowIsNat, ReplicationAssumption DEF Typed, Time

\* Whatever a command minds survives what others do.
LEMMA MindsOnward ==
    ASSUME Typed, Onward, NEW m \in Machines, NEW w, SyncerOK(w),
           w.task = "boot" => m \in Bootstrapping,
           Minds(m, w, now, remote, unseen)
    PROVE  Minds(m, w, now', remote', unseen')
<1> DEFINE Stays(e) == <<m, e>> \in unseen /\ remote'[e].at = remote[e].at
           Updated(e) == remote'[e].at = now /\ m \notin Bootstrapping
<1>1. \A e \in Entries : <<m, e>> \in unseen' => Stays(e) \/ Updated(e)
  BY DEF Onward
<1>2. /\ w.saved \in Nat /\ w.from \in Nat /\ w.last \in Nat /\ w.filter \subseteq Entries
      /\ w.saved < now /\ w.from < now /\ w.last < now
      /\ now \in Nat /\ now' \in Nat /\ now <= now' /\ Skew \in Nat
      /\ \A e \in Entries : remote[e].at \in Nat
  BY StateFields, TimesAreNat DEF Minds, Onward
<1>3. w.saved < now' /\ w.from < now' /\ w.last < now'
  BY <1>2
<1>4. ASSUME NEW t \in Nat, t < now, Past(m, t, remote, unseen) PROVE Past(m, t, remote', unseen')
  BY <1>1, <1>2, <1>4 DEF Past
<1>5. ASSUME OnPage(m, w, remote, unseen) PROVE OnPage(m, w, remote', unseen')
  BY <1>1, <1>2, <1>5 DEF OnPage
<1>6. ASSUME m \in Bootstrapping, InReach(m, w, now, remote, unseen)
      PROVE  InReach(m, w, now', remote', unseen')
  <2>1. \A e \in w.filter : <<m, e>> \in unseen' => Stays(e)
    BY <1>1, <1>2, <1>6
  <2> QED
    BY <1>2, <1>6, <2>1 DEF InReach, ToList
<1> QED
  BY <1>2, <1>3, <1>4, <1>5, <1>6 DEF Minds

\* What a step of a command has to show.
LEMMA CursorStep ==
    ASSUME Typed, CursorInv, Onward, NEW s \in Syncers, NEW w,
           syncer' = [syncer EXCEPT ![s] = w],
           Minds(Home[s], w, now', remote', unseen'),
           DOMAIN cursor' = Machines,
           \A m \in Machines :
               \/ cursor'[m] = cursor[m]
               \/ cursor'[m] < now' /\ Past(m, cursor'[m], remote', unseen')
    PROVE  CursorInv'
<1>1. ASSUME NEW t \in Syncers PROVE Minds(Home[t], syncer'[t], now', remote', unseen')
  <2>1. CASE t = s
    BY <2>1 DEF Typed
  <2>2. CASE t # s
    <3>1. syncer'[t] = syncer[t] /\ SyncerOK(syncer[t]) /\ Home[t] \in Machines
      BY <2>2, ReplicationAssumption DEF Typed
    <3>2. syncer[t].task = "boot" => Home[t] \in Bootstrapping
      BY DEF Bootstrapping
    <3>3. Minds(Home[t], syncer[t], now, remote, unseen)
      BY DEF CursorInv
    <3> QED
      BY <3>1, <3>2, <3>3, MindsOnward
  <2> QED
    BY <2>1, <2>2
<1>2. ASSUME NEW m \in Machines PROVE cursor'[m] < now' /\ Past(m, cursor'[m], remote', unseen')
  <2>1. CASE cursor'[m] = cursor[m]
    <3>1. cursor[m] < now /\ Past(m, cursor[m], remote, unseen)
      BY DEF CursorInv
    <3>2. cursor[m] \in Nat /\ now \in Nat /\ now' \in Nat /\ now <= now'
      BY TimesAreNat DEF Onward
    <3>3. Past(m, cursor[m], remote', unseen')
      BY <3>1, <3>2, TimesAreNat DEF Past, Onward
    <3> QED
      BY <2>1, <3>1, <3>2, <3>3
  <2> QED
    BY <2>1
<1> QED
  BY <1>1, <1>2 DEF CursorInv

\* A command that is done, or dies, minds nothing.
LEMMA IdleStep ==
    ASSUME Typed, CursorInv, NEW s \in Syncers, syncer' = [syncer EXCEPT ![s] = Idle],
           UNCHANGED <<now, remote>>, unseen' \subseteq unseen, DOMAIN cursor' = Machines,
           \A m \in Machines :
               \/ cursor'[m] = cursor[m]
               \/ cursor'[m] < now' /\ Past(m, cursor'[m], remote', unseen')
    PROVE  CursorInv'
<1>1. Onward
  BY NowIsNat DEF Onward
<1>2. Minds(Home[s], Idle, now', remote', unseen')
  <2>1. 0 < now'
    BY ReplicationAssumption DEF Typed
  <2> QED
    BY <2>1 DEF Minds, Idle
<1> QED
  BY <1>1, <1>2, CursorStep

\* The remote takes a row, or does not: it changes what is not new only by an update.
LEMMA OfferOnward ==
    ASSUME Typed, CursorInv, NEW s \in Syncers, NEW e \in syncer[s].entry, Offer(s, e),
           now' = now
    PROVE  Onward
<1> DEFINE seen == syncer[s].seen
           row == syncer[s].todo[e]
<1>1. /\ e \in Entries /\ row \in Versions /\ seen \in Versions /\ remote \in [Entries -> Known]
      /\ now \in Nat
  BY TodoIsTyped, NowIsNat, KnownAreVersions DEF Typed
<1>2. remote' = [remote EXCEPT ![e] = OnRemote(remote[e], seen, row)]
  BY DEF Offer
<1>3. \A f \in Entries : f # e => remote'[f] = remote[f]
  BY <1>1, <1>2
<1>4. remote'[e] = OnRemote(remote[e], seen, row)
  BY <1>1, <1>2
<1>5. CASE Restamps(seen, row)
  <2>1. remote'[e].at = now
    BY <1>1, <1>4, <1>5 DEF OnRemote, Versions, Version
  <2>2. unseen' = (unseen \ (Bootstrapping \X {e})) \cup ((Machines \ Bootstrapping) \X {e})
    BY <1>5 DEF Offer
  <2>3. ASSUME NEW m \in Machines, NEW f \in Entries, <<m, f>> \in unseen'
        PROVE  \/ <<m, f>> \in unseen /\ remote'[f].at = remote[f].at
               \/ remote'[f].at = now /\ m \notin Bootstrapping
    <3>1. CASE f = e
      <4>1. m \notin Bootstrapping
        BY <2>2, <2>3, <3>1
      <4> QED
        BY <2>1, <3>1, <4>1
    <3>2. CASE f # e
      <4>1. <<m, f>> \in unseen
        BY <2>2, <2>3, <3>2
      <4> QED
        BY <1>3, <3>2, <4>1
    <3> QED
      BY <3>1, <3>2
  <2> QED
    BY <1>1, <2>3 DEF Onward
<1>6. CASE ~Restamps(seen, row)
  <2>1. unseen' = unseen
    BY <1>6 DEF Offer
  <2>2. Resolve(seen, row).act \in {"insert", "skip"}
    BY <1>1, <1>6, ResolveFollowsTheOrder DEF Restamps
  <2>3. Stored(remote[e]) => remote'[e] = remote[e]
    BY <1>4, <1>6, <2>2 DEF OnRemote, Applied, Imported
  <2>4. ASSUME NEW m \in Machines, NEW f \in Entries, <<m, f>> \in unseen'
        PROVE  <<m, f>> \in unseen /\ remote'[f].at = remote[f].at
    <3>1. remote[f].at > cursor[m] /\ cursor[m] \in Nat
      BY <2>1, <2>4, TimesAreNat DEF CursorInv, Past
    <3>2. Stored(remote[f])
      BY <3>1, NoRowIsAVersion DEF Stored
    <3> QED
      BY <1>3, <2>1, <2>3, <2>4, <3>2
  <2> QED
    BY <1>1, <2>4 DEF Onward
<1> QED
  BY <1>5, <1>6

LEMMA NextRowFields ==
    ASSUME Typed, NEW s \in Syncers, NEW e
    PROVE  LET v == syncer[s]
               w == NextRow(s, e)
           IN  /\ w.task = v.task /\ w.saved = v.saved /\ w.from = v.from /\ w.last = v.last
               /\ w.full = v.full /\ w.filter = v.filter /\ w.step = "read"
               /\ DOMAIN w.todo = DOMAIN v.todo \ {e}
               /\ \A f \in DOMAIN w.todo : w.todo[f] = v.todo[f]
<1> DEFINE v == syncer[s]
           rest == Restrict(v.todo, DOMAIN v.todo \ {e})
           w == [v EXCEPT !.step = "read", !.entry = {}, !.seen = NoRow, !.todo = rest]
<1>1. v \in SyncerState
  BY DEF Typed, SyncerOK
<1>2. DOMAIN rest = DOMAIN v.todo \ {e} /\ \A f \in DOMAIN rest : rest[f] = v.todo[f]
  BY DEF Restrict
<1>3. NextRow(s, e) = w
  BY DEF NextRow
<1> HIDE DEF rest
<1>4. /\ w.task = v.task /\ w.saved = v.saved /\ w.from = v.from /\ w.last = v.last
      /\ w.full = v.full /\ w.filter = v.filter /\ w.step = "read" /\ w.todo = rest
  BY <1>1 DEF SyncerState
<1> HIDE DEF w
<1> QED
  BY <1>2, <1>3, <1>4

\* The command of a step as it was before it, after what the step does to the stores.
LEMMA MindsStill ==
    ASSUME Typed, CursorInv, Onward, NEW s \in Syncers
    PROVE  Minds(Home[s], syncer[s], now', remote', unseen') /\ SyncerOK(syncer[s])
<1>1. SyncerOK(syncer[s]) /\ Home[s] \in Machines
  BY ReplicationAssumption DEF Typed
<1>2. syncer[s].task = "boot" => Home[s] \in Bootstrapping
  BY DEF Bootstrapping
<1>3. Minds(Home[s], syncer[s], now, remote, unseen)
  BY DEF CursorInv
<1> QED
  BY <1>1, <1>2, <1>3, MindsOnward

LEMMA PushedRowCursor ==
    ASSUME Typed, CursorInv, Onward, NEW s \in Syncers, NEW e, syncer[s].task = "push",
           syncer' = [syncer EXCEPT ![s] = NextRow(s, e)], cursor' = cursor
    PROVE  CursorInv'
<1>1. Minds(Home[s], syncer[s], now', remote', unseen')
  BY MindsStill
<1>2. Minds(Home[s], NextRow(s, e), now', remote', unseen')
  BY <1>1, NextRowFields DEF Minds
<1>3. DOMAIN cursor' = Machines
  BY DEF Typed
<1> QED
  BY <1>2, <1>3, CursorStep

\* A row of a page is offered to the machine.
LEMMA OfferedRowCursor ==
    ASSUME Typed, CursorInv, NEW s \in Syncers, NEW e \in syncer[s].entry,
           syncer[s].task \in {"pull", "boot"}, syncer[s].step = "apply",
           unseen' \subseteq unseen,
           IsCurrent(e, syncer[s].todo[e]) => <<Home[s], e>> \notin unseen',
           syncer' = [syncer EXCEPT ![s] = Advance(s, e)],
           UNCHANGED <<now, remote, cursor>>
    PROVE  CursorInv'
<1> DEFINE m == Home[s]
           v == syncer[s]
           w == NextRow(s, e)
<1>1. /\ unseen' \subseteq unseen
      /\ v.todo[e].at = remote[e].at => <<m, e>> \notin unseen'
  BY DEF IsCurrent
<1>2. Onward
  BY <1>1, NowIsNat DEF Onward
<1>3. Minds(m, v, now', remote', unseen') /\ SyncerOK(v)
  BY <1>2, MindsStill
<1>4. /\ w.task = v.task /\ w.saved = v.saved /\ w.from = v.from /\ w.last = v.last
      /\ w.full = v.full /\ w.filter = v.filter /\ w.step = "read"
      /\ DOMAIN w.todo = DOMAIN v.todo \ {e}
      /\ \A f \in DOMAIN w.todo : w.todo[f] = v.todo[f]
  BY NextRowFields
<1>5. v.filter \subseteq Entries /\ v.last \in Nat
  BY <1>3, StateFields
<1>6. v.task = "pull" => OnPage(m, w, remote', unseen')
  <2>1. v.task = "pull" => OnPage(m, v, remote', unseen')
    BY <1>3 DEF Minds
  <2> QED
    BY <1>1, <1>4, <2>1 DEF OnPage
<1>7. v.task = "boot" =>
        \A f \in v.filter : <<m, f>> \in unseen' =>
            \/ f \in DOMAIN w.todo /\ w.todo[f].at = remote'[f].at
            \/ v.full /\ ToList(remote'[f], v.last, now')
  <2>1. v.task = "boot" => InReach(m, v, now', remote', unseen')
    BY <1>3 DEF Minds
  <2> QED
    BY <1>1, <1>4, <2>1 DEF InReach
<1>8. CASE DOMAIN v.todo # {e}
  <2>1. Advance(s, e) = w
    BY <1>8 DEF Advance
  <2> HIDE DEF w
  <2>2. v.task = "boot" => InReach(m, w, now', remote', unseen')
    BY <1>4, <1>7 DEF InReach
  <2>3. Minds(m, w, now', remote', unseen')
    BY <1>3, <1>4, <1>6, <2>2 DEF Minds
  <2> HIDE DEF m, v
  <2> QED
    BY <1>2, <2>1, <2>3, CursorStep DEF Typed, m
<1>9. CASE DOMAIN v.todo = {e}
  <2> DEFINE step == IF v.full THEN "list" ELSE "end"
             u == [w EXCEPT !.from = v.last, !.last = 0, !.full = FALSE, !.step = step]
  <2>1. Advance(s, e) = u
    BY <1>9 DEF Advance
  <2>2. w \in SyncerState
    BY NextRowIsTyped DEF SyncerOK
  <2>3. step \in {"list", "end"}
    OBVIOUS
  <2>4. DOMAIN w.todo = {}
    BY <1>4, <1>9
  <2> HIDE DEF w, step
  <2>5. /\ u.task = v.task /\ u.saved = v.saved /\ u.from = v.last /\ u.last = 0
        /\ u.filter = v.filter /\ u.step = step
    BY <1>4, <2>2 DEF SyncerState
  <2>10. v.full => step = "list"
    BY DEF step
  <2> HIDE DEF u
  <2>6. v.task = "pull" => Past(m, v.last, remote', unseen')
    BY <1>4, <1>6, <2>4 DEF OnPage, Past
  <2>7. v.task = "boot" => InReach(m, u, now', remote', unseen')
    BY <1>7, <2>4, <2>5, <2>10 DEF InReach
  <2>8. v.saved < now' /\ v.last < now' /\ 0 < now'
    BY <1>3, ReplicationAssumption DEF Minds, Typed
  <2>9. Minds(m, u, now', remote', unseen')
    BY <1>3, <2>3, <2>5, <2>6, <2>7, <2>8 DEF Minds
  <2> QED
    BY <1>2, <2>1, <2>9, CursorStep DEF Typed
<1> QED
  BY <1>8, <1>9

\* A listing.  Whatever is not on the page is of after it, or was given up.
LEMMA ListPageCursor ==
    ASSUME Typed, CursorInv, NEW s \in Syncers, ListPage(s)
    PROVE  CursorInv'
<1> DEFINE m == Home[s]
           v == syncer[s]
<1>1. /\ v \in SyncerState /\ SyncerOK(v) /\ Minds(m, v, now, remote, unseen)
      /\ v.step = "list" /\ DOMAIN cursor = Machines
      /\ UNCHANGED <<now, remote, cursor>> /\ m \in Machines
  BY ReplicationAssumption DEF Typed, SyncerOK, CursorInv, ListPage
<1>2. v.filter \subseteq Entries /\ v.from \in Nat
  BY <1>1, StateFields
<1>3. \A e \in v.filter : ToList(remote[e], v.from, now) <=> e \in Listed(s)
  <2>1. \A e \in v.filter : remote[e].at > v.from => Stored(remote[e])
    BY <1>2, TimesAreNat, NoRowIsAVersion DEF Stored
  <2> QED
    BY <2>1 DEF Listed, ToList
<1>4. Listed(s) \subseteq v.filter
  BY DEF Listed
<1>5. /\ Skew \in Nat \ {0} /\ now \in Nat
      /\ \A e \in Entries : remote[e].at \in Nat
  BY TimesAreNat, ReplicationAssumption
<1>6. PICK page \in SUBSET Listed(s) :
        /\ IsPage(page, Listed(s))
        /\ \/ /\ page = {} /\ syncer' = [syncer EXCEPT ![s].step = "end"]
              /\ unseen' = unseen
           \/ \E e \in page :
                /\ \A f \in page : remote[f].at <= remote[e].at
                /\ syncer' = [syncer EXCEPT ![s] =
                     [@ EXCEPT !.step = "read", !.todo = Restrict(remote, page),
                               !.last = remote[e].at, !.full = Cardinality(page) = Limit]]
                /\ unseen' = unseen \ {<<m, f>> : f \in CutOff(page, Listed(s))}
  BY DEF ListPage, GivesUp
<1>7. /\ v.saved < now /\ v.from < now /\ v.last < now
      /\ v.task = "push" => Past(m, v.saved, remote, unseen)
      /\ v.task = "pull" => v.filter = Entries /\ Past(m, v.from, remote, unseen)
      /\ v.task = "boot" => \A e \in v.filter : <<m, e>> \in unseen => e \in Listed(s)
  BY <1>1, <1>3 DEF Minds, InReach
<1>8. unseen' \subseteq unseen
  BY <1>6
<1>9. Onward
  BY <1>1, <1>8, NowIsNat DEF Onward
<1>10. CASE page = {} /\ syncer' = [syncer EXCEPT ![s].step = "end"]
  <2> DEFINE w == [v EXCEPT !.step = "end"]
  <2>1. syncer' = [syncer EXCEPT ![s] = w]
    BY <1>10 DEF Typed
  <2>2. /\ w.task = v.task /\ w.saved = v.saved /\ w.from = v.from /\ w.last = v.last
        /\ w.filter = v.filter /\ w.step = "end"
    BY <1>1 DEF SyncerState
  <2> HIDE DEF w
  <2>3. Listed(s) = {}
    <3>1. Cardinality(page) = 0 /\ Limit # 0
      BY <1>10, FS_EmptySet, ReplicationAssumption
    <3> QED
      BY <1>6, <1>10, <3>1 DEF IsPage
  <2>4. v.task = "boot" => InReach(m, w, now, remote, unseen')
    BY <1>7, <1>8, <2>2, <2>3 DEF InReach
  <2>5. Minds(m, w, now', remote', unseen')
    BY <1>1, <1>7, <1>8, <2>2, <2>4 DEF Minds, Past
  <2> QED
    BY <1>1, <1>9, <2>1, <2>5, CursorStep
<1>11. ASSUME NEW e \in page, \A f \in page : remote[f].at <= remote[e].at,
              NEW full \in BOOLEAN, full <=> Cardinality(page) = Limit,
              syncer' = [syncer EXCEPT ![s] =
                 [@ EXCEPT !.step = "read", !.todo = Restrict(remote, page),
                           !.last = remote[e].at, !.full = full]],
              unseen' = unseen \ {<<m, f>> : f \in CutOff(page, Listed(s))}
       PROVE  CursorInv'
  <2> DEFINE todo == Restrict(remote, page)
             last == remote[e].at
             w == [v EXCEPT !.step = "read", !.todo = todo, !.last = last, !.full = full]
  <2>1. syncer' = [syncer EXCEPT ![s] = w]
    BY <1>11 DEF Typed
  <2>2. DOMAIN todo = page /\ \A f \in page : todo[f] = remote[f]
    BY DEF Restrict
  <2>3. last \in Nat /\ last + Skew <= now /\ last < now
    BY <1>2, <1>5 DEF Listed
  <2>4. ASSUME NEW f \in Listed(s) \ page, <<m, f>> \in unseen'
        PROVE  full /\ ToList(remote[f], last, now)
    <3>1. full /\ last <= remote[f].at
      BY <1>6, <1>11, <2>4 DEF IsPage
    <3>2. last # remote[f].at
      <4>1. f \notin CutOff(page, Listed(s))
        BY <1>11, <2>4
      <4> QED
        BY <4>1 DEF CutOff
    <3>3. f \in Entries /\ remote[f].at + Skew <= now
      BY <1>2, <1>4 DEF Listed
    <3> QED
      BY <1>5, <2>3, <3>1, <3>2, <3>3 DEF ToList
  <2> HIDE DEF todo, last
  <2>5. /\ w.task = v.task /\ w.saved = v.saved /\ w.from = v.from /\ w.last = last
        /\ w.full = full /\ w.filter = v.filter /\ w.step = "read" /\ w.todo = todo
    BY <1>1 DEF SyncerState
  <2> HIDE DEF w
  <2>6. v.task = "pull" => OnPage(m, w, remote, unseen')
    <3>1. ASSUME v.task = "pull", NEW f \in Entries, <<m, f>> \in unseen', f \notin page
          PROVE  remote[f].at > last
      <4>1. CASE f \in Listed(s)
        BY <2>4, <3>1, <4>1 DEF ToList
      <4>2. CASE f \notin Listed(s)
        <5>1. remote[f].at > v.from /\ f \in v.filter
          BY <1>7, <1>8, <3>1 DEF Past
        <5>2. ~(remote[f].at + Skew <= now)
          BY <1>3, <4>2, <5>1 DEF ToList
        <5> QED
          BY <1>5, <2>3, <5>2
      <4> QED
        BY <4>1, <4>2
    <3> QED
      BY <2>2, <2>5, <3>1 DEF OnPage
  <2>7. v.task = "boot" => InReach(m, w, now, remote, unseen')
    <3>1. ASSUME v.task = "boot", NEW f \in v.filter, <<m, f>> \in unseen', f \notin page
          PROVE  full /\ ToList(remote[f], last, now)
      BY <1>7, <1>8, <2>4, <3>1
    <3> QED
      BY <2>2, <2>5, <3>1 DEF InReach
  <2>8. Minds(m, w, now', remote', unseen')
    BY <1>1, <1>7, <1>8, <2>3, <2>5, <2>6, <2>7 DEF Minds, Past
  <2> QED
    BY <1>1, <1>9, <2>1, <2>8, CursorStep
<1>12. CASE \E e \in page :
                /\ \A f \in page : remote[f].at <= remote[e].at
                /\ syncer' = [syncer EXCEPT ![s] =
                     [@ EXCEPT !.step = "read", !.todo = Restrict(remote, page),
                               !.last = remote[e].at, !.full = Cardinality(page) = Limit]]
                /\ unseen' = unseen \ {<<m, f>> : f \in CutOff(page, Listed(s))}
  BY <1>11, <1>12
<1> QED
  BY <1>6, <1>10, <1>12

\* A read moves a command on and nothing else.
LEMMA ReadCursor ==
    ASSUME Typed, CursorInv, NEW s \in Syncers, ReadRemote(s) \/ ReadLocal(s)
    PROVE  CursorInv'
<1> DEFINE v == syncer[s]
<1>1. /\ v \in SyncerState /\ Minds(Home[s], v, now, remote, unseen) /\ v.step = "read"
      /\ DOMAIN cursor = Machines /\ UNCHANGED <<now, remote, unseen, cursor>>
  BY DEF Typed, SyncerOK, CursorInv, ReadRemote, ReadLocal, history
<1>2. Onward
  BY <1>1, NowIsNat DEF Onward
<1>3. PICK e, seen : syncer' = [syncer EXCEPT ![s].step = "apply", ![s].entry = {e}, ![s].seen = seen]
  BY DEF ReadRemote, ReadLocal
<1> DEFINE w == [v EXCEPT !.step = "apply", !.entry = {e}, !.seen = seen]
<1>4. syncer' = [syncer EXCEPT ![s] = w]
  BY <1>3 DEF Typed
<1>5. /\ w.task = v.task /\ w.saved = v.saved /\ w.from = v.from /\ w.last = v.last
      /\ w.full = v.full /\ w.filter = v.filter /\ w.step = "apply" /\ w.todo = v.todo
  BY <1>1 DEF SyncerState
<1> HIDE DEF w
<1>6. Minds(Home[s], w, now', remote', unseen')
  BY <1>1, <1>5 DEF Minds, OnPage, InReach
<1> QED
  BY <1>1, <1>2, <1>4, <1>6, CursorStep

LEMMA StartCursor ==
    ASSUME Typed, CursorInv, NEW s \in Syncers,
           \/ StartPush(s)
           \/ \E since \in Time : StartPull(s, since)
           \/ \E filter \in {Entries} \cup {{e} : e \in Entries} : StartBootstrap(s, filter)
    PROVE  CursorInv'
<1> DEFINE m == Home[s]
<1>1. /\ m \in Machines /\ DOMAIN cursor = Machines /\ 0 < now /\ now \in Nat /\ cursor[m] \in Nat
      /\ cursor[m] < now /\ Past(m, cursor[m], remote, unseen)
      /\ \A e \in Entries : remote[e].at \in Nat
  BY TimesAreNat, ReplicationAssumption DEF Typed, CursorInv
<1>2. Idle.saved = 0 /\ Idle.from = 0 /\ Idle.last = 0 /\ Idle.filter = Entries
  BY DEF Idle
<1>3. CASE StartPush(s)
  <2> DEFINE todo == Restrict(queue[m], {e \in Entries : Stored(queue[m][e])})
             w == [Idle EXCEPT !.task = "push", !.step = "read", !.saved = cursor[m], !.todo = todo]
  <2>1. syncer' = [syncer EXCEPT ![s] = w] /\ UNCHANGED <<now, remote, unseen, cursor>>
    BY <1>3 DEF StartPush, history
  <2> HIDE DEF todo
  <2>2. w.task = "push" /\ w.saved = cursor[m] /\ w.from = 0 /\ w.last = 0
    BY DEF Idle
  <2> HIDE DEF w
  <2>3. Minds(m, w, now', remote', unseen')
    BY <1>1, <2>1, <2>2 DEF Minds
  <2>4. Onward
    BY <1>1, <2>1 DEF Onward
  <2> QED
    BY <1>1, <2>1, <2>3, <2>4, CursorStep
<1>4. ASSUME NEW since \in Time, StartPull(s, since) PROVE CursorInv'
  <2> DEFINE w == [Idle EXCEPT !.task = "pull", !.step = "list", !.from = since]
  <2>1. /\ syncer' = [syncer EXCEPT ![s] = w] /\ UNCHANGED <<now, remote, unseen, cursor>>
        /\ since \in Nat /\ since <= cursor[m]
    <3>1. since \in 1..cursor[m]
      BY <1>4 DEF StartPull
    <3>2. since \in Nat /\ since <= cursor[m]
      BY <1>1, <3>1
    <3>3. syncer' = [syncer EXCEPT ![s] = w] /\ UNCHANGED <<now, remote, unseen, cursor>>
      BY <1>4 DEF StartPull, history
    <3> QED
      BY <3>2, <3>3
  <2>2. /\ w.task = "pull" /\ w.saved = 0 /\ w.from = since /\ w.last = 0
        /\ w.filter = Entries /\ w.step = "list"
    BY DEF Idle
  <2> HIDE DEF w
  <2>3. Past(m, since, remote, unseen) /\ since < now
    BY <1>1, <2>1 DEF Past
  <2>4. Minds(m, w, now', remote', unseen')
    BY <1>1, <2>1, <2>2, <2>3 DEF Minds
  <2>5. Onward
    BY <1>1, <2>1 DEF Onward
  <2> QED
    BY <1>1, <2>1, <2>4, <2>5, CursorStep
<1>5. ASSUME NEW filter \in SUBSET Entries, StartBootstrap(s, filter) PROVE CursorInv'
  <2> DEFINE w == [Idle EXCEPT !.task = "boot", !.step = "list", !.filter = filter]
  <2>1. /\ syncer' = [syncer EXCEPT ![s] = w] /\ UNCHANGED <<now, remote, cursor>>
        /\ unseen' = unseen \ {<<m, e>> : e \in {f \in Entries : remote[f].at + Skew > now}}
    BY <1>5 DEF StartBootstrap, GivesUp
  <2>2. /\ w.task = "boot" /\ w.saved = 0 /\ w.from = 0 /\ w.last = 0
        /\ w.filter = filter /\ w.step = "list"
    BY DEF Idle
  <2> HIDE DEF w
  <2>3. ASSUME NEW e \in filter, <<m, e>> \in unseen'
        PROVE  remote[e].at > 0 /\ remote[e].at + Skew <= now
    <3>1. ~(remote[e].at + Skew > now) /\ <<m, e>> \in unseen /\ e \in Entries
      BY <2>1, <2>3
    <3> QED
      BY <1>1, <3>1, ReplicationAssumption DEF Past
  <2>4. InReach(m, w, now', remote', unseen')
    BY <2>1, <2>2, <2>3 DEF InReach, ToList
  <2>5. Minds(m, w, now', remote', unseen')
    BY <1>1, <2>1, <2>2, <2>4 DEF Minds
  <2>6. Onward
    BY <1>1, <2>1 DEF Onward
  <2> QED
    BY <1>1, <2>1, <2>5, <2>6, CursorStep
<1> QED
  BY <1>3, <1>4, <1>5

LEMMA EndCursor ==
    ASSUME Typed, CursorInv, NEW s \in Syncers,
           EndPush(s) \/ EndPull(s) \/ EndBootstrap(s) \/ Abort(s)
    PROVE  CursorInv'
<1> DEFINE m == Home[s]
           v == syncer[s]
<1>1. /\ m \in Machines /\ cursor \in [Machines -> Time] /\ now \in Nat /\ Skew \in Nat
      /\ Minds(m, v, now, remote, unseen) /\ SyncerOK(v)
  BY TimesAreNat, ReplicationAssumption DEF Typed, CursorInv
<1>2. /\ UNCHANGED <<now, remote>> /\ unseen' \subseteq unseen
      /\ syncer' = [syncer EXCEPT ![s] = Idle]
  BY DEF EndPush, EndPull, EndBootstrap, Abort, GivesUp, history
<1>3. ASSUME NEW t, t < now', Past(m, t, remote', unseen'),
             cursor' = cursor \/ cursor' = [cursor EXCEPT ![m] = t]
      PROVE  CursorInv'
  <2>1. /\ DOMAIN cursor' = Machines
        /\ \A n \in Machines : cursor'[n] = cursor[n] \/ (n = m /\ cursor'[n] = t)
    BY <1>1, <1>3
  <2> QED
    BY <1>2, <1>3, <2>1, IdleStep
<1>4. CASE Abort(s)
  <2>1. cursor' = cursor /\ cursor[m] < now' /\ Past(m, cursor[m], remote', unseen')
    BY <1>1, <1>4 DEF Abort, history, CursorInv
  <2> QED
    BY <1>3, <2>1
<1>5. CASE EndPush(s)
  <2>1. v.saved < now' /\ Past(m, v.saved, remote', unseen')
    BY <1>1, <1>5 DEF EndPush, history, Minds
  <2> QED
    BY <1>3, <1>5, <2>1 DEF EndPush
<1>6. CASE EndPull(s)
  <2>1. v.from < now' /\ Past(m, v.from, remote', unseen')
    BY <1>1, <1>6 DEF EndPull, history, Minds
  <2> QED
    BY <1>3, <1>6, <2>1 DEF EndPull
<1>7. CASE EndBootstrap(s)
  <2>1. /\ v.task = "boot" /\ v.step = "end" /\ now > Skew
        /\ cursor' = [cursor EXCEPT ![m] = now - Skew]
        /\ unseen' = unseen \ ({m} \X (Entries \ v.filter))
    BY <1>7 DEF EndBootstrap, GivesUp
  <2>2. \A e \in v.filter : <<m, e>> \notin unseen
    BY <1>1, <2>1 DEF Minds, InReach
  <2>3. \A e \in Entries : <<m, e>> \notin unseen'
    BY <2>1, <2>2
  <2>4. Past(m, now - Skew, remote', unseen') /\ now - Skew < now'
    BY <1>1, <1>2, <2>3, ReplicationAssumption DEF Past
  <2> QED
    BY <1>3, <2>1, <2>4
<1> QED
  BY <1>4, <1>5, <1>6, <1>7

\* What changes neither commands nor the remote.
LEMMA QuietCursor ==
    ASSUME Typed, CursorInv, UNCHANGED <<remote, syncer, cursor, unseen>>,
           now' = now \/ now' = now + 1
    PROVE  CursorInv'
<1>1. Onward
  BY NowIsNat DEF Onward
<1>2. \A s \in Syncers : Minds(Home[s], syncer[s], now', remote', unseen')
  BY <1>1, MindsStill
<1>3. \A m \in Machines : cursor[m] < now'
  BY TimesAreNat DEF CursorInv
<1> QED
  BY <1>2, <1>3 DEF CursorInv, Past

CursorIInv == Typed /\ CursorInv

LEMMA NextCursor == CursorIInv /\ [Next]_vars => CursorIInv'
<1> SUFFICES ASSUME CursorIInv, [Next]_vars PROVE CursorIInv'
  OBVIOUS
<1>1. Typed /\ CursorInv /\ Typed'
  BY NextTyped DEF CursorIInv
<1>2. CASE UNCHANGED vars
  BY <1>1, <1>2, QuietCursor DEF vars, history, CursorIInv
<1>3. CASE Tick \/ EditStep
  BY <1>1, <1>3, QuietCursor DEF Tick, EditStep, Create, Retag, MarkVerified, Deprecate, Touch,
     Edit, Write, history, CursorIInv
<1>4. ASSUME NEW s \in Syncers, PushStep(s) \/ PullStep(s) \/ Abort(s) PROVE CursorInv'
  <2>1. CASE PushRow(s) \/ PushFails(s)
    <3>1. PICK e \in syncer[s].entry :
            /\ (UNCHANGED <<remote, unseen, raced>> \/ Offer(s, e))
            /\ syncer' = [syncer EXCEPT ![s] = NextRow(s, e)]
      BY <2>1 DEF PushRow, PushFails
    <3>2. syncer[s].task = "push" /\ now' = now /\ cursor' = cursor
      BY <2>1 DEF PushRow, PushFails
    <3>3. Onward
      BY <1>1, <3>1, <3>2, NowIsNat, OfferOnward DEF Onward
    <3> QED
      BY <1>1, <3>1, <3>2, <3>3, PushedRowCursor
  <2>2. CASE ApplyLocal(s) \/ ApplyFails(s)
    <3>1. PICK e \in syncer[s].entry :
            /\ unseen' \subseteq unseen
            /\ IsCurrent(e, syncer[s].todo[e]) => <<Home[s], e>> \notin unseen'
            /\ syncer' = [syncer EXCEPT ![s] = Advance(s, e)]
      BY <2>2 DEF ApplyLocal, ApplyFails, GivesUp
    <3>2. /\ syncer[s].task \in {"pull", "boot"} /\ syncer[s].step = "apply"
          /\ UNCHANGED <<now, remote, cursor>>
      BY <2>2 DEF ApplyLocal, ApplyFails
    <3> QED
      BY <1>1, <3>1, <3>2, OfferedRowCursor
  <2>3. CASE ListPage(s)
    BY <1>1, <2>3, ListPageCursor
  <2>4. CASE ReadRemote(s) \/ ReadLocal(s)
    BY <1>1, <2>4, ReadCursor
  <2>5. CASE \/ StartPush(s) \/ \E since \in Time : StartPull(s, since)
             \/ \E filter \in {Entries} \cup {{e} : e \in Entries} : StartBootstrap(s, filter)
    BY <1>1, <2>5, StartCursor
  <2>6. CASE EndPush(s) \/ EndPull(s) \/ EndBootstrap(s) \/ Abort(s)
    BY <1>1, <2>6, EndCursor
  <2> QED
    BY <1>4, <2>1, <2>2, <2>3, <2>4, <2>5, <2>6 DEF PushStep, PullStep
<1> QED
  BY <1>1, <1>2, <1>3, <1>4 DEF Next, CursorIInv

LEMMA InitCursor == Init => CursorIInv
<1> SUFFICES ASSUME Init PROVE CursorIInv
  OBVIOUS
<1>1. Typed
  BY InitTyped
<1>2. \A m \in Machines : cursor[m] < now /\ Past(m, cursor[m], remote, unseen)
  BY DEF Init, Past
<1>3. \A s \in Syncers : Minds(Home[s], syncer[s], now, remote, unseen)
  BY DEF Init, Idle, Minds
<1> QED
  BY <1>1, <1>2, <1>3 DEF CursorIInv, CursorInv

\* No cursor passes an update its machine was not offered, for any machines, commands and
\* page size: but for what a bootstrap, a failure, or a page that cuts a group of equal
\* times gives up.
THEOREM UpdatesAreNotPassed == Spec => []EveryUpdateIsPulled
<1>1. CursorIInv => EveryUpdateIsPulled
  BY DEF CursorIInv, CursorInv, Past, EveryUpdateIsPulled
<1> QED
  BY <1>1, InitCursor, NextCursor, PTL DEF Spec

-----------------------------------------------------------------------------
(* What the remote knows better is on its way. *)

\* A store that decides on what it has is not behind what it was offered.
LEMMA AppliedCatchesUp ==
    ASSUME NEW row \in Versions, NEW incoming \in Versions
    PROVE  ~Ahead(incoming, Applied(row, Visible(row), incoming))
<1>1. CASE row.deleted
  <2>1. Visible(row) = NoRow /\ Stored(row)
    BY <1>1, NoRowIsAVersion DEF Visible, Stored
  <2>2. Applied(row, Visible(row), incoming) = row
    BY <2>1, NoRowIsAVersion, ResolveFollowsTheOrder DEF Applied, Imported
  <2> QED
    BY <1>1, <2>2 DEF Ahead, Outranks
<1>2. CASE row = NoRow
  <2>1. Visible(row) = NoRow /\ ~Stored(row)
    BY <1>2, NoRowIsAVersion DEF Visible, Stored
  <2>2. Applied(row, Visible(row), incoming) = incoming
    BY <2>1, NoRowIsAVersion, ResolveFollowsTheOrder DEF Applied, Imported
  <2> QED
    BY <2>2, NotOutrankedNotAhead
<1>3. CASE ~row.deleted /\ row # NoRow
  <2>1. Visible(row) = row
    BY <1>3 DEF Visible
  <2>2. Applied(row, row, incoming) = IF Outranks(incoming, row) THEN incoming ELSE row
    BY <1>3, ResolveFollowsTheOrder DEF Applied
  <2> QED
    BY <2>1, <2>2, NotOutrankedNotAhead
<1> QED
  BY <1>1, <1>2, <1>3

\* What the remote knows better, the machine was not offered or missed.
Coming(m, e) == Ahead(remote[e], local[m][e]) => <<m, e>> \in unseen \cup missed

\* A row that was listed is older than now, so that an update of the remote tells.
Dated(w, time, rem) ==
    w.task # "push" =>
        \A e \in DOMAIN w.todo :
            /\ Stored(rem[e]) /\ w.todo[e].at < time
            /\ w.todo[e].at = rem[e].at => w.todo[e] = rem[e]

\* Neither the queue of a machine nor what a push claimed of it is ahead of its store.
Led(m, e) ==
    /\ ~Ahead(queue[m][e], local[m][e])
    /\ \A s \in Syncers :
         Home[s] = m /\ syncer[s].task = "push" /\ e \in DOMAIN syncer[s].todo
            => ~Ahead(syncer[s].todo[e], local[m][e])

ComingInv ==
    /\ \A m \in Machines, e \in Entries : Coming(m, e)
    /\ \A s \in Syncers : Dated(syncer[s], now, remote)
    /\ \A m \in Machines, e \in Entries : ~Stored(remote[e]) => Led(m, e)

\* The remote keeps its rows, and what it makes new of them is of now.
RemoteOnward ==
    /\ now \in Nat /\ now' \in Nat /\ now <= now'
    /\ \A e \in Entries :
         Stored(remote[e]) => Stored(remote'[e]) /\ (remote'[e] = remote[e] \/ remote'[e].at = now)

LEMMA DatedOnward ==
    ASSUME RemoteOnward, NEW w, \A e \in DOMAIN w.todo : e \in Entries /\ w.todo[e] \in Versions,
           Dated(w, now, remote)
    PROVE  Dated(w, now', remote')
<1> SUFFICES ASSUME w.task # "push", NEW e \in DOMAIN w.todo
             PROVE  /\ Stored(remote'[e]) /\ w.todo[e].at < now'
                    /\ w.todo[e].at = remote'[e].at => w.todo[e] = remote'[e]
  BY DEF Dated
<1>1. e \in Entries /\ w.todo[e].at \in Nat
  BY DEF Versions, Version
<1>2. /\ Stored(remote[e]) /\ w.todo[e].at < now
      /\ w.todo[e].at = remote[e].at => w.todo[e] = remote[e]
  BY DEF Dated
<1> QED
  BY <1>1, <1>2 DEF RemoteOnward

\* What a command holds is dated if what it held was.
LEMMA FetchedIsDated ==
    ASSUME NEW m, NEW v, NEW w, Fetches(m, v, w), Dated(v, now, remote)
    PROVE  Dated(w, now, remote)
BY DEF Fetches, Dated

\* What a step has to show.
LEMMA ComingStep ==
    ASSUME Typed, Typed', ComingInv, RemoteOnward,
           \A m \in Machines, e \in Entries : Coming(m, e)',
           \A m \in Machines, e \in Entries : ~Stored(remote'[e]) =>
               /\ ~Ahead(local[m][e], local'[m][e])
               /\ ~Ahead(queue'[m][e], local'[m][e]),
           \A s \in Syncers :
               syncer'[s] = syncer[s] \/ Fetches(Home[s], syncer[s], syncer'[s])
    PROVE  ComingInv'
<1>1. AllVersions /\ AllVersions'
  BY AreVersions, PTL
<1>2. ASSUME NEW s \in Syncers PROVE Dated(syncer'[s], now', remote')
  <2>1. Dated(syncer[s], now, remote)
    BY DEF ComingInv
  <2>2. CASE syncer'[s] = syncer[s]
    BY <1>1, <2>1, <2>2, DatedOnward DEF AllVersions
  <2>3. CASE Fetches(Home[s], syncer[s], syncer'[s])
    <3>1. Dated(syncer'[s], now, remote)
      BY <2>1, <2>3, FetchedIsDated
    <3> QED
      BY <1>1, <3>1, DatedOnward DEF AllVersions
  <2> QED
    BY <2>2, <2>3
<1>3. ASSUME NEW m \in Machines, NEW e \in Entries, ~Stored(remote'[e]) PROVE Led(m, e)'
  <2>1. ~Stored(remote[e])
    BY <1>3 DEF RemoteOnward
  <2>2. Led(m, e)
    BY <2>1 DEF ComingInv
  <2>3. ASSUME NEW s \in Syncers, Home[s] = m, syncer'[s].task = "push",
               e \in DOMAIN syncer'[s].todo
        PROVE  ~Ahead(syncer'[s].todo[e], local'[m][e])
    <3>1. ~Ahead(syncer'[s].todo[e], local[m][e])
      BY <2>2, <2>3 DEF Led, Fetches
    <3> QED
      BY <1>1, <1>3, <2>3, <3>1, NotAheadIsTransitive DEF AllVersions
  <2> QED
    BY <1>3, <2>3 DEF Led
<1> QED
  BY <1>2, <1>3 DEF ComingInv

\* A pair whose store goes forward, while the remote's row is left alone.
LEMMA StaysComing ==
    ASSUME AllVersions, AllVersions', NEW m \in Machines, NEW e \in Entries,
           remote'[e] = remote[e], ~Ahead(local[m][e], local'[m][e]),
           <<m, e>> \in unseen \cup missed => <<m, e>> \in unseen' \cup missed',
           Coming(m, e)
    PROVE  Coming(m, e)'
<1>1. Ahead(remote'[e], local'[m][e]) => Ahead(remote[e], local[m][e])
  BY NotAheadIsTransitive DEF AllVersions
<1> QED
  BY <1>1 DEF Coming

\* A step on the machines' side: their stores go forward, and what is queued anew is
\* what is stored.
LEMMA LocalComing ==
    ASSUME Typed, Typed', ComingInv, UNCHANGED remote, now' = now \/ now' = now + 1,
           \A m \in Machines, e \in Entries : ~Ahead(local[m][e], local'[m][e]),
           \A m \in Machines, e \in Entries :
               queue'[m][e] = queue[m][e] \/ queue'[m][e] = local'[m][e],
           unseen \cup missed \subseteq unseen' \cup missed',
           \A s \in Syncers :
               syncer'[s] = syncer[s] \/ Fetches(Home[s], syncer[s], syncer'[s])
    PROVE  ComingInv'
<1>1. AllVersions /\ AllVersions'
  BY AreVersions, PTL
<1>2. RemoteOnward
  BY NowIsNat DEF RemoteOnward
<1>3. \A m \in Machines, e \in Entries : Coming(m, e)'
  BY <1>1, StaysComing DEF ComingInv
<1>4. ASSUME NEW m \in Machines, NEW e \in Entries, ~Stored(remote'[e])
      PROVE  ~Ahead(queue'[m][e], local'[m][e])
  <2>1. ~Ahead(queue[m][e], local[m][e])
    BY <1>4 DEF ComingInv, Led
  <2>2. CASE queue'[m][e] = queue[m][e]
    BY <1>1, <2>1, <2>2, NotAheadIsTransitive DEF AllVersions
  <2>3. CASE queue'[m][e] = local'[m][e]
    BY <1>1, <2>3, NotOutrankedNotAhead DEF AllVersions
  <2> QED
    BY <2>2, <2>3
<1> QED
  BY <1>2, <1>3, <1>4, ComingStep

LEMMA EditComing ==
    ASSUME Typed, Typed', ComingInv, NEW m \in Machines, NEW e \in Entries,
           Edits(m, e) \/ Touch(m, e)
    PROVE  ComingInv'
<1>1. UNCHANGED <<now, remote, syncer, unseen, missed>>
  BY DEF Edits, Write, Touch, history
<1>2. AllVersions /\ AllVersions'
  BY AreVersions, PTL
<1>3. CASE Edits(m, e)
  <2>1. PICK row \in Known : Write(m, e, row) /\ ~Outranks(local[m][e], row)
    BY <1>3 DEF Edits
  <2>2. /\ local'[m][e] = row /\ queue'[m][e] = row
        /\ \A k \in Machines, f \in Entries :
             <<k, f>> # <<m, e>> => local'[k][f] = local[k][f] /\ queue'[k][f] = queue[k][f]
    BY <2>1 DEF Write, Typed
  <2>3. ASSUME NEW k \in Machines, NEW f \in Entries
        PROVE  /\ ~Ahead(local[k][f], local'[k][f])
               /\ queue'[k][f] = queue[k][f] \/ queue'[k][f] = local'[k][f]
    <3>1. CASE <<k, f>> = <<m, e>>
      BY <1>2, <2>1, <2>2, <3>1, NotOutrankedNotAhead DEF AllVersions
    <3>2. CASE <<k, f>> # <<m, e>>
      BY <1>2, <2>2, <3>2, NotOutrankedNotAhead DEF AllVersions
    <3> QED
      BY <3>1, <3>2
  <2> QED
    BY <1>1, <2>3, LocalComing
<1>4. CASE Touch(m, e)
  <2>1. \A k \in Machines, f \in Entries : ~Ahead(local[k][f], local'[k][f])
    BY <1>2, <1>4, TouchIsTyped, NotOutrankedNotAhead DEF AllVersions
  <2>2. UNCHANGED queue
    BY <1>4 DEF Touch
  <2> QED
    BY <1>1, <2>1, <2>2, LocalComing
<1> QED
  BY <1>3, <1>4

\* Steps that leave both stores and the queue alone: what they give up is missed.
LEMMA QuietComing ==
    ASSUME Typed, Typed', ComingInv, UNCHANGED <<local, queue, remote>>,
           now' = now \/ now' = now + 1,
           unseen \cup missed \subseteq unseen' \cup missed',
           \A s \in Syncers :
               syncer'[s] = syncer[s] \/ Fetches(Home[s], syncer[s], syncer'[s])
    PROVE  ComingInv'
<1>1. \A m \in Machines, e \in Entries : ~Ahead(local[m][e], local'[m][e])
  BY AreVersions, NotOutrankedNotAhead DEF AllVersions
<1> QED
  BY <1>1, LocalComing

LEMMA BystandsMisses ==
    ASSUME NEW s, Bystands(s)
    PROVE  unseen \cup missed \subseteq unseen' \cup missed'
<1>1. ASSUME NEW pairs, GivesUp(pairs) PROVE unseen \cup missed \subseteq unseen' \cup missed'
  BY <1>1 DEF GivesUp
<1>2. CASE UNCHANGED <<unseen, missed>>
  BY <1>2
<1>3. (\E pairs : GivesUp(pairs)) \/ UNCHANGED <<unseen, missed>>
  BY DEF Bystands, StartPush, ReadRemote, EndPush, StartPull, StartBootstrap, ListPage, ReadLocal,
     ApplyFails, EndPull, EndBootstrap, Abort, history
<1> QED
  BY <1>1, <1>2, <1>3

\* Pulling: a store that decides on what it has goes forward, and catches up with what
\* the remote has now.
LEMMA ApplyComing ==
    ASSUME Typed, Typed', ComingInv, NEW s \in Syncers, ApplyLocal(s)
    PROVE  ComingInv'
<1>1. UNCHANGED <<now, queue, remote>> /\ syncer[s].task # "push"
  BY DEF ApplyLocal
<1>2. \A t \in Syncers : syncer'[t] = syncer[t] \/ Fetches(Home[t], syncer[t], syncer'[t])
  BY CommandFetches DEF CommandStep, PullStep
<1>3. AllVersions /\ AllVersions'
  BY AreVersions, PTL
<1> DEFINE m == Home[s]
           v == syncer[s]
<1>4. PICK e \in v.entry :
        /\ local' = [local EXCEPT ![m][e] = Applied(@, v.seen, v.todo[e])]
        /\ unseen' = IF IsCurrent(e, v.todo[e]) THEN unseen \ {<<m, e>>} ELSE unseen
        /\ missed' = IF v.seen # Visible(local[m][e]) THEN missed \cup {<<m, e>>}
                     ELSE IF IsCurrent(e, v.todo[e]) THEN missed \ {<<m, e>>} ELSE missed
  BY DEF ApplyLocal
<1> DEFINE row == v.todo[e]
<1>5. /\ e \in Entries /\ m \in Machines
      /\ local'[m][e] = Applied(local[m][e], v.seen, row)
      /\ \A k \in Machines, f \in Entries : <<k, f>> # <<m, e>> => local'[k][f] = local[k][f]
  BY <1>4, ApplyIsTyped
<1>6. e \in DOMAIN v.todo
  BY <1>4, TodoIsTyped DEF Typed
<1>7. Stored(remote[e]) /\ (IsCurrent(e, row) => row = remote[e])
  BY <1>1, <1>6 DEF ComingInv, Dated, IsCurrent
<1>8. local[m][e] \in Versions /\ row \in Versions /\ remote[e] \in Versions
  BY <1>3, <1>5, <1>6 DEF AllVersions
<1> HIDE DEF m, v, row
<1>9. Coming(m, e)'
  <2>1. CASE v.seen # Visible(local[m][e])
    BY <1>4, <2>1 DEF Coming
  <2>2. CASE v.seen = Visible(local[m][e]) /\ IsCurrent(e, row)
    <3>1. ~Ahead(row, local'[m][e])
      BY <1>5, <1>8, <2>2, AppliedCatchesUp
    <3> QED
      BY <1>1, <1>7, <2>2, <3>1 DEF Coming
  <2>3. CASE v.seen = Visible(local[m][e]) /\ ~IsCurrent(e, row)
    <3>1. ~Ahead(local[m][e], local'[m][e])
      BY <1>3, <1>5, <1>8, <2>3, AppliedAdvances, NotOutrankedNotAhead DEF AllVersions
    <3>2. UNCHANGED <<unseen, missed>>
      BY <1>4, <2>3 DEF row
    <3>3. Coming(m, e)
      BY <1>5 DEF ComingInv
    <3> QED
      BY <1>1, <1>3, <1>5, <3>1, <3>2, <3>3, StaysComing
  <2> QED
    BY <2>1, <2>2, <2>3
<1>10. ASSUME NEW k \in Machines, NEW f \in Entries, <<k, f>> # <<m, e>>
       PROVE  Coming(k, f)' /\ ~Ahead(local[k][f], local'[k][f])
  <2>1. ~Ahead(local[k][f], local'[k][f])
    BY <1>3, <1>5, <1>10, NotOutrankedNotAhead DEF AllVersions
  <2>2. <<k, f>> \in unseen \cup missed => <<k, f>> \in unseen' \cup missed'
    BY <1>4, <1>10
  <2> QED
    BY <1>1, <1>3, <2>1, <2>2, StaysComing DEF ComingInv
<1>11. ASSUME NEW k \in Machines, NEW f \in Entries PROVE Coming(k, f)'
  <2>1. CASE <<k, f>> = <<m, e>>
    <3>1. k = m /\ f = e
      BY <2>1
    <3> QED
      BY <1>9, <3>1 DEF Coming
  <2> QED
    BY <1>10, <2>1
<1>12. ASSUME NEW k \in Machines, NEW f \in Entries, ~Stored(remote'[f])
       PROVE  ~Ahead(local[k][f], local'[k][f]) /\ ~Ahead(queue'[k][f], local'[k][f])
  <2>1. f # e /\ local'[k][f] = local[k][f] /\ queue'[k][f] = queue[k][f]
    BY <1>1, <1>5, <1>7, <1>12
  <2>2. Led(k, f)
    BY <1>1, <1>12 DEF ComingInv
  <2> QED
    BY <1>3, <2>1, <2>2, NotOutrankedNotAhead DEF AllVersions, Led
<1>13. RemoteOnward
  BY <1>1, NowIsNat DEF RemoteOnward
<1> QED
  BY <1>2, <1>11, <1>12, <1>13, ComingStep

LEMMA NoRowIsNotAhead ==
    ASSUME NEW row \in Versions
    PROVE  ~Ahead(NoRow, row)
BY NoRowIsAVersion DEF Ahead, Outranks, Versions, Version

\* The remote is offered a row: what it makes of it the machines are to be offered, or it
\* is new, and the machine it is from has it.
LEMMA OfferComing ==
    ASSUME Typed, Typed', ComingInv, NEW s \in Syncers, NEW e \in syncer[s].entry, Offer(s, e),
           syncer[s].task = "push", UNCHANGED <<now, local>>
    PROVE  RemoteOnward /\ \A m \in Machines, f \in Entries : Coming(m, f)'
<1> DEFINE seen == syncer[s].seen
           row == syncer[s].todo[e]
           behind == IF Restamps(seen, row) THEN Bootstrapping ELSE Machines \ {Home[s]}
<1>1. AllVersions /\ AllVersions'
  BY AreVersions, PTL
<1>2. /\ e \in Entries /\ e \in DOMAIN syncer[s].todo /\ row \in Versions /\ seen \in Versions
      /\ remote \in [Entries -> Known] /\ now \in Nat /\ Home[s] \in Machines
  BY TodoIsTyped, NowIsNat, KnownAreVersions, ReplicationAssumption DEF Typed
<1>3. remote'[e] = OnRemote(remote[e], seen, row) /\ \A f \in Entries : f # e => remote'[f] = remote[f]
  BY <1>2 DEF Offer
<1>4. /\ unseen' = IF Restamps(seen, row)
                   THEN (unseen \ (Bootstrapping \X {e})) \cup ((Machines \ Bootstrapping) \X {e})
                   ELSE unseen
      /\ missed' = IF Restamps(seen, row) \/ remote'[e] # remote[e]
                   THEN (missed \ (Machines \X {e})) \cup (behind \X {e})
                   ELSE missed
  BY DEF Offer
<1>5. Restamps(seen, row) => remote'[e].at = now /\ Stored(remote'[e])
  <2>1. Restamps(seen, row) => remote'[e] = [row EXCEPT !.at = now]
    BY <1>3 DEF OnRemote
  <2>2. Restamps(seen, row) => remote'[e].at = now
    BY <1>2, <2>1 DEF Versions, Version
  <2>3. now # 0
    BY DEF Typed
  <2> QED
    BY <2>2, <2>3, NoRowIsAVersion DEF Stored
<1>6. ASSUME ~Restamps(seen, row), remote'[e] # remote[e]
      PROVE  ~Stored(remote[e]) /\ remote'[e] = row
  <2>1. Resolve(seen, row).act \in {"insert", "skip"}
    BY <1>2, <1>6, ResolveFollowsTheOrder DEF Restamps
  <2> QED
    BY <1>3, <1>6, <2>1 DEF OnRemote, Applied, Imported
<1> HIDE DEF seen, row, behind
<1>7. RemoteOnward
  BY <1>2, <1>3, <1>5, <1>6 DEF RemoteOnward
<1>8. ASSUME NEW m \in Machines PROVE Coming(m, e)'
  <2>1. CASE Restamps(seen, row)
    BY <1>4, <2>1 DEF Coming, behind
  <2>2. CASE ~Restamps(seen, row) /\ remote'[e] = remote[e]
    <3>1. UNCHANGED <<unseen, missed>>
      BY <1>4, <2>2
    <3> QED
      BY <1>2, <2>2, <3>1 DEF ComingInv, Coming
  <2>3. CASE ~Restamps(seen, row) /\ remote'[e] # remote[e] /\ m # Home[s]
    BY <1>4, <2>3 DEF Coming, behind
  <2>4. CASE ~Restamps(seen, row) /\ remote'[e] # remote[e] /\ m = Home[s]
    <3>1. ~Stored(remote[e]) /\ remote'[e] = row
      BY <1>6, <2>4
    <3>2. Led(m, e)
      BY <1>2, <3>1 DEF ComingInv
    <3>3. ~Ahead(row, local[m][e])
      BY <1>2, <2>4, <3>2 DEF Led, row
    <3> QED
      BY <3>1, <3>3 DEF Coming
  <2> QED
    BY <2>1, <2>2, <2>3, <2>4
<1>9. ASSUME NEW m \in Machines, NEW f \in Entries, f # e PROVE Coming(m, f)'
  <2>1. <<m, f>> \in unseen \cup missed => <<m, f>> \in unseen' \cup missed'
    BY <1>4, <1>9
  <2>2. ~Ahead(local[m][f], local'[m][f])
    BY <1>1, NotOutrankedNotAhead DEF AllVersions
  <2> QED
    BY <1>1, <1>3, <1>9, <2>1, <2>2, StaysComing DEF ComingInv
<1> QED
  BY <1>7, <1>8, <1>9

LEMMA PushComing ==
    ASSUME Typed, Typed', ComingInv, NEW s \in Syncers, PushRow(s) \/ PushFails(s)
    PROVE  ComingInv'
<1>1. UNCHANGED <<now, local>> /\ syncer[s].task = "push" /\ Home[s] \in Machines
  BY ReplicationAssumption DEF PushRow, PushFails
<1>2. \A t \in Syncers : syncer'[t] = syncer[t] \/ Fetches(Home[t], syncer[t], syncer'[t])
  BY CommandFetches DEF CommandStep, PushStep
<1>3. AllVersions /\ AllVersions'
  BY AreVersions, PTL
<1>4. \A m \in Machines, f \in Entries : queue'[m][f] \in {queue[m][f], NoRow}
  <2>1. CASE PushRow(s)
    <3>1. PICK e \in syncer[s].entry : queue' = Retired(Home[s], e, syncer[s].todo[e])
      BY <2>1 DEF PushRow
    <3> QED
      BY <1>1, <3>1 DEF Retired, Typed
  <2>2. CASE PushFails(s)
    BY <2>2 DEF PushFails
  <2> QED
    BY <2>1, <2>2
<1>5. ASSUME NEW e \in syncer[s].entry, Offer(s, e) PROVE ComingInv'
  <2>1. RemoteOnward /\ \A m \in Machines, f \in Entries : Coming(m, f)'
    BY <1>1, <1>5, OfferComing
  <2>2. ASSUME NEW m \in Machines, NEW f \in Entries, ~Stored(remote'[f])
        PROVE  ~Ahead(local[m][f], local'[m][f]) /\ ~Ahead(queue'[m][f], local'[m][f])
    <3>1. ~Ahead(queue[m][f], local[m][f])
      BY <2>1, <2>2 DEF RemoteOnward, ComingInv, Led
    <3>2. ~Ahead(NoRow, local[m][f]) /\ ~Ahead(local[m][f], local[m][f])
      BY <1>3, NoRowIsNotAhead, NotOutrankedNotAhead DEF AllVersions
    <3> QED
      BY <1>1, <1>4, <3>1, <3>2
  <2> QED
    BY <1>2, <2>1, <2>2, ComingStep
<1>6. CASE UNCHANGED <<remote, unseen, missed>> /\ UNCHANGED queue
  BY <1>1, <1>2, <1>6, QuietComing
<1> QED
  BY <1>5, <1>6 DEF PushRow, PushFails

ComingIInv == Typed /\ ComingInv

LEMMA NextComing == ComingIInv /\ [Next]_vars => ComingIInv'
<1> SUFFICES ASSUME ComingIInv, [Next]_vars PROVE ComingIInv'
  OBVIOUS
<1>1. Typed /\ ComingInv /\ Typed'
  BY NextTyped DEF ComingIInv
<1>2. CASE UNCHANGED vars \/ Tick
  BY <1>1, <1>2, QuietComing DEF vars, history, Tick, ComingIInv
<1>3. ASSUME NEW m \in Editors, NEW e \in Entries,
             \/ Create(m, e) \/ Retag(m, e) \/ MarkVerified(m, e) \/ Deprecate(m, e)
             \/ Touch(m, e)
      PROVE  ComingIInv'
  BY <1>1, <1>3, EditIsForward, EditComing, ReplicationAssumption DEF ComingIInv
<1>4. ASSUME NEW s \in Syncers, CommandStep(s) PROVE ComingIInv'
  <2>1. CASE Bystands(s)
    BY <1>1, <1>4, <2>1, BystandsChangesNothing, BystandsMisses, CommandFetches, QuietComing
    DEF ComingIInv
  <2>2. CASE PushRow(s) \/ PushFails(s)
    BY <1>1, <2>2, PushComing DEF ComingIInv
  <2>3. CASE ApplyLocal(s)
    BY <1>1, <2>3, ApplyComing DEF ComingIInv
  <2> QED
    BY <1>4, <2>1, <2>2, <2>3 DEF CommandStep, PushStep, PullStep, Bystands
<1> QED
  BY <1>2, <1>3, <1>4 DEF Next, EditStep, CommandStep

LEMMA InitComing == Init => ComingIInv
<1> SUFFICES ASSUME Init PROVE ComingIInv
  OBVIOUS
<1>1. Typed
  BY InitTyped
<1>2. \A m \in Machines, e \in Entries :
        local[m][e] = NoRow /\ queue[m][e] = NoRow /\ remote[e] = NoRow
  BY DEF Init
<1>3. \A s \in Syncers : syncer[s].todo = <<>>
  BY DEF Init, Idle
<1>4. \A m \in Machines, e \in Entries : Coming(m, e) /\ Led(m, e)
  BY <1>2, <1>3, NoRowIsAVersion, NotOutrankedNotAhead DEF Coming, Led
<1>5. \A s \in Syncers : Dated(syncer[s], now, remote)
  BY <1>3 DEF Dated
<1> QED
  BY <1>1, <1>4, <1>5 DEF ComingIInv, ComingInv

\* What the remote knows better than a machine is ahead of the machine's cursor, for any
\* machines, commands and page size, unless the entry was new to the remote or was given
\* up, failed or applied by a stale read since: no pull is the last chance to get it.
THEOREM WhatIsBehindIsComing == Spec => []RemoteAheadIsComing
<1>1. CursorIInv /\ ComingIInv => RemoteAheadIsComing
  <2> SUFFICES ASSUME CursorIInv, ComingIInv, NEW m \in Machines, NEW e \in Entries,
                      <<m, e>> \notin missed, Outranks(remote[e], local[m][e]),
                      ~(local[m][e].deleted /\ remote[e].deleted)
               PROVE  remote[e].at > cursor[m]
    BY DEF RemoteAheadIsComing
  <2>1. <<m, e>> \in unseen
    BY DEF ComingIInv, ComingInv, Coming, Ahead
  <2> QED
    BY <2>1 DEF CursorIInv, CursorInv, Past
<1> QED
  BY <1>1, InitCursor, NextCursor, InitComing, NextComing, PTL DEF Spec

-----------------------------------------------------------------------------
(* Replication converges. *)

LEMMA NotAheadEitherWay ==
    ASSUME NEW a \in Versions, NEW b \in Versions, ~Ahead(a, b), ~Ahead(b, a)
    PROVE  Alike(a, b)
BY OutranksIsAnOrder DEF Ahead, Alike

LEMMA SettledIsAlike == AheadIInv /\ ComingIInv => SettledStoresAgree
<1> SUFFICES ASSUME AheadIInv, ComingIInv, NEW m \in Machines, NEW e \in Entries, Settled(m, e)
             PROVE  Alike(local[m][e], remote[e])
  BY DEF SettledStoresAgree
<1>1. ~Ahead(local[m][e], remote[e])
  BY DEF Settled, AheadIInv, AheadInv, Caught, Queued
<1>2. ~Ahead(remote[e], local[m][e])
  BY DEF Settled, ComingIInv, ComingInv, Coming
<1>3. local[m][e] \in Versions /\ remote[e] \in Versions
  BY AreVersions DEF AheadIInv, AllVersions
<1> QED
  BY <1>1, <1>2, <1>3, NotAheadEitherWay

\* A machine with which nothing of an entry is under way has the remote's version of it:
\* the two directions of replication meet.
THEOREM SettledStoresAreAlike == Spec => []SettledStoresAgree
BY SettledIsAlike, InitAhead, NextAhead, InitComing, NextComing, PTL DEF Spec

\* A machine that has pushed its queue and whose cursor has passed the remote's row.
CaughtUp(m, e) ==
    /\ ~Stored(queue[m][e])
    /\ remote[e].at <= cursor[m]
    /\ <<m, e>> \notin missed \cup touched
    /\ e \notin raced

CaughtUpMachinesAgree ==
    \A m, n \in Machines, e \in Entries :
        CaughtUp(m, e) /\ CaughtUp(n, e) => Alike(local[m][e], local[n][e])

\* Any two machines that have pushed what they had and pulled past the remote's row of an
\* entry hold the same version of it, however many others write it.
THEOREM CaughtUpMachinesAreAlike == Spec => []CaughtUpMachinesAgree
<1>1. AheadIInv /\ ComingIInv /\ CursorIInv => CaughtUpMachinesAgree
  <2> SUFFICES ASSUME AheadIInv, ComingIInv, CursorIInv, NEW e \in Entries,
                      NEW m \in Machines, NEW n \in Machines, CaughtUp(m, e), CaughtUp(n, e)
               PROVE  Alike(local[m][e], local[n][e])
    BY DEF CaughtUpMachinesAgree
  <2>1. ASSUME NEW k \in Machines, CaughtUp(k, e) PROVE Alike(local[k][e], remote[e])
    <3>1. <<k, e>> \notin unseen
      <4>1. remote[e].at \in Nat /\ cursor[k] \in Nat
        BY TimesAreNat DEF CursorIInv
      <4> QED
        BY <2>1, <4>1 DEF CaughtUp, CursorIInv, CursorInv, Past
    <3>2. Settled(k, e)
      BY <2>1, <3>1 DEF CaughtUp, Settled
    <3> QED
      BY <3>2, SettledIsAlike DEF SettledStoresAgree
  <2>2. Alike(local[m][e], remote[e]) /\ Alike(local[n][e], remote[e])
    BY <2>1
  <2> QED
    BY <2>2 DEF Alike
<1> QED
  BY <1>1, InitAhead, NextAhead, InitComing, NextComing, InitCursor, NextCursor, PTL DEF Spec

=============================================================================
