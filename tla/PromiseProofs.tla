---------------------------- MODULE PromiseProofs ----------------------------
(***************************************************************************)
(* SyncPush implements DeliveryQueue: the proof of KeepsThePromise, with   *)
(* that of ConfirmedIsCovered, on which it rests, and that of              *)
(* VersionSkewIsNotPenalised, which also turns on how payloads change.     *)
(***************************************************************************)
EXTENDS SyncPushProofs

-----------------------------------------------------------------------------
(* Nothing is retired from the queue that the remote has not been given. *)

\* What a pusher remembers of a row is still what the table says of it.
BatchMirrorsTable(s) ==
    \A r \in DOMAIN s.batch : r \in DOMAIN outbox => s.batch[r].entry = outbox[r].entry

\* The row a pusher pushes for an entry is the newest it has of that entry.
TodoIsNewest(s) ==
    \A r \in s.todo, q \in DOMAIN s.batch : s.batch[q].entry = s.batch[r].entry => q <= r

\* What it has set aside to confirm at the end is covered already.
ConfirmIsCovered(s) == \A r \in s.confirm : Covered(s.batch[r].entry, r)

PusherCoverage(s) == BatchMirrorsTable(s) /\ TodoIsNewest(s) /\ ConfirmIsCovered(s)

\* ConfirmedIsCovered made inductive: between the push and the confirmation the
\* row may be claimed, failed, confirmed or purged by others, so the promise has
\* to be carried by the pusher's memory.
CoverageInv == ConfirmedIsCovered /\ \A p \in Pushers : PusherCoverage(pusher[p])

\* A pusher that only forgets.
Forgets(s, t) ==
    \/ t.batch = s.batch /\ t.todo \subseteq s.todo /\ t.confirm \subseteq s.confirm
    \/ t.batch = <<>> /\ t.todo = {} /\ t.confirm = {}

\* The remote never ungets a row.
LandedGrows == \A e \in Entries : landed[e] <= landed'[e]

LEMMA LandedStands == ASSUME TypeOK, landed' = landed PROVE LandedGrows
BY SyncPushAssumption DEF TypeOK, LandedGrows

LEMMA CoveredStays ==
    ASSUME TypeOK, TypeOK', LandedGrows, NEW e \in Entries, NEW r \in RowId, Covered(e, r)
    PROVE  r <= landed'[e]
<1>1. landed[e] \in Int /\ landed'[e] \in Int /\ r \in Int
  BY SyncPushAssumption DEF TypeOK, RowId
<1> QED
  BY <1>1 DEF LandedGrows, Covered

LEMMA TableRows ==
    ASSUME TypeOK, NEW r \in DOMAIN outbox PROVE outbox[r].entry \in Entries /\ r \in RowId
BY SyncPushAssumption DEF TypeOK, StoreTypeOK, IsTable, Row, RowId

LEMMA BatchRows ==
    ASSUME TypeOK, NEW p \in Pushers, NEW r \in DOMAIN pusher[p].batch
    PROVE  pusher[p].batch[r].entry \in Entries /\ r \in RowId
BY DEF TypeOK, PusherTypeOK, PusherState, Batches, Snapshot

\* What a pusher has set aside stays covered.
LEMMA ConfirmStays ==
    ASSUME TypeOK, TypeOK', CoverageInv, LandedGrows, NEW p \in Pushers,
           NEW r \in pusher[p].confirm
    PROVE  r <= landed'[pusher[p].batch[r].entry]
<1> DEFINE e == pusher[p].batch[r].entry
<1>1. r \in DOMAIN pusher[p].batch
  BY DEF TypeOK, PusherTypeOK
<1>2. e \in Entries /\ r \in RowId
  BY <1>1, BatchRows
<1>3. Covered(e, r)
  BY DEF CoverageInv, PusherCoverage, ConfirmIsCovered
<1> HIDE DEF e
<1>4. r <= landed'[e]
  BY <1>2, <1>3, CoveredStays
<1> QED
  BY <1>4 DEF e

LEMMA CoverageKept ==
    ASSUME TypeOK, TypeOK', CoverageInv, KeepsRows(outbox, outbox'), LandedGrows,
           \A p \in Pushers : Forgets(pusher[p], pusher'[p])
    PROVE  CoverageInv'
<1>1. ConfirmedIsCovered'
  <2>1. SUFFICES ASSUME NEW r \in DOMAIN outbox', outbox'[r].confirmed # "null"
                 PROVE  Covered(outbox[r].entry, r)'
    BY DEF ConfirmedIsCovered
  <2>2. r \in DOMAIN outbox /\ outbox'[r].entry = outbox[r].entry /\ outbox[r].confirmed # "null"
    BY <2>1 DEF KeepsRows
  <2>3. Covered(outbox[r].entry, r)
    BY <2>2 DEF CoverageInv, ConfirmedIsCovered
  <2>4. outbox[r].entry \in Entries /\ r \in RowId
    BY <2>2, TableRows
  <2> DEFINE e == outbox[r].entry
  <2> HIDE DEF e
  <2>5. r <= landed'[e]
    BY <2>3, <2>4, CoveredStays DEF e
  <2> QED
    BY <2>2, <2>5 DEF Covered, e
<1>2. ASSUME NEW p \in Pushers PROVE PusherCoverage(pusher[p])'
  <2>1. CASE pusher'[p].batch = <<>> /\ pusher'[p].todo = {} /\ pusher'[p].confirm = {}
    BY <2>1 DEF PusherCoverage, BatchMirrorsTable, TodoIsNewest, ConfirmIsCovered
  <2>2. CASE /\ pusher'[p].batch = pusher[p].batch
             /\ pusher'[p].todo \subseteq pusher[p].todo
             /\ pusher'[p].confirm \subseteq pusher[p].confirm
    <3>1. BatchMirrorsTable(pusher[p])' /\ TodoIsNewest(pusher[p])'
      BY <2>2 DEF CoverageInv, PusherCoverage, BatchMirrorsTable, TodoIsNewest, KeepsRows
    <3>2. ConfirmIsCovered(pusher[p])'
      BY <2>2, ConfirmStays DEF ConfirmIsCovered, Covered
    <3> QED
      BY <3>1, <3>2 DEF PusherCoverage
  <2> QED
    BY <2>1, <2>2 DEF Forgets
<1> QED
  BY <1>1, <1>2 DEF CoverageInv

LEMMA NothingChanged == KeepsRows(outbox, outbox) /\ \A s : Forgets(s, s)
BY DEF KeepsRows, Forgets

\* An enqueued row is unconfirmed, and its id is one no pusher remembers.
LEMMA EnqueueCoverage ==
    ASSUME TypeOK, CoverageInv, NEW e, NEW op, NEW payload, NEW tomb,
           Enqueue(e, op, payload, tomb), UNCHANGED <<pusher, landed>>
    PROVE  CoverageInv'
<1>1. outbox' = [r \in DOMAIN outbox \cup {issued + 1} |->
                    IF r = issued + 1
                    THEN [entry |-> e, op |-> op, payload |-> payload, tomb |-> tomb,
                          attempts |-> 0, claimed |-> "null", confirmed |-> "null"]
                    ELSE outbox[r]]
  BY DEF Enqueue, AppendRow
<1>2. \A r \in 1..issued : r # issued + 1
  BY SyncPushAssumption DEF TypeOK, StoreTypeOK
<1>3. ConfirmedIsCovered'
  BY <1>1 DEF CoverageInv, ConfirmedIsCovered, Covered
<1>4. ASSUME NEW p \in Pushers PROVE PusherCoverage(pusher[p])'
  <2>1. BatchMirrorsTable(pusher[p])'
    BY <1>1, <1>2 DEF CoverageInv, PusherCoverage, BatchMirrorsTable, TypeOK, PusherTypeOK
  <2> QED
    BY <2>1 DEF CoverageInv, PusherCoverage, TodoIsNewest, ConfirmIsCovered, Covered
<1> QED
  BY <1>3, <1>4 DEF CoverageInv

LEMMA WritersCoverage ==
    ASSUME TypeOK, TypeOK', CoverageInv, WriterNext PROVE CoverageInv'
<1>1. ASSUME NEW w \in Writers, EnqueueSnapshot(w) PROVE CoverageInv'
  <2>1. PICK payload \in Kinds : Enqueue(writer[w].entry, writer[w].op, payload, writer[w].tomb)
    BY <1>1 DEF EnqueueSnapshot
  <2> QED
    BY <1>1, <2>1, EnqueueCoverage DEF EnqueueSnapshot, history
<1>2. CASE UNCHANGED <<outbox, pusher, landed>>
  BY <1>2, NothingChanged, LandedStands, CoverageKept
<1> QED
  BY <1>1, <1>2 DEF WriterNext, WriteEntry, DeprecateEntry, DeleteSilently, TakeSnapshot,
                    EnqueueLost, store, history

\* A pusher goes from state s to state t, and the rest of the step is harmless.
LEMMA ForgettingStep ==
    ASSUME TypeOK, TypeOK', CoverageInv, KeepsRows(outbox, outbox'), landed' = landed,
           NEW p \in Pushers, NEW t, pusher' = [pusher EXCEPT ![p] = t], Forgets(pusher[p], t)
    PROVE  CoverageInv'
<1>1. \A q \in Pushers : Forgets(pusher[q], pusher'[q])
  BY NothingChanged DEF TypeOK
<1> QED
  BY <1>1, LandedStands, CoverageKept

LEMMA GoingIdle ==
    ASSUME TypeOK, TypeOK', CoverageInv, KeepsRows(outbox, outbox'), landed' = landed,
           NEW p \in Pushers, pusher' = [pusher EXCEPT ![p] = IdlePusher]
    PROVE  CoverageInv'
<1>1. Forgets(pusher[p], IdlePusher)
  BY DEF Forgets, IdlePusher
<1> QED
  BY <1>1, ForgettingStep

LEMMA StartPushCoverage ==
    ASSUME TypeOK, TypeOK', CoverageInv, NEW p \in Pushers, StartPush(p) PROVE CoverageInv'
<1>1. KeepsRows(outbox, outbox')
  BY ReleaseRowsKeeps DEF StartPush, ReapStale, TypeOK, StoreTypeOK
<1> DEFINE t == [pusher[p] EXCEPT !.phase = "claim"]
<1>2. Forgets(pusher[p], t)
  BY DEF Forgets, TypeOK, PusherTypeOK, PusherState
<1>3. pusher' = [pusher EXCEPT ![p] = t]
  BY DEF StartPush
<1> HIDE DEF t
<1> QED
  BY <1>1, <1>2, <1>3, ForgettingStep DEF StartPush

\* A claim: the batch is read from the table, nothing is set aside yet, and
\* coalescing keeps the newest row of every entry.
LEMMA ClaimCoverage ==
    ASSUME TypeOK, TypeOK', CoverageInv, NEW p \in Pushers, NEW dry \in BOOLEAN, Claim(p, dry)
    PROVE  CoverageInv'
<1> DEFINE rows == Oldest(Claimable(outbox), BatchLimit)
           batch == [r \in rows |-> [entry |-> outbox[r].entry, payload |-> outbox[r].payload,
                                     tomb |-> outbox[r].tomb]]
           phase == IF dry THEN "dry" ELSE "push"
<1>1. KeepsRows(outbox, outbox')
  BY ClaimRowsKeeps DEF Claim, TypeOK, StoreTypeOK
<1>2. CASE rows = {}
  <2>1. pusher' = [pusher EXCEPT ![p] = IdlePusher]
    BY <1>2 DEF Claim
  <2> QED
    BY <1>1, <2>1, GoingIdle DEF Claim, history
<1>3. CASE rows # {}
  <2>1. pusher' = [pusher EXCEPT ![p] = Working(phase, batch)] /\ landed' = landed
    BY <1>3 DEF Claim, history
  <2>2. DOMAIN batch = rows /\ \A r \in rows : batch[r].entry = outbox[r].entry
    OBVIOUS
  <2>3. \A r \in DOMAIN outbox' : r \in DOMAIN outbox /\ outbox'[r].entry = outbox[r].entry
    BY <1>1 DEF KeepsRows
  <2> HIDE DEF rows, batch, phase
  <2>4. pusher'[p] = Working(phase, batch)
    BY <2>1 DEF TypeOK
  <2>5. PusherCoverage(pusher[p])'
    <3>1. BatchMirrorsTable(pusher[p])'
      BY <2>2, <2>3, <2>4 DEF BatchMirrorsTable, Working
    <3>2. TodoIsNewest(pusher[p])'
      BY <2>4 DEF TodoIsNewest, Working, Representatives
    <3>3. ConfirmIsCovered(pusher[p])'
      BY <2>4 DEF ConfirmIsCovered, Working
    <3> QED
      BY <3>1, <3>2, <3>3 DEF PusherCoverage
  <2>6. ASSUME NEW q \in Pushers, q # p PROVE PusherCoverage(pusher[q])'
    <3>1. pusher'[q] = pusher[q]
      BY <2>1, <2>6 DEF TypeOK
    <3> QED
      BY <2>1, <2>3, <3>1 DEF CoverageInv, PusherCoverage, BatchMirrorsTable, TodoIsNewest,
                              ConfirmIsCovered, Covered
  <2>7. ConfirmedIsCovered'
    BY <1>1, <2>1 DEF CoverageInv, ConfirmedIsCovered, KeepsRows, Covered
  <2> QED
    BY <2>5, <2>6, <2>7 DEF CoverageInv
<1> QED
  BY <1>2, <1>3

LEMMA ReleaseDryRunCoverage ==
    ASSUME TypeOK, TypeOK', CoverageInv, NEW p \in Pushers, ReleaseDryRun(p) PROVE CoverageInv'
<1>1. KeepsRows(outbox, outbox')
  BY ReleaseRowsKeeps DEF ReleaseDryRun, TypeOK, StoreTypeOK
<1> QED
  BY <1>1, GoingIdle DEF ReleaseDryRun

LEMMA ReadRemoteCoverage ==
    ASSUME TypeOK, TypeOK', CoverageInv, NEW p \in Pushers, ReadRemote(p) PROVE CoverageInv'
<1>1. PICK seen : pusher' = [pusher EXCEPT ![p].phase = "apply", ![p].seen = seen]
  BY DEF ReadRemote
<1> DEFINE t == [pusher[p] EXCEPT !.phase = "apply", !.seen = seen]
<1>2. Forgets(pusher[p], t)
  BY DEF Forgets, TypeOK, PusherTypeOK, PusherState
<1>3. pusher' = [pusher EXCEPT ![p] = t]
  BY <1>1 DEF TypeOK
<1> HIDE DEF t
<1> QED
  BY <1>2, <1>3, ForgettingStep, NothingChanged DEF ReadRemote, store, history

\* The remote has been given the row, whatever became of it there.
LEMMA ApplyRowCovers ==
    ASSUME TypeOK, NEW p \in Pushers, NEW r \in pusher[p].todo, NEW seen,
           ApplyRow(r, seen, pusher[p].batch[r])
    PROVE  LandedGrows /\ r <= landed'[pusher[p].batch[r].entry]
<1> DEFINE e == pusher[p].batch[r].entry
<1>1. e \in Entries /\ r \in RowId
  BY BatchRows DEF TypeOK, PusherTypeOK
<1>2. landed' = [landed EXCEPT ![e] = IF r > landed[e] THEN r ELSE landed[e]]
  BY DEF ApplyRow
<1> HIDE DEF e
<1>3. \A d \in Entries : landed[d] \in Int
  BY SyncPushAssumption DEF TypeOK
<1>4. LandedGrows
  BY <1>1, <1>2, <1>3 DEF LandedGrows, TypeOK, RowId
<1>5. r <= landed'[e]
  BY <1>1, <1>2, <1>3 DEF TypeOK, RowId
<1> QED
  BY <1>4, <1>5 DEF e

\* A row that landed covers every row of its group, since it is the newest.
LEMMA PushRowCoverage ==
    ASSUME TypeOK, TypeOK', CoverageInv, NEW p \in Pushers, PushRow(p) PROVE CoverageInv'
<1>1. PICK r \in pusher[p].todo :
        /\ ApplyRow(r, pusher[p].seen, pusher[p].batch[r])
        /\ pusher' = [pusher EXCEPT ![p].phase = "push", ![p].seen = "absent",
                                    ![p].todo = @ \ {r},
                                    ![p].confirm = @ \cup GroupOf(p, r)]
  BY DEF PushRow
<1> DEFINE s == pusher[p]
           t == pusher'[p]
           e == s.batch[r].entry
<1>2. /\ t.batch = s.batch
      /\ t.todo = s.todo \ {r}
      /\ t.confirm = s.confirm \cup GroupOf(p, r)
      /\ \A q \in Pushers \ {p} : pusher'[q] = pusher[q]
  BY <1>1 DEF TypeOK, PusherTypeOK, PusherState
<1>3. LandedGrows /\ r <= landed'[e]
  BY <1>1, ApplyRowCovers
<1>4. outbox' = outbox
  BY DEF PushRow, store
<1>5. PusherCoverage(s)
  BY DEF CoverageInv
<1>6. ConfirmIsCovered(pusher[p])'
  <2>1. SUFFICES ASSUME NEW q \in t.confirm PROVE q <= landed'[t.batch[q].entry]
    BY DEF ConfirmIsCovered, Covered
  <2>2. CASE q \in s.confirm
    BY <1>2, <1>3, <2>2, ConfirmStays
  <2>3. CASE q \in GroupOf(p, r)
    <3>1. q \in DOMAIN s.batch /\ s.batch[q].entry = e
      BY <2>3 DEF GroupOf
    <3>2. q <= r
      BY <1>5, <3>1 DEF PusherCoverage, TodoIsNewest
    <3>3. q \in Int /\ r \in Int /\ landed'[e] \in Int
      <4>1. r \in DOMAIN s.batch
        BY DEF TypeOK, PusherTypeOK
      <4>2. e \in Entries /\ r \in RowId /\ q \in RowId
        BY <3>1, <4>1, BatchRows
      <4> QED
        BY <4>2, SyncPushAssumption DEF TypeOK, RowId
    <3>4. q <= landed'[e]
      BY <1>3, <3>2, <3>3
    <3> QED
      BY <1>2, <3>1, <3>4
  <2> QED
    BY <1>2, <2>2, <2>3
<1>7. BatchMirrorsTable(pusher[p])' /\ TodoIsNewest(pusher[p])'
  BY <1>2, <1>4, <1>5 DEF PusherCoverage, BatchMirrorsTable, TodoIsNewest
<1>8. ASSUME NEW q \in Pushers, q # p PROVE PusherCoverage(pusher[q])'
  <2>1. pusher'[q] = pusher[q]
    BY <1>2, <1>8
  <2>2. BatchMirrorsTable(pusher[q])' /\ TodoIsNewest(pusher[q])'
    BY <1>4, <2>1 DEF CoverageInv, PusherCoverage, BatchMirrorsTable, TodoIsNewest
  <2>3. ConfirmIsCovered(pusher[q])'
    BY <1>3, <2>1, ConfirmStays DEF ConfirmIsCovered, Covered
  <2> QED
    BY <2>2, <2>3 DEF PusherCoverage
<1>9. ConfirmedIsCovered'
  <2>1. SUFFICES ASSUME NEW q \in DOMAIN outbox, outbox[q].confirmed # "null"
                 PROVE  q <= landed'[outbox[q].entry]
    BY <1>4 DEF ConfirmedIsCovered, Covered
  <2> DEFINE d == outbox[q].entry
  <2>2. d \in Entries /\ q \in RowId
    BY TableRows
  <2>3. Covered(d, q)
    BY <2>1 DEF CoverageInv, ConfirmedIsCovered
  <2> HIDE DEF d
  <2>4. q <= landed'[d]
    BY <1>3, <2>2, <2>3, CoveredStays
  <2> QED
    BY <2>4 DEF d
<1> QED
  BY <1>6, <1>7, <1>8, <1>9 DEF CoverageInv, PusherCoverage

\* After a failure the pusher knows of the same batch, with less left to push.
LEMMA AfterFailureForgets ==
    ASSUME TypeOK, NEW p \in Pushers, NEW r, pusher' = AfterFailure(p, r)
    PROVE  \A q \in Pushers : Forgets(pusher[q], pusher'[q])
<1> DEFINE phase == IF GroupOf(p, r) = {r} THEN "push" ELSE "release"
           t == [pusher[p] EXCEPT !.phase = phase, !.seen = "absent", !.todo = @ \ {r},
                                  !.release = GroupOf(p, r) \ {r}]
<1>1. pusher' = [pusher EXCEPT ![p] = t]
  BY DEF AfterFailure, TypeOK
<1> HIDE DEF phase
<1>2. Forgets(pusher[p], t)
  BY DEF Forgets, TypeOK, PusherTypeOK, PusherState
<1> HIDE DEF t
<1> QED
  BY <1>1, <1>2, NothingChanged DEF TypeOK

LEMMA FailPushCoverage ==
    ASSUME TypeOK, TypeOK', CoverageInv, NEW p \in Pushers, FailPush(p) PROVE CoverageInv'
<1>1. PICK r \in pusher[p].todo :
        /\ UNCHANGED <<remote, landed>> \/ ApplyRow(r, pusher[p].seen, pusher[p].batch[r])
        /\ outbox' = FailRow(outbox, r)
        /\ pusher' = AfterFailure(p, r)
  BY DEF FailPush
<1>2. LandedGrows
  BY <1>1, LandedStands, ApplyRowCovers
<1>3. KeepsRows(outbox, outbox')
  BY <1>1, FailRowKeeps DEF TypeOK, StoreTypeOK
<1> QED
  BY <1>1, <1>2, <1>3, AfterFailureForgets, CoverageKept

LEMMA ReleaseUnparseableCoverage ==
    ASSUME TypeOK, TypeOK', CoverageInv, NEW p \in Pushers, ReleaseUnparseable(p)
    PROVE  CoverageInv'
<1>1. PICK r \in pusher[p].todo :
        outbox' = ReleaseRows(outbox, {r}) /\ pusher' = AfterFailure(p, r)
  BY DEF ReleaseUnparseable
<1>2. KeepsRows(outbox, outbox')
  BY <1>1, ReleaseRowsKeeps DEF TypeOK, StoreTypeOK
<1>3. LandedGrows
  BY LandedStands DEF ReleaseUnparseable
<1> QED
  BY <1>1, <1>2, <1>3, AfterFailureForgets, CoverageKept

LEMMA BookkeepingLostCoverage ==
    ASSUME TypeOK, TypeOK', CoverageInv, NEW p \in Pushers, BookkeepingLost(p)
    PROVE  CoverageInv'
<1>1. PICK r \in pusher[p].todo : pusher' = AfterFailure(p, r)
  BY DEF BookkeepingLost
<1>2. LandedGrows /\ KeepsRows(outbox, outbox')
  BY LandedStands, NothingChanged DEF BookkeepingLost, store
<1> QED
  BY <1>1, <1>2, AfterFailureForgets, CoverageKept

LEMMA LetGoCoverage ==
    ASSUME TypeOK, TypeOK', CoverageInv, NEW p \in Pushers,
           ReleaseSubsumed(p) \/ SubsumedLost(p)
    PROVE  CoverageInv'
<1> DEFINE t == [pusher[p] EXCEPT !.phase = "push", !.release = {}]
<1>1. pusher' = [pusher EXCEPT ![p] = t]
  BY DEF ReleaseSubsumed, SubsumedLost, TypeOK
<1>2. Forgets(pusher[p], t)
  BY DEF Forgets, TypeOK, PusherTypeOK, PusherState
<1> HIDE DEF t
<1>3. KeepsRows(outbox, outbox')
  BY ReleaseRowsKeeps, NothingChanged
  DEF ReleaseSubsumed, SubsumedLost, store, TypeOK, StoreTypeOK
<1> QED
  BY <1>1, <1>2, <1>3, ForgettingStep DEF ReleaseSubsumed, SubsumedLost

\* The one statement that confirms rows confirms the rows set aside.
LEMMA FinishPushCoverage ==
    ASSUME TypeOK, TypeOK', CoverageInv, NEW p \in Pushers, FinishPush(p) PROVE CoverageInv'
<1>1. /\ outbox' = ConfirmRows(outbox, pusher[p].confirm)
      /\ pusher' = [pusher EXCEPT ![p] = IdlePusher]
      /\ landed' = landed
  BY DEF FinishPush
<1>2. \A r \in DOMAIN outbox' :
        /\ r \in DOMAIN outbox
        /\ outbox'[r].entry = outbox[r].entry
        /\ outbox'[r].confirmed # "null"
             => outbox[r].confirmed # "null" \/ r \in pusher[p].confirm
  BY <1>1 DEF ConfirmRows, TypeOK, StoreTypeOK, IsTable, Row
<1>3. ASSUME NEW r \in DOMAIN outbox, r \in pusher[p].confirm
      PROVE  Covered(outbox[r].entry, r)
  <2>1. Covered(pusher[p].batch[r].entry, r)
    BY <1>3 DEF CoverageInv, PusherCoverage, ConfirmIsCovered
  <2>2. r \in DOMAIN pusher[p].batch
    BY <1>3 DEF TypeOK, PusherTypeOK
  <2> QED
    BY <2>1, <2>2 DEF CoverageInv, PusherCoverage, BatchMirrorsTable
<1>4. ConfirmedIsCovered'
  BY <1>1, <1>2, <1>3 DEF CoverageInv, ConfirmedIsCovered, Covered
<1>5. ASSUME NEW q \in Pushers PROVE PusherCoverage(pusher[q])'
  <2>1. CASE q = p
    <3>1. pusher'[p] = IdlePusher
      BY <1>1 DEF TypeOK
    <3> QED
      BY <2>1, <3>1 DEF PusherCoverage, BatchMirrorsTable, TodoIsNewest, ConfirmIsCovered,
                        IdlePusher
  <2>2. CASE q # p
    <3>1. pusher'[q] = pusher[q]
      BY <1>1, <2>2 DEF TypeOK
    <3> QED
      BY <1>1, <1>2, <3>1 DEF CoverageInv, PusherCoverage, BatchMirrorsTable, TodoIsNewest,
                              ConfirmIsCovered, Covered
  <2> QED
    BY <2>1, <2>2
<1> QED
  BY <1>4, <1>5 DEF CoverageInv

LEMMA CrashPusherCoverage ==
    ASSUME TypeOK, TypeOK', CoverageInv, NEW p \in Pushers, CrashPusher(p) PROVE CoverageInv'
BY GoingIdle, NothingChanged DEF CrashPusher, store

LEMMA PushersCoverage ==
    ASSUME TypeOK, TypeOK', CoverageInv, PusherNext PROVE CoverageInv'
<1>1. PICK p \in Pushers :
        \/ StartPush(p) \/ ReadRemote(p) \/ PushRow(p) \/ FailPush(p)
        \/ ReleaseUnparseable(p) \/ ReleaseSubsumed(p) \/ FinishPush(p)
        \/ Claim(p, TRUE) \/ Claim(p, FALSE) \/ ReleaseDryRun(p)
        \/ BookkeepingLost(p) \/ SubsumedLost(p) \/ CrashPusher(p)
  BY DEF PusherNext, PushStep
<1>2. CASE Claim(p, TRUE) \/ Claim(p, FALSE)
  BY <1>2, ClaimCoverage
<1> QED
  BY <1>1, <1>2, StartPushCoverage, ReadRemoteCoverage, PushRowCoverage, FailPushCoverage,
     ReleaseUnparseableCoverage, LetGoCoverage, FinishPushCoverage, ReleaseDryRunCoverage,
     BookkeepingLostCoverage, CrashPusherCoverage

\* Repair, collection and the clock never confirm a row; repair's tombstones
\* are enqueued like any other row.
LEMMA MaintenanceCoverage ==
    ASSUME TypeOK, TypeOK', CoverageInv, RepairNext \/ ClaimsExpire \/ RetentionPasses
    PROVE  CoverageInv'
<1>1. IsTable(outbox)
  BY DEF TypeOK, StoreTypeOK
<1>2. ASSUME KeepsRows(outbox, outbox'), UNCHANGED <<pusher, landed>> PROVE CoverageInv'
  BY <1>2, NothingChanged, LandedStands, CoverageKept
<1>3. ASSUME NEW all \in BOOLEAN, StartRepair(all) PROVE CoverageInv'
  BY <1>1, <1>2, <1>3, ReleaseRowsKeeps DEF StartRepair
<1>4. ASSUME EnqueueTombstone PROVE CoverageInv'
  <2>1. PICK e, payload : Enqueue(e, "delete", payload, e \in deleted)
    BY <1>4 DEF EnqueueTombstone
  <2> QED
    BY <1>4, <2>1, EnqueueCoverage DEF EnqueueTombstone, history
<1>5. ASSUME RewriteStub PROVE CoverageInv'
  <2>1. KeepsRows(outbox, outbox')
    BY <1>1, <1>5, RewriteRowKeeps, NothingChanged DEF RewriteStub
  <2> QED
    BY <1>2, <1>5, <2>1 DEF RewriteStub
<1>6. ASSUME PurgeUnsendable \/ CollectConfirmed PROVE CoverageInv'
  BY <1>1, <1>2, <1>6, DeleteRowsKeeps DEF PurgeUnsendable, CollectConfirmed, GcRows, history
<1>7. ASSUME ClaimsExpire PROVE CoverageInv'
  BY <1>1, <1>2, <1>7, AgeClaimsKeeps DEF ClaimsExpire, history
<1>8. ASSUME RetentionPasses PROVE CoverageInv'
  <2>1. KeepsRows(outbox, AgeClaims(outbox)) /\ IsTable(AgeClaims(outbox))
    BY <1>1, AgeClaimsKeeps, AgeClaimsType
  <2>2. KeepsRows(AgeClaims(outbox), outbox')
    BY <1>8, <2>1, AgeConfirmationsKeeps DEF RetentionPasses
  <2>3. KeepsRows(outbox, outbox')
    BY <2>1, <2>2 DEF KeepsRows
  <2> QED
    BY <1>2, <1>8, <2>3 DEF RetentionPasses, history
<1>9. ASSUME UNCHANGED <<outbox, pusher, landed>> PROVE CoverageInv'
  BY <1>2, <1>9, NothingChanged
<1> QED
  BY <1>3, <1>4, <1>5, <1>6, <1>7, <1>8, <1>9
  DEF RepairNext, ListOrphans, ListMalformed, SkipItem, ListUnsendable, StopRepair, store,
      history

LEMMA InitCoverage == Init => CoverageInv
BY DEF Init, CoverageInv, ConfirmedIsCovered, PusherCoverage, BatchMirrorsTable, TodoIsNewest,
       ConfirmIsCovered, IdlePusher

LEMMA NextCoverage == TypeOK /\ CoverageInv /\ [Next]_vars => CoverageInv'
<1> SUFFICES ASSUME TypeOK, CoverageInv, [Next]_vars PROVE CoverageInv'
  OBVIOUS
<1>1. TypeOK'
  BY NextTypeOK
<1>2. CASE UNCHANGED vars
  BY <1>1, <1>2, NothingChanged, LandedStands, CoverageKept DEF vars, store, history
<1> QED
  BY <1>1, <1>2, WritersCoverage, PushersCoverage, MaintenanceCoverage DEF Next

\* cmd_push never retires a row before the remote has been given that row or a
\* newer one of its entry: for any number of entries, pushers, rows, crashes and
\* failed statements, and with claims taken over in the middle of a push.
THEOREM ConfirmedRowsAreCovered == Spec => []ConfirmedIsCovered
<1>1. CoverageInv => ConfirmedIsCovered
  BY DEF CoverageInv
<1> QED
  BY <1>1, InitCoverage, NextCoverage, TypeCorrectness, PTL DEF Spec

-----------------------------------------------------------------------------
(* The queue that remains. *)

\* The queue DeliveryQueue sees in table t, as Promise's substitution has it.
QueueRow(t, r) ==
    [id |-> r, entry |-> t[r].entry, refused |-> t[r].payload = "oversized"]

Queue(t) == {[id |-> r, entry |-> t[r].entry,
              refused |-> t[r].payload = "oversized"] : r \in Unconfirmed(t)}

-----------------------------------------------------------------------------
(* Tables and queues. *)

\* u queues the rows of t but those of S, and no row changed its payload.
Dequeues(t, u, S) ==
    /\ DOMAIN u \subseteq DOMAIN t
    /\ \A r \in DOMAIN u : u[r].entry = t[r].entry /\ u[r].payload = t[r].payload
    /\ Unconfirmed(u) = Unconfirmed(t) \ S

LEMMA ClaimRowsDequeues ==
    ASSUME NEW t, IsTable(t), NEW S PROVE Dequeues(t, ClaimRows(t, S), {})
BY DEF Dequeues, Unconfirmed, ClaimRows, IsTable, Row

LEMMA ConfirmRowsDequeues ==
    ASSUME NEW t, IsTable(t), NEW S PROVE Dequeues(t, ConfirmRows(t, S), S)
BY DEF Dequeues, Unconfirmed, ConfirmRows, IsTable, Row

LEMMA FailRowDequeues ==
    ASSUME NEW t, IsTable(t), NEW id PROVE Dequeues(t, FailRow(t, id), {})
BY DEF Dequeues, Unconfirmed, FailRow, IsTable, Row

LEMMA ReleaseRowsDequeues ==
    ASSUME NEW t, IsTable(t), NEW S PROVE Dequeues(t, ReleaseRows(t, S), {})
BY DEF Dequeues, Unconfirmed, ReleaseRows, IsTable, Row

LEMMA DeleteRowsDequeues ==
    ASSUME NEW t, IsTable(t), NEW S PROVE Dequeues(t, DeleteRows(t, S), S)
BY DEF Dequeues, Unconfirmed, DeleteRows, Restrict, IsTable

LEMMA GcRowsDequeues ==
    ASSUME NEW t, IsTable(t) PROVE Dequeues(t, GcRows(t), {})
BY DEF Dequeues, Unconfirmed, GcRows, DeleteRows, Restrict, IsTable

LEMMA AgeClaimsDequeues ==
    ASSUME NEW t, IsTable(t) PROVE Dequeues(t, AgeClaims(t), {})
BY DEF Dequeues, Unconfirmed, AgeClaims, IsTable, Row

LEMMA AgeConfirmationsDequeues ==
    ASSUME NEW t, IsTable(t) PROVE Dequeues(t, AgeConfirmations(t), {})
BY DEF Dequeues, Unconfirmed, AgeConfirmations, IsTable, Row

LEMMA NothingDequeues == \A t : Dequeues(t, t, {})
BY DEF Dequeues

LEMMA DequeuesQueue ==
    ASSUME NEW t, NEW u, NEW S, Dequeues(t, u, S)
    PROVE  Queue(u) = Queue(t) \ {QueueRow(t, r) : r \in S \cap Unconfirmed(t)}
<1>1. Unconfirmed(u) = Unconfirmed(t) \ S
  BY DEF Dequeues
<1>2. \A r \in Unconfirmed(u) : QueueRow(u, r) = QueueRow(t, r)
  BY DEF Dequeues, QueueRow, Unconfirmed
<1>3. \A r, s : QueueRow(t, r) = QueueRow(t, s) => r = s
  BY DEF QueueRow
<1>4. Queue(t) = {QueueRow(t, r) : r \in Unconfirmed(t)}
      /\ Queue(u) = {QueueRow(u, r) : r \in Unconfirmed(u)}
  BY DEF Queue, QueueRow
<1> QED
  BY <1>1, <1>2, <1>3, <1>4

LEMMA SameQueue == ASSUME NEW t, NEW u, Dequeues(t, u, {}) PROVE Queue(u) = Queue(t)
BY DequeuesQueue

-----------------------------------------------------------------------------
(* Steps of the promise. *)

\* A step of the promise, or one it does not see.
PromiseStep == [Promise!Next]_(Promise!vars)

LEMMA StutterKept ==
    ASSUME Dequeues(outbox, outbox', {}), issued' = issued, landed' = landed
    PROVE  PromiseStep
<1>1. Queue(outbox') = Queue(outbox)
  BY SameQueue
<1> QED
  BY <1>1 DEF PromiseStep, Promise!vars, Queue

LEMMA AcceptKept ==
    ASSUME TypeOK, NEW e \in Entries, NEW op, NEW payload, NEW tomb,
           Enqueue(e, op, payload, tomb), landed' = landed
    PROVE  PromiseStep
<1> DEFINE id == issued + 1
           refused == payload = "oversized"
           row == [id |-> id, entry |-> e, refused |-> refused]
<1>1. id \notin DOMAIN outbox
  BY SyncPushAssumption DEF TypeOK, StoreTypeOK
<1>2. outbox' = AppendRow(outbox, id, e, op, payload, tomb)
  BY DEF Enqueue
<1> HIDE DEF id
<1>3. /\ Unconfirmed(outbox') = Unconfirmed(outbox) \cup {id}
      /\ \A r \in Unconfirmed(outbox) : outbox'[r] = outbox[r]
      /\ outbox'[id].entry = e /\ outbox'[id].payload = payload
  BY <1>1, <1>2 DEF AppendRow, Unconfirmed
<1>4. Queue(outbox') = Queue(outbox) \cup {row}
  <2>1. \A r \in Unconfirmed(outbox) : QueueRow(outbox', r) = QueueRow(outbox, r)
    BY <1>3 DEF QueueRow
  <2>2. QueueRow(outbox', id) = row
    BY <1>3 DEF QueueRow
  <2>3. \A t : Queue(t) = {QueueRow(t, r) : r \in Unconfirmed(t)}
    BY DEF Queue, QueueRow
  <2> HIDE DEF row
  <2> QED
    BY <1>3, <2>1, <2>2, <2>3
<1>5. refused \in BOOLEAN
  OBVIOUS
<1>6. issued < MaxRows /\ issued' = issued + 1
  BY DEF Enqueue
<1> HIDE DEF refused
<1>7. Promise!Accept(e, refused)
  BY <1>4, <1>6 DEF Promise!Accept, Queue, id
<1> QED
  BY <1>5, <1>7 DEF PromiseStep, Promise!Next

LEMMA DeliverKept ==
    ASSUME TypeOK, NEW p \in Pushers, NEW r \in pusher[p].todo, NEW seen,
           ApplyRow(r, seen, pusher[p].batch[r]),
           Dequeues(outbox, outbox', {}), issued' = issued
    PROVE  PromiseStep
<1> DEFINE e == pusher[p].batch[r].entry
<1>1. e \in Entries /\ r \in 1..issued
  BY BatchRows DEF TypeOK, PusherTypeOK
<1>2. landed' = [landed EXCEPT ![e] = IF r > landed[e] THEN r ELSE landed[e]]
  BY DEF ApplyRow
<1> HIDE DEF e
<1>3. landed[e] \in Int /\ r \in Int /\ landed \in [Entries -> 0..MaxRows]
  BY <1>1, SyncPushAssumption DEF TypeOK
<1>4. CASE landed[e] < r
  <2>1. landed' = [landed EXCEPT ![e] = r]
    BY <1>2, <1>3, <1>4
  <2>2. Promise!Deliver(e, r)
    BY <1>4, <2>1, SameQueue DEF Promise!Deliver, Queue
  <2> QED
    BY <1>1, <2>2 DEF PromiseStep, Promise!Next
<1>5. CASE ~ (landed[e] < r)
  <2>1. landed' = landed
    BY <1>1, <1>2, <1>3, <1>5
  <2> QED
    BY <2>1, StutterKept
<1> QED
  BY <1>4, <1>5

\* What a pusher confirms has been delivered.
LEMMA RetireKept ==
    ASSUME TypeOK, CoverageInv, NEW p \in Pushers, FinishPush(p) PROVE PromiseStep
<1> DEFINE S == pusher[p].confirm
           rows == {QueueRow(outbox, r) : r \in S \cap Unconfirmed(outbox)}
<1>1. Dequeues(outbox, outbox', S)
  BY ConfirmRowsDequeues DEF FinishPush, TypeOK, StoreTypeOK
<1>2. Queue(outbox') = Queue(outbox) \ rows
  BY <1>1, DequeuesQueue
<1>3. rows \subseteq Queue(outbox)
  BY DEF Queue, QueueRow
<1>4. ASSUME NEW r \in S \cap Unconfirmed(outbox) PROVE r <= landed[outbox[r].entry]
  <2>1. r \in DOMAIN pusher[p].batch /\ r \in DOMAIN outbox
    BY DEF TypeOK, PusherTypeOK, Unconfirmed
  <2> QED
    BY <2>1 DEF CoverageInv, PusherCoverage, ConfirmIsCovered, BatchMirrorsTable, Covered
<1>5. \A row \in rows : row.id <= landed[row.entry]
  BY <1>4 DEF QueueRow
<1> HIDE DEF rows
<1>6. PICK retired \in SUBSET Queue(outbox) : retired = rows
  BY <1>3
<1>7. Promise!Retire(retired)
  BY <1>2, <1>5, <1>6 DEF Promise!Retire, Queue, FinishPush
<1>8. \E set \in SUBSET Queue(outbox) : Promise!Retire(set)
  BY <1>7
<1>9. Promise!Next
  BY <1>8 DEF Promise!Next, Queue
<1> QED
  BY <1>9 DEF PromiseStep

-----------------------------------------------------------------------------
(* What repair remembers of the rows it is about to change. *)

\* Payloads change only by repair's own hand: a stub it is about to rewrite still
\* is one, and a row it is about to purge is still one the remote refuses.
RepairInv ==
    /\ repair.pass \in {"payloads", "purge"} => repair.todo \subseteq 1..issued
    /\ repair.pass = "payloads" =>
           \A r \in repair.todo \cap DOMAIN outbox : outbox[r].payload = "stub"
    /\ repair.pass = "purge" =>
           \A r \in repair.todo \cap DOMAIN outbox : outbox[r].payload = "oversized"

LEMMA RepairInvKept ==
    ASSUME RepairInv, NEW S, Dequeues(outbox, outbox', S), issued' = issued, repair' = repair
    PROVE  RepairInv'
BY DEF RepairInv, Dequeues

LEMMA RepairInvIdle ==
    ASSUME repair'.pass \notin {"payloads", "purge"} PROVE RepairInv'
BY DEF RepairInv

LEMMA EnqueueRepairInv ==
    ASSUME TypeOK, RepairInv, NEW e, NEW op, NEW payload, NEW tomb,
           Enqueue(e, op, payload, tomb), repair' = repair
    PROVE  RepairInv'
<1>1. /\ issued' = issued + 1 /\ issued \in Nat
      /\ \A r \in DOMAIN outbox' : r = issued + 1 \/ (r \in DOMAIN outbox /\ outbox'[r] = outbox[r])
  BY SyncPushAssumption DEF Enqueue, AppendRow, TypeOK, StoreTypeOK
<1>2. ASSUME NEW r \in 1..issued PROVE r # issued + 1 /\ r \in 1..issued'
  BY <1>1
<1> QED
  BY <1>1, <1>2 DEF RepairInv

LEMMA WritersPromise ==
    ASSUME TypeOK, RepairInv, WriterNext PROVE PromiseStep /\ RepairInv'
<1>1. ASSUME NEW w \in Writers, EnqueueSnapshot(w) PROVE PromiseStep /\ RepairInv'
  <2>1. PICK payload \in Kinds : Enqueue(writer[w].entry, writer[w].op, payload, writer[w].tomb)
    BY <1>1 DEF EnqueueSnapshot
  <2> DEFINE e == writer[w].entry
             op == writer[w].op
             tomb == writer[w].tomb
  <2>2. e \in Entries
    BY <1>1 DEF EnqueueSnapshot, TypeOK, IdleWriter, Writing
  <2>3. Enqueue(e, op, payload, tomb) /\ landed' = landed /\ repair' = repair
    BY <1>1, <2>1 DEF EnqueueSnapshot, history
  <2> HIDE DEF e, op, tomb
  <2> QED
    BY <2>2, <2>3, AcceptKept, EnqueueRepairInv
<1>2. ASSUME UNCHANGED <<outbox, issued, landed, repair>> PROVE PromiseStep /\ RepairInv'
  BY <1>2, NothingDequeues, StutterKept, RepairInvKept
<1> QED
  BY <1>1, <1>2 DEF WriterNext, WriteEntry, DeprecateEntry, DeleteSilently, TakeSnapshot,
                    EnqueueLost, store, history

LEMMA PushersPromise ==
    ASSUME TypeOK, CoverageInv, RepairInv, PusherNext PROVE PromiseStep /\ RepairInv'
<1>1. IsTable(outbox)
  BY DEF TypeOK, StoreTypeOK
<1>2. PICK p \in Pushers :
        \/ StartPush(p) \/ ReadRemote(p) \/ PushRow(p) \/ FailPush(p)
        \/ ReleaseUnparseable(p) \/ ReleaseSubsumed(p) \/ FinishPush(p)
        \/ Claim(p, TRUE) \/ Claim(p, FALSE) \/ ReleaseDryRun(p)
        \/ BookkeepingLost(p) \/ SubsumedLost(p) \/ CrashPusher(p)
  BY DEF PusherNext, PushStep
<1>3. issued' = issued /\ repair' = repair
  BY <1>2 DEF StartPush, ReadRemote, PushRow, FailPush, ReleaseUnparseable, ReleaseSubsumed,
              FinishPush, Claim, ReleaseDryRun, BookkeepingLost, SubsumedLost, CrashPusher, store
<1>4. ASSUME Dequeues(outbox, outbox', {}), landed' = landed PROVE PromiseStep /\ RepairInv'
  BY <1>3, <1>4, StutterKept, RepairInvKept
<1>5. CASE StartPush(p) \/ ReleaseUnparseable(p) \/ ReleaseSubsumed(p) \/ ReleaseDryRun(p)
  <2>1. \E S : outbox' = ReleaseRows(outbox, S)
    BY <1>5 DEF StartPush, ReapStale, ReleaseUnparseable, ReleaseSubsumed, ReleaseDryRun
  <2>2. landed' = landed
    BY <1>5 DEF StartPush, ReleaseUnparseable, ReleaseSubsumed, ReleaseDryRun
  <2> QED
    BY <1>1, <1>4, <2>1, <2>2, ReleaseRowsDequeues
<1>6. CASE Claim(p, TRUE) \/ Claim(p, FALSE)
  BY <1>1, <1>4, <1>6, ClaimRowsDequeues DEF Claim, history
<1>7. CASE ReadRemote(p) \/ BookkeepingLost(p) \/ SubsumedLost(p) \/ CrashPusher(p)
  BY <1>4, <1>7, NothingDequeues
  DEF ReadRemote, BookkeepingLost, SubsumedLost, CrashPusher, store, history
<1>8. CASE PushRow(p)
  <2>1. PICK r \in pusher[p].todo : ApplyRow(r, pusher[p].seen, pusher[p].batch[r])
    BY <1>8 DEF PushRow
  <2>2. Dequeues(outbox, outbox', {})
    BY <1>8, NothingDequeues DEF PushRow, store
  <2> QED
    BY <1>3, <2>1, <2>2, DeliverKept, RepairInvKept
<1>9. CASE FailPush(p)
  <2>1. PICK r \in pusher[p].todo :
          /\ UNCHANGED <<remote, landed>> \/ ApplyRow(r, pusher[p].seen, pusher[p].batch[r])
          /\ outbox' = FailRow(outbox, r)
    BY <1>9 DEF FailPush
  <2>2. Dequeues(outbox, outbox', {})
    BY <1>1, <2>1, FailRowDequeues
  <2> QED
    BY <1>3, <1>4, <2>1, <2>2, DeliverKept, RepairInvKept
<1>10. CASE FinishPush(p)
  <2>1. Dequeues(outbox, outbox', pusher[p].confirm)
    BY <1>1, <1>10, ConfirmRowsDequeues DEF FinishPush
  <2> QED
    BY <1>3, <1>10, <2>1, RetireKept, RepairInvKept
<1> QED
  BY <1>2, <1>5, <1>6, <1>7, <1>8, <1>9, <1>10

\* The rewritten row is the same row of the promise's queue.
LEMMA RewriteStubPromise ==
    ASSUME TypeOK, RepairInv, RewriteStub PROVE PromiseStep /\ RepairInv'
<1>1. PICK r \in repair.todo, payload \in Kinds \ {"stub", "oversized"} :
        /\ outbox' = IF r \in DOMAIN outbox
                     THEN RewriteRow(outbox, r, payload, outbox[r].entry \in deleted)
                     ELSE outbox
        /\ repair' = [repair EXCEPT !.todo = @ \ {r}]
  BY DEF RewriteStub
<1>2. /\ DOMAIN outbox' = DOMAIN outbox
      /\ Unconfirmed(outbox') = Unconfirmed(outbox)
      /\ \A q \in DOMAIN outbox : q # r => outbox'[q] = outbox[q]
      /\ r \in DOMAIN outbox => /\ outbox'[r].entry = outbox[r].entry
                                /\ outbox'[r].payload \in {payload, outbox[r].payload}
  BY <1>1 DEF RewriteRow, Unconfirmed, TypeOK, StoreTypeOK, IsTable, Row
<1>3. r \in DOMAIN outbox =>
        outbox[r].payload # "oversized" /\ outbox'[r].payload # "oversized"
  BY <1>1, <1>2 DEF RepairInv, RewriteStub
<1>4. Queue(outbox') = Queue(outbox)
  <2>1. \A q \in Unconfirmed(outbox) : QueueRow(outbox', q) = QueueRow(outbox, q)
    BY <1>2, <1>3 DEF QueueRow, Unconfirmed
  <2>2. \A t : Queue(t) = {QueueRow(t, q) : q \in Unconfirmed(t)}
    BY DEF Queue, QueueRow
  <2> QED
    BY <1>2, <2>1, <2>2
<1>5. PromiseStep
  BY <1>4 DEF PromiseStep, Promise!vars, Queue, RewriteStub
<1>6. RepairInv'
  <2>1. repair'.pass = "payloads" /\ repair'.todo \subseteq repair.todo /\ r \notin repair'.todo
    BY <1>1 DEF RewriteStub, TypeOK, RepairState, IdleRepair
  <2>2. issued' = issued /\ repair.pass = "payloads"
    BY DEF RewriteStub
  <2> QED
    BY <1>2, <2>1, <2>2 DEF RepairInv
<1> QED
  BY <1>5, <1>6

\* What repair purges the remote would have refused for good.
LEMMA PurgePromise ==
    ASSUME TypeOK, RepairInv, PurgeUnsendable PROVE PromiseStep /\ RepairInv'
<1> DEFINE S == repair.todo
           rows == {QueueRow(outbox, r) : r \in S \cap Unconfirmed(outbox)}
<1>1. Dequeues(outbox, outbox', S)
  BY DeleteRowsDequeues DEF PurgeUnsendable, TypeOK, StoreTypeOK
<1>2. Queue(outbox') = Queue(outbox) \ rows
  BY <1>1, DequeuesQueue
<1>3. rows \subseteq Queue(outbox)
  BY DEF Queue, QueueRow
<1>4. \A row \in rows : row.refused
  <2>1. \A r \in S \cap Unconfirmed(outbox) : outbox[r].payload = "oversized"
    BY DEF RepairInv, PurgeUnsendable, Unconfirmed
  <2>2. ASSUME NEW r, outbox[r].payload = "oversized" PROVE QueueRow(outbox, r).refused
    BY <2>2, Zenon DEF QueueRow
  <2> QED
    BY <2>1, <2>2
<1> HIDE DEF rows
<1>5. PICK purged \in SUBSET Queue(outbox) : purged = rows
  BY <1>3
<1>6. Promise!Discard(purged)
  BY <1>2, <1>4, <1>5 DEF Promise!Discard, Queue, PurgeUnsendable
<1>7. \E set \in SUBSET Queue(outbox) : Promise!Discard(set)
  BY <1>6
<1>8. Promise!Next
  BY <1>7 DEF Promise!Next, Queue
<1>9. RepairInv'
  BY RepairInvIdle DEF PurgeUnsendable, IdleRepair
<1> QED
  BY <1>8, <1>9 DEF PromiseStep

LEMMA RepairPromise ==
    ASSUME TypeOK, RepairInv, RepairNext PROVE PromiseStep /\ RepairInv'
<1>1. IsTable(outbox)
  BY DEF TypeOK, StoreTypeOK
<1>2. ASSUME NEW all \in BOOLEAN, StartRepair(all) PROVE PromiseStep /\ RepairInv'
  <2>1. Dequeues(outbox, outbox', {})
    BY <1>1, <1>2, ReleaseRowsDequeues DEF StartRepair
  <2> QED
    BY <1>2, <2>1, StutterKept, RepairInvIdle DEF StartRepair
<1>3. ASSUME EnqueueTombstone PROVE PromiseStep /\ RepairInv'
  <2>1. PICK e \in repair.todo, payload \in Kinds :
          Enqueue(e, "delete", payload, e \in deleted)
    BY <1>3 DEF EnqueueTombstone
  <2> DEFINE tomb == e \in deleted
  <2>2. e \in Entries
    BY <1>3 DEF EnqueueTombstone, TypeOK, RepairState, IdleRepair
  <2>3. Enqueue(e, "delete", payload, tomb) /\ landed' = landed
    BY <1>3, <2>1 DEF EnqueueTombstone, history
  <2>4. repair'.pass = "tombstones"
    BY <1>3 DEF EnqueueTombstone, TypeOK, RepairState, IdleRepair
  <2> HIDE DEF tomb
  <2> QED
    BY <2>2, <2>3, <2>4, AcceptKept, RepairInvIdle
<1>4. ASSUME UNCHANGED <<outbox, issued, landed>> PROVE PromiseStep
  BY <1>4, NothingDequeues, StutterKept
<1>5. ASSUME ListOrphans \/ StopRepair PROVE PromiseStep /\ RepairInv'
  BY <1>4, <1>5, RepairInvIdle DEF ListOrphans, StopRepair, IdleRepair, store, history
<1>6. ASSUME SkipItem PROVE PromiseStep /\ RepairInv'
  <2>1. /\ repair'.pass = repair.pass /\ repair'.todo \subseteq repair.todo
        /\ UNCHANGED <<outbox, issued, landed>>
    BY <1>6 DEF SkipItem, TypeOK, RepairState, IdleRepair, store, history
  <2> QED
    BY <1>4, <2>1 DEF RepairInv
<1>7. ASSUME ListMalformed PROVE PromiseStep /\ RepairInv'
  <2>1. UNCHANGED <<outbox, issued, landed>>
    BY <1>7 DEF ListMalformed, store, history
  <2>2. RepairInv'
    BY <1>7, <2>1
    DEF ListMalformed, RepairInv, MalformedDeletes, Unconfirmed, TypeOK, StoreTypeOK
  <2> QED
    BY <1>4, <2>1, <2>2
<1>8. ASSUME NEW purge \in BOOLEAN, ListUnsendable(purge) PROVE PromiseStep /\ RepairInv'
  <2>1. UNCHANGED <<outbox, issued, landed>>
    BY <1>8 DEF ListUnsendable, store, history
  <2>2. RepairInv'
    BY <1>8, <2>1
    DEF ListUnsendable, RepairInv, Unsendable, Unconfirmed, IdleRepair, TypeOK, StoreTypeOK
  <2> QED
    BY <1>4, <2>1, <2>2
<1>9. ASSUME CollectConfirmed PROVE PromiseStep /\ RepairInv'
  <2>1. Dequeues(outbox, outbox', {})
    BY <1>1, <1>9, GcRowsDequeues DEF CollectConfirmed
  <2> QED
    BY <1>9, <2>1, StutterKept, RepairInvKept DEF CollectConfirmed, history
<1> QED
  BY <1>2, <1>3, <1>5, <1>6, <1>7, <1>8, <1>9, RewriteStubPromise, PurgePromise DEF RepairNext

LEMMA TimePromise ==
    ASSUME TypeOK, RepairInv, ClaimsExpire \/ RetentionPasses PROVE PromiseStep /\ RepairInv'
<1>1. IsTable(outbox) /\ IsTable(AgeClaims(outbox))
  BY AgeClaimsType DEF TypeOK, StoreTypeOK
<1>2. Dequeues(outbox, AgeClaims(outbox), {})
  BY <1>1, AgeClaimsDequeues
<1>3. Dequeues(outbox, outbox', {})
  <2>1. CASE RetentionPasses
    <3>1. Dequeues(AgeClaims(outbox), outbox', {})
      BY <1>1, <2>1, AgeConfirmationsDequeues DEF RetentionPasses
    <3> QED
      BY <1>2, <3>1 DEF Dequeues
  <2> QED
    BY <1>2, <2>1 DEF ClaimsExpire
<1>4. issued' = issued /\ landed' = landed /\ repair' = repair
  BY DEF ClaimsExpire, RetentionPasses, history
<1> QED
  BY <1>3, <1>4, StutterKept, RepairInvKept

LEMMA NextPromise ==
    ASSUME TypeOK, CoverageInv, RepairInv, [Next]_vars PROVE PromiseStep /\ RepairInv'
<1>1. CASE UNCHANGED vars
  BY <1>1, NothingDequeues, StutterKept, RepairInvKept DEF vars, store, history
<1> QED
  BY <1>1, WritersPromise, PushersPromise, RepairPromise, TimePromise DEF Next

\* Refinement: whatever claims, pushers, crashes, repair and collection do, a row
\* leaves the unconfirmed part of sync_outbox only if the remote has been given
\* it or a newer row of its entry, or if the remote refuses it for good.
THEOREM PushImplementsDelivery == Spec => KeepsThePromise
<1>1. Init => Promise!Init /\ RepairInv
  BY DEF Init, Promise!Init, RepairInv, IdleRepair, Unconfirmed
<1>2. TypeOK /\ CoverageInv /\ RepairInv /\ [Next]_vars => RepairInv' /\ PromiseStep
  BY NextPromise
<1> QED
  BY <1>1, <1>2, InitCoverage, NextCoverage, TypeCorrectness, PTL
  DEF Spec, KeepsThePromise, Promise!Spec, PromiseStep

-----------------------------------------------------------------------------
(* Version skew. *)

\* A row with a strike is one that some build at work can parse.
StrikesAreEarned ==
    \A r \in DOMAIN outbox :
        outbox[r].attempts # 0 => \E p \in Pushers : Parses(p, outbox[r].payload)

\* A pusher remembers the payload the table has, or the stub repair has replaced.
RemembersPayloads(s) ==
    \A r \in DOMAIN s.batch :
        r \in DOMAIN outbox => s.batch[r].payload \in {"stub", outbox[r].payload}

\* It has parsed the row it is about to apply.
AppliesWhatItParsed(p) ==
    pusher[p].phase = "apply" =>
        \A r \in pusher[p].todo : IsNext(p, r) => Parses(p, pusher[p].batch[r].payload)

\* VersionSkewIsNotPenalised made inductive: the strike of a slow pusher falls on
\* a row that repair may have rewritten since it was claimed.
SkewInv ==
    /\ StrikesAreEarned
    /\ \A p \in Pushers : RemembersPayloads(pusher[p]) /\ AppliesWhatItParsed(p)

\* Only a claim changes what a pusher remembers, and only reading the remote
\* makes it apply a row.
LEMMA BatchesStand ==
    ASSUME TypeOK, [Next]_vars, NEW q \in Pushers
    PROVE  /\ Claim(q, TRUE) \/ Claim(q, FALSE) \/ pusher'[q].batch \in {pusher[q].batch, <<>>}
           /\ ReadRemote(q) \/ pusher'[q].phase # "apply" \/ pusher'[q] = pusher[q]
<1> DEFINE Stands == /\ Claim(q, TRUE) \/ Claim(q, FALSE)
                        \/ pusher'[q].batch \in {pusher[q].batch, <<>>}
                     /\ ReadRemote(q) \/ pusher'[q].phase # "apply" \/ pusher'[q] = pusher[q]
<1>1. ASSUME pusher'[q] = pusher[q] PROVE Stands
  BY <1>1
<1>2. ASSUME NEW p \in Pushers, NEW t, pusher' = [pusher EXCEPT ![p] = t],
             t.batch = pusher[p].batch \/ t.batch = <<>>, t.phase # "apply"
      PROVE  Stands
  <2>1. CASE q = p
    BY <1>2, <2>1 DEF TypeOK
  <2>2. CASE q # p
    BY <1>1, <1>2, <2>2 DEF TypeOK
  <2> QED
    BY <2>1, <2>2
<1> HIDE DEF Stands
<1>3. ASSUME NEW p \in Pushers, pusher' = [pusher EXCEPT ![p] = IdlePusher] PROVE Stands
  <2>1. IdlePusher.batch = <<>> /\ IdlePusher.phase # "apply"
    BY DEF IdlePusher
  <2> QED
    BY <1>2, <1>3, <2>1
<1>4. ASSUME PusherNext PROVE Stands
  <2>1. PICK p \in Pushers :
          \/ StartPush(p) \/ ReadRemote(p) \/ PushRow(p) \/ FailPush(p)
          \/ ReleaseUnparseable(p) \/ ReleaseSubsumed(p) \/ FinishPush(p)
          \/ Claim(p, TRUE) \/ Claim(p, FALSE) \/ ReleaseDryRun(p)
          \/ BookkeepingLost(p) \/ SubsumedLost(p) \/ CrashPusher(p)
    BY <1>4 DEF PusherNext, PushStep
  <2>2. pusher[p] \in PusherState
    BY DEF TypeOK
  <2>3. CASE StartPush(p)
    <3> DEFINE t == [pusher[p] EXCEPT !.phase = "claim"]
    <3>1. pusher' = [pusher EXCEPT ![p] = t] /\ t.batch = pusher[p].batch /\ t.phase = "claim"
      BY <2>2, <2>3 DEF StartPush, PusherState
    <3> HIDE DEF t
    <3> QED
      BY <1>2, <3>1
  <2>4. CASE ReleaseSubsumed(p) \/ SubsumedLost(p)
    <3> DEFINE t == [pusher[p] EXCEPT !.phase = "push", !.release = {}]
    <3>1. pusher' = [pusher EXCEPT ![p] = t] /\ t.batch = pusher[p].batch /\ t.phase = "push"
      BY <2>2, <2>4 DEF ReleaseSubsumed, SubsumedLost, PusherState
    <3> HIDE DEF t
    <3> QED
      BY <1>2, <3>1
  <2>5. CASE PushRow(p)
    <3>1. PICK r : pusher' = [pusher EXCEPT ![p].phase = "push", ![p].seen = "absent",
                                            ![p].todo = @ \ {r},
                                            ![p].confirm = @ \cup GroupOf(p, r)]
      BY <2>5 DEF PushRow
    <3> DEFINE t == [pusher[p] EXCEPT !.phase = "push", !.seen = "absent", !.todo = @ \ {r},
                                      !.confirm = @ \cup GroupOf(p, r)]
    <3>2. pusher' = [pusher EXCEPT ![p] = t]
      BY <3>1
    <3>3. t.batch = pusher[p].batch /\ t.phase = "push"
      BY <2>2 DEF PusherState
    <3> HIDE DEF t
    <3> QED
      BY <1>2, <3>2, <3>3
  <2>6. CASE FailPush(p) \/ ReleaseUnparseable(p) \/ BookkeepingLost(p)
    <3>1. PICK r \in pusher[p].todo : pusher' = AfterFailure(p, r)
      BY <2>6 DEF FailPush, ReleaseUnparseable, BookkeepingLost
    <3> DEFINE phase == IF GroupOf(p, r) = {r} THEN "push" ELSE "release"
               t == [pusher[p] EXCEPT !.phase = phase, !.seen = "absent", !.todo = @ \ {r},
                                      !.release = GroupOf(p, r) \ {r}]
    <3>2. pusher' = [pusher EXCEPT ![p] = t]
      BY <3>1 DEF AfterFailure
    <3>3. phase # "apply"
      OBVIOUS
    <3> HIDE DEF phase
    <3>4. t.batch = pusher[p].batch /\ t.phase = phase
      BY <2>2 DEF PusherState
    <3> HIDE DEF t
    <3> QED
      BY <1>2, <3>2, <3>3, <3>4
  <2>7. CASE FinishPush(p) \/ ReleaseDryRun(p) \/ CrashPusher(p)
    BY <1>3, <2>7 DEF FinishPush, ReleaseDryRun, CrashPusher
  <2>8. CASE ReadRemote(p)
    <3>1. PICK seen : pusher' = [pusher EXCEPT ![p] = [pusher[p] EXCEPT !.phase = "apply",
                                                                        !.seen = seen]]
      BY <2>8 DEF ReadRemote
    <3>2. CASE q = p
      BY <2>2, <2>8, <3>1, <3>2 DEF TypeOK, PusherState, Stands
    <3>3. CASE q # p
      BY <1>1, <3>1, <3>3 DEF TypeOK
    <3> QED
      BY <3>2, <3>3
  <2>9. CASE Claim(p, TRUE) \/ Claim(p, FALSE)
    <3>1. PICK phase, batch :
            /\ phase \in {"dry", "push"}
            /\ pusher' \in {[pusher EXCEPT ![p] = IdlePusher],
                            [pusher EXCEPT ![p] = Working(phase, batch)]}
      <4>1. ASSUME NEW dry \in BOOLEAN, Claim(p, dry)
            PROVE  \E phase, batch :
                     /\ phase \in {"dry", "push"}
                     /\ pusher' \in {[pusher EXCEPT ![p] = IdlePusher],
                                     [pusher EXCEPT ![p] = Working(phase, batch)]}
        <5> DEFINE rows == Oldest(Claimable(outbox), BatchLimit)
                   batch == [r \in rows |-> [entry |-> outbox[r].entry,
                                             payload |-> outbox[r].payload,
                                             tomb |-> outbox[r].tomb]]
                   phase == IF dry THEN "dry" ELSE "push"
        <5>1. pusher' = [pusher EXCEPT ![p] = IF rows = {} THEN IdlePusher
                                              ELSE Working(phase, batch)]
          BY <4>1 DEF Claim
        <5>2. phase \in {"dry", "push"}
          OBVIOUS
        <5> HIDE DEF rows, batch, phase
        <5>3. pusher' \in {[pusher EXCEPT ![p] = IdlePusher],
                           [pusher EXCEPT ![p] = Working(phase, batch)]}
          BY <5>1
        <5> QED
          BY <5>2, <5>3
      <4> QED
        BY <2>9, <4>1
    <3>2. \A s \in {IdlePusher, Working(phase, batch)} : s.phase # "apply"
      BY <3>1 DEF Working, IdlePusher
    <3>3. CASE q = p
      BY <2>9, <3>1, <3>2, <3>3 DEF TypeOK, Stands
    <3>4. CASE q # p
      BY <1>1, <3>1, <3>4 DEF TypeOK
    <3> QED
      BY <3>3, <3>4
  <2> QED
    BY <2>1, <2>3, <2>4, <2>5, <2>6, <2>7, <2>8, <2>9
<1>5. ASSUME pusher' = pusher PROVE Stands
  BY <1>1, <1>5
<1>6. ASSUME ~PusherNext PROVE pusher' = pusher
  BY <1>6
  DEF Next, vars, WriterNext, WriteEntry, DeprecateEntry, DeleteSilently, TakeSnapshot,
      EnqueueSnapshot, EnqueueLost, RepairNext, StartRepair, ListOrphans, EnqueueTombstone,
      ListMalformed, RewriteStub, SkipItem, ListUnsendable, PurgeUnsendable, StopRepair,
      CollectConfirmed, ClaimsExpire, RetentionPasses
<1> QED
  BY <1>4, <1>5, <1>6 DEF Stands

\* What the rewrite of a stub leaves of the table.
LEMMA RewriteStubChanges ==
    ASSUME TypeOK, RepairInv, RewriteStub
    PROVE  \A q \in DOMAIN outbox' :
             /\ q \in DOMAIN outbox
             /\ outbox[q].payload \in {"stub", outbox'[q].payload}
             /\ outbox'[q] = outbox[q] \/ outbox'[q].attempts = 0
<1>1. PICK r \in repair.todo, payload \in Kinds \ {"stub", "oversized"} :
        outbox' = IF r \in DOMAIN outbox
                  THEN RewriteRow(outbox, r, payload, outbox[r].entry \in deleted)
                  ELSE outbox
  BY DEF RewriteStub
<1>2. r \in DOMAIN outbox => outbox[r].payload = "stub"
  BY DEF RepairInv, RewriteStub
<1> QED
  BY <1>1, <1>2 DEF RewriteRow, TypeOK, StoreTypeOK, IsTable, Row

\* The payload of an enqueued row changes only from a stub to what replaces it.
LEMMA PayloadsChange ==
    ASSUME TypeOK, RepairInv, [Next]_vars, NEW r \in DOMAIN outbox', r \in 1..issued
    PROVE  r \in DOMAIN outbox /\ outbox[r].payload \in {"stub", outbox'[r].payload}
<1>1. CASE issued' # issued
  <2>1. PICK e, op, tomb, payload : Enqueue(e, op, payload, tomb)
    BY <1>1, EnqueueSteps DEF vars, store
  <2>2. r # issued + 1
    BY SyncPushAssumption DEF TypeOK, StoreTypeOK
  <2> QED
    BY <2>1, <2>2 DEF Enqueue, AppendRow
<1>2. ASSUME NEW p \in Pushers, FailPush(p)
      PROVE  r \in DOMAIN outbox /\ outbox[r].payload \in {"stub", outbox'[r].payload}
  <2>1. PICK q : outbox' = FailRow(outbox, q)
    BY <1>2 DEF FailPush
  <2> QED
    BY <2>1 DEF FailRow, TypeOK, StoreTypeOK, IsTable, Row
<1>3. CASE RewriteStub
  BY <1>3, RewriteStubChanges
<1>4. CASE issued' = issued /\ ~RewriteStub /\ \A p \in Pushers : ~FailPush(p)
  BY <1>4, StrikesKept DEF KeepsStrikes
<1> QED
  BY <1>1, <1>2, <1>3, <1>4

LEMMA PayloadsRemembered ==
    ASSUME TypeOK, RepairInv, SkewInv, [Next]_vars, NEW q \in Pushers
    PROVE  RemembersPayloads(pusher[q])'
<1>1. ASSUME NEW dry \in BOOLEAN, Claim(q, dry) PROVE RemembersPayloads(pusher[q])'
  <2> DEFINE rows == Oldest(Claimable(outbox), BatchLimit)
             batch == [r \in rows |-> [entry |-> outbox[r].entry, payload |-> outbox[r].payload,
                                       tomb |-> outbox[r].tomb]]
             phase == IF dry THEN "dry" ELSE "push"
  <2>1. KeepsStrikes(outbox, outbox')
    BY <1>1, StatementsKeepStrikes DEF Claim, TypeOK, StoreTypeOK
  <2>2. pusher'[q] = IF rows = {} THEN IdlePusher ELSE Working(phase, batch)
    BY <1>1 DEF Claim, TypeOK
  <2>3. DOMAIN batch = rows /\ \A r \in rows : batch[r].payload = outbox[r].payload
    OBVIOUS
  <2> HIDE DEF rows, batch, phase
  <2>4. pusher'[q].batch \in {batch, <<>>}
    BY <2>2 DEF Working, IdlePusher
  <2>5. CASE pusher'[q].batch = batch
    BY <2>1, <2>3, <2>5 DEF RemembersPayloads, KeepsStrikes
  <2>6. CASE pusher'[q].batch = <<>>
    BY <2>6 DEF RemembersPayloads
  <2> QED
    BY <2>4, <2>5, <2>6
<1>2. CASE pusher'[q].batch = <<>>
  BY <1>2 DEF RemembersPayloads
<1>3. CASE pusher'[q].batch = pusher[q].batch
  <2>1. SUFFICES ASSUME NEW r \in DOMAIN pusher[q].batch, r \in DOMAIN outbox'
                 PROVE  pusher[q].batch[r].payload \in {"stub", outbox'[r].payload}
    BY <1>3 DEF RemembersPayloads
  <2>2. r \in 1..issued
    BY DEF TypeOK, PusherTypeOK
  <2>3. r \in DOMAIN outbox /\ outbox[r].payload \in {"stub", outbox'[r].payload}
    BY <2>1, <2>2, PayloadsChange
  <2> QED
    BY <2>3 DEF SkewInv, RemembersPayloads
<1> QED
  BY <1>1, <1>2, <1>3, BatchesStand

LEMMA ParsedBeforeApplied ==
    ASSUME TypeOK, SkewInv, [Next]_vars, NEW q \in Pushers PROVE AppliesWhatItParsed(q)'
<1>1. CASE pusher'[q] = pusher[q]
  BY <1>1 DEF SkewInv, AppliesWhatItParsed, IsNext, Parses
<1>2. CASE ReadRemote(q)
  <2>1. PICK r \in pusher[q].todo :
          IsNext(q, r) /\ Parses(q, pusher[q].batch[r].payload)
    BY <1>2 DEF ReadRemote
  <2>2. pusher'[q].todo = pusher[q].todo /\ pusher'[q].batch = pusher[q].batch
    BY <1>2 DEF ReadRemote, TypeOK, PusherState
  <2>3. ASSUME NEW s \in pusher[q].todo, IsNext(q, s) PROVE s = r
    <3>1. s \in Nat /\ r \in Nat
      BY SyncPushAssumption DEF TypeOK, PusherState, RowId
    <3> QED
      BY <2>1, <2>3, <3>1 DEF IsNext
  <2> QED
    BY <2>1, <2>2, <2>3 DEF AppliesWhatItParsed, IsNext, Parses
<1>3. CASE pusher'[q].phase # "apply"
  BY <1>3 DEF AppliesWhatItParsed
<1> QED
  BY <1>1, <1>2, <1>3, BatchesStand

\* The strike of a failed push falls on a row whose payload the pusher parsed, or
\* on no row at all.
LEMMA StrikesStayEarned ==
    ASSUME TypeOK, RepairInv, SkewInv, [Next]_vars PROVE StrikesAreEarned'
<1>1. CASE issued' # issued
  <2>1. PICK e, op, tomb, payload : Enqueue(e, op, payload, tomb)
    BY <1>1, EnqueueSteps DEF vars, store
  <2> QED
    BY <2>1 DEF Enqueue, AppendRow, SkewInv, StrikesAreEarned, Parses
<1>2. ASSUME NEW p \in Pushers, FailPush(p) PROVE StrikesAreEarned'
  <2>1. PICK r \in pusher[p].todo : IsNext(p, r) /\ outbox' = FailRow(outbox, r)
    BY <1>2 DEF FailPush
  <2>2. Parses(p, pusher[p].batch[r].payload)
    BY <1>2, <2>1 DEF SkewInv, AppliesWhatItParsed, FailPush
  <2>3. pusher[p].batch[r].payload # "stub"
    BY <2>2 DEF Parses
  <2>4. r \in DOMAIN outbox => Parses(p, outbox[r].payload)
    <3>1. r \in DOMAIN pusher[p].batch
      BY DEF TypeOK, PusherTypeOK
    <3> QED
      BY <2>2, <2>3, <3>1 DEF SkewInv, RemembersPayloads
  <2>5. \A q \in DOMAIN outbox' : /\ q \in DOMAIN outbox
                                  /\ outbox'[q].payload = outbox[q].payload
                                  /\ q = r \/ outbox'[q] = outbox[q]
    BY <2>1 DEF FailRow, TypeOK, StoreTypeOK, IsTable, Row
  <2> QED
    BY <2>4, <2>5 DEF SkewInv, StrikesAreEarned, Parses
<1>3. CASE RewriteStub
  BY <1>3, RewriteStubChanges DEF SkewInv, StrikesAreEarned, Parses
<1>4. CASE issued' = issued /\ ~RewriteStub /\ \A p \in Pushers : ~FailPush(p)
  BY <1>4, StrikesKept DEF KeepsStrikes, SkewInv, StrikesAreEarned, Parses
<1> QED
  BY <1>1, <1>2, <1>3, <1>4

\* Whatever mix of builds pushes, however slow a pusher is and whatever repair
\* rewrites meanwhile, the cap never parks a row that none of them can parse.
THEOREM SkewedRowsKeepTheirAttempts == Spec => []VersionSkewIsNotPenalised
<1>1. Init => RepairInv /\ SkewInv
  BY DEF Init, RepairInv, IdleRepair, SkewInv, StrikesAreEarned, RemembersPayloads,
         AppliesWhatItParsed, IdlePusher
<1>2. SkewInv => VersionSkewIsNotPenalised
  <2>1. SUFFICES ASSUME SkewInv, NEW r \in DeadLettered(outbox)
                 PROVE  \E p \in Pushers : Parses(p, outbox[r].payload)
    BY DEF VersionSkewIsNotPenalised
  <2>2. r \in DOMAIN outbox /\ outbox[r].attempts >= MaxAttempts
    BY DEF DeadLettered, Unconfirmed
  <2>3. outbox[r].attempts # 0
    BY <2>2, MaxAttemptsAssumption
  <2> QED
    BY <2>1, <2>2, <2>3 DEF SkewInv, StrikesAreEarned
<1>3. TypeOK /\ CoverageInv /\ RepairInv /\ SkewInv /\ [Next]_vars => RepairInv' /\ SkewInv'
  BY NextPromise, PayloadsRemembered, ParsedBeforeApplied, StrikesStayEarned DEF SkewInv
<1> QED
  BY <1>1, <1>2, <1>3, InitCoverage, NextCoverage, TypeCorrectness, PTL DEF Spec

=============================================================================
