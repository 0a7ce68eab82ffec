--------------------------- MODULE SyncPushProofs ---------------------------
(***************************************************************************)
(* Proofs about SyncPush, for any number of entries, writers, pushers,     *)
(* rows and faults.                                                        *)
(***************************************************************************)
EXTENDS SyncPush, TLAPS

-----------------------------------------------------------------------------
(* What each statement on sync_outbox does to a table, row by row: the facts that
   the proofs about SyncPush cite instead of the definitions. *)

\* An enqueue adds one unclaimed, unconfirmed row and touches no other.
LEMMA AppendRowType ==
    ASSUME NEW t, IsTable(t), NEW id, NEW e \in Entries, NEW op \in Op,
           NEW payload \in Payload, NEW tomb \in BOOLEAN
    PROVE  LET u == AppendRow(t, id, e, op, payload, tomb)
           IN  /\ IsTable(u)
               /\ \A r : r \in DOMAIN u <=> r \in DOMAIN t \/ r = id
BY DEF AppendRow, IsTable, Row, Stamp

\* The other statements keep the table's rows; only deletion takes some away.
LEMMA ClaimRowsType ==
    ASSUME NEW t, IsTable(t), NEW S
    PROVE  IsTable(ClaimRows(t, S)) /\ DOMAIN ClaimRows(t, S) = DOMAIN t
BY DEF ClaimRows, IsTable, Row, Stamp

LEMMA ConfirmRowsType ==
    ASSUME NEW t, IsTable(t), NEW S
    PROVE  IsTable(ConfirmRows(t, S)) /\ DOMAIN ConfirmRows(t, S) = DOMAIN t
BY DEF ConfirmRows, IsTable, Row, Stamp

LEMMA ReleaseRowsType ==
    ASSUME NEW t, IsTable(t), NEW S
    PROVE  IsTable(ReleaseRows(t, S)) /\ DOMAIN ReleaseRows(t, S) = DOMAIN t
BY DEF ReleaseRows, IsTable, Row, Stamp

LEMMA RewriteRowType ==
    ASSUME NEW t, IsTable(t), NEW id, NEW payload \in Payload, NEW tomb \in BOOLEAN
    PROVE  IsTable(RewriteRow(t, id, payload, tomb)) /\ DOMAIN RewriteRow(t, id, payload, tomb) = DOMAIN t
BY DEF RewriteRow, IsTable, Row, Stamp

LEMMA AgeConfirmationsType ==
    ASSUME NEW t, IsTable(t)
    PROVE  IsTable(AgeConfirmations(t)) /\ DOMAIN AgeConfirmations(t) = DOMAIN t
BY DEF AgeConfirmations, IsTable, Row, Stamp

LEMMA AgeClaimsType ==
    ASSUME NEW t, IsTable(t)
    PROVE  IsTable(AgeClaims(t)) /\ DOMAIN AgeClaims(t) = DOMAIN t
BY DEF AgeClaims, IsTable, Row, Stamp, Claimed, Unconfirmed

LEMMA FailRowType ==
    ASSUME NEW t, IsTable(t), NEW id
    PROVE  IsTable(FailRow(t, id)) /\ DOMAIN FailRow(t, id) = DOMAIN t
<1>1. ASSUME NEW r \in DOMAIN t PROVE FailRow(t, id)[r] \in Row
  <2>1. t[r] \in Row /\ t[r].attempts + 1 \in Nat
    BY DEF IsTable, Row
  <2>2. FailRow(t, id)[r] =
          IF r = id THEN [t[r] EXCEPT !.attempts = t[r].attempts + 1, !.claimed = "null"]
          ELSE t[r]
    BY DEF FailRow
  <2> QED
    BY <2>1, <2>2 DEF Row, Stamp
<1> QED
  BY <1>1 DEF IsTable, FailRow

LEMMA DeleteRowsType ==
    ASSUME NEW t, IsTable(t), NEW S
    PROVE  IsTable(DeleteRows(t, S)) /\ DOMAIN DeleteRows(t, S) \subseteq DOMAIN t
BY DEF DeleteRows, Restrict, IsTable

\* No row is added, none becomes another entry's, none becomes confirmed.
KeepsRows(t, u) ==
    /\ DOMAIN u \subseteq DOMAIN t
    /\ \A r \in DOMAIN u :
        /\ u[r].entry = t[r].entry
        /\ u[r].confirmed # "null" => t[r].confirmed # "null"

\* Of all statements only an enqueue and a confirmation do otherwise.
LEMMA ClaimRowsKeeps == ASSUME NEW t, IsTable(t), NEW S PROVE KeepsRows(t, ClaimRows(t, S))
BY DEF KeepsRows, ClaimRows, IsTable, Row

LEMMA FailRowKeeps == ASSUME NEW t, IsTable(t), NEW id PROVE KeepsRows(t, FailRow(t, id))
BY DEF KeepsRows, FailRow, IsTable, Row

LEMMA ReleaseRowsKeeps == ASSUME NEW t, IsTable(t), NEW S PROVE KeepsRows(t, ReleaseRows(t, S))
BY DEF KeepsRows, ReleaseRows, IsTable, Row

LEMMA RewriteRowKeeps ==
    ASSUME NEW t, IsTable(t), NEW id, NEW payload, NEW tomb
    PROVE  KeepsRows(t, RewriteRow(t, id, payload, tomb))
BY DEF KeepsRows, RewriteRow, IsTable, Row

LEMMA DeleteRowsKeeps == ASSUME NEW t, IsTable(t), NEW S PROVE KeepsRows(t, DeleteRows(t, S))
BY DEF KeepsRows, DeleteRows, Restrict

LEMMA AgeClaimsKeeps == ASSUME NEW t, IsTable(t) PROVE KeepsRows(t, AgeClaims(t))
BY DEF KeepsRows, AgeClaims, IsTable, Row

LEMMA AgeConfirmationsKeeps == ASSUME NEW t, IsTable(t) PROVE KeepsRows(t, AgeConfirmations(t))
BY DEF KeepsRows, AgeConfirmations, IsTable, Row

\* No row is added, struck or given another payload.
KeepsStrikes(t, u) ==
    \A r \in DOMAIN u :
        r \in DOMAIN t /\ u[r].attempts = t[r].attempts /\ u[r].payload = t[r].payload

\* That takes an enqueue, a failure or a rewrite.
LEMMA StatementsKeepStrikes ==
    ASSUME NEW t, IsTable(t), NEW S
    PROVE  /\ KeepsStrikes(t, ClaimRows(t, S)) /\ KeepsStrikes(t, ConfirmRows(t, S))
           /\ KeepsStrikes(t, ReleaseRows(t, S)) /\ KeepsStrikes(t, DeleteRows(t, S))
           /\ KeepsStrikes(t, AgeClaims(t)) /\ KeepsStrikes(t, AgeConfirmations(t))
<1> USE DEF KeepsStrikes, IsTable, Row
<1>1. KeepsStrikes(t, ClaimRows(t, S))
  BY DEF ClaimRows
<1>2. KeepsStrikes(t, ConfirmRows(t, S))
  BY DEF ConfirmRows
<1>3. KeepsStrikes(t, ReleaseRows(t, S))
  BY DEF ReleaseRows
<1>4. KeepsStrikes(t, DeleteRows(t, S))
  BY DEF DeleteRows, Restrict
<1>5. KeepsStrikes(t, AgeClaims(t))
  BY DEF AgeClaims
<1>6. KeepsStrikes(t, AgeConfirmations(t))
  BY DEF AgeConfirmations
<1> QED
  BY <1>1, <1>2, <1>3, <1>4, <1>5, <1>6

-----------------------------------------------------------------------------
(* Type correctness. *)

LEMMA IdlePusherIsPusher == IdlePusher \in PusherState /\ DOMAIN IdlePusher.batch = {}
<1>1. <<>> \in [{} -> Snapshot] /\ DOMAIN <<>> = {}
  OBVIOUS
<1>2. <<>> \in Batches
  BY <1>1 DEF Batches
<1> QED
  BY <1>1, <1>2 DEF IdlePusher, PusherState, Phase

LEMMA InitTypeOK == Init => TypeOK
<1> SUFFICES ASSUME Init PROVE TypeOK
  OBVIOUS
<1> USE SyncPushAssumption
<1>1. StoreTypeOK
  <2>1. IsTable(<<>>) /\ DOMAIN <<>> = {}
    BY DEF IsTable
  <2> QED
    BY <2>1 DEF Init, StoreTypeOK
<1>2. \A p \in Pushers : PusherTypeOK(pusher[p])
  BY IdlePusherIsPusher DEF Init, PusherTypeOK, IdlePusher
<1>3. pusher \in [Pushers -> PusherState]
  BY IdlePusherIsPusher DEF Init
<1>4. repair \in RepairState
  BY DEF Init, RepairState, IdleRepair
<1> QED
  BY <1>1, <1>2, <1>3, <1>4 DEF Init, TypeOK, RemoteState, RowId

\* An enqueue extends the table by the next id.
LEMMA EnqueueTypeOK ==
    ASSUME StoreTypeOK, NEW e \in Entries, NEW op \in Op,
           NEW payload \in Kinds, NEW tomb \in BOOLEAN,
           Enqueue(e, op, payload, tomb), deleted' = deleted
    PROVE  StoreTypeOK' /\ issued' = issued + 1
<1> USE SyncPushAssumption DEF StoreTypeOK
<1>1. /\ IsTable(outbox')
      /\ \A r : r \in DOMAIN outbox' <=> r \in DOMAIN outbox \/ r = issued + 1
  <2>1. payload \in Payload
    OBVIOUS
  <2> QED
    BY ONLY StoreTypeOK, e \in Entries, op \in Op, tomb \in BOOLEAN,
            Enqueue(e, op, payload, tomb), <2>1, AppendRowType
       DEF Enqueue, StoreTypeOK
<1>2. issued' = issued + 1 /\ issued' \in 0..MaxRows
  BY DEF Enqueue
<1>3. DOMAIN outbox' \subseteq 1..issued'
  BY <1>1, <1>2
<1> QED
  BY <1>1, <1>2, <1>3

\* Writers change neither the table nor what pushers and repair remember,
\* except that an enqueue appends a row.
LEMMA WritersTypeOK == TypeOK /\ WriterNext => TypeOK'
<1> SUFFICES ASSUME TypeOK, WriterNext PROVE TypeOK'
  OBVIOUS
<1> USE SyncPushAssumption DEF TypeOK, StoreTypeOK, mishaps, history, store
<1>1. ASSUME NEW w \in Writers, NEW e \in Entries, WriteEntry(w, e) PROVE TypeOK'
  BY <1>1 DEF WriteEntry, Writing, Op, PusherTypeOK
<1>2. ASSUME NEW w \in Writers, NEW e \in Entries, DeprecateEntry(w, e) PROVE TypeOK'
  BY <1>2 DEF DeprecateEntry, Writing, Op, PusherTypeOK
<1>3. ASSUME NEW e \in Entries, DeleteSilently(e) PROVE TypeOK'
  BY <1>3 DEF DeleteSilently, PusherTypeOK
<1>4. ASSUME NEW w \in Writers, TakeSnapshot(w) PROVE TypeOK'
  <2>1. writer[w] \in Writing
    BY <1>4 DEF TakeSnapshot, IdleWriter
  <2> DEFINE tomb == writer[w].entry \in deleted
  <2>2. tomb \in BOOLEAN
    OBVIOUS
  <2>3. writer' = [writer EXCEPT ![w].stage = "enqueue", ![w].tomb = tomb]
    BY <1>4 DEF TakeSnapshot
  <2>4. writer'[w] \in Writing
    <3> HIDE DEF tomb
    <3> QED
      BY <2>1, <2>2, <2>3 DEF Writing
  <2> QED
    BY <1>4, <2>3, <2>4 DEF TakeSnapshot, PusherTypeOK
<1>5. ASSUME NEW w \in Writers, EnqueueLost(w) PROVE TypeOK'
  BY <1>5 DEF EnqueueLost, Fault, Writing, PusherTypeOK, IdleWriter
<1>6. ASSUME NEW w \in Writers, EnqueueSnapshot(w) PROVE TypeOK'
  <2>1. writer[w] \in Writing
    BY <1>6 DEF EnqueueSnapshot, IdleWriter
  <2>2. PICK payload \in Kinds : Enqueue(writer[w].entry, writer[w].op, payload, writer[w].tomb)
    BY <1>6 DEF EnqueueSnapshot
  <2>3. StoreTypeOK' /\ issued' = issued + 1
    BY <1>6, <2>1, <2>2, EnqueueTypeOK DEF EnqueueSnapshot, Writing
  <2> QED
    BY <1>6, <2>3 DEF EnqueueSnapshot, PusherTypeOK
<1> QED
  BY <1>1, <1>2, <1>3, <1>4, <1>5, <1>6 DEF WriterNext

\* A step of pusher p that leaves it in state s.
LEMMA PusherStepTypeOK ==
    ASSUME TypeOK, NEW p \in Pushers, NEW s, PusherTypeOK(s),
           pusher' = [pusher EXCEPT ![p] = s], issued' = issued
    PROVE  /\ pusher' \in [Pushers -> PusherState]
           /\ \A q \in Pushers : PusherTypeOK(pusher[q])'
BY DEF TypeOK, PusherTypeOK

LEMMA IdlePusherTypeOK == PusherTypeOK(IdlePusher)
BY IdlePusherIsPusher DEF PusherTypeOK, IdlePusher

LEMMA StartPushTypeOK == ASSUME TypeOK, NEW p \in Pushers, StartPush(p) PROVE TypeOK'
<1> USE DEF TypeOK, StoreTypeOK
<1>1. IsTable(outbox') /\ DOMAIN outbox' = DOMAIN outbox
  BY ReleaseRowsType DEF StartPush, ReapStale
<1>2. StaleClaims(outbox) \subseteq RowId
  BY SyncPushAssumption DEF StaleClaims, Claimed, Unconfirmed, RowId
<1>3. PusherTypeOK([pusher[p] EXCEPT !.phase = "claim"])
  BY DEF StartPush, PusherTypeOK, PusherState, Phase
<1>4. pusher' = [pusher EXCEPT ![p] = [pusher[p] EXCEPT !.phase = "claim"]]
  BY DEF StartPush
<1>5. /\ pusher' \in [Pushers -> PusherState]
      /\ \A q \in Pushers : PusherTypeOK(pusher[q])'
  BY <1>3, <1>4, PusherStepTypeOK DEF StartPush
<1> QED
  BY <1>1, <1>2, <1>5 DEF StartPush, mishaps

LEMMA ClaimTypeOK ==
    ASSUME TypeOK, NEW p \in Pushers, NEW dry \in BOOLEAN, Claim(p, dry) PROVE TypeOK'
<1> USE SyncPushAssumption DEF TypeOK, StoreTypeOK
<1> DEFINE rows == Oldest(Claimable(outbox), BatchLimit)
           batch == [r \in rows |-> [entry |-> outbox[r].entry, payload |-> outbox[r].payload,
                                     tomb |-> outbox[r].tomb]]
           phase == IF dry THEN "dry" ELSE "push"
<1>1. rows \subseteq DOMAIN outbox
  BY DEF Oldest, Claimable, Unconfirmed
<1>2. IsTable(outbox') /\ DOMAIN outbox' = DOMAIN outbox
  BY ClaimRowsType DEF Claim
<1>3. PusherTypeOK(Working(phase, batch))
  <2>1. rows \subseteq RowId /\ rows \subseteq 1..issued
    BY <1>1 DEF RowId
  <2>2. batch \in [rows -> Snapshot]
    BY <1>1 DEF IsTable, Row, Snapshot
  <2>3. batch \in Batches /\ DOMAIN batch = rows
    BY <2>1, <2>2 DEF Batches
  <2>4. Representatives(batch) \subseteq rows
    BY <2>3 DEF Representatives
  <2>5. phase \in {"dry", "push"}
    OBVIOUS
  <2> HIDE DEF rows, batch, phase
  <2> QED
    BY <2>1, <2>3, <2>4, <2>5 DEF PusherTypeOK, PusherState, Phase, Working
<1>4. pusher' = [pusher EXCEPT ![p] = IF rows = {} THEN IdlePusher ELSE Working(phase, batch)]
  BY DEF Claim
<1>5. issued' = issued
  BY DEF Claim
<1>6. /\ pusher' \in [Pushers -> PusherState]
      /\ \A q \in Pushers : PusherTypeOK(pusher[q])'
  <2> HIDE DEF rows, phase, batch
  <2>1. PusherTypeOK(IF rows = {} THEN IdlePusher ELSE Working(phase, batch))
    BY <1>3, IdlePusherTypeOK
  <2> QED
    BY <1>4, <1>5, <2>1, PusherStepTypeOK
<1> QED
  BY <1>2, <1>6 DEF Claim, mishaps, history

LEMMA ReleaseDryRunTypeOK ==
    ASSUME TypeOK, NEW p \in Pushers, ReleaseDryRun(p) PROVE TypeOK'
<1> USE DEF TypeOK, StoreTypeOK
<1>1. IsTable(outbox') /\ DOMAIN outbox' = DOMAIN outbox
  BY ReleaseRowsType DEF ReleaseDryRun
<1>2. /\ pusher' \in [Pushers -> PusherState]
      /\ \A q \in Pushers : PusherTypeOK(pusher[q])'
  BY IdlePusherTypeOK, PusherStepTypeOK DEF ReleaseDryRun
<1> QED
  BY <1>1, <1>2 DEF ReleaseDryRun, mishaps

LEMMA ReadRemoteTypeOK ==
    ASSUME TypeOK, NEW p \in Pushers, ReadRemote(p) PROVE TypeOK'
<1> USE DEF TypeOK, StoreTypeOK
<1>1. PICK seen \in {"absent", "live"} :
        pusher' = [pusher EXCEPT ![p] = [pusher[p] EXCEPT !.phase = "apply", !.seen = seen]]
  BY DEF ReadRemote
<1>2. PusherTypeOK([pusher[p] EXCEPT !.phase = "apply", !.seen = seen])
  BY DEF PusherTypeOK, PusherState, Phase
<1>3. /\ pusher' \in [Pushers -> PusherState]
      /\ \A q \in Pushers : PusherTypeOK(pusher[q])'
  BY <1>1, <1>2, PusherStepTypeOK DEF ReadRemote, store
<1> QED
  BY <1>3 DEF ReadRemote, store, mishaps, history

\* The rows of a group are rows of the batch.
LEMMA GroupOfType ==
    ASSUME TypeOK, NEW p \in Pushers, NEW r PROVE GroupOf(p, r) \subseteq DOMAIN pusher[p].batch
BY DEF GroupOf

LEMMA BatchesAreOfRows ==
    ASSUME TypeOK, NEW p \in Pushers PROVE DOMAIN pusher[p].batch \subseteq RowId
BY DEF TypeOK, PusherTypeOK, PusherState, Batches

\* A push that reached the remote leaves a state the remote can be in, and the
\* newest row it took is one that was enqueued.
LEMMA ApplyRowTypeOK ==
    ASSUME TypeOK, NEW p \in Pushers, NEW r \in pusher[p].todo, NEW seen,
           ApplyRow(r, seen, pusher[p].batch[r])
    PROVE  remote' \in [Entries -> RemoteState] /\ landed' \in [Entries -> 0..MaxRows]
<1> DEFINE row == pusher[p].batch[r]
<1>1. r \in 0..MaxRows /\ r \in DOMAIN pusher[p].batch
  BY SyncPushAssumption DEF TypeOK, PusherTypeOK, PusherState, RowId
<1>2. row \in Snapshot
  BY <1>1 DEF TypeOK, PusherTypeOK, PusherState, Batches
<1>3. Applied(remote[row.entry], seen, row) \subseteq RemoteState
  BY <1>2 DEF TypeOK, Applied, Written, Skipped, Inserted, RemoteState, Snapshot
<1>4. remote' \in [Entries -> RemoteState]
  BY <1>2, <1>3 DEF ApplyRow, TypeOK, Snapshot
<1>5. landed' \in [Entries -> 0..MaxRows]
  BY <1>1, <1>2 DEF ApplyRow, TypeOK, Snapshot
<1> QED
  BY <1>4, <1>5

LEMMA PushRowTypeOK ==
    ASSUME TypeOK, NEW p \in Pushers, PushRow(p) PROVE TypeOK'
<1> USE DEF TypeOK, StoreTypeOK
<1>1. PICK r \in pusher[p].todo :
        /\ ApplyRow(r, pusher[p].seen, pusher[p].batch[r])
        /\ pusher' = [pusher EXCEPT ![p].phase = "push", ![p].seen = "absent",
                                    ![p].todo = @ \ {r},
                                    ![p].confirm = @ \cup GroupOf(p, r)]
  BY DEF PushRow
<1> DEFINE s == [pusher[p] EXCEPT !.phase = "push", !.seen = "absent", !.todo = @ \ {r},
                                  !.confirm = @ \cup GroupOf(p, r)]
<1>2. PusherTypeOK(s)
  <2>1. GroupOf(p, r) \subseteq DOMAIN pusher[p].batch /\ GroupOf(p, r) \subseteq RowId
    BY GroupOfType, BatchesAreOfRows
  <2> QED
    BY <2>1 DEF PusherTypeOK, PusherState, Phase
<1>3. pusher' = [pusher EXCEPT ![p] = s]
  BY <1>1
<1>4. /\ pusher' \in [Pushers -> PusherState]
      /\ \A q \in Pushers : PusherTypeOK(pusher[q])'
  <2> HIDE DEF s
  <2> QED
    BY <1>2, <1>3, PusherStepTypeOK DEF PushRow, store
<1>5. remote' \in [Entries -> RemoteState] /\ landed' \in [Entries -> 0..MaxRows]
  BY <1>1, ApplyRowTypeOK
<1> QED
  BY <1>4, <1>5 DEF PushRow, store, mishaps

LEMMA AfterFailureTypeOK ==
    ASSUME TypeOK, NEW p \in Pushers, NEW r \in pusher[p].todo,
           pusher' = AfterFailure(p, r), issued' = issued
    PROVE  /\ pusher' \in [Pushers -> PusherState]
           /\ \A q \in Pushers : PusherTypeOK(pusher[q])'
<1> USE DEF TypeOK
<1> DEFINE phase == IF GroupOf(p, r) = {r} THEN "push" ELSE "release"
           s == [pusher[p] EXCEPT !.phase = phase, !.seen = "absent", !.todo = @ \ {r},
                                  !.release = GroupOf(p, r) \ {r}]
<1>1. phase \in {"push", "release"}
  OBVIOUS
<1>2. pusher' = [pusher EXCEPT ![p] = s]
  BY DEF AfterFailure
<1> HIDE DEF phase
<1>3. PusherTypeOK(s)
  <2>1. GroupOf(p, r) \subseteq DOMAIN pusher[p].batch /\ GroupOf(p, r) \subseteq RowId
    BY GroupOfType, BatchesAreOfRows
  <2> QED
    BY <1>1, <2>1 DEF PusherTypeOK, PusherState, Phase
<1> HIDE DEF s
<1> QED
  BY <1>2, <1>3, PusherStepTypeOK

LEMMA FailPushTypeOK ==
    ASSUME TypeOK, NEW p \in Pushers, FailPush(p) PROVE TypeOK'
<1> USE DEF TypeOK, StoreTypeOK
<1>1. PICK r \in pusher[p].todo :
        /\ UNCHANGED <<remote, landed>> \/ ApplyRow(r, pusher[p].seen, pusher[p].batch[r])
        /\ outbox' = FailRow(outbox, r)
        /\ pusher' = AfterFailure(p, r)
        /\ stranded' = stranded \ {r}
  BY DEF FailPush
<1>2. IsTable(outbox') /\ DOMAIN outbox' = DOMAIN outbox
  BY <1>1, FailRowType
<1>3. /\ pusher' \in [Pushers -> PusherState]
      /\ \A q \in Pushers : PusherTypeOK(pusher[q])'
  BY <1>1, AfterFailureTypeOK DEF FailPush
<1>4. remote' \in [Entries -> RemoteState] /\ landed' \in [Entries -> 0..MaxRows]
  BY <1>1, ApplyRowTypeOK
<1> QED
  BY <1>1, <1>2, <1>3, <1>4 DEF FailPush, mishaps

LEMMA ReleaseUnparseableTypeOK ==
    ASSUME TypeOK, NEW p \in Pushers, ReleaseUnparseable(p) PROVE TypeOK'
<1> USE DEF TypeOK, StoreTypeOK
<1>1. PICK r \in pusher[p].todo :
        /\ outbox' = ReleaseRows(outbox, {r})
        /\ pusher' = AfterFailure(p, r)
        /\ stranded' = stranded \ {r}
  BY DEF ReleaseUnparseable
<1>2. IsTable(outbox') /\ DOMAIN outbox' = DOMAIN outbox
  BY <1>1, ReleaseRowsType
<1>3. /\ pusher' \in [Pushers -> PusherState]
      /\ \A q \in Pushers : PusherTypeOK(pusher[q])'
  BY <1>1, AfterFailureTypeOK DEF ReleaseUnparseable
<1> QED
  BY <1>1, <1>2, <1>3 DEF ReleaseUnparseable, mishaps

LEMMA ClaimedType == TypeOK => Claimed(outbox) \subseteq RowId
BY SyncPushAssumption DEF TypeOK, StoreTypeOK, Claimed, Unconfirmed, RowId

LEMMA FaultTypeOK == TypeOK /\ Fault => faults' \in 0..MaxFaults
BY SyncPushAssumption DEF TypeOK, Fault

LEMMA BookkeepingLostTypeOK ==
    ASSUME TypeOK, NEW p \in Pushers, BookkeepingLost(p) PROVE TypeOK'
<1> USE DEF TypeOK
<1>1. PICK r \in pusher[p].todo :
        /\ pusher' = AfterFailure(p, r)
        /\ stranded' = stranded \cup ({r} \cap Claimed(outbox))
  BY DEF BookkeepingLost
<1>2. /\ pusher' \in [Pushers -> PusherState]
      /\ \A q \in Pushers : PusherTypeOK(pusher[q])'
  BY <1>1, AfterFailureTypeOK DEF BookkeepingLost, store
<1>3. stranded' \subseteq RowId
  BY <1>1, ClaimedType
<1> QED
  BY <1>2, <1>3, FaultTypeOK DEF BookkeepingLost, store, StoreTypeOK

\* A pusher that lets go of the subsumed rows goes on with the next entry.
LEMMA LetGoTypeOK ==
    ASSUME TypeOK, NEW p \in Pushers, issued' = issued,
           pusher[p].phase = "release",
           pusher' = [pusher EXCEPT ![p].phase = "push", ![p].release = {}]
    PROVE  /\ pusher' \in [Pushers -> PusherState]
           /\ \A q \in Pushers : PusherTypeOK(pusher[q])'
<1> DEFINE s == [pusher[p] EXCEPT !.phase = "push", !.release = {}]
<1>1. PusherTypeOK(s)
  BY DEF TypeOK, PusherTypeOK, PusherState, Phase
<1>2. pusher' = [pusher EXCEPT ![p] = s]
  BY DEF TypeOK
<1> HIDE DEF s
<1> QED
  BY <1>1, <1>2, PusherStepTypeOK

LEMMA ReleaseSubsumedTypeOK ==
    ASSUME TypeOK, NEW p \in Pushers, ReleaseSubsumed(p) PROVE TypeOK'
<1> USE DEF TypeOK, StoreTypeOK
<1>1. IsTable(outbox') /\ DOMAIN outbox' = DOMAIN outbox
  BY ReleaseRowsType DEF ReleaseSubsumed
<1>2. /\ pusher' \in [Pushers -> PusherState]
      /\ \A q \in Pushers : PusherTypeOK(pusher[q])'
  BY LetGoTypeOK DEF ReleaseSubsumed
<1> QED
  BY <1>1, <1>2 DEF ReleaseSubsumed, mishaps

LEMMA SubsumedLostTypeOK ==
    ASSUME TypeOK, NEW p \in Pushers, SubsumedLost(p) PROVE TypeOK'
<1> USE DEF TypeOK
<1>1. /\ pusher' \in [Pushers -> PusherState]
      /\ \A q \in Pushers : PusherTypeOK(pusher[q])'
  BY LetGoTypeOK DEF SubsumedLost, store
<1>2. stranded' \subseteq RowId
  BY ClaimedType DEF SubsumedLost
<1> QED
  BY <1>1, <1>2, FaultTypeOK DEF SubsumedLost, store, StoreTypeOK

LEMMA FinishPushTypeOK ==
    ASSUME TypeOK, NEW p \in Pushers, FinishPush(p) PROVE TypeOK'
<1> USE DEF TypeOK, StoreTypeOK
<1>1. IsTable(outbox') /\ DOMAIN outbox' = DOMAIN outbox
  BY ConfirmRowsType DEF FinishPush
<1>2. /\ pusher' \in [Pushers -> PusherState]
      /\ \A q \in Pushers : PusherTypeOK(pusher[q])'
  BY IdlePusherTypeOK, PusherStepTypeOK DEF FinishPush
<1> QED
  BY <1>1, <1>2 DEF FinishPush, mishaps

LEMMA CrashPusherTypeOK ==
    ASSUME TypeOK, NEW p \in Pushers, CrashPusher(p) PROVE TypeOK'
<1> USE DEF TypeOK
<1>1. /\ pusher' \in [Pushers -> PusherState]
      /\ \A q \in Pushers : PusherTypeOK(pusher[q])'
  BY IdlePusherTypeOK, PusherStepTypeOK DEF CrashPusher, store
<1>2. stranded' \subseteq RowId
  BY ClaimedType DEF CrashPusher
<1> QED
  BY <1>1, <1>2, FaultTypeOK DEF CrashPusher, store, StoreTypeOK

LEMMA PushersTypeOK == TypeOK /\ PusherNext => TypeOK'
<1> SUFFICES ASSUME TypeOK, NEW p \in Pushers,
                    \/ PushStep(p) \/ Claim(p, TRUE) \/ ReleaseDryRun(p)
                    \/ BookkeepingLost(p) \/ SubsumedLost(p) \/ CrashPusher(p)
             PROVE  TypeOK'
  BY DEF PusherNext
<1>1. CASE PushStep(p)
  BY <1>1, StartPushTypeOK, ClaimTypeOK, ReadRemoteTypeOK, PushRowTypeOK, FailPushTypeOK,
     ReleaseUnparseableTypeOK, ReleaseSubsumedTypeOK, FinishPushTypeOK DEF PushStep
<1>2. CASE Claim(p, TRUE)
  BY <1>2, ClaimTypeOK
<1> QED
  BY <1>1, <1>2, ReleaseDryRunTypeOK, BookkeepingLostTypeOK, SubsumedLostTypeOK,
     CrashPusherTypeOK

\* Pushers remember rows by id, so they are unaffected by what happens to the
\* table as long as ids are not handed out twice.
LEMMA PushersUnaffected ==
    ASSUME TypeOK, pusher' = pusher, issued' \in Nat, issued' >= issued
    PROVE  /\ pusher' \in [Pushers -> PusherState]
           /\ \A q \in Pushers : PusherTypeOK(pusher[q])'
BY SyncPushAssumption DEF TypeOK, StoreTypeOK, PusherTypeOK

\* The sets of rows the passes of repair work through.
LEMMA RepairTodoType ==
    ASSUME TypeOK
    PROVE  /\ Orphans(outbox, deleted) \subseteq Entries
           /\ MalformedDeletes(outbox) \subseteq RowId
           /\ Unsendable(outbox) \subseteq RowId
           /\ repair.todo = {} \/ repair.pass \in {"tombstones", "payloads", "purge"}
           /\ repair.pass = "tombstones" => repair.todo \subseteq Entries
           /\ repair.pass \in {"payloads", "purge"} => repair.todo \subseteq RowId
           /\ IdleRepair \in RepairState
BY SyncPushAssumption
   DEF TypeOK, StoreTypeOK, Orphans, MalformedDeletes, Unsendable, Unconfirmed, RowId,
       RepairState, IdleRepair

LEMMA RepairsTypeOK == TypeOK /\ RepairNext => TypeOK'
<1> SUFFICES ASSUME TypeOK, RepairNext PROVE TypeOK'
  OBVIOUS
<1> USE DEF TypeOK, StoreTypeOK
<1>1. ASSUME NEW all \in BOOLEAN, StartRepair(all) PROVE TypeOK'
  <2>1. PICK gone : /\ gone \subseteq Claimed(outbox)
                    /\ outbox' = ReleaseRows(outbox, gone)
                    /\ stranded' = stranded \ gone
                    /\ reclaimed' = reclaimed \cup gone
    BY <1>1 DEF StartRepair, StaleClaims
  <2>2. IsTable(outbox') /\ DOMAIN outbox' = DOMAIN outbox
    BY <2>1, ReleaseRowsType
  <2>3. repair' \in RepairState
    BY <1>1 DEF StartRepair, RepairState
  <2>4. reclaimed' \subseteq RowId
    BY <2>1, ClaimedType
  <2> QED
    BY <1>1, <2>1, <2>2, <2>3, <2>4 DEF StartRepair, mishaps, PusherTypeOK
<1>2. CASE ListOrphans
  BY <1>2, RepairTodoType DEF ListOrphans, store, mishaps, history, RepairState, PusherTypeOK
<1>3. CASE EnqueueTombstone
  <2>1. PICK e \in repair.todo, payload \in Kinds \ {"stub"} :
          /\ Enqueue(e, "delete", payload, e \in deleted)
          /\ repair' = [repair EXCEPT !.todo = @ \ {e}]
    BY <1>3 DEF EnqueueTombstone
  <2>2. e \in Entries /\ (e \in deleted) \in BOOLEAN
    BY <1>3, RepairTodoType DEF EnqueueTombstone
  <2>3. StoreTypeOK' /\ issued' = issued + 1
    <3> DEFINE tomb == e \in deleted
    <3>1. Enqueue(e, "delete", payload, tomb) /\ tomb \in BOOLEAN /\ "delete" \in Op
      BY <2>1, <2>2 DEF Op
    <3>2. deleted' = deleted
      BY <1>3 DEF EnqueueTombstone
    <3> HIDE DEF tomb, StoreTypeOK
    <3> QED
      BY <2>2, <3>1, <3>2, EnqueueTypeOK
  <2>4. repair' \in RepairState
    BY <1>3, <2>1 DEF EnqueueTombstone, RepairState
  <2> QED
    BY <1>3, <2>3, <2>4, PushersUnaffected, SyncPushAssumption
    DEF EnqueueTombstone, mishaps, history
<1>4. CASE ListMalformed
  BY <1>4, RepairTodoType DEF ListMalformed, store, mishaps, history, RepairState, PusherTypeOK
<1>5. CASE RewriteStub
  <2>1. PICK r \in repair.todo, payload \in Kinds \ {"stub", "oversized"} :
          /\ outbox' = IF r \in DOMAIN outbox
                       THEN RewriteRow(outbox, r, payload, outbox[r].entry \in deleted)
                       ELSE outbox
          /\ repair' = [repair EXCEPT !.todo = @ \ {r}]
          /\ stranded' = stranded \ {r}
          /\ reclaimed' = reclaimed \cup ({r} \cap Claimed(outbox))
    BY <1>5 DEF RewriteStub
  <2>2. payload \in Payload /\ (outbox[r].entry \in deleted) \in BOOLEAN
    BY SyncPushAssumption
  <2>3. IsTable(outbox') /\ DOMAIN outbox' = DOMAIN outbox
    BY <2>1, <2>2, RewriteRowType
  <2>4. repair' \in RepairState
    BY <1>5, <2>1 DEF RewriteStub, RepairState
  <2>5. reclaimed' \subseteq RowId
    BY <2>1, ClaimedType
  <2> QED
    BY <1>5, <2>1, <2>3, <2>4, <2>5, PushersUnaffected, SyncPushAssumption
    DEF RewriteStub, mishaps
<1>6. CASE SkipItem
  <2>1. repair' \in RepairState
    BY <1>6 DEF SkipItem, RepairState
  <2> QED
    BY <1>6, <2>1 DEF SkipItem, store, mishaps, history, PusherTypeOK
<1>7. ASSUME NEW purge \in BOOLEAN, ListUnsendable(purge) PROVE TypeOK'
  <2>1. repair' \in RepairState
    BY <1>7, RepairTodoType DEF ListUnsendable, RepairState
  <2> QED
    BY <1>7, <2>1 DEF ListUnsendable, store, mishaps, history, PusherTypeOK
<1>8. CASE PurgeUnsendable
  <2>1. IsTable(outbox') /\ DOMAIN outbox' \subseteq DOMAIN outbox
    BY <1>8, DeleteRowsType DEF PurgeUnsendable
  <2> QED
    BY <1>8, <2>1, RepairTodoType DEF PurgeUnsendable, mishaps, PusherTypeOK
<1>9. CASE StopRepair
  BY <1>9, RepairTodoType DEF StopRepair, store, mishaps, history, PusherTypeOK
<1>10. CASE CollectConfirmed
  <2>1. IsTable(outbox') /\ DOMAIN outbox' \subseteq DOMAIN outbox
    BY <1>10, DeleteRowsType DEF CollectConfirmed, GcRows
  <2> QED
    BY <1>10, <2>1 DEF CollectConfirmed, mishaps, history, PusherTypeOK
<1> QED
  BY <1>1, <1>2, <1>3, <1>4, <1>5, <1>6, <1>7, <1>8, <1>9, <1>10 DEF RepairNext

LEMMA TimeTypeOK == TypeOK /\ (ClaimsExpire \/ RetentionPasses) => TypeOK'
<1> SUFFICES ASSUME TypeOK, ClaimsExpire \/ RetentionPasses PROVE TypeOK'
  OBVIOUS
<1> USE DEF TypeOK, StoreTypeOK
<1>1. IsTable(outbox') /\ DOMAIN outbox' = DOMAIN outbox
  BY AgeClaimsType, AgeConfirmationsType DEF ClaimsExpire, RetentionPasses
<1> QED
  BY <1>1 DEF ClaimsExpire, RetentionPasses, mishaps, history, PusherTypeOK

\* The types of the state hold in every step any process takes.
LEMMA NextTypeOK == TypeOK /\ [Next]_vars => TypeOK'
<1> SUFFICES ASSUME TypeOK, [Next]_vars PROVE TypeOK'
  OBVIOUS
<1>1. CASE UNCHANGED vars
  BY <1>1 DEF TypeOK, StoreTypeOK, PusherTypeOK, vars, store, mishaps, history
<1> QED
  BY <1>1, WritersTypeOK, PushersTypeOK, RepairsTypeOK, TimeTypeOK DEF Next

\* Type correctness: every process remembers only rows that were enqueued, and
\* a pusher holds only rows of the batch it claimed, for any number of them.
THEOREM TypeCorrectness == Spec => []TypeOK
BY InitTypeOK, NextTypeOK, PTL DEF Spec

-----------------------------------------------------------------------------
(* The three events that bear on strikes. *)

\* A step that hands out a row id is an enqueue, by a writer or by repair.
LEMMA EnqueueSteps ==
    ASSUME TypeOK, Next, issued' # issued
    PROVE  /\ \E e, op, tomb : \E payload \in Kinds : Enqueue(e, op, payload, tomb)
           /\ pusher' = pusher
<1>1. ASSUME NEW w \in Writers, EnqueueSnapshot(w)
      PROVE  /\ \E e, op, tomb : \E payload \in Kinds : Enqueue(e, op, payload, tomb)
             /\ pusher' = pusher
  BY <1>1 DEF EnqueueSnapshot
<1>2. ASSUME EnqueueTombstone
      PROVE  /\ \E e, op, tomb : \E payload \in Kinds : Enqueue(e, op, payload, tomb)
             /\ pusher' = pusher
  <2>1. PICK e \in repair.todo, payload \in Kinds : Enqueue(e, "delete", payload, e \in deleted)
    BY <1>2 DEF EnqueueTombstone
  <2> DEFINE tomb == e \in deleted
  <2>2. Enqueue(e, "delete", payload, tomb)
    BY <2>1
  <2> HIDE DEF tomb
  <2> QED
    BY <1>2, <2>2 DEF EnqueueTombstone
<1>3. (\E w \in Writers : EnqueueSnapshot(w)) \/ EnqueueTombstone
  <2>1. ~WriterNext \/ \E w \in Writers : EnqueueSnapshot(w)
    BY DEF WriterNext, WriteEntry, DeprecateEntry, DeleteSilently, TakeSnapshot, EnqueueLost, store
  <2>2. ~PusherNext
    BY DEF PusherNext, PushStep, StartPush, Claim, ReadRemote, PushRow, FailPush,
           ReleaseUnparseable, ReleaseSubsumed, FinishPush, ReleaseDryRun, BookkeepingLost,
           SubsumedLost, CrashPusher, store
  <2>3. ~RepairNext \/ EnqueueTombstone
    BY DEF RepairNext, StartRepair, ListOrphans, ListMalformed, RewriteStub, SkipItem,
           ListUnsendable, PurgeUnsendable, StopRepair, CollectConfirmed, store
  <2>4. ~ClaimsExpire /\ ~RetentionPasses
    BY DEF ClaimsExpire, RetentionPasses
  <2> QED
    BY <2>1, <2>2, <2>3, <2>4 DEF Next
<1> QED
  BY <1>1, <1>2, <1>3

\* Every other step but a failure and a rewrite leaves strikes and payloads alone.
LEMMA StrikesKept ==
    ASSUME TypeOK, [Next]_vars, issued' = issued, ~RewriteStub,
           \A p \in Pushers : ~FailPush(p)
    PROVE  KeepsStrikes(outbox, outbox')
<1>1. IsTable(outbox) /\ issued \in Nat
  BY SyncPushAssumption DEF TypeOK, StoreTypeOK
<1>2. ASSUME outbox' = outbox PROVE KeepsStrikes(outbox, outbox')
  BY <1>2 DEF KeepsStrikes
<1>3. ~EnqueueTombstone /\ \A w \in Writers : ~EnqueueSnapshot(w)
  BY <1>1 DEF EnqueueTombstone, EnqueueSnapshot, Enqueue
<1>4. CASE WriterNext
  BY <1>2, <1>3, <1>4
  DEF WriterNext, WriteEntry, DeprecateEntry, DeleteSilently, TakeSnapshot, EnqueueLost, store
<1>5. CASE PusherNext
  <2>1. PICK p \in Pushers :
          \/ StartPush(p) \/ ReadRemote(p) \/ PushRow(p)
          \/ ReleaseUnparseable(p) \/ ReleaseSubsumed(p) \/ FinishPush(p)
          \/ Claim(p, TRUE) \/ Claim(p, FALSE) \/ ReleaseDryRun(p)
          \/ BookkeepingLost(p) \/ SubsumedLost(p) \/ CrashPusher(p)
    BY <1>5 DEF PusherNext, PushStep
  <2>2. \E S : outbox' \in {ReleaseRows(outbox, S), ClaimRows(outbox, S),
                             ConfirmRows(outbox, S), outbox}
    BY <2>1 DEF StartPush, ReapStale, ReadRemote, PushRow, ReleaseUnparseable, ReleaseSubsumed,
                FinishPush, Claim, ReleaseDryRun, BookkeepingLost, SubsumedLost, CrashPusher, store
  <2> QED
    BY <1>1, <1>2, <2>2, StatementsKeepStrikes
<1>6. CASE RepairNext
  <2>1. \E S : outbox' \in {ReleaseRows(outbox, S), DeleteRows(outbox, S), outbox}
    BY <1>3, <1>6
    DEF RepairNext, StartRepair, ListOrphans, ListMalformed, SkipItem, ListUnsendable,
        PurgeUnsendable, StopRepair, CollectConfirmed, GcRows, store
  <2> QED
    BY <1>1, <1>2, <2>1, StatementsKeepStrikes
<1>7. CASE ClaimsExpire \/ RetentionPasses
  <2>1. IsTable(AgeClaims(outbox)) /\ KeepsStrikes(outbox, AgeClaims(outbox))
    BY <1>1, AgeClaimsType, StatementsKeepStrikes
  <2>2. KeepsStrikes(AgeClaims(outbox), AgeConfirmations(AgeClaims(outbox)))
    BY <2>1, StatementsKeepStrikes
  <2> QED
    BY <1>7, <2>1, <2>2 DEF ClaimsExpire, RetentionPasses, KeepsStrikes
<1> QED
  BY <1>2, <1>4, <1>5, <1>6, <1>7 DEF Next, vars, store

=============================================================================
