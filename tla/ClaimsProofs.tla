---------------------------- MODULE ClaimsProofs ----------------------------
(***************************************************************************)
(* A claim is a promise that somebody will settle the row: the proofs of   *)
(* ClaimsAreBelowTheCap, ClaimsAreAccountedFor and ClaimsAreExclusive, and *)
(* of AttemptsAreBounded, for which holders are counted.                   *)
(***************************************************************************)
EXTENDS SyncPushProofs, WellFoundedInduction, FiniteSetTheorems

-----------------------------------------------------------------------------
(* Claims and statements. *)

\* Every row still claimed in u was claimed in t with as many strikes, and it
\* is not one of S.
Settles(t, u, S) ==
    \A r \in Claimed(u) : r \in Claimed(t) \ S /\ u[r].attempts = t[r].attempts

\* Every statement but claim_outbox settles the rows it is given, and no
\* statement strikes a row that keeps its claim.
LEMMA AppendRowSettles ==
    ASSUME NEW t, NEW id, NEW e, NEW op, NEW payload, NEW tomb
    PROVE  Settles(t, AppendRow(t, id, e, op, payload, tomb), {})
BY DEF Settles, Claimed, Unconfirmed, AppendRow

LEMMA ConfirmRowsSettles ==
    ASSUME NEW t, IsTable(t), NEW S PROVE Settles(t, ConfirmRows(t, S), S)
BY DEF Settles, Claimed, Unconfirmed, ConfirmRows, IsTable, Row

LEMMA FailRowSettles ==
    ASSUME NEW t, IsTable(t), NEW id PROVE Settles(t, FailRow(t, id), {id})
BY DEF Settles, Claimed, Unconfirmed, FailRow, IsTable, Row

LEMMA ReleaseRowsSettles ==
    ASSUME NEW t, IsTable(t), NEW S PROVE Settles(t, ReleaseRows(t, S), S)
BY DEF Settles, Claimed, Unconfirmed, ReleaseRows, IsTable, Row

LEMMA RewriteRowSettles ==
    ASSUME NEW t, IsTable(t), NEW id, NEW payload, NEW tomb
    PROVE  Settles(t, RewriteRow(t, id, payload, tomb), {id})
BY DEF Settles, Claimed, Unconfirmed, RewriteRow, IsTable, Row

LEMMA DeleteRowsSettles ==
    ASSUME NEW t, NEW S PROVE Settles(t, DeleteRows(t, S), S)
BY DEF Settles, Claimed, Unconfirmed, DeleteRows, Restrict

LEMMA AgeClaimsSettles ==
    ASSUME NEW t, IsTable(t) PROVE Settles(t, AgeClaims(t), {})
BY DEF Settles, Claimed, Unconfirmed, AgeClaims, IsTable, Row

LEMMA AgeConfirmationsSettles ==
    ASSUME NEW t, IsTable(t) PROVE Settles(t, AgeConfirmations(t), {})
BY DEF Settles, Claimed, Unconfirmed, AgeConfirmations, IsTable, Row

LEMMA NothingSettles == \A t : Settles(t, t, {})
BY DEF Settles

LEMMA AgeingSettles ==
    ASSUME TypeOK, ClaimsExpire \/ RetentionPasses PROVE Settles(outbox, outbox', {})
<1>1. IsTable(outbox)
  BY DEF TypeOK, StoreTypeOK
<1>2. Settles(outbox, AgeClaims(outbox), {}) /\ IsTable(AgeClaims(outbox))
  BY <1>1, AgeClaimsSettles, AgeClaimsType
<1>3. CASE RetentionPasses
  <2>1. Settles(AgeClaims(outbox), outbox', {})
    BY <1>2, <1>3, AgeConfirmationsSettles DEF RetentionPasses
  <2> QED
    BY <1>2, <2>1 DEF Settles
<1> QED
  BY <1>2, <1>3 DEF ClaimsExpire

\* What repair and collection do to claims, and to those of the rows they name.
LEMMA RepairSettles ==
    ASSUME TypeOK, RepairNext
    PROVE  \E S : /\ Settles(outbox, outbox', S)
                  /\ stranded \ S \subseteq stranded'
                  /\ pusher' = pusher
<1>1. IsTable(outbox)
  BY DEF TypeOK, StoreTypeOK
<1>2. ASSUME NEW all \in BOOLEAN, StartRepair(all)
      PROVE  \E S : Settles(outbox, outbox', S) /\ stranded \ S \subseteq stranded'
  BY <1>1, <1>2, ReleaseRowsSettles DEF StartRepair
<1>3. CASE EnqueueTombstone
  BY <1>3, AppendRowSettles DEF EnqueueTombstone, Enqueue, history
<1>4. CASE RewriteStub
  <2>1. PICK r \in repair.todo, payload \in Kinds :
          /\ outbox' = IF r \in DOMAIN outbox
                       THEN RewriteRow(outbox, r, payload, outbox[r].entry \in deleted)
                       ELSE outbox
          /\ stranded' = stranded \ {r}
    BY <1>4 DEF RewriteStub
  <2>2. Settles(outbox, outbox', {r})
    <3>1. CASE r \in DOMAIN outbox
      BY <1>1, <2>1, <3>1, RewriteRowSettles
    <3>2. CASE r \notin DOMAIN outbox
      BY <2>1, <3>2 DEF Settles, Claimed, Unconfirmed
    <3> QED
      BY <3>1, <3>2
  <2> QED
    BY <1>4, <2>1, <2>2 DEF RewriteStub
<1>5. CASE PurgeUnsendable
  BY <1>5, DeleteRowsSettles DEF PurgeUnsendable
<1>6. CASE CollectConfirmed
  <2>1. Settles(outbox, outbox', {})
    BY <1>6, DeleteRowsSettles DEF CollectConfirmed, GcRows, Settles
  <2> QED
    BY <1>6, <2>1 DEF CollectConfirmed, history
<1>7. CASE ListOrphans \/ ListMalformed \/ SkipItem \/ StopRepair
           \/ \E purge \in BOOLEAN : ListUnsendable(purge)
  BY <1>7, NothingSettles
  DEF ListOrphans, ListMalformed, SkipItem, StopRepair, ListUnsendable, store, history
<1>8. pusher' = pusher
  BY DEF RepairNext, StartRepair, ListOrphans, EnqueueTombstone, ListMalformed, RewriteStub,
         SkipItem, ListUnsendable, PurgeUnsendable, StopRepair, CollectConfirmed
<1> QED
  BY <1>2, <1>3, <1>4, <1>5, <1>6, <1>7, <1>8 DEF RepairNext

LEMMA WriterSettles ==
    ASSUME WriterNext PROVE Settles(outbox, outbox', {}) /\ UNCHANGED <<pusher, stranded>>
<1>1. UNCHANGED <<pusher, stranded>>
  BY DEF WriterNext, WriteEntry, DeprecateEntry, DeleteSilently, TakeSnapshot,
         EnqueueSnapshot, EnqueueLost, history
<1>2. ASSUME NEW w \in Writers, EnqueueSnapshot(w) PROVE Settles(outbox, outbox', {})
  BY <1>2, AppendRowSettles DEF EnqueueSnapshot, Enqueue
<1>3. ASSUME outbox' = outbox PROVE Settles(outbox, outbox', {})
  BY <1>3, NothingSettles
<1> QED
  BY <1>1, <1>2, <1>3
  DEF WriterNext, WriteEntry, DeprecateEntry, DeleteSilently, TakeSnapshot, EnqueueLost, store

\* The steps of a pusher that claim nothing.
LEMMA PusherSettles ==
    ASSUME TypeOK, PusherNext,
           \A p \in Pushers : ~Claim(p, TRUE) /\ ~Claim(p, FALSE)
    PROVE  Settles(outbox, outbox', {})
<1>1. IsTable(outbox)
  BY DEF TypeOK, StoreTypeOK
<1>2. PICK p \in Pushers :
        \/ StartPush(p) \/ ReadRemote(p) \/ PushRow(p) \/ FailPush(p)
        \/ ReleaseUnparseable(p) \/ ReleaseSubsumed(p) \/ FinishPush(p)
        \/ ReleaseDryRun(p) \/ BookkeepingLost(p) \/ SubsumedLost(p) \/ CrashPusher(p)
  BY DEF PusherNext, PushStep
<1>3. CASE StartPush(p) \/ ReleaseUnparseable(p) \/ ReleaseSubsumed(p) \/ ReleaseDryRun(p)
  <2>1. \E S : outbox' = ReleaseRows(outbox, S)
    BY <1>3 DEF StartPush, ReapStale, ReleaseUnparseable, ReleaseSubsumed, ReleaseDryRun
  <2> QED
    BY <1>1, <2>1, ReleaseRowsSettles DEF Settles
<1>4. CASE FailPush(p)
  <2>1. \E r : outbox' = FailRow(outbox, r)
    BY <1>4 DEF FailPush
  <2> QED
    BY <1>1, <2>1, FailRowSettles DEF Settles
<1>5. CASE FinishPush(p)
  BY <1>1, <1>5, ConfirmRowsSettles DEF FinishPush, Settles
<1>6. CASE ReadRemote(p) \/ PushRow(p) \/ BookkeepingLost(p) \/ SubsumedLost(p) \/ CrashPusher(p)
  BY <1>6, NothingSettles DEF ReadRemote, PushRow, BookkeepingLost, SubsumedLost, CrashPusher, store
<1> QED
  BY <1>2, <1>3, <1>4, <1>5, <1>6

-----------------------------------------------------------------------------
(* Below the cap. *)

LEMMA CapKept ==
    ASSUME ClaimsAreBelowTheCap, NEW S, Settles(outbox, outbox', S)
    PROVE  ClaimsAreBelowTheCap'
BY DEF ClaimsAreBelowTheCap, Settles, DeadLettered, Claimed, Unconfirmed

\* claim_outbox looks at the cap and stamps the row in one transaction.
LEMMA ClaimRespectsCap ==
    ASSUME TypeOK, ClaimsAreBelowTheCap, NEW p \in Pushers, NEW dry \in BOOLEAN, Claim(p, dry)
    PROVE  ClaimsAreBelowTheCap'
<1> DEFINE rows == Oldest(Claimable(outbox), BatchLimit)
<1>1. outbox' = ClaimRows(outbox, rows) /\ rows \subseteq Claimable(outbox)
  BY DEF Claim, Oldest
<1> HIDE DEF rows
<1>2. SUFFICES ASSUME NEW r \in Claimed(outbox'), r \in DeadLettered(outbox') PROVE FALSE
  BY DEF ClaimsAreBelowTheCap
<1>3. /\ r \in Claimed(outbox) \/ r \in rows
      /\ outbox'[r].attempts = outbox[r].attempts
      /\ r \in Unconfirmed(outbox)
  BY <1>1 DEF ClaimRows, Claimed, Unconfirmed, TypeOK, StoreTypeOK, IsTable, Row
<1>4. outbox[r].attempts \in Nat
  BY <1>3 DEF TypeOK, StoreTypeOK, IsTable, Row, Unconfirmed
<1>5. r \notin rows
  BY <1>1, <1>2, <1>3, <1>4, MaxAttemptsAssumption DEF Claimable, DeadLettered
<1> QED
  BY <1>2, <1>3, <1>5 DEF ClaimsAreBelowTheCap, DeadLettered

LEMMA NextBelowTheCap == TypeOK /\ ClaimsAreBelowTheCap /\ [Next]_vars => ClaimsAreBelowTheCap'
<1> SUFFICES ASSUME TypeOK, ClaimsAreBelowTheCap, [Next]_vars PROVE ClaimsAreBelowTheCap'
  OBVIOUS
<1>1. ASSUME NEW p \in Pushers, Claim(p, TRUE) \/ Claim(p, FALSE) PROVE ClaimsAreBelowTheCap'
  BY <1>1, ClaimRespectsCap
<1>2. CASE UNCHANGED vars
  BY <1>2, NothingSettles, CapKept DEF vars, store
<1>3. CASE WriterNext
  BY <1>3, WriterSettles, CapKept
<1>4. CASE PusherNext
  BY <1>1, <1>4, PusherSettles, CapKept
<1>5. CASE RepairNext
  BY <1>5, RepairSettles, CapKept
<1>6. CASE ClaimsExpire \/ RetentionPasses
  BY <1>6, AgeingSettles, CapKept
<1> QED
  BY <1>2, <1>3, <1>4, <1>5, <1>6 DEF Next

\* No claimed row is at the cap, for any cap, any number of pushers sharing a
\* row and any late failure: outbox_health counts every claim as in flight, so
\* repair's first pass is never skipped while there is a claim to release.
THEOREM NoClaimAtTheCap == Spec => []ClaimsAreBelowTheCap
<1>1. Init => ClaimsAreBelowTheCap
  BY DEF Init, ClaimsAreBelowTheCap, Claimed, Unconfirmed
<1> QED
  BY <1>1, NextBelowTheCap, TypeCorrectness, PTL DEF Spec

-----------------------------------------------------------------------------
(* Accounted for. *)

\* Subsumed rows wait for their release only in the phase that releases them.
ReleaseIsPending == \A p \in Pushers : pusher[p].phase # "release" => pusher[p].release = {}

\* ClaimsAreAccountedFor made inductive: a failure overwrites the rows still to
\* release, so there must be none left of an earlier failure.
ClaimsInv == ClaimsAreAccountedFor /\ ReleaseIsPending

\* A step of p, in state t afterwards, after which every claim that was p's to
\* settle is settled, still p's, or left stranded.
LEMMA AccountedStep ==
    ASSUME TypeOK, ClaimsInv, NEW p \in Pushers, NEW t, NEW S,
           pusher' = [pusher EXCEPT ![p] = t],
           t.phase # "release" => t.release = {},
           Settles(outbox, outbox', S), stranded \ S \subseteq stranded',
           Holds(p) \cap Claimed(outbox') \subseteq Holds(p)' \cup stranded'
    PROVE  ClaimsInv'
<1>1. pusher'[p] = t /\ \A q \in Pushers \ {p} : pusher'[q] = pusher[q]
  BY DEF TypeOK
<1>2. ReleaseIsPending'
  BY <1>1 DEF ClaimsInv, ReleaseIsPending
<1>3. \A q \in Pushers \ {p} : Holds(q)' = Holds(q)
  BY <1>1 DEF Holds, GroupOf
<1>4. ClaimsAreAccountedFor'
  <2>1. SUFFICES ASSUME NEW r \in Claimed(outbox'), r \notin stranded'
                 PROVE  \E q \in Pushers : r \in Holds(q)'
    BY DEF ClaimsAreAccountedFor
  <2>2. r \in Claimed(outbox) /\ r \notin S
    BY DEF Settles
  <2>3. PICK q \in Pushers : r \in Holds(q)
    BY <2>1, <2>2 DEF ClaimsInv, ClaimsAreAccountedFor
  <2> QED
    BY <1>3, <2>1, <2>3
<1> QED
  BY <1>2, <1>4 DEF ClaimsInv

\* A step of anything but a pusher.
LEMMA AccountedElsewhere ==
    ASSUME ClaimsInv, NEW S, Settles(outbox, outbox', S), stranded \ S \subseteq stranded',
           pusher' = pusher
    PROVE  ClaimsInv'
<1>1. \A q \in Pushers : Holds(q)' = Holds(q)
  BY DEF Holds, GroupOf
<1> QED
  BY <1>1 DEF ClaimsInv, ClaimsAreAccountedFor, ReleaseIsPending, Settles

\* What a pusher holds is part of its batch.
LEMMA HoldsType ==
    ASSUME TypeOK, NEW p \in Pushers PROVE Holds(p) \subseteq DOMAIN pusher[p].batch
BY DEF TypeOK, PusherTypeOK, Holds, GroupOf

\* Every non-empty set of row ids has a newest.
LEMMA NewestExists ==
    ASSUME NEW S \in SUBSET RowId, S # {} PROVE \E r \in S : \A s \in S : s <= r
<1> USE SyncPushAssumption DEF RowId
<1> DEFINE T == {MaxRows - r : r \in S}
           R == OpToRel(<, Nat)
<1>1. T \subseteq Nat /\ T # {}
  <2>1. ASSUME NEW r \in S PROVE MaxRows - r \in Nat
    <3>1. r \in Nat /\ r <= MaxRows
      OBVIOUS
    <3> QED
      BY <3>1
  <2> QED
    BY <2>1
<1>2. R = {ss \in Nat \X Nat : ss[1] < ss[2]}
  BY DEF OpToRel
<1>3. IsWellFoundedOn(R, Nat)
  BY NatLessThanWellFounded
<1> HIDE DEF R
<1>4. PICK x \in T : \A y \in T : ~ (<<y, x>> \in R)
  <2> HIDE DEF T
  <2> QED
    BY <1>1, <1>3, WFMin
<1>5. PICK r \in S : x = MaxRows - r
  BY <1>4
<1>6. ASSUME NEW s \in S PROVE s <= r
  <2>1. MaxRows - s \in T /\ MaxRows - s \in Nat /\ x \in Nat
    BY <1>1
  <2>2. ~ (<<MaxRows - s, x>> \in R)
    BY <1>4, <2>1
  <2>3. ~ (MaxRows - s < x)
    BY <1>2, <2>1, <2>2
  <2> QED
    BY <1>5, <2>3
<1> QED
  BY <1>6

\* Coalescing drops no row: each is in the group of a representative.
LEMMA EveryRowIsRepresented ==
    ASSUME NEW batch, DOMAIN batch \subseteq RowId, NEW r \in DOMAIN batch
    PROVE  \E q \in Representatives(batch) : batch[q].entry = batch[r].entry
<1> DEFINE S == {s \in DOMAIN batch : batch[s].entry = batch[r].entry}
<1>1. PICK q \in S : \A s \in S : s <= q
  <2>1. S \in SUBSET RowId /\ S # {}
    OBVIOUS
  <2> HIDE DEF S
  <2> QED
    BY <2>1, NewestExists
<1> QED
  BY <1>1 DEF Representatives

LEMMA StartPushAccounted ==
    ASSUME TypeOK, ClaimsInv, NEW p \in Pushers, StartPush(p) PROVE ClaimsInv'
<1> DEFINE t == [pusher[p] EXCEPT !.phase = "claim"]
<1>1. pusher' = [pusher EXCEPT ![p] = t] /\ t.phase # "release"
  BY DEF StartPush, TypeOK, PusherState
<1>2. t.release = {}
  BY DEF StartPush, ClaimsInv, ReleaseIsPending
<1>3. Holds(p) = {}
  BY HoldsType DEF StartPush, TypeOK, PusherTypeOK
<1>4. Settles(outbox, outbox', StaleClaims(outbox))
  BY ReleaseRowsSettles DEF StartPush, ReapStale, TypeOK, StoreTypeOK
<1> HIDE DEF t
<1> QED
  BY <1>1, <1>2, <1>3, <1>4, AccountedStep DEF StartPush

\* Everything claimed is in the group of a row still to be pushed.
LEMMA ClaimAccounted ==
    ASSUME TypeOK, ClaimsInv, NEW p \in Pushers, NEW dry \in BOOLEAN, Claim(p, dry)
    PROVE  ClaimsInv'
<1> DEFINE rows == Oldest(Claimable(outbox), BatchLimit)
           batch == [r \in rows |-> [entry |-> outbox[r].entry, payload |-> outbox[r].payload,
                                     tomb |-> outbox[r].tomb]]
           phase == IF dry THEN "dry" ELSE "push"
           t == IF rows = {} THEN IdlePusher ELSE Working(phase, batch)
<1>1. pusher' = [pusher EXCEPT ![p] = t] /\ outbox' = ClaimRows(outbox, rows) /\ stranded' = stranded
  BY DEF Claim, history
<1>2. Claimed(outbox') \subseteq Claimed(outbox) \cup rows
  BY <1>1 DEF ClaimRows, Claimed, Unconfirmed, TypeOK, StoreTypeOK, IsTable, Row
<1>3. rows \subseteq RowId
  BY SyncPushAssumption DEF Oldest, Claimable, Unconfirmed, TypeOK, StoreTypeOK, RowId
<1>4. DOMAIN batch = rows /\ phase # "release"
  OBVIOUS
<1> HIDE DEF rows, batch, phase
<1>5. pusher'[p] = t /\ \A q \in Pushers \ {p} : pusher'[q] = pusher[q]
  BY <1>1 DEF TypeOK
<1>6. ASSUME NEW q \in Pushers, q # p PROVE Holds(q)' = Holds(q)
  BY <1>5, <1>6 DEF Holds, GroupOf
<1>7. Holds(p) = {}
  BY HoldsType DEF Claim, TypeOK, PusherTypeOK
<1>8. ASSUME NEW r \in rows PROVE r \in Holds(p)'
  <2>1. pusher'[p].batch = batch /\ pusher'[p].todo = Representatives(batch)
    BY <1>5, <1>8 DEF Working
  <2>2. PICK q \in Representatives(batch) : batch[q].entry = batch[r].entry
    BY <1>3, <1>4, EveryRowIsRepresented
  <2>3. r \in GroupOf(p, q)'
    BY <1>4, <2>1, <2>2 DEF GroupOf
  <2> QED
    BY <2>1, <2>2, <2>3 DEF Holds
<1>9. ClaimsAreAccountedFor'
  BY <1>1, <1>2, <1>6, <1>7, <1>8 DEF ClaimsInv, ClaimsAreAccountedFor
<1>10. ReleaseIsPending'
  BY <1>4, <1>5 DEF ClaimsInv, ReleaseIsPending, Working, IdlePusher
<1> QED
  BY <1>9, <1>10 DEF ClaimsInv

\* A pusher that ends where it began owes nothing but what it left stranded.
LEMMA GoingIdleAccounted ==
    ASSUME TypeOK, ClaimsInv, NEW p \in Pushers, NEW S,
           pusher' = [pusher EXCEPT ![p] = IdlePusher],
           Settles(outbox, outbox', S), stranded \ S \subseteq stranded',
           Holds(p) \cap Claimed(outbox') \subseteq stranded'
    PROVE  ClaimsInv'
<1>1. IdlePusher.release = {}
  BY DEF IdlePusher
<1> QED
  BY <1>1, AccountedStep

LEMMA ReleaseDryRunAccounted ==
    ASSUME TypeOK, ClaimsInv, NEW p \in Pushers, ReleaseDryRun(p) PROVE ClaimsInv'
<1> DEFINE S == DOMAIN pusher[p].batch
<1>1. Settles(outbox, outbox', S) /\ stranded' = stranded \ S
  BY ReleaseRowsSettles DEF ReleaseDryRun, TypeOK, StoreTypeOK
<1>2. Holds(p) \subseteq S
  BY HoldsType
<1> HIDE DEF S
<1>3. Holds(p) \cap Claimed(outbox') \subseteq stranded'
  BY <1>1, <1>2 DEF Settles
<1> QED
  BY <1>1, <1>3, GoingIdleAccounted DEF ReleaseDryRun

\* All groups are done, and nothing is left to release: what p holds it confirms.
LEMMA FinishPushAccounted ==
    ASSUME TypeOK, ClaimsInv, NEW p \in Pushers, FinishPush(p) PROVE ClaimsInv'
<1> DEFINE S == pusher[p].confirm
<1>1. Settles(outbox, outbox', S) /\ stranded' = stranded \ S
  BY ConfirmRowsSettles DEF FinishPush, TypeOK, StoreTypeOK
<1>2. Holds(p) = S
  BY DEF FinishPush, Holds, ClaimsInv, ReleaseIsPending
<1> HIDE DEF S
<1>3. Holds(p) \cap Claimed(outbox') \subseteq stranded'
  BY <1>1, <1>2 DEF Settles
<1> QED
  BY <1>1, <1>3, GoingIdleAccounted DEF FinishPush

LEMMA CrashPusherAccounted ==
    ASSUME TypeOK, ClaimsInv, NEW p \in Pushers, CrashPusher(p) PROVE ClaimsInv'
<1>1. Settles(outbox, outbox', {}) /\ outbox' = outbox
      /\ stranded' = stranded \cup (Holds(p) \cap Claimed(outbox))
  BY NothingSettles DEF CrashPusher, store
<1> QED
  BY <1>1, GoingIdleAccounted DEF CrashPusher

LEMMA ReadRemoteAccounted ==
    ASSUME TypeOK, ClaimsInv, NEW p \in Pushers, ReadRemote(p) PROVE ClaimsInv'
<1>1. PICK seen : pusher' = [pusher EXCEPT ![p].phase = "apply", ![p].seen = seen]
  BY DEF ReadRemote
<1> DEFINE t == [pusher[p] EXCEPT !.phase = "apply", !.seen = seen]
<1>2. pusher' = [pusher EXCEPT ![p] = t] /\ pusher'[p] = t
  BY <1>1 DEF TypeOK
<1>3. /\ t.release = {}
      /\ t.batch = pusher[p].batch /\ t.todo = pusher[p].todo /\ t.confirm = pusher[p].confirm
      /\ pusher[p].release = {}
  BY DEF ReadRemote, ClaimsInv, ReleaseIsPending, TypeOK, PusherState
<1> HIDE DEF t
<1>4. Holds(p)' = Holds(p)
  BY <1>2, <1>3 DEF Holds, GroupOf
<1>5. Settles(outbox, outbox', {}) /\ stranded' = stranded
  BY NothingSettles DEF ReadRemote, store, history
<1> QED
  BY <1>2, <1>3, <1>4, <1>5, AccountedStep

\* A landed group moves from the rows to push to the rows to confirm.
LEMMA PushRowAccounted ==
    ASSUME TypeOK, ClaimsInv, NEW p \in Pushers, PushRow(p) PROVE ClaimsInv'
<1>1. PICK r \in pusher[p].todo :
        pusher' = [pusher EXCEPT ![p].phase = "push", ![p].seen = "absent",
                                 ![p].todo = @ \ {r}, ![p].confirm = @ \cup GroupOf(p, r)]
  BY DEF PushRow
<1> DEFINE t == [pusher[p] EXCEPT !.phase = "push", !.seen = "absent", !.todo = @ \ {r},
                                  !.confirm = @ \cup GroupOf(p, r)]
<1>2. pusher' = [pusher EXCEPT ![p] = t] /\ pusher'[p] = t
  BY <1>1 DEF TypeOK
<1>3. /\ t.release = {} /\ pusher[p].release = {}
      /\ t.batch = pusher[p].batch
      /\ t.todo = pusher[p].todo \ {r}
      /\ t.confirm = pusher[p].confirm \cup GroupOf(p, r)
  BY DEF PushRow, ClaimsInv, ReleaseIsPending, TypeOK, PusherState
<1> HIDE DEF t
<1>4. Holds(p) \subseteq Holds(p)'
  <2>1. \A q : GroupOf(p, q)' = GroupOf(p, q)
    BY <1>2, <1>3 DEF GroupOf
  <2> QED
    BY <1>2, <1>3, <2>1 DEF Holds
<1>5. Settles(outbox, outbox', {}) /\ stranded' = stranded
  BY NothingSettles DEF PushRow, store
<1> QED
  BY <1>2, <1>3, <1>4, <1>5, AccountedStep

\* A failed representative is settled or stranded; its subsumed rows are set
\* aside to be released.
LEMMA AfterFailureAccounted ==
    ASSUME TypeOK, ClaimsInv, NEW p \in Pushers, NEW r \in pusher[p].todo, NEW S,
           pusher[p].phase # "release", pusher' = AfterFailure(p, r),
           Settles(outbox, outbox', S), stranded \ S \subseteq stranded',
           r \in Claimed(outbox') => r \in stranded'
    PROVE  ClaimsInv'
<1> DEFINE phase == IF GroupOf(p, r) = {r} THEN "push" ELSE "release"
           t == [pusher[p] EXCEPT !.phase = phase, !.seen = "absent", !.todo = @ \ {r},
                                  !.release = GroupOf(p, r) \ {r}]
<1>1. pusher' = [pusher EXCEPT ![p] = t] /\ pusher'[p] = t
  BY DEF AfterFailure, TypeOK
<1>2. phase # "release" => GroupOf(p, r) \ {r} = {}
  OBVIOUS
<1> HIDE DEF phase
<1>3. /\ t.phase = phase
      /\ t.release = GroupOf(p, r) \ {r} /\ pusher[p].release = {}
      /\ t.batch = pusher[p].batch
      /\ t.todo = pusher[p].todo \ {r}
      /\ t.confirm = pusher[p].confirm
  BY DEF ClaimsInv, ReleaseIsPending, TypeOK, PusherState
<1> HIDE DEF t
<1>4. Holds(p) \subseteq Holds(p)' \cup {r}
  <2>1. \A q : GroupOf(p, q)' = GroupOf(p, q)
    BY <1>1, <1>3 DEF GroupOf
  <2> QED
    BY <1>1, <1>3, <2>1 DEF Holds
<1>5. Holds(p) \cap Claimed(outbox') \subseteq Holds(p)' \cup stranded'
  BY <1>4
<1>6. t.phase # "release" => t.release = {}
  BY <1>2, <1>3
<1> QED
  BY <1>1, <1>5, <1>6, AccountedStep

LEMMA FailPushAccounted ==
    ASSUME TypeOK, ClaimsInv, NEW p \in Pushers, FailPush(p) PROVE ClaimsInv'
<1>1. PICK r \in pusher[p].todo :
        /\ outbox' = FailRow(outbox, r)
        /\ pusher' = AfterFailure(p, r)
        /\ stranded' = stranded \ {r}
  BY DEF FailPush
<1>2. Settles(outbox, outbox', {r})
  BY <1>1, FailRowSettles DEF TypeOK, StoreTypeOK
<1>3. r \notin Claimed(outbox') /\ pusher[p].phase # "release"
  BY <1>2 DEF Settles, FailPush
<1> QED
  BY <1>1, <1>2, <1>3, AfterFailureAccounted

LEMMA ReleaseUnparseableAccounted ==
    ASSUME TypeOK, ClaimsInv, NEW p \in Pushers, ReleaseUnparseable(p) PROVE ClaimsInv'
<1>1. PICK r \in pusher[p].todo :
        /\ outbox' = ReleaseRows(outbox, {r})
        /\ pusher' = AfterFailure(p, r)
        /\ stranded' = stranded \ {r}
  BY DEF ReleaseUnparseable
<1>2. Settles(outbox, outbox', {r})
  BY <1>1, ReleaseRowsSettles DEF TypeOK, StoreTypeOK
<1>3. r \notin Claimed(outbox') /\ pusher[p].phase # "release"
  BY <1>2 DEF Settles, ReleaseUnparseable
<1> QED
  BY <1>1, <1>2, <1>3, AfterFailureAccounted

LEMMA BookkeepingLostAccounted ==
    ASSUME TypeOK, ClaimsInv, NEW p \in Pushers, BookkeepingLost(p) PROVE ClaimsInv'
<1>1. PICK r \in pusher[p].todo :
        /\ pusher' = AfterFailure(p, r)
        /\ stranded' = stranded \cup ({r} \cap Claimed(outbox))
  BY DEF BookkeepingLost
<1>2. Settles(outbox, outbox', {}) /\ outbox' = outbox /\ pusher[p].phase # "release"
  BY NothingSettles DEF BookkeepingLost, store
<1> QED
  BY <1>1, <1>2, AfterFailureAccounted

\* The release of the subsumed rows, and its loss.
LEMMA LetGoAccounted ==
    ASSUME TypeOK, ClaimsInv, NEW p \in Pushers, ReleaseSubsumed(p) \/ SubsumedLost(p)
    PROVE  ClaimsInv'
<1> DEFINE t == [pusher[p] EXCEPT !.phase = "push", !.release = {}]
           gone == pusher[p].release
<1>1. pusher' = [pusher EXCEPT ![p] = t] /\ pusher'[p] = t
  BY DEF ReleaseSubsumed, SubsumedLost, TypeOK
<1>2. /\ t.release = {}
      /\ t.batch = pusher[p].batch /\ t.todo = pusher[p].todo /\ t.confirm = pusher[p].confirm
  BY DEF TypeOK, PusherState
<1> HIDE DEF t
<1>3. Holds(p) \subseteq Holds(p)' \cup gone
  <2>1. \A q : GroupOf(p, q)' = GroupOf(p, q)
    BY <1>1, <1>2 DEF GroupOf
  <2> QED
    BY <1>1, <1>2, <2>1 DEF Holds
<1>4. CASE ReleaseSubsumed(p)
  <2>1. Settles(outbox, outbox', gone) /\ stranded' = stranded \ gone
    BY <1>4, ReleaseRowsSettles DEF ReleaseSubsumed, TypeOK, StoreTypeOK
  <2>2. Holds(p) \cap Claimed(outbox') \subseteq Holds(p)' \cup stranded'
    BY <1>3, <2>1 DEF Settles
  <2> HIDE DEF gone
  <2> QED
    BY <1>1, <1>2, <2>1, <2>2, AccountedStep
<1>5. CASE SubsumedLost(p)
  <2>1. /\ Settles(outbox, outbox', {}) /\ outbox' = outbox
        /\ stranded' = stranded \cup (gone \cap Claimed(outbox))
    BY <1>5, NothingSettles DEF SubsumedLost, store
  <2>2. Holds(p) \cap Claimed(outbox') \subseteq Holds(p)' \cup stranded'
    BY <1>3, <2>1
  <2> HIDE DEF gone
  <2> QED
    BY <1>1, <1>2, <2>1, <2>2, AccountedStep
<1> QED
  BY <1>4, <1>5

LEMMA NextAccounted == TypeOK /\ ClaimsInv /\ [Next]_vars => ClaimsInv'
<1> SUFFICES ASSUME TypeOK, ClaimsInv, [Next]_vars PROVE ClaimsInv'
  OBVIOUS
<1>1. CASE UNCHANGED vars
  BY <1>1, NothingSettles, AccountedElsewhere DEF vars, store, history
<1>2. CASE WriterNext
  BY <1>2, WriterSettles, AccountedElsewhere
<1>3. CASE PusherNext
  <2>1. PICK p \in Pushers :
          \/ StartPush(p) \/ ReadRemote(p) \/ PushRow(p) \/ FailPush(p)
          \/ ReleaseUnparseable(p) \/ ReleaseSubsumed(p) \/ FinishPush(p)
          \/ Claim(p, TRUE) \/ Claim(p, FALSE) \/ ReleaseDryRun(p)
          \/ BookkeepingLost(p) \/ SubsumedLost(p) \/ CrashPusher(p)
    BY <1>3 DEF PusherNext, PushStep
  <2>2. ASSUME Claim(p, TRUE) \/ Claim(p, FALSE) PROVE ClaimsInv'
    BY <2>2, ClaimAccounted
  <2> QED
    BY <2>1, <2>2, StartPushAccounted, ReadRemoteAccounted, PushRowAccounted,
       FailPushAccounted, ReleaseUnparseableAccounted, LetGoAccounted, FinishPushAccounted,
       ReleaseDryRunAccounted, BookkeepingLostAccounted, CrashPusherAccounted
<1>4. CASE RepairNext
  BY <1>4, RepairSettles, AccountedElsewhere
<1>5. CASE ClaimsExpire \/ RetentionPasses
  <2>1. UNCHANGED <<pusher, stranded>>
    BY <1>5 DEF ClaimsExpire, RetentionPasses, history
  <2> QED
    BY <1>5, <2>1, AgeingSettles, AccountedElsewhere
<1> QED
  BY <1>1, <1>2, <1>3, <1>4, <1>5 DEF Next

\* No claim is forgotten: whatever failed, was subsumed, was dry-run or changed
\* hands, every claim on an unconfirmed row is one a running pusher will still
\* settle or one a dead pusher (or a failed statement) left for the reaper.
THEOREM EveryClaimIsAccountedFor == Spec => []ClaimsAreAccountedFor
<1>1. Init => ClaimsInv
  BY DEF Init, ClaimsInv, ClaimsAreAccountedFor, ReleaseIsPending, Claimed, Unconfirmed,
         IdlePusher
<1>2. ClaimsInv => ClaimsAreAccountedFor
  BY DEF ClaimsInv
<1> QED
  BY <1>1, <1>2, NextAccounted, TypeCorrectness, PTL DEF Spec

-----------------------------------------------------------------------------
(* Exclusive. *)

\* The rows of a table that nobody has claimed.
Free(t) == Unconfirmed(t) \ Claimed(t)

\* Which statements hand rows back to be claimed again.
LEMMA FreedRows ==
    ASSUME NEW t, IsTable(t), NEW S
    PROVE  /\ Free(ClaimRows(t, S)) \subseteq Free(t) \ S
           /\ Free(ConfirmRows(t, S)) \subseteq Free(t)
           /\ Free(DeleteRows(t, S)) \subseteq Free(t)
           /\ Free(ReleaseRows(t, S)) \subseteq Free(t) \cup S
<1> USE DEF Free, Claimed, Unconfirmed, IsTable, Row
<1>1. Free(ClaimRows(t, S)) \subseteq Free(t) \ S
  BY DEF ClaimRows
<1>2. Free(ConfirmRows(t, S)) \subseteq Free(t)
  BY DEF ConfirmRows
<1>3. Free(DeleteRows(t, S)) \subseteq Free(t)
  BY DEF DeleteRows, Restrict
<1>4. Free(ReleaseRows(t, S)) \subseteq Free(t) \cup S
  BY DEF ReleaseRows
<1> QED
  BY <1>1, <1>2, <1>3, <1>4

LEMMA AgedRows ==
    ASSUME NEW t, IsTable(t)
    PROVE  /\ Free(AgeClaims(t)) \subseteq Free(t)
           /\ Free(AgeConfirmations(t)) \subseteq Free(t)
BY DEF Free, Claimed, Unconfirmed, IsTable, Row, AgeClaims, AgeConfirmations

LEMMA FailRowFrees ==
    ASSUME NEW t, IsTable(t), NEW id
    PROVE  Free(FailRow(t, id)) \subseteq Free(t) \cup {id}
BY DEF Free, Claimed, Unconfirmed, IsTable, Row, FailRow

LEMMA RewriteRowFrees ==
    ASSUME NEW t, IsTable(t), NEW id, NEW payload, NEW tomb
    PROVE  /\ Free(RewriteRow(t, id, payload, tomb)) \subseteq Free(t) \cup {id}
           /\ Free(RewriteRow(t, id, payload, tomb)) \subseteq Unconfirmed(t)
BY DEF Free, Claimed, Unconfirmed, RewriteRow, IsTable, Row

LEMMA AppendRowFrees ==
    ASSUME NEW t, NEW id, NEW e, NEW op, NEW payload, NEW tomb
    PROVE  Free(AppendRow(t, id, e, op, payload, tomb)) \subseteq Free(t) \cup {id}
BY DEF Free, Claimed, Unconfirmed, AppendRow

\* The parts of a batch a pusher has dealt with in different ways do not meet: at
\* most one row per entry is left to push, and of that entry nothing is settled.
Apart(s) ==
    /\ \A r, q \in s.todo : s.batch[r].entry = s.batch[q].entry => r = q
    /\ \A x \in s.confirm \cup s.release, r \in s.todo : s.batch[x].entry # s.batch[r].entry
    /\ s.release \cap s.confirm = {}
    /\ s.phase = "dry" => s.todo = Representatives(s.batch)

\* ClaimsAreExclusive made inductive: a row a pusher holds is not free to be
\* claimed by another, unless the claim was taken from it.
ExclusionInv ==
    /\ ClaimsAreExclusive
    /\ \A p \in Pushers : Holds(p) \cap Free(outbox) \subseteq reclaimed /\ Apart(pusher[p])

\* A step of p that frees only rows it gives up or that are taken from pushers.
LEMMA ExclusiveStep ==
    ASSUME TypeOK, ExclusionInv, NEW p \in Pushers, NEW t, NEW S,
           pusher' = [pusher EXCEPT ![p] = t], Apart(t),
           Free(outbox') \subseteq Free(outbox) \cup S, reclaimed \subseteq reclaimed',
           Holds(p)' \subseteq Holds(p), S \subseteq reclaimed' \cup (Holds(p) \ Holds(p)')
    PROVE  ExclusionInv'
<1>1. pusher'[p] = t /\ \A q \in Pushers \ {p} : pusher'[q] = pusher[q]
  BY DEF TypeOK
<1>2. \A q \in Pushers \ {p} : Holds(q)' = Holds(q)
  BY <1>1 DEF Holds, GroupOf
<1>3. ASSUME NEW q \in Pushers PROVE Holds(q)' \subseteq Holds(q)
  BY <1>2
<1>4. ClaimsAreExclusive'
  BY <1>3 DEF ExclusionInv, ClaimsAreExclusive
<1>5. ASSUME NEW q \in Pushers PROVE Apart(pusher'[q])
  BY <1>1 DEF ExclusionInv
<1>6. ASSUME NEW q \in Pushers, NEW r \in Holds(q)', r \in Free(outbox') PROVE r \in reclaimed'
  <2>1. r \in Holds(q) /\ (r \in Free(outbox) \/ r \in S)
    BY <1>3, <1>6
  <2>2. CASE r \in Free(outbox)
    BY <2>1, <2>2 DEF ExclusionInv
  <2>3. CASE r \in S /\ q # p /\ r \in Holds(p)
    BY <2>1, <2>3 DEF ExclusionInv, ClaimsAreExclusive
  <2> QED
    BY <1>6, <2>1, <2>2, <2>3
<1> QED
  BY <1>4, <1>5, <1>6 DEF ExclusionInv

\* A step of anything but a pusher.
LEMMA ExclusiveElsewhere ==
    ASSUME ExclusionInv, NEW S, pusher' = pusher,
           Free(outbox') \subseteq Free(outbox) \cup S, reclaimed \subseteq reclaimed',
           \A p \in Pushers : Holds(p) \cap S \subseteq reclaimed'
    PROVE  ExclusionInv'
<1>1. \A q \in Pushers : Holds(q)' = Holds(q)
  BY DEF Holds, GroupOf
<1> QED
  BY <1>1 DEF ExclusionInv, ClaimsAreExclusive

LEMMA IdleIsApart == Apart(IdlePusher)
BY DEF Apart, IdlePusher

\* p lets go of everything; what that frees, it held.
LEMMA GoingIdleExclusive ==
    ASSUME TypeOK, ExclusionInv, NEW p \in Pushers, NEW S,
           pusher' = [pusher EXCEPT ![p] = IdlePusher], reclaimed' = reclaimed,
           Free(outbox') \subseteq Free(outbox) \cup S, S \subseteq Holds(p)
    PROVE  ExclusionInv'
<1>1. pusher'[p] = IdlePusher
  BY DEF TypeOK
<1>2. Holds(p)' = {}
  BY <1>1 DEF Holds, IdlePusher
<1> QED
  BY <1>2, IdleIsApart, ExclusiveStep

LEMMA StartPushExclusive ==
    ASSUME TypeOK, ExclusionInv, NEW p \in Pushers, StartPush(p) PROVE ExclusionInv'
<1> DEFINE t == [pusher[p] EXCEPT !.phase = "claim"]
           S == StaleClaims(outbox)
<1>1. pusher' = [pusher EXCEPT ![p] = t] /\ pusher'[p] = t
  BY DEF StartPush, TypeOK
<1>2. /\ t.phase = "claim" /\ t.batch = pusher[p].batch /\ t.todo = pusher[p].todo
      /\ t.confirm = pusher[p].confirm /\ t.release = pusher[p].release
  BY DEF TypeOK, PusherState
<1> HIDE DEF t
<1>3. Holds(p)' = Holds(p)
  BY <1>1, <1>2 DEF Holds, GroupOf
<1>4. Apart(t)
  BY <1>2 DEF ExclusionInv, Apart
<1>5. Free(outbox') \subseteq Free(outbox) \cup S /\ reclaimed' = reclaimed \cup S
  BY FreedRows DEF StartPush, ReapStale, TypeOK, StoreTypeOK
<1> HIDE DEF S
<1> QED
  BY <1>1, <1>3, <1>4, <1>5, ExclusiveStep

\* What is claimed was free, so it is held by nobody it was not taken from.
LEMMA ClaimExclusive ==
    ASSUME TypeOK, TypeOK', ExclusionInv, NEW p \in Pushers, NEW dry \in BOOLEAN, Claim(p, dry)
    PROVE  ExclusionInv'
<1> DEFINE rows == Oldest(Claimable(outbox), BatchLimit)
           batch == [r \in rows |-> [entry |-> outbox[r].entry, payload |-> outbox[r].payload,
                                     tomb |-> outbox[r].tomb]]
           phase == IF dry THEN "dry" ELSE "push"
           t == IF rows = {} THEN IdlePusher ELSE Working(phase, batch)
<1>1. /\ pusher' = [pusher EXCEPT ![p] = t] /\ outbox' = ClaimRows(outbox, rows)
      /\ reclaimed' = reclaimed
  BY DEF Claim, history
<1>2. rows \subseteq Free(outbox) /\ rows \subseteq RowId
  BY SyncPushAssumption
  DEF Oldest, Claimable, Free, Claimed, Unconfirmed, TypeOK, StoreTypeOK, RowId
<1>3. Free(outbox') \subseteq Free(outbox) \ rows
  BY <1>1, FreedRows DEF TypeOK, StoreTypeOK
<1>4. DOMAIN batch = rows
  OBVIOUS
<1> HIDE DEF rows, batch, phase
<1>5. pusher'[p] = t /\ \A q \in Pushers \ {p} : pusher'[q] = pusher[q]
  BY <1>1 DEF TypeOK
<1>6. \A q \in Pushers \ {p} : Holds(q)' = Holds(q)
  BY <1>5 DEF Holds, GroupOf
<1>7. Holds(p)' \subseteq rows
  <2>1. DOMAIN pusher'[p].batch \subseteq rows
    BY <1>4, <1>5 DEF Working, IdlePusher
  <2>2. pusher'[p].confirm \cup pusher'[p].release = {}
    BY <1>5 DEF Working, IdlePusher
  <2> QED
    BY <2>1, <2>2 DEF Holds, GroupOf
<1>8. Apart(t)
  <2>1. ASSUME NEW r \in Representatives(batch), NEW q \in Representatives(batch),
               batch[r].entry = batch[q].entry
        PROVE  r = q
    <3>1. r <= q /\ q <= r /\ r \in RowId /\ q \in RowId
      BY <1>2, <1>4, <2>1 DEF Representatives
    <3> QED
      BY <3>1, SyncPushAssumption DEF RowId
  <2>2. Apart(Working(phase, batch))
    BY <2>1 DEF Apart, Working
  <2> QED
    BY <2>2, IdleIsApart
<1>9. ClaimsAreExclusive'
  <2>1. \A q \in Pushers \ {p} : Holds(q) \cap rows \subseteq reclaimed
    BY <1>2 DEF ExclusionInv
  <2> QED
    BY <1>1, <1>6, <1>7, <2>1 DEF ExclusionInv, ClaimsAreExclusive
<1>10. ASSUME NEW q \in Pushers
       PROVE  Holds(q)' \cap Free(outbox') \subseteq reclaimed' /\ Apart(pusher'[q])
  BY <1>1, <1>3, <1>5, <1>6, <1>7, <1>8 DEF ExclusionInv
<1> QED
  BY <1>9, <1>10 DEF ExclusionInv

\* A dry run gives back its batch, and it held all of it.
LEMMA ReleaseDryRunExclusive ==
    ASSUME TypeOK, ExclusionInv, NEW p \in Pushers, ReleaseDryRun(p) PROVE ExclusionInv'
<1> DEFINE S == DOMAIN pusher[p].batch
<1>1. Free(outbox') \subseteq Free(outbox) \cup S
  BY FreedRows DEF ReleaseDryRun, TypeOK, StoreTypeOK
<1>2. ASSUME NEW r \in S PROVE r \in Holds(p)
  <2>1. PICK q \in Representatives(pusher[p].batch) :
          pusher[p].batch[q].entry = pusher[p].batch[r].entry
    <3>1. S \subseteq RowId
      BY DEF TypeOK, PusherTypeOK, PusherState, Batches
    <3> QED
      BY <3>1, EveryRowIsRepresented
  <2>2. q \in pusher[p].todo
    BY DEF ReleaseDryRun, ExclusionInv, Apart
  <2> QED
    BY <2>1, <2>2 DEF Holds, GroupOf
<1> HIDE DEF S
<1> QED
  BY <1>1, <1>2, GoingIdleExclusive DEF ReleaseDryRun

LEMMA FinishOrCrashExclusive ==
    ASSUME TypeOK, ExclusionInv, NEW p \in Pushers, FinishPush(p) \/ CrashPusher(p)
    PROVE  ExclusionInv'
<1>1. Free(outbox') \subseteq Free(outbox) \cup {}
  BY FreedRows DEF FinishPush, CrashPusher, store, TypeOK, StoreTypeOK
<1> QED
  BY <1>1, GoingIdleExclusive DEF FinishPush, CrashPusher

LEMMA ReadRemoteExclusive ==
    ASSUME TypeOK, ExclusionInv, NEW p \in Pushers, ReadRemote(p) PROVE ExclusionInv'
<1>1. PICK seen : pusher' = [pusher EXCEPT ![p].phase = "apply", ![p].seen = seen]
  BY DEF ReadRemote
<1> DEFINE t == [pusher[p] EXCEPT !.phase = "apply", !.seen = seen]
<1>2. pusher' = [pusher EXCEPT ![p] = t] /\ pusher'[p] = t
  BY <1>1 DEF TypeOK
<1>3. /\ t.phase = "apply" /\ t.batch = pusher[p].batch /\ t.todo = pusher[p].todo
      /\ t.confirm = pusher[p].confirm /\ t.release = pusher[p].release
  BY DEF TypeOK, PusherState
<1> HIDE DEF t
<1>4. Holds(p)' = Holds(p)
  BY <1>2, <1>3 DEF Holds, GroupOf
<1>5. Apart(t)
  BY <1>3 DEF ExclusionInv, Apart
<1>6. Free(outbox') \subseteq Free(outbox) \cup {} /\ reclaimed' = reclaimed
  BY DEF ReadRemote, store, history
<1> QED
  BY <1>2, <1>4, <1>5, <1>6, ExclusiveStep

LEMMA PushRowExclusive ==
    ASSUME TypeOK, ExclusionInv, NEW p \in Pushers, PushRow(p) PROVE ExclusionInv'
<1>1. PICK r \in pusher[p].todo :
        pusher' = [pusher EXCEPT ![p].phase = "push", ![p].seen = "absent",
                                 ![p].todo = @ \ {r}, ![p].confirm = @ \cup GroupOf(p, r)]
  BY DEF PushRow
<1> DEFINE t == [pusher[p] EXCEPT !.phase = "push", !.seen = "absent", !.todo = @ \ {r},
                                  !.confirm = @ \cup GroupOf(p, r)]
<1>2. pusher' = [pusher EXCEPT ![p] = t] /\ pusher'[p] = t
  BY <1>1 DEF TypeOK
<1>3. /\ t.phase = "push" /\ t.release = pusher[p].release
      /\ t.batch = pusher[p].batch
      /\ t.todo = pusher[p].todo \ {r}
      /\ t.confirm = pusher[p].confirm \cup GroupOf(p, r)
  BY DEF TypeOK, PusherState
<1> HIDE DEF t
<1>4. Holds(p)' \subseteq Holds(p)
  <2>1. \A q : GroupOf(p, q)' = GroupOf(p, q)
    BY <1>2, <1>3 DEF GroupOf
  <2> QED
    BY <1>2, <1>3, <2>1 DEF Holds
<1>5. Apart(t)
  BY <1>3 DEF ExclusionInv, Apart, GroupOf
<1>6. Free(outbox') \subseteq Free(outbox) \cup {} /\ reclaimed' = reclaimed
  BY DEF PushRow, store
<1> QED
  BY <1>2, <1>4, <1>5, <1>6, ExclusiveStep

\* A failed representative is in no other part of the batch.
LEMMA AfterFailureExclusive ==
    ASSUME TypeOK, ExclusionInv, NEW p \in Pushers, NEW r \in pusher[p].todo, NEW S,
           pusher' = AfterFailure(p, r), reclaimed' = reclaimed,
           Free(outbox') \subseteq Free(outbox) \cup S, S \subseteq {r}
    PROVE  ExclusionInv'
<1> DEFINE phase == IF GroupOf(p, r) = {r} THEN "push" ELSE "release"
           t == [pusher[p] EXCEPT !.phase = phase, !.seen = "absent", !.todo = @ \ {r},
                                  !.release = GroupOf(p, r) \ {r}]
<1>1. pusher' = [pusher EXCEPT ![p] = t] /\ pusher'[p] = t
  BY DEF AfterFailure, TypeOK
<1>2. phase # "dry"
  OBVIOUS
<1> HIDE DEF phase
<1>3. /\ t.phase = phase
      /\ t.release = GroupOf(p, r) \ {r}
      /\ t.batch = pusher[p].batch
      /\ t.todo = pusher[p].todo \ {r}
      /\ t.confirm = pusher[p].confirm
  BY DEF TypeOK, PusherState
<1> HIDE DEF t
<1>4. \A q : GroupOf(p, q)' = GroupOf(p, q)
  BY <1>1, <1>3 DEF GroupOf
<1>5. Holds(p)' \subseteq Holds(p)
  BY <1>1, <1>3, <1>4 DEF Holds
<1>6. r \in Holds(p)
  <2>1. r \in DOMAIN pusher[p].batch
    BY DEF TypeOK, PusherTypeOK
  <2> QED
    BY <2>1 DEF Holds, GroupOf
<1>7. r \notin Holds(p)'
  BY <1>1, <1>3, <1>4 DEF Holds, GroupOf, ExclusionInv, Apart
<1>8. Apart(t)
  BY <1>2, <1>3 DEF ExclusionInv, Apart, GroupOf
<1> QED
  BY <1>1, <1>5, <1>6, <1>7, <1>8, ExclusiveStep

LEMMA FailureExclusive ==
    ASSUME TypeOK, ExclusionInv, NEW p \in Pushers,
           FailPush(p) \/ ReleaseUnparseable(p) \/ BookkeepingLost(p)
    PROVE  ExclusionInv'
<1>1. IsTable(outbox) /\ reclaimed' = reclaimed
  BY DEF TypeOK, StoreTypeOK, FailPush, ReleaseUnparseable, BookkeepingLost
<1>2. PICK r \in pusher[p].todo :
        /\ pusher' = AfterFailure(p, r)
        /\ outbox' \in {FailRow(outbox, r), ReleaseRows(outbox, {r}), outbox}
  BY DEF FailPush, ReleaseUnparseable, BookkeepingLost, store
<1>3. Free(outbox') \subseteq Free(outbox) \cup {r}
  BY <1>1, <1>2, FreedRows, FailRowFrees
<1> QED
  BY <1>1, <1>2, <1>3, AfterFailureExclusive

\* The subsumed rows a pusher gives up are none it still has to push or confirm.
LEMMA LetGoExclusive ==
    ASSUME TypeOK, ExclusionInv, NEW p \in Pushers, ReleaseSubsumed(p) \/ SubsumedLost(p)
    PROVE  ExclusionInv'
<1> DEFINE t == [pusher[p] EXCEPT !.phase = "push", !.release = {}]
           S == pusher[p].release
<1>1. pusher' = [pusher EXCEPT ![p] = t] /\ pusher'[p] = t
  BY DEF ReleaseSubsumed, SubsumedLost, TypeOK
<1>2. /\ t.phase = "push" /\ t.release = {}
      /\ t.batch = pusher[p].batch /\ t.todo = pusher[p].todo /\ t.confirm = pusher[p].confirm
  BY DEF TypeOK, PusherState
<1> HIDE DEF t
<1>3. \A q : GroupOf(p, q)' = GroupOf(p, q)
  BY <1>1, <1>2 DEF GroupOf
<1>4. Holds(p)' \subseteq Holds(p) /\ S \subseteq Holds(p)
  BY <1>1, <1>2, <1>3 DEF Holds
<1>5. S \cap Holds(p)' = {}
  BY <1>1, <1>2, <1>3 DEF Holds, GroupOf, ExclusionInv, Apart
<1>6. Apart(t)
  BY <1>2 DEF ExclusionInv, Apart
<1>7. Free(outbox') \subseteq Free(outbox) \cup S /\ reclaimed' = reclaimed
  BY FreedRows DEF ReleaseSubsumed, SubsumedLost, store, TypeOK, StoreTypeOK
<1> HIDE DEF S
<1> QED
  BY <1>1, <1>4, <1>5, <1>6, <1>7, ExclusiveStep

\* An enqueued row is one nobody holds.
LEMMA EnqueueExclusive ==
    ASSUME TypeOK, ExclusionInv, NEW e, NEW op, NEW payload, NEW tomb,
           Enqueue(e, op, payload, tomb), UNCHANGED <<pusher, reclaimed>>
    PROVE  ExclusionInv'
<1> DEFINE S == {issued + 1}
<1>1. Free(outbox') \subseteq Free(outbox) \cup S
  BY AppendRowFrees DEF Enqueue
<1>2. ASSUME NEW p \in Pushers PROVE issued + 1 \notin Holds(p)
  <2>1. Holds(p) \subseteq 1..issued
    BY HoldsType DEF TypeOK, PusherTypeOK
  <2>2. issued + 1 \notin 1..issued
    BY SyncPushAssumption DEF TypeOK, StoreTypeOK
  <2> QED
    BY <2>1, <2>2
<1>3. \A p \in Pushers : Holds(p) \cap S \subseteq reclaimed'
  BY <1>2
<1> HIDE DEF S
<1> QED
  BY <1>1, <1>3, ExclusiveElsewhere

LEMMA QuietExclusive ==
    ASSUME ExclusionInv, UNCHANGED <<outbox, pusher, reclaimed>> PROVE ExclusionInv'
<1>1. Free(outbox') \subseteq Free(outbox) \cup {}
  OBVIOUS
<1> QED
  BY <1>1, ExclusiveElsewhere

LEMMA MaintenanceExclusive ==
    ASSUME TypeOK, ExclusionInv, RepairNext \/ ClaimsExpire \/ RetentionPasses
    PROVE  ExclusionInv'
<1>1. IsTable(outbox)
  BY DEF TypeOK, StoreTypeOK
<1>2. ASSUME NEW all \in BOOLEAN, StartRepair(all) PROVE ExclusionInv'
  <2>1. PICK gone : outbox' = ReleaseRows(outbox, gone) /\ reclaimed' = reclaimed \cup gone
    BY <1>2 DEF StartRepair
  <2>2. Free(outbox') \subseteq Free(outbox) \cup gone
    BY <1>1, <2>1, FreedRows
  <2> QED
    BY <1>2, <2>1, <2>2, ExclusiveElsewhere DEF StartRepair
<1>3. ASSUME EnqueueTombstone PROVE ExclusionInv'
  <2>1. PICK e, payload : Enqueue(e, "delete", payload, e \in deleted)
    BY <1>3 DEF EnqueueTombstone
  <2> QED
    BY <1>3, <2>1, EnqueueExclusive DEF EnqueueTombstone, history
<1>4. ASSUME RewriteStub PROVE ExclusionInv'
  <2>1. PICK r, payload, tomb :
          /\ outbox' \in {RewriteRow(outbox, r, payload, tomb), outbox}
          /\ reclaimed' = reclaimed \cup ({r} \cap Claimed(outbox))
    <3>1. PICK r \in repair.todo, payload \in Kinds :
            /\ outbox' = IF r \in DOMAIN outbox
                         THEN RewriteRow(outbox, r, payload, outbox[r].entry \in deleted)
                         ELSE outbox
            /\ reclaimed' = reclaimed \cup ({r} \cap Claimed(outbox))
      BY <1>4 DEF RewriteStub
    <3> QED
      BY <3>1
  <2>2. Free(outbox') \subseteq Unconfirmed(outbox) /\ Free(outbox') \subseteq Free(outbox) \cup {r}
    BY <1>1, <2>1, RewriteRowFrees DEF Free
  <2> DEFINE S == {r} \cap Unconfirmed(outbox)
  <2>3. Free(outbox') \subseteq Free(outbox) \cup S
    BY <2>2
  <2>4. \A p \in Pushers : Holds(p) \cap S \subseteq reclaimed'
    BY <2>1 DEF ExclusionInv, Free
  <2> HIDE DEF S
  <2> QED
    BY <1>4, <2>1, <2>3, <2>4, ExclusiveElsewhere DEF RewriteStub
<1>5. ASSUME PurgeUnsendable \/ CollectConfirmed PROVE ExclusionInv'
  <2>1. Free(outbox') \subseteq Free(outbox) \cup {}
    BY <1>1, <1>5, FreedRows DEF PurgeUnsendable, CollectConfirmed, GcRows
  <2> QED
    BY <1>5, <2>1, ExclusiveElsewhere DEF PurgeUnsendable, CollectConfirmed, history
<1>6. ASSUME ClaimsExpire \/ RetentionPasses PROVE ExclusionInv'
  <2>1. IsTable(AgeClaims(outbox)) /\ Free(AgeClaims(outbox)) \subseteq Free(outbox)
    BY <1>1, AgeClaimsType, AgedRows
  <2>2. Free(AgeConfirmations(AgeClaims(outbox))) \subseteq Free(AgeClaims(outbox))
    BY <2>1, AgedRows
  <2>3. Free(outbox') \subseteq Free(outbox) \cup {}
    BY <1>6, <2>1, <2>2 DEF ClaimsExpire, RetentionPasses
  <2> QED
    BY <1>6, <2>3, ExclusiveElsewhere DEF ClaimsExpire, RetentionPasses, history
<1> QED
  BY <1>2, <1>3, <1>4, <1>5, <1>6, QuietExclusive
  DEF RepairNext, ListOrphans, ListMalformed, SkipItem, ListUnsendable, StopRepair, store,
      history

LEMMA NextExclusive == TypeOK /\ ExclusionInv /\ [Next]_vars => ExclusionInv'
<1> SUFFICES ASSUME TypeOK, ExclusionInv, [Next]_vars PROVE ExclusionInv'
  OBVIOUS
<1>1. TypeOK'
  BY NextTypeOK
<1>2. CASE UNCHANGED vars
  BY <1>2, QuietExclusive DEF vars, store, history
<1>3. CASE WriterNext
  <2>1. ASSUME NEW w \in Writers, EnqueueSnapshot(w) PROVE ExclusionInv'
    <3>1. PICK payload \in Kinds :
            Enqueue(writer[w].entry, writer[w].op, payload, writer[w].tomb)
      BY <2>1 DEF EnqueueSnapshot
    <3> QED
      BY <2>1, <3>1, EnqueueExclusive DEF EnqueueSnapshot, history
  <2> QED
    BY <1>3, <2>1, QuietExclusive
    DEF WriterNext, WriteEntry, DeprecateEntry, DeleteSilently, TakeSnapshot, EnqueueLost,
        store, history
<1>4. CASE PusherNext
  <2>1. PICK p \in Pushers :
          \/ StartPush(p) \/ ReadRemote(p) \/ PushRow(p) \/ FailPush(p)
          \/ ReleaseUnparseable(p) \/ ReleaseSubsumed(p) \/ FinishPush(p)
          \/ Claim(p, TRUE) \/ Claim(p, FALSE) \/ ReleaseDryRun(p)
          \/ BookkeepingLost(p) \/ SubsumedLost(p) \/ CrashPusher(p)
    BY <1>4 DEF PusherNext, PushStep
  <2>2. ASSUME Claim(p, TRUE) \/ Claim(p, FALSE) PROVE ExclusionInv'
    BY <1>1, <2>2, ClaimExclusive
  <2> QED
    BY <2>1, <2>2, StartPushExclusive, ReadRemoteExclusive, PushRowExclusive, FailureExclusive,
       LetGoExclusive, FinishOrCrashExclusive, ReleaseDryRunExclusive
<1> QED
  BY <1>2, <1>3, <1>4, MaintenanceExclusive DEF Next

\* Two pushers hold the same row only if a reaper or a repair took the claim from
\* one of them: coalescing, dry runs, failures and releases of any number of
\* pushers never hand a row out twice.
THEOREM ClaimsStayExclusive == Spec => []ClaimsAreExclusive
<1>1. Init => ExclusionInv
  BY DEF Init, ExclusionInv, ClaimsAreExclusive, Holds, GroupOf, IdlePusher, Free, Unconfirmed,
         Apart
<1>2. ExclusionInv => ClaimsAreExclusive
  BY DEF ExclusionInv
<1> QED
  BY <1>1, <1>2, NextExclusive, TypeCorrectness, PTL DEF Spec

-----------------------------------------------------------------------------
(* Strikes. *)

\* The pushers that may still strike row r.
Holders(r) == {p \in Pushers : r \in Holds(p)}

\* AttemptsAreBounded made inductive: each holder may add one strike, and then it
\* is a holder no more.
StrikesInv ==
    \A r \in DOMAIN outbox :
        outbox[r].attempts + Cardinality(Holders(r)) < MaxAttempts + Cardinality(Pushers)

LEMMA CountingHolders ==
    /\ Cardinality(Pushers) \in Nat /\ MaxAttempts \in Nat \ {0}
    /\ \A S \in SUBSET Pushers : /\ IsFiniteSet(S) /\ Cardinality(S) \in Nat
                                 /\ Cardinality(S) <= Cardinality(Pushers)
<1>1. IsFiniteSet(Pushers) /\ MaxAttempts \in Nat \ {0}
  BY SyncPushAssumption, MaxAttemptsAssumption
<1>2. ASSUME NEW S \in SUBSET Pushers
      PROVE  IsFiniteSet(S) /\ Cardinality(S) <= Cardinality(Pushers)
  BY <1>1, FS_Subset
<1> QED
  BY <1>1, <1>2, FS_CardinalityType

\* A row that loses holders and is struck no oftener than that stays in bounds.
LEMMA FewerHolders ==
    ASSUME NEW S \in SUBSET Pushers, NEW T \in SUBSET S, NEW n \in Nat, NEW m \in Nat,
           n + Cardinality(S) < MaxAttempts + Cardinality(Pushers),
           m <= n \/ (m = n + 1 /\ T # S)
    PROVE  m + Cardinality(T) < MaxAttempts + Cardinality(Pushers)
<1>1. IsFiniteSet(S) /\ Cardinality(S) \in Nat /\ Cardinality(T) \in Nat
      /\ Cardinality(Pushers) \in Nat /\ MaxAttempts \in Nat
  BY CountingHolders
<1>2. Cardinality(T) <= Cardinality(S) /\ (Cardinality(S) = Cardinality(T) => S = T)
  BY <1>1, FS_Subset
<1> QED
  BY <1>1, <1>2

\* A pusher comes to hold rows only by claiming them.
LEMMA ShrinkingHold ==
    ASSUME TypeOK, NEW p \in Pushers, NEW t, pusher' = [pusher EXCEPT ![p] = t],
           t.batch = pusher[p].batch, t.todo \subseteq pusher[p].todo,
           t.confirm \cup t.release \subseteq Holds(p), NEW q \in Pushers
    PROVE  Holds(q)' \subseteq Holds(q)
<1>1. pusher'[p] = t /\ \A d \in Pushers \ {p} : pusher'[d] = pusher[d]
  BY DEF TypeOK
<1>2. CASE q = p
  <2>1. \A r : GroupOf(p, r)' = GroupOf(p, r)
    BY <1>1 DEF GroupOf
  <2> QED
    BY <1>1, <1>2, <2>1 DEF Holds
<1>3. CASE q # p
  BY <1>1, <1>3 DEF Holds, GroupOf
<1> QED
  BY <1>2, <1>3

LEMMA IdleHold ==
    ASSUME TypeOK, NEW p \in Pushers, pusher' = [pusher EXCEPT ![p] = IdlePusher],
           NEW q \in Pushers
    PROVE  Holds(q)' \subseteq Holds(q)
<1>1. pusher'[p] = IdlePusher /\ \A d \in Pushers \ {p} : pusher'[d] = pusher[d]
  BY DEF TypeOK
<1>2. Holds(p)' = {}
  BY <1>1 DEF Holds, IdlePusher
<1>3. q # p => Holds(q)' = Holds(q)
  BY <1>1 DEF Holds, GroupOf
<1> QED
  BY <1>2, <1>3

\* What a representative's failure leaves p with: not the representative.
LEMMA FailureHold ==
    ASSUME TypeOK, ExclusionInv, NEW p \in Pushers, NEW r \in pusher[p].todo,
           pusher' = AfterFailure(p, r)
    PROVE  /\ \A q \in Pushers : Holds(q)' \subseteq Holds(q)
           /\ r \in Holds(p) /\ r \notin Holds(p)'
<1> DEFINE phase == IF GroupOf(p, r) = {r} THEN "push" ELSE "release"
           t == [pusher[p] EXCEPT !.phase = phase, !.seen = "absent", !.todo = @ \ {r},
                                  !.release = GroupOf(p, r) \ {r}]
<1>1. pusher' = [pusher EXCEPT ![p] = t] /\ pusher'[p] = t
  BY DEF AfterFailure, TypeOK
<1> HIDE DEF phase
<1>2. /\ t.release = GroupOf(p, r) \ {r} /\ t.batch = pusher[p].batch
      /\ t.todo = pusher[p].todo \ {r} /\ t.confirm = pusher[p].confirm
  BY DEF TypeOK, PusherState
<1> HIDE DEF t
<1>3. GroupOf(p, r) \cup pusher[p].confirm \subseteq Holds(p)
  BY DEF Holds
<1>4. r \in Holds(p)
  <2>1. r \in DOMAIN pusher[p].batch
    BY DEF TypeOK, PusherTypeOK
  <2> QED
    BY <1>3, <2>1 DEF GroupOf
<1>5. \A q : GroupOf(p, q)' = GroupOf(p, q)
  BY <1>1, <1>2 DEF GroupOf
<1>6. r \notin Holds(p)'
  BY <1>1, <1>2, <1>5 DEF Holds, GroupOf, ExclusionInv, Apart
<1> QED
  BY <1>1, <1>2, <1>3, <1>4, <1>6, ShrinkingHold

LEMMA HoldsShrink ==
    ASSUME TypeOK, ExclusionInv, [Next]_vars,
           \A p \in Pushers : ~Claim(p, TRUE) /\ ~Claim(p, FALSE), NEW q \in Pushers
    PROVE  Holds(q)' \subseteq Holds(q)
<1>1. CASE pusher' = pusher
  BY <1>1 DEF Holds, GroupOf
<1>2. CASE PusherNext
  <2>1. PICK p \in Pushers :
          \/ StartPush(p) \/ ReadRemote(p) \/ PushRow(p) \/ FailPush(p)
          \/ ReleaseUnparseable(p) \/ ReleaseSubsumed(p) \/ FinishPush(p)
          \/ ReleaseDryRun(p) \/ BookkeepingLost(p) \/ SubsumedLost(p) \/ CrashPusher(p)
    BY <1>2 DEF PusherNext, PushStep
  <2>2. pusher[p] \in PusherState /\ pusher[p].confirm \cup pusher[p].release \subseteq Holds(p)
        /\ \A r \in pusher[p].todo : GroupOf(p, r) \subseteq Holds(p)
    BY DEF TypeOK, Holds
  <2>3. CASE StartPush(p)
    <3> DEFINE t == [pusher[p] EXCEPT !.phase = "claim"]
    <3>1. /\ pusher' = [pusher EXCEPT ![p] = t] /\ t.batch = pusher[p].batch
          /\ t.todo = pusher[p].todo
          /\ t.confirm = pusher[p].confirm /\ t.release = pusher[p].release
      BY <2>2, <2>3 DEF StartPush, PusherState
    <3> HIDE DEF t
    <3> QED
      BY <2>2, <3>1, ShrinkingHold
  <2>4. CASE ReadRemote(p)
    <3>1. PICK seen : pusher' = [pusher EXCEPT ![p].phase = "apply", ![p].seen = seen]
      BY <2>4 DEF ReadRemote
    <3> DEFINE t == [pusher[p] EXCEPT !.phase = "apply", !.seen = seen]
    <3>2. /\ pusher' = [pusher EXCEPT ![p] = t] /\ t.batch = pusher[p].batch
          /\ t.todo = pusher[p].todo
          /\ t.confirm = pusher[p].confirm /\ t.release = pusher[p].release
      BY <2>2, <3>1 DEF PusherState
    <3> HIDE DEF t
    <3> QED
      BY <2>2, <3>2, ShrinkingHold
  <2>5. CASE PushRow(p)
    <3>1. PICK r \in pusher[p].todo :
            pusher' = [pusher EXCEPT ![p].phase = "push", ![p].seen = "absent",
                                     ![p].todo = @ \ {r}, ![p].confirm = @ \cup GroupOf(p, r)]
      BY <2>5 DEF PushRow
    <3> DEFINE t == [pusher[p] EXCEPT !.phase = "push", !.seen = "absent", !.todo = @ \ {r},
                                      !.confirm = @ \cup GroupOf(p, r)]
    <3>2. pusher' = [pusher EXCEPT ![p] = t]
      BY <3>1
    <3>3. /\ t.batch = pusher[p].batch /\ t.todo = pusher[p].todo \ {r}
          /\ t.confirm = pusher[p].confirm \cup GroupOf(p, r) /\ t.release = pusher[p].release
      BY <2>2 DEF PusherState
    <3> HIDE DEF t
    <3> QED
      BY <2>2, <3>2, <3>3, ShrinkingHold
  <2>6. CASE FailPush(p) \/ ReleaseUnparseable(p) \/ BookkeepingLost(p)
    <3>1. PICK r \in pusher[p].todo : pusher' = AfterFailure(p, r)
      BY <2>6 DEF FailPush, ReleaseUnparseable, BookkeepingLost
    <3> QED
      BY <3>1, FailureHold
  <2>7. CASE ReleaseSubsumed(p) \/ SubsumedLost(p)
    <3> DEFINE t == [pusher[p] EXCEPT !.phase = "push", !.release = {}]
    <3>1. /\ pusher' = [pusher EXCEPT ![p] = t] /\ t.batch = pusher[p].batch
          /\ t.todo = pusher[p].todo /\ t.confirm = pusher[p].confirm /\ t.release = {}
      BY <2>2, <2>7 DEF ReleaseSubsumed, SubsumedLost, PusherState
    <3> HIDE DEF t
    <3> QED
      BY <2>2, <3>1, ShrinkingHold
  <2>8. CASE FinishPush(p) \/ ReleaseDryRun(p) \/ CrashPusher(p)
    BY <2>8, IdleHold DEF FinishPush, ReleaseDryRun, CrashPusher
  <2> QED
    BY <2>1, <2>3, <2>4, <2>5, <2>6, <2>7, <2>8
<1>3. ASSUME ~PusherNext PROVE pusher' = pusher
  BY <1>3
  DEF Next, vars, WriterNext, WriteEntry, DeprecateEntry, DeleteSilently, TakeSnapshot,
      EnqueueSnapshot, EnqueueLost, RepairNext, StartRepair, ListOrphans, EnqueueTombstone,
      ListMalformed, RewriteStub, SkipItem, ListUnsendable, PurgeUnsendable, StopRepair,
      CollectConfirmed, ClaimsExpire, RetentionPasses
<1> QED
  BY <1>1, <1>2, <1>3

LEMMA AttemptsType ==
    ASSUME TypeOK, NEW r \in DOMAIN outbox PROVE outbox[r].attempts \in Nat
BY DEF TypeOK, StoreTypeOK, IsTable, Row

\* A step in which nobody comes to hold a row, and no row has more strikes after
\* it than before, or one more and a holder less.
LEMMA StrikesStep ==
    ASSUME TypeOK, TypeOK', StrikesInv,
           \A q \in Pushers : Holds(q)' \subseteq Holds(q),
           \A r \in DOMAIN outbox' :
               /\ r \in DOMAIN outbox
               /\ \/ outbox'[r].attempts <= outbox[r].attempts
                  \/ /\ outbox'[r].attempts = outbox[r].attempts + 1
                     /\ \E p \in Pushers : r \in Holds(p) /\ r \notin Holds(p)'
    PROVE  StrikesInv'
<1>1. SUFFICES ASSUME NEW r \in DOMAIN outbox'
               PROVE  outbox'[r].attempts + Cardinality(Holders(r)')
                        < MaxAttempts + Cardinality(Pushers)
  BY DEF StrikesInv
<1> DEFINE S == Holders(r)
           T == Holders(r)'
           n == outbox[r].attempts
           m == outbox'[r].attempts
<1>2. S \in SUBSET Pushers /\ T \in SUBSET S
  BY DEF Holders
<1>3. n \in Nat /\ m \in Nat
  BY AttemptsType DEF TypeOK, StoreTypeOK, IsTable, Row
<1>4. n + Cardinality(S) < MaxAttempts + Cardinality(Pushers)
  BY DEF StrikesInv
<1>5. m <= n \/ (m = n + 1 /\ T # S)
  BY DEF Holders
<1> HIDE DEF S, T, n, m
<1>6. m + Cardinality(T) < MaxAttempts + Cardinality(Pushers)
  BY <1>2, <1>3, <1>4, <1>5, FewerHolders
<1> QED
  BY <1>6 DEF T, m

\* A row that is claimed has strikes to spare for every pusher there is.
LEMMA ClaimStrikes ==
    ASSUME TypeOK, StrikesInv, NEW p \in Pushers, NEW dry \in BOOLEAN, Claim(p, dry)
    PROVE  StrikesInv'
<1> DEFINE rows == Oldest(Claimable(outbox), BatchLimit)
           batch == [r \in rows |-> [entry |-> outbox[r].entry, payload |-> outbox[r].payload,
                                     tomb |-> outbox[r].tomb]]
           phase == IF dry THEN "dry" ELSE "push"
           t == IF rows = {} THEN IdlePusher ELSE Working(phase, batch)
<1>1. pusher'[p] = t /\ \A q \in Pushers \ {p} : pusher'[q] = pusher[q]
  BY DEF Claim, TypeOK
<1>2. KeepsStrikes(outbox, outbox')
  BY StatementsKeepStrikes DEF Claim, TypeOK, StoreTypeOK
<1>3. \A r \in rows : outbox[r].attempts < MaxAttempts
  BY DEF Oldest, Claimable
<1>4. DOMAIN batch = rows
  OBVIOUS
<1> HIDE DEF rows, batch, phase
<1>5. DOMAIN t.batch \subseteq rows /\ t.confirm \cup t.release = {}
  BY <1>4 DEF Working, IdlePusher
<1>6. Holds(p)' \subseteq rows
  BY <1>1, <1>5 DEF Holds, GroupOf
<1>7. \A q \in Pushers \ {p} : Holds(q)' = Holds(q)
  BY <1>1 DEF Holds, GroupOf
<1>8. SUFFICES ASSUME NEW r \in DOMAIN outbox'
               PROVE  outbox[r].attempts + Cardinality(Holders(r)')
                        < MaxAttempts + Cardinality(Pushers)
  BY <1>2 DEF StrikesInv, KeepsStrikes
<1> DEFINE S == Holders(r)
           T == Holders(r)'
           n == outbox[r].attempts
<1>9. r \in DOMAIN outbox /\ n \in Nat
  BY <1>2, AttemptsType DEF KeepsStrikes
<1>10. S \in SUBSET Pushers /\ T \in SUBSET Pushers
  BY DEF Holders
<1>11. CASE r \in rows
  <2>1. n < MaxAttempts
    BY <1>3, <1>11
  <2> HIDE DEF T, n
  <2>2. n + Cardinality(T) < MaxAttempts + Cardinality(Pushers)
    BY <1>9, <1>10, <2>1, CountingHolders
  <2> QED
    BY <2>2 DEF T, n
<1>12. CASE r \notin rows
  <2>1. T \in SUBSET S
    BY <1>6, <1>7, <1>12 DEF Holders
  <2>2. n + Cardinality(S) < MaxAttempts + Cardinality(Pushers)
    BY <1>9 DEF StrikesInv
  <2> HIDE DEF S, T, n
  <2>3. n + Cardinality(T) < MaxAttempts + Cardinality(Pushers)
    BY <1>9, <1>10, <2>1, <2>2, FewerHolders
  <2> QED
    BY <2>3 DEF T, n
<1> QED
  BY <1>11, <1>12

\* An enqueued row has no strikes, and nobody holds it.
LEMMA EnqueueStrikes ==
    ASSUME TypeOK, StrikesInv, NEW e, NEW op, NEW payload, NEW tomb,
           Enqueue(e, op, payload, tomb), pusher' = pusher
    PROVE  StrikesInv'
<1>1. \A r : Holders(r)' = Holders(r)
  BY DEF Holders, Holds, GroupOf
<1>2. \A r \in DOMAIN outbox' : \/ r = issued + 1 /\ outbox'[r].attempts = 0
                                \/ r \in DOMAIN outbox /\ outbox'[r] = outbox[r]
  BY DEF Enqueue, AppendRow
<1>3. Holders(issued + 1) = {}
  <2>1. \A p \in Pushers : Holds(p) \subseteq 1..issued
    BY HoldsType DEF TypeOK, PusherTypeOK
  <2>2. issued + 1 \notin 1..issued
    BY SyncPushAssumption DEF TypeOK, StoreTypeOK
  <2> QED
    BY <2>1, <2>2 DEF Holders
<1>4. 0 + Cardinality({}) < MaxAttempts + Cardinality(Pushers)
  BY CountingHolders, FS_EmptySet
<1> QED
  BY <1>1, <1>2, <1>3, <1>4 DEF StrikesInv

LEMMA NextStrikes ==
    ASSUME TypeOK, TypeOK', ExclusionInv, StrikesInv, [Next]_vars PROVE StrikesInv'
<1>1. ASSUME NEW p \in Pushers, Claim(p, TRUE) \/ Claim(p, FALSE) PROVE StrikesInv'
  BY <1>1, ClaimStrikes
<1>2. CASE issued' # issued
  <2>1. PICK e, op, tomb, payload : Enqueue(e, op, payload, tomb)
    BY <1>2, EnqueueSteps DEF vars, store
  <2> QED
    BY <1>2, <2>1, EnqueueSteps, EnqueueStrikes DEF vars, store
<1>3. CASE \A p \in Pushers : ~Claim(p, TRUE) /\ ~Claim(p, FALSE)
  <2>1. \A q \in Pushers : Holds(q)' \subseteq Holds(q)
    BY <1>3, HoldsShrink
  <2>2. ASSUME NEW p \in Pushers, FailPush(p) PROVE StrikesInv'
    <3>1. PICK r \in pusher[p].todo : outbox' = FailRow(outbox, r) /\ pusher' = AfterFailure(p, r)
      BY <2>2 DEF FailPush
    <3>2. r \in Holds(p) /\ r \notin Holds(p)'
      BY <3>1, FailureHold
    <3>3. ASSUME NEW q \in DOMAIN outbox'
          PROVE  /\ q \in DOMAIN outbox
                 /\ \/ outbox'[q].attempts <= outbox[q].attempts
                    \/ q = r /\ outbox'[q].attempts = outbox[q].attempts + 1
      <4>1. q \in DOMAIN outbox
        BY <3>1 DEF FailRow
      <4>2. outbox[q].attempts \in Nat /\ outbox[q] \in Row
        BY <4>1, AttemptsType DEF TypeOK, StoreTypeOK, IsTable
      <4>3. CASE q = r
        <5>1. outbox'[q] = [outbox[q] EXCEPT !.attempts = outbox[q].attempts + 1,
                                             !.claimed = "null"]
          BY <3>1, <4>1, <4>3 DEF FailRow
        <5> QED
          BY <4>1, <4>2, <4>3, <5>1 DEF Row
      <4>4. CASE q # r
        <5>1. outbox'[q] = outbox[q]
          BY <3>1, <4>1, <4>4 DEF FailRow
        <5> QED
          BY <4>1, <4>2, <5>1
      <4> QED
        BY <4>3, <4>4
    <3> QED
      BY <2>1, <3>2, <3>3, StrikesStep
  <2>3. CASE RewriteStub
    <3>1. PICK r \in repair.todo, payload \in Kinds :
            outbox' = IF r \in DOMAIN outbox
                      THEN RewriteRow(outbox, r, payload, outbox[r].entry \in deleted)
                      ELSE outbox
      BY <2>3 DEF RewriteStub
    <3>2. ASSUME NEW q \in DOMAIN outbox'
          PROVE  q \in DOMAIN outbox /\ (outbox'[q] = outbox[q] \/ outbox'[q].attempts = 0)
      <4>1. CASE r \in DOMAIN outbox
        <5>1. q \in DOMAIN outbox /\ outbox[q] \in Row
          BY <3>1, <4>1 DEF RewriteRow, TypeOK, StoreTypeOK, IsTable
        <5> QED
          BY <3>1, <4>1, <5>1 DEF RewriteRow, Row
      <4>2. CASE r \notin DOMAIN outbox
        BY <3>1, <4>2
      <4> QED
        BY <4>1, <4>2
    <3>3. ASSUME NEW q \in DOMAIN outbox'
          PROVE  q \in DOMAIN outbox /\ outbox'[q].attempts <= outbox[q].attempts
      <4>1. q \in DOMAIN outbox /\ outbox[q].attempts \in Nat
        BY <3>2, AttemptsType
      <4> QED
        BY <3>2, <4>1
    <3> QED
      BY <2>1, <3>3, StrikesStep
  <2>4. CASE issued' = issued /\ ~RewriteStub /\ \A p \in Pushers : ~FailPush(p)
    <3>1. KeepsStrikes(outbox, outbox')
      BY <2>4, StrikesKept
    <3>2. ASSUME NEW q \in DOMAIN outbox'
          PROVE  q \in DOMAIN outbox /\ outbox'[q].attempts <= outbox[q].attempts
      <4>1. q \in DOMAIN outbox /\ outbox'[q].attempts = outbox[q].attempts
        BY <3>1 DEF KeepsStrikes
      <4>2. outbox[q].attempts \in Nat
        BY <4>1, AttemptsType
      <4> QED
        BY <4>1, <4>2
    <3> QED
      BY <2>1, <3>2, StrikesStep
  <2> QED
    BY <1>2, <2>2, <2>3, <2>4
<1> QED
  BY <1>1, <1>3

\* However many pushers believe to hold a row at once, whatever was reaped from
\* them and whenever their failures arrive, its strikes exceed the cap by fewer
\* than there are pushers.
THEOREM StrikesAreBounded == Spec => []AttemptsAreBounded
<1>1. Init => ExclusionInv /\ StrikesInv
  BY DEF Init, ExclusionInv, ClaimsAreExclusive, Holds, GroupOf, IdlePusher, Free, Unconfirmed,
         Apart, StrikesInv
<1>2. TypeOK /\ StrikesInv => AttemptsAreBounded
  <2>1. SUFFICES ASSUME TypeOK, StrikesInv, NEW r \in DOMAIN outbox
                 PROVE  outbox[r].attempts < MaxAttempts + Cardinality(Pushers)
    BY DEF AttemptsAreBounded
  <2>2. Holders(r) \in SUBSET Pushers
    BY DEF Holders
  <2>3. outbox[r].attempts \in Nat /\ Cardinality(Holders(r)) \in Nat
    BY <2>1, <2>2, AttemptsType, CountingHolders
  <2>4. outbox[r].attempts + Cardinality(Holders(r)) < MaxAttempts + Cardinality(Pushers)
    BY <2>1 DEF StrikesInv
  <2> QED
    BY <2>3, <2>4, CountingHolders
<1>3. TypeOK /\ ExclusionInv /\ StrikesInv /\ [Next]_vars => ExclusionInv' /\ StrikesInv'
  BY NextTypeOK, NextExclusive, NextStrikes
<1> QED
  BY <1>1, <1>2, <1>3, TypeCorrectness, PTL DEF Spec

=============================================================================
