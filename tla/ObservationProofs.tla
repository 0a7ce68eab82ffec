-------------------------- MODULE ObservationProofs --------------------------
(***************************************************************************)
(* Proofs about ObservationQueue, for any number of hooks, jobs, rows and  *)
(* crashes, any batch, threshold and number of tries.                      *)
(***************************************************************************)
EXTENDS ObservationQueue, SequenceTheorems, TLAPS

-----------------------------------------------------------------------------
(* Rows. *)

Row == [content: Contents, status: {"pending", "processing", "confirmed"},
        recent: BOOLEAN, stale: BOOLEAN]

\* A queue that is rewritten row by row is a queue of the same length.
LEMMA Rewritten ==
    ASSUME NEW S, NEW r \in Seq(S), NEW f, f \in [DOMAIN r -> S]
    PROVE  f \in Seq(S) /\ Len(f) = Len(r) /\ DOMAIN f = DOMAIN r
<1>1. Len(r) \in Nat /\ DOMAIN r = 1..Len(r)
  BY LenProperties
<1>2. f \in [1..Len(r) -> S]
  BY <1>1
<1>3. f \in Seq(S)
  BY <1>1, <1>2, SeqDef
<1>4. Len(f) \in Nat /\ DOMAIN f = 1..Len(f)
  BY <1>3, LenProperties
<1>5. Len(f) = Len(r)
  BY <1>1, <1>2, <1>4
<1> QED
  BY <1>2, <1>3, <1>5

\* Rows are numbered from one.
LEMMA RowsAreNumbered ==
    ASSUME TypeOK
    PROVE  rows \in Seq(Row) /\ Numbers = 1..Len(rows) /\ Len(rows) \in Nat
           /\ rows \in [Numbers -> Row]
<1>1. rows \in Seq(Row)
  BY DEF TypeOK, Row
<1> QED
  BY <1>1, LenProperties DEF Numbers

-----------------------------------------------------------------------------
(* Type correctness. *)

JobState == [stage: Stages, ids: SUBSET Numbers, tries: 0..Tries, seen: Breakers]

\* A job that is calling the summarizer has a try left.
TriesLeft == \A j \in Jobs : job[j].stage = "try" => job[j].tries # 0

Typed == TypeOK /\ TriesLeft

LEMMA IdleIsTyped == Idle \in JobState /\ Idle.stage # "try"
BY QueueAssumption DEF Idle, JobState, Stages, Breakers, Closed

LEMMA InitTyped == Init => Typed
<1> SUFFICES ASSUME Init PROVE Typed
  OBVIOUS
<1>1. rows \in Seq(Row) /\ Len(rows) = 0
  BY EmptySeq DEF Init
<1>2. job \in [Jobs -> JobState] /\ TriesLeft
  BY IdleIsTyped DEF Init, TriesLeft
<1>3. breaker \in Breakers
  BY QueueAssumption DEF Init, Breakers, Closed
<1> QED
  BY <1>1, <1>2, <1>3, QueueAssumption DEF Init, Typed, TypeOK, Row, JobState

\* What a step that rewrites rows and moves one job on has to show.
LEMMA JobStepTyped ==
    ASSUME Typed, NEW j \in Jobs, NEW f, f \in [Numbers -> Row], rows' = f,
           NEW state \in JobState, state.stage = "try" => state.tries # 0,
           job' = [job EXCEPT ![j] = state],
           breaker' \in Breakers, crashes' \in 0..MaxCrashes,
           UNCHANGED <<backend, hook>>
    PROVE  Typed'
<1>1. rows' \in Seq(Row) /\ Len(rows') = Len(rows) /\ Numbers' = Numbers
  BY Rewritten, RowsAreNumbered DEF Typed, Numbers
<1>2. job \in [Jobs -> JobState]
  BY DEF Typed, TypeOK, JobState
<1>3. job' \in [Jobs -> JobState]
  BY <1>2
<1>4. TriesLeft'
  BY <1>2 DEF Typed, TriesLeft
<1> QED
  BY <1>1, <1>3, <1>4 DEF Typed, TypeOK, Row, JobState

LEMMA SameRows == ASSUME Typed, UNCHANGED rows PROVE rows \in [Numbers -> Row] /\ rows' = rows
BY RowsAreNumbered DEF Typed

LEMMA JobIsTyped ==
    ASSUME Typed, NEW j \in Jobs
    PROVE  job[j] \in JobState /\ job \in [Jobs -> JobState]
BY DEF Typed, TypeOK, JobState

LEMMA RecoverTyped == ASSUME Typed, NEW j \in Jobs, Recover(j) PROVE Typed'
<1> DEFINE f == [n \in Numbers |->
                    IF n \in Stale THEN [rows[n] EXCEPT !.status = "pending", !.stale = FALSE]
                    ELSE rows[n]]
           state == [job[j] EXCEPT !.stage = "claim"]
<1>1. f \in [Numbers -> Row]
  BY RowsAreNumbered DEF Row, Typed
<1>2. state \in JobState /\ state.stage = "claim"
  BY JobIsTyped DEF JobState, Stages
<1>3. rows' = f /\ job' = [job EXCEPT ![j] = state]
  BY JobIsTyped DEF Recover, Move
<1>4. breaker' \in Breakers /\ crashes' \in 0..MaxCrashes /\ UNCHANGED <<backend, hook>>
  BY DEF Recover, Typed, TypeOK
<1> HIDE DEF f, state
<1> QED
  BY <1>1, <1>2, <1>3, <1>4, JobStepTyped

LEMMA ClaimedTyped ==
    ASSUME Typed, NEW ids \in SUBSET Numbers
    PROVE  Claimed(ids) \in [Numbers -> Row]
BY RowsAreNumbered DEF Claimed, Row, Typed

LEMMA ClaimTyped == ASSUME Typed, NEW j \in Jobs, Claim(j) PROVE Typed'
<1>1. breaker' \in Breakers /\ crashes' \in 0..MaxCrashes /\ UNCHANGED <<backend, hook>>
  BY DEF Claim, ClaimPostgres, SelectSqlite, UpdateSqlite, Typed, TypeOK
<1>2. Claimable \subseteq Numbers
  BY DEF Claimable, Pending
<1>3. CASE ClaimPostgres(j)
  <2>1. PICK ids \in SUBSET Claimable :
          /\ rows' = Claimed(ids)
          /\ job' = [job EXCEPT ![j] = IF ids = {} THEN Idle
                                       ELSE [Idle EXCEPT !.stage = "gate", !.ids = ids]]
    BY <1>3 DEF ClaimPostgres
  <2> DEFINE state == IF ids = {} THEN Idle ELSE [Idle EXCEPT !.stage = "gate", !.ids = ids]
  <2>2. state \in JobState /\ state.stage # "try"
    BY <1>2, IdleIsTyped DEF JobState, Stages
  <2>3. Claimed(ids) \in [Numbers -> Row]
    BY <1>2, ClaimedTyped
  <2> HIDE DEF state
  <2> QED
    BY <1>1, <2>1, <2>2, <2>3, JobStepTyped DEF state
<1>4. CASE SelectSqlite(j)
  <2>1. PICK ids \in SUBSET Claimable :
          job' = [job EXCEPT ![j] = IF ids = {} THEN Idle
                                    ELSE [Idle EXCEPT !.stage = "update", !.ids = ids]]
    BY <1>4 DEF SelectSqlite
  <2> DEFINE state == IF ids = {} THEN Idle ELSE [Idle EXCEPT !.stage = "update", !.ids = ids]
  <2>2. state \in JobState /\ state.stage # "try"
    BY <1>2, IdleIsTyped DEF JobState, Stages
  <2>3. rows \in [Numbers -> Row] /\ rows' = rows
    BY <1>4, SameRows DEF SelectSqlite
  <2> HIDE DEF state
  <2> QED
    BY <1>1, <2>1, <2>2, <2>3, JobStepTyped DEF state
<1>5. CASE UpdateSqlite(j)
  <2> DEFINE state == [job[j] EXCEPT !.stage = "gate"]
  <2>1. state \in JobState /\ state.stage # "try" /\ job[j].ids \in SUBSET Numbers
    BY JobIsTyped DEF JobState, Stages
  <2>2. rows' = Claimed(job[j].ids) /\ job' = [job EXCEPT ![j] = state]
    BY <1>5, JobIsTyped DEF UpdateSqlite, Move
  <2>3. Claimed(job[j].ids) \in [Numbers -> Row]
    BY <2>1, ClaimedTyped
  <2> HIDE DEF state
  <2> QED
    BY <1>1, <2>1, <2>2, <2>3, JobStepTyped
<1> QED
  BY <1>3, <1>4, <1>5 DEF Claim

LEMMA SummarizerTyped ==
    ASSUME Typed, NEW j \in Jobs, Gate(j) \/ Fails(j) \/ Succeeds(j)
    PROVE  Typed'
<1>1. breaker' \in Breakers /\ crashes' \in 0..MaxCrashes /\ UNCHANGED <<backend, hook>>
  BY DEF Gate, Fails, Succeeds, Typed, TypeOK
<1>2. rows \in [Numbers -> Row] /\ rows' = rows
  BY SameRows DEF Gate, Fails, Succeeds
<1>3. job[j] \in JobState
  BY JobIsTyped
<1>4. CASE Gate(j)
  <2> DEFINE state == IF breaker.tripped THEN Idle
                      ELSE [job[j] EXCEPT !.stage = "try", !.tries = Tries]
  <2>1. Tries \in 0..Tries /\ Tries # 0
    BY QueueAssumption
  <2>2. state \in JobState /\ (state.stage = "try" => state.tries # 0)
    <3>1. CASE breaker.tripped
      BY <3>1, IdleIsTyped
    <3>2. CASE ~breaker.tripped
      <4>1. state = [stage |-> "try", ids |-> job[j].ids, tries |-> Tries, seen |-> job[j].seen]
        BY <1>3, <3>2 DEF JobState
      <4> QED
        BY <1>3, <2>1, <4>1 DEF JobState, Stages
    <3> QED
      BY <3>1, <3>2
  <2>3. job' = [job EXCEPT ![j] = state]
    BY <1>4, JobIsTyped DEF Gate
  <2> HIDE DEF state
  <2> QED
    BY <1>1, <1>2, <2>2, <2>3, JobStepTyped
<1>5. CASE Fails(j)
  <2> DEFINE state == [job[j] EXCEPT !.tries = job[j].tries - 1,
                                     !.stage = IF job[j].tries = 1 THEN "failed" ELSE "try"]
  <2>1. job[j].tries # 0
    BY <1>5 DEF Fails, Typed, TriesLeft
  <2>2. job[j].tries - 1 \in 0..Tries /\ (job[j].tries - 1 = 0 <=> job[j].tries = 1)
    BY <1>3, <2>1, QueueAssumption DEF JobState
  <2>3. state \in JobState /\ (state.stage = "try" => state.tries # 0)
    <3>1. CASE job[j].tries = 1
      <4>1. state = [job[j] EXCEPT !.tries = job[j].tries - 1, !.stage = "failed"]
        BY <3>1
      <4> QED
        BY <1>3, <2>2, <4>1 DEF JobState, Stages
    <3>2. CASE job[j].tries # 1
      <4>1. state = [job[j] EXCEPT !.tries = job[j].tries - 1, !.stage = "try"]
        BY <3>2
      <4>2. state.tries = job[j].tries - 1
        BY <1>3, <4>1 DEF JobState
      <4> QED
        BY <1>3, <2>2, <3>2, <4>1, <4>2 DEF JobState, Stages
    <3> QED
      BY <3>1, <3>2
  <2>4. job' = [job EXCEPT ![j] = state]
    BY <1>5 DEF Fails
  <2> HIDE DEF state
  <2> QED
    BY <1>1, <1>2, <2>3, <2>4, JobStepTyped
<1>6. CASE Succeeds(j)
  <2> DEFINE state == [job[j] EXCEPT !.tries = 0, !.stage = "succeeded"]
  <2>0. 0 \in 0..Tries
    BY QueueAssumption
  <2>1. state \in JobState /\ state.stage # "try"
    BY <1>3, <2>0 DEF JobState, Stages
  <2>2. job' = [job EXCEPT ![j] = state]
    BY <1>6, JobIsTyped DEF Succeeds
  <2> HIDE DEF state
  <2> QED
    BY <1>1, <1>2, <2>1, <2>2, JobStepTyped
<1> QED
  BY <1>4, <1>5, <1>6

\* A failure is counted up to the threshold.
LEMMA TrippedTyped ==
    ASSUME NEW seen \in Breakers
    PROVE  /\ Tripped(seen) \in Breakers
           /\ Tripped(seen).failures = IF seen.failures < TripThreshold THEN seen.failures + 1
                                       ELSE TripThreshold
<1> DEFINE n == IF seen.failures < TripThreshold THEN seen.failures + 1 ELSE TripThreshold
           t == seen.tripped \/ seen.failures + 1 >= TripThreshold
<1>1. n \in 0..TripThreshold
  BY QueueAssumption DEF Breakers
<1>2. t \in BOOLEAN
  OBVIOUS
<1>3. Tripped(seen) = [failures |-> n, tripped |-> t]
  BY DEF Tripped
<1> HIDE DEF n, t
<1>4. Tripped(seen) \in Breakers /\ Tripped(seen).failures = n
  BY <1>1, <1>2, <1>3 DEF Breakers
<1> QED
  BY <1>4 DEF n

LEMMA RecordTyped == ASSUME Typed, NEW j \in Jobs, Record(j) PROVE Typed'
<1>1. crashes' \in 0..MaxCrashes /\ UNCHANGED <<backend, hook>> /\ breaker \in Breakers
  BY DEF Record, ReadBreaker, RecordSuccess, RecordFailure, Typed, TypeOK
<1>2. rows \in [Numbers -> Row] /\ rows' = rows
  BY SameRows DEF Record, ReadBreaker, RecordSuccess, RecordFailure
<1>3. job[j] \in JobState
  BY JobIsTyped
<1>4. CASE ReadBreaker(j)
  <2> DEFINE state == [job[j] EXCEPT !.seen = breaker,
                                     !.stage = IF job[j].stage = "failed" THEN "trip" ELSE "reset"]
  <2>1. state \in JobState /\ state.stage # "try"
    BY <1>1, <1>3 DEF JobState, Stages
  <2>2. job' = [job EXCEPT ![j] = state] /\ breaker' = breaker
    BY <1>4 DEF ReadBreaker
  <2> HIDE DEF state
  <2> QED
    BY <1>1, <1>2, <2>1, <2>2, JobStepTyped
<1>5. CASE RecordSuccess(j)
  <2> DEFINE state == [job[j] EXCEPT !.stage = "land"]
  <2>1. state \in JobState /\ state.stage # "try"
    BY <1>3 DEF JobState, Stages
  <2>2. job' = [job EXCEPT ![j] = state]
    BY <1>5, JobIsTyped DEF RecordSuccess, Move
  <2>3. breaker' \in Breakers
    BY <1>1, <1>5, QueueAssumption DEF RecordSuccess, Closed, Breakers
  <2> HIDE DEF state
  <2> QED
    BY <1>1, <1>2, <2>1, <2>2, <2>3, JobStepTyped
<1>6. CASE RecordFailure(j)
  <2>1. job' = [job EXCEPT ![j] = Idle] /\ breaker' = Tripped(job[j].seen)
    BY <1>6 DEF RecordFailure, AfterFailure
  <2>2. breaker' \in Breakers
    BY <1>3, <2>1, TrippedTyped DEF JobState
  <2> QED
    BY <1>1, <1>2, <2>1, <2>2, IdleIsTyped, JobStepTyped
<1> QED
  BY <1>4, <1>5, <1>6 DEF Record

LEMMA OutcomeTyped ==
    ASSUME Typed, NEW j \in Jobs, Land(j) \/ Confirm(j) \/ Crash(j)
    PROVE  Typed'
<1>1. breaker' \in Breakers /\ UNCHANGED <<backend, hook>>
  BY DEF Land, Confirm, Crash, Typed, TypeOK
<1>2. crashes' \in 0..MaxCrashes
  <2>1. crashes \in 0..MaxCrashes /\ MaxCrashes \in Nat
    BY QueueAssumption DEF Typed, TypeOK
  <2>2. crashes' = crashes \/ (crashes < MaxCrashes /\ crashes' = crashes + 1)
    BY DEF Land, Confirm, Crash
  <2> QED
    BY <2>1, <2>2
<1>3. job[j] \in JobState
  BY JobIsTyped
<1>4. CASE Land(j)
  <2> DEFINE state == [job[j] EXCEPT !.stage = "confirm"]
  <2>1. state \in JobState /\ state.stage # "try"
    BY <1>3 DEF JobState, Stages
  <2>2. job' = [job EXCEPT ![j] = state]
    BY <1>4, JobIsTyped DEF Land, Move
  <2>3. rows \in [Numbers -> Row] /\ rows' = rows
    BY <1>4, SameRows DEF Land
  <2> HIDE DEF state
  <2> QED
    BY <1>1, <1>2, <2>1, <2>2, <2>3, JobStepTyped
<1>5. CASE Confirm(j)
  <2> DEFINE f == [n \in Numbers |->
                     IF n \in job[j].ids
                     THEN [rows[n] EXCEPT !.status = "confirmed", !.stale = FALSE] ELSE rows[n]]
  <2>1. f \in [Numbers -> Row]
    BY RowsAreNumbered DEF Row, Typed
  <2>2. rows' = f /\ job' = [job EXCEPT ![j] = Idle]
    BY <1>5 DEF Confirm
  <2> HIDE DEF f
  <2> QED
    BY <1>1, <1>2, <2>1, <2>2, IdleIsTyped, JobStepTyped
<1>6. CASE Crash(j)
  <2>1. rows \in [Numbers -> Row] /\ rows' = rows /\ job' = [job EXCEPT ![j] = Idle]
    BY <1>6, SameRows DEF Crash
  <2> QED
    BY <1>1, <1>2, <2>1, IdleIsTyped, JobStepTyped
<1> QED
  BY <1>4, <1>5, <1>6

LEMMA HookTyped == ASSUME Typed, NEW h \in Hooks, HookStep(h) PROVE Typed'
<1>1. CASE Enqueue(h)
  <2>1. PICK c \in hook[h] : rows' = Append(rows, Fresh(c))
    BY <1>1 DEF Enqueue
  <2>2. c \in Contents
    BY DEF Typed, TypeOK
  <2>3. Fresh(c) \in Row
    BY <2>2 DEF Fresh, Row
  <2>4. /\ rows' \in Seq(Row) /\ Len(rows') = Len(rows) + 1
        /\ Numbers \subseteq Numbers'
    <3>1. rows' \in Seq(Row) /\ Len(rows') = Len(rows) + 1
      BY <2>1, <2>3, RowsAreNumbered, AppendProperties DEF Typed
    <3>2. Numbers' = 1..Len(rows')
      BY <3>1, LenProperties DEF Numbers
    <3> QED
      BY <3>1, <3>2, RowsAreNumbered DEF Typed
  <2>5. Len(rows') <= MaxRows
    BY <1>1, <2>4, RowsAreNumbered, QueueAssumption DEF Enqueue, Typed
  <2>6. job' \in [Jobs -> JobState'] /\ TriesLeft' /\ UNCHANGED <<backend, breaker, crashes>>
    BY <1>1, <2>4 DEF Enqueue, Typed, TypeOK, TriesLeft, JobState
  <2>7. hook' \in [Hooks -> SUBSET Contents]
    BY <1>1 DEF Enqueue, Typed, TypeOK
  <2> QED
    BY <2>4, <2>5, <2>6, <2>7 DEF Typed, TypeOK, Row, JobState
<1>2. ASSUME NEW c \in Contents, Check(h, c) PROVE Typed'
  <2>1. hook' \in [Hooks -> SUBSET Contents]
    BY <1>2 DEF Check, Typed, TypeOK
  <2> QED
    BY <1>2, <2>1 DEF Check, Typed, TypeOK, TriesLeft, Numbers
<1> QED
  BY <1>1, <1>2 DEF HookStep, CheckPasses, CheckFails

LEMMA TimeTyped == ASSUME Typed, HalfMinute \/ Minute PROVE Typed'
<1>1. rows' \in [Numbers -> Row]
  <2>1. ASSUME NEW n \in Numbers, NEW stale \in BOOLEAN
        PROVE  /\ [rows[n] EXCEPT !.recent = FALSE] \in Row
               /\ [rows[n] EXCEPT !.recent = FALSE, !.stale = stale] \in Row
    BY RowsAreNumbered DEF Row, Typed
  <2>2. CASE HalfMinute
    BY <2>1, <2>2 DEF HalfMinute
  <2>3. CASE Minute
    <3>1. \A n \in Numbers : (rows[n].status = "processing") \in BOOLEAN
      OBVIOUS
    <3>2. \A n \in Numbers : [rows[n] EXCEPT !.recent = FALSE,
                                            !.stale = rows[n].status = "processing"] \in Row
      BY <2>1, <3>1, Zenon
    <3>3. rows' = [n \in Numbers |-> [rows[n] EXCEPT !.recent = FALSE,
                                                   !.stale = rows[n].status = "processing"]]
      BY <2>3, Zenon DEF Minute
    <3> QED
      BY <3>2, <3>3, Zenon
  <2> QED
    BY <2>2, <2>3
<1>2. rows' \in Seq(Row) /\ Len(rows') = Len(rows) /\ Numbers' = Numbers
  BY <1>1, Rewritten, RowsAreNumbered DEF Typed, Numbers
<1>3. breaker' \in Breakers
  BY DEF HalfMinute, Minute, Typed, TypeOK, Breakers
<1>4. job' \in [Jobs -> JobState] /\ TriesLeft'
  <2>1. CASE HalfMinute
    BY <2>1, JobIsTyped DEF HalfMinute, Typed, TypeOK, TriesLeft, JobState
  <2>2. CASE Minute
    <3>1. ASSUME NEW j \in Jobs
          PROVE  job'[j] \in JobState /\ (job'[j].stage = "try" => job'[j].tries # 0)
      <4>1. job[j] \in JobState
        BY JobIsTyped
      <4>2. job'[j] = [job[j] EXCEPT !.seen = [job[j].seen EXCEPT !.tripped = FALSE]]
        BY <2>2 DEF Minute
      <4>3. [job[j].seen EXCEPT !.tripped = FALSE] \in Breakers
        BY <4>1 DEF JobState, Breakers
      <4> QED
        BY <4>1, <4>2, <4>3 DEF JobState, Typed, TriesLeft
    <3>2. job' = [j \in Jobs |-> job'[j]]
      BY <2>2 DEF Minute
    <3> QED
      BY <3>1, <3>2 DEF TriesLeft
  <2> QED
    BY <2>1, <2>2
<1> QED
  BY <1>2, <1>3, <1>4 DEF HalfMinute, Minute, Typed, TypeOK, Row, JobState

LEMMA NextTyped == Typed /\ [Next]_vars => Typed'
<1> SUFFICES ASSUME Typed, [Next]_vars PROVE Typed'
  OBVIOUS
<1>1. CASE UNCHANGED vars
  BY <1>1 DEF vars, Typed, TypeOK, TriesLeft, Numbers
<1> QED
  BY <1>1, HookTyped, RecoverTyped, ClaimTyped, SummarizerTyped, RecordTyped, OutcomeTyped,
     TimeTyped DEF Next, Work

\* The state keeps its shape: a job holds only rows that were enqueued, and the
\* breaker's count stays within the threshold whatever jobs write over each other.
THEOREM TypeCorrectness == Spec => []TypeOK
<1>1. Typed => TypeOK
  BY DEF Typed
<1> QED
  BY <1>1, InitTyped, NextTyped, PTL DEF Spec

-----------------------------------------------------------------------------
(* What is confirmed is summarized, and no row is claimed twice.            *)

\* ConfirmedIsSummarized alone is not inductive: a job that is about to confirm
\* must have handed its summary over.
SummaryInv ==
    /\ ConfirmedIsSummarized
    /\ \A j \in Jobs : job[j].stage = "confirm" => job[j].ids \subseteq summarized

\* ClaimedTwiceIsRecovered holds because a row that a job goes on with is pending
\* again only if it was recovered, and only pending rows are claimed.
ClaimsInv ==
    /\ ClaimedTwiceIsRecovered
    /\ backend = "postgres" =>
         \A j \in Jobs : \A n \in job[j].ids : rows[n].status = "pending" => n \in recovered
    /\ \A j \in Jobs : job[j].stage = "update" => backend = "sqlite"

QueueInv == Typed /\ SummaryInv /\ ClaimsInv

\* No job takes up rows, and none gets to a stage that asks for more.
NoProgress ==
    \A k \in Jobs :
        /\ job'[k].ids \subseteq job[k].ids
        /\ job'[k].stage \in {"confirm", "update"} => job'[k].stage = job[k].stage

LEMMA QuietStep ==
    ASSUME QueueInv, NoProgress, UNCHANGED <<rows, summarized, recovered, backend>>
    PROVE  SummaryInv' /\ ClaimsInv'
<1>1. ConfirmedIsSummarized'
  BY DEF QueueInv, SummaryInv, ConfirmedIsSummarized, Numbers
<1>2. ASSUME NEW j \in Jobs, job'[j].stage = "confirm" PROVE job'[j].ids \subseteq summarized'
  BY <1>2 DEF NoProgress, QueueInv, SummaryInv
<1>3. ClaimedTwiceIsRecovered'
  BY DEF NoProgress, QueueInv, ClaimsInv, ClaimedTwiceIsRecovered
<1>4. ASSUME backend = "postgres", NEW j \in Jobs, NEW n \in job'[j].ids,
             rows'[n].status = "pending"
      PROVE  n \in recovered'
  BY <1>4 DEF NoProgress, QueueInv, ClaimsInv
<1>5. \A j \in Jobs : job'[j].stage = "update" => backend' = "sqlite"
  BY DEF NoProgress, QueueInv, ClaimsInv
<1> QED
  BY <1>1, <1>2, <1>3, <1>4, <1>5 DEF SummaryInv, ClaimsInv

LEMMA OneJobQuiet ==
    ASSUME Typed, NEW j \in Jobs, NEW state, job' = [job EXCEPT ![j] = state],
           state.ids \subseteq job[j].ids,
           state.stage \in {"confirm", "update"} => state.stage = job[j].stage
    PROVE  NoProgress
BY JobIsTyped DEF NoProgress

LEMMA IdleIsQuiet == Idle.ids = {} /\ Idle.stage = "idle"
BY DEF Idle

LEMMA InitQueue == Init => SummaryInv /\ ClaimsInv
<1> SUFFICES ASSUME Init PROVE SummaryInv /\ ClaimsInv
  OBVIOUS
<1>1. Numbers = {}
  BY DEF Init, Numbers
<1>2. \A j \in Jobs : job[j].ids = {} /\ job[j].stage = "idle"
  BY IdleIsQuiet DEF Init
<1> QED
  BY <1>1, <1>2 DEF SummaryInv, ClaimsInv, ConfirmedIsSummarized, ClaimedTwiceIsRecovered

LEMMA SummarizerQueue ==
    ASSUME QueueInv, NEW j \in Jobs,
           Gate(j) \/ Fails(j) \/ Succeeds(j) \/ Record(j) \/ Crash(j)
    PROVE  SummaryInv' /\ ClaimsInv'
<1>1. UNCHANGED <<rows, summarized, recovered, backend>>
  BY DEF Gate, Fails, Succeeds, Record, ReadBreaker, RecordSuccess, RecordFailure, Crash, history
<1>2. job[j] \in JobState /\ job \in [Jobs -> JobState] /\ Typed
  BY JobIsTyped DEF QueueInv
<1>3. ASSUME job' = [job EXCEPT ![j] = Idle] PROVE NoProgress
  BY <1>2, <1>3, IdleIsQuiet, OneJobQuiet
<1>4. ASSUME NEW state, job' = [job EXCEPT ![j] = state], state.ids = job[j].ids,
             state.stage \notin {"confirm", "update"}
      PROVE  NoProgress
  BY <1>2, <1>4, OneJobQuiet
<1>5. NoProgress
  <2>1. CASE Gate(j)
    <3> DEFINE state == [job[j] EXCEPT !.stage = "try", !.tries = Tries]
    <3>1. state.ids = job[j].ids /\ state.stage = "try"
      BY <1>2 DEF JobState
    <3>2. job' = [job EXCEPT ![j] = Idle] \/ job' = [job EXCEPT ![j] = state]
      BY <2>1 DEF Gate
    <3> HIDE DEF state
    <3> QED
      BY <1>3, <1>4, <3>1, <3>2
  <2>2. CASE Fails(j)
    <3> DEFINE state == [job[j] EXCEPT !.tries = job[j].tries - 1,
                                       !.stage = IF job[j].tries = 1 THEN "failed" ELSE "try"]
    <3>1. state.ids = job[j].ids /\ state.stage \in {"try", "failed"}
      BY <1>2 DEF JobState
    <3>2. job' = [job EXCEPT ![j] = state]
      BY <2>2 DEF Fails
    <3> HIDE DEF state
    <3> QED
      BY <1>4, <3>1, <3>2
  <2>3. CASE Succeeds(j)
    <3> DEFINE state == [job[j] EXCEPT !.tries = 0, !.stage = "succeeded"]
    <3>1. state.ids = job[j].ids /\ state.stage = "succeeded"
      BY <1>2 DEF JobState
    <3>2. job' = [job EXCEPT ![j] = state]
      BY <2>3 DEF Succeeds
    <3> HIDE DEF state
    <3> QED
      BY <1>4, <3>1, <3>2
  <2>4. CASE ReadBreaker(j)
    <3> DEFINE state == [job[j] EXCEPT !.seen = breaker,
                                       !.stage = IF job[j].stage = "failed" THEN "trip" ELSE "reset"]
    <3>1. state.ids = job[j].ids /\ state.stage \in {"trip", "reset"}
      BY <1>2 DEF JobState
    <3>2. job' = [job EXCEPT ![j] = state]
      BY <2>4 DEF ReadBreaker
    <3> HIDE DEF state
    <3> QED
      BY <1>4, <3>1, <3>2
  <2>5. CASE RecordSuccess(j)
    <3> DEFINE state == [job[j] EXCEPT !.stage = "land"]
    <3>1. state.ids = job[j].ids /\ state.stage = "land"
      BY <1>2 DEF JobState
    <3>2. job' = [job EXCEPT ![j] = state]
      BY <1>2, <2>5 DEF RecordSuccess, Move
    <3> HIDE DEF state
    <3> QED
      BY <1>4, <3>1, <3>2
  <2>6. CASE RecordFailure(j) \/ Crash(j)
    BY <1>3, <2>6 DEF RecordFailure, AfterFailure, Crash
  <2> QED
    BY <2>1, <2>2, <2>3, <2>4, <2>5, <2>6 DEF Record
<1> QED
  BY <1>1, <1>5, QuietStep

\* Recovery makes rows pending, and says which.
LEMMA RecoverQueue ==
    ASSUME QueueInv, NEW j \in Jobs, Recover(j)
    PROVE  SummaryInv' /\ ClaimsInv'
<1>1. /\ Numbers' = Numbers
      /\ \A n \in Numbers : rows'[n].status =
            IF n \in Stale THEN "pending" ELSE rows[n].status
  <2>1. rows \in [Numbers -> Row]
    BY RowsAreNumbered DEF QueueInv, Typed
  <2>2. \A n \in Numbers : rows'[n] =
            IF n \in Stale THEN [rows[n] EXCEPT !.status = "pending", !.stale = FALSE] ELSE rows[n]
    BY DEF Recover
  <2> QED
    BY <2>1, <2>2 DEF Recover, Row, Numbers
<1>2. recovered' = recovered \cup Stale /\ UNCHANGED <<summarized, backend>>
  BY DEF Recover
<1>3. \A k \in Jobs : job'[k].ids = job[k].ids /\ job'[k].stage \in {"claim", job[k].stage}
  BY JobIsTyped DEF Recover, Move, QueueInv, JobState
<1>4. ConfirmedIsSummarized'
  BY <1>1, <1>2 DEF QueueInv, SummaryInv, ConfirmedIsSummarized
<1>5. \A k \in Jobs : job[k].ids \subseteq Numbers
  BY JobIsTyped DEF QueueInv, JobState
<1>6. ASSUME backend = "postgres", NEW k \in Jobs, NEW n \in job'[k].ids,
             rows'[n].status = "pending"
      PROVE  n \in recovered'
  BY <1>1, <1>2, <1>3, <1>5, <1>6 DEF QueueInv, ClaimsInv
<1>7. ClaimedTwiceIsRecovered'
  BY <1>2, <1>3 DEF QueueInv, ClaimsInv, ClaimedTwiceIsRecovered
<1> QED
  BY <1>2, <1>3, <1>4, <1>6, <1>7 DEF QueueInv, SummaryInv, ClaimsInv

LEMMA ClaimQueue ==
    ASSUME QueueInv, NEW j \in Jobs, Claim(j)
    PROVE  SummaryInv' /\ ClaimsInv'
<1>1. UNCHANGED <<summarized, recovered, backend>> /\ Claimable \subseteq Numbers
  BY DEF Claim, ClaimPostgres, SelectSqlite, UpdateSqlite, history, Claimable, Pending
<1>2. job[j] \in JobState /\ job \in [Jobs -> JobState]
  BY JobIsTyped DEF QueueInv
<1>3. ASSUME NEW ids \in SUBSET Numbers
      PROVE  /\ DOMAIN Claimed(ids) = Numbers
             /\ \A n \in Numbers : Claimed(ids)[n].status =
                  IF n \in ids THEN "processing" ELSE rows[n].status
  BY RowsAreNumbered DEF Claimed, Row, QueueInv, Typed
<1>4. ASSUME NEW ids \in SUBSET Numbers, rows' = Claimed(ids)
      PROVE  ConfirmedIsSummarized'
  BY <1>1, <1>3, <1>4 DEF QueueInv, SummaryInv, ConfirmedIsSummarized, Numbers
<1>5. CASE ClaimPostgres(j)
  <2>1. PICK ids \in SUBSET Claimable :
          /\ rows' = Claimed(ids)
          /\ job' = [job EXCEPT ![j] = IF ids = {} THEN Idle
                                       ELSE [Idle EXCEPT !.stage = "gate", !.ids = ids]]
    BY <1>5 DEF ClaimPostgres
  <2>2. /\ job'[j].ids = ids /\ job'[j].stage \in {"idle", "gate"}
        /\ \A k \in Jobs \ {j} : job'[k] = job[k]
    BY <1>2, <2>1 DEF Idle
  <2>3. \A n \in ids : n \in Numbers /\ rows[n].status = "pending" /\ rows'[n].status = "processing"
    BY <1>1, <1>3, <2>1 DEF Claimable, Pending
  <2>4. \A n \in Numbers \ ids : rows'[n].status = rows[n].status
    BY <1>1, <1>3, <2>1
  <2>5. \A k \in Jobs : job[k].ids \subseteq Numbers
    BY <1>2 DEF JobState
  <2>6. ConfirmedIsSummarized'
    BY <1>1, <1>4, <2>1
  <2>7. ASSUME backend = "postgres", NEW k \in Jobs, NEW n \in job'[k].ids,
               rows'[n].status = "pending"
        PROVE  n \in recovered'
    BY <1>1, <2>2, <2>3, <2>4, <2>5, <2>7 DEF QueueInv, ClaimsInv
  <2>8. \A k \in Jobs \ {j} : job[k].ids \cap ids \subseteq recovered
    BY <1>5, <2>3 DEF ClaimPostgres, QueueInv, ClaimsInv
  <2>9. ClaimedTwiceIsRecovered'
    BY <1>1, <2>2, <2>8 DEF QueueInv, ClaimsInv, ClaimedTwiceIsRecovered
  <2>10. \A k \in Jobs : job'[k].stage = "confirm" => job'[k].ids \subseteq summarized'
    BY <1>1, <2>2 DEF QueueInv, SummaryInv
  <2>11. \A k \in Jobs : job'[k].stage = "update" => backend' = "sqlite"
    BY <1>1, <2>2 DEF QueueInv, ClaimsInv
  <2> QED
    BY <1>1, <2>6, <2>7, <2>9, <2>10, <2>11 DEF SummaryInv, ClaimsInv
<1>6. CASE SelectSqlite(j)
  <2>1. PICK ids \in SUBSET Claimable :
          job' = [job EXCEPT ![j] = IF ids = {} THEN Idle
                                    ELSE [Idle EXCEPT !.stage = "update", !.ids = ids]]
    BY <1>6 DEF SelectSqlite
  <2>2. /\ job'[j].stage \in {"idle", "update"}
        /\ \A k \in Jobs \ {j} : job'[k] = job[k]
    BY <1>2, <2>1 DEF Idle
  <2>3. rows' = rows /\ backend = "sqlite"
    BY <1>6 DEF SelectSqlite
  <2> QED
    BY <1>1, <2>2, <2>3 DEF QueueInv, SummaryInv, ClaimsInv, ConfirmedIsSummarized,
       ClaimedTwiceIsRecovered, Numbers
<1>7. CASE UpdateSqlite(j)
  <2>1. rows' = Claimed(job[j].ids) /\ job[j].ids \in SUBSET Numbers
    BY <1>2, <1>7 DEF UpdateSqlite, JobState
  <2>2. backend = "sqlite"
    BY <1>7 DEF UpdateSqlite, QueueInv, ClaimsInv
  <2>3. /\ job'[j].stage = "gate" /\ \A k \in Jobs \ {j} : job'[k] = job[k]
    BY <1>2, <1>7 DEF UpdateSqlite, Move, JobState
  <2>4. ConfirmedIsSummarized'
    BY <1>4, <2>1
  <2> QED
    BY <1>1, <2>2, <2>3, <2>4 DEF QueueInv, SummaryInv, ClaimsInv, ClaimedTwiceIsRecovered
<1> QED
  BY <1>5, <1>6, <1>7 DEF Claim

LEMMA OutcomeQueue ==
    ASSUME QueueInv, NEW j \in Jobs, Land(j) \/ Confirm(j)
    PROVE  SummaryInv' /\ ClaimsInv'
<1>1. job[j] \in JobState /\ job \in [Jobs -> JobState] /\ job[j].ids \subseteq Numbers
  BY JobIsTyped DEF QueueInv, JobState
<1>2. CASE Land(j)
  <2>1. /\ job'[j].ids = job[j].ids /\ job'[j].stage = "confirm"
        /\ \A k \in Jobs \ {j} : job'[k] = job[k]
    BY <1>1, <1>2 DEF Land, Move, JobState
  <2>2. summarized' = summarized \cup job[j].ids /\ UNCHANGED <<rows, recovered, backend>>
    BY <1>2 DEF Land
  <2>3. \A k \in Jobs : job'[k].stage = "confirm" => job'[k].ids \subseteq summarized'
    BY <2>1, <2>2 DEF QueueInv, SummaryInv
  <2>4. ConfirmedIsSummarized'
    BY <2>2 DEF QueueInv, SummaryInv, ConfirmedIsSummarized, Numbers
  <2>5. \A k \in Jobs : job'[k].ids = job[k].ids
    BY <2>1
  <2>6. ClaimsInv'
    BY <2>1, <2>2, <2>5 DEF QueueInv, ClaimsInv, ClaimedTwiceIsRecovered
  <2> QED
    BY <2>3, <2>4, <2>6 DEF SummaryInv
<1>3. CASE Confirm(j)
  <2>1. /\ Numbers' = Numbers
        /\ \A n \in Numbers : rows'[n].status =
             IF n \in job[j].ids THEN "confirmed" ELSE rows[n].status
    <3>1. rows \in [Numbers -> Row]
      BY RowsAreNumbered DEF QueueInv, Typed
    <3>2. \A n \in Numbers : rows'[n] =
             IF n \in job[j].ids THEN [rows[n] EXCEPT !.status = "confirmed", !.stale = FALSE]
             ELSE rows[n]
      BY <1>3 DEF Confirm
    <3> QED
      BY <1>3, <3>1, <3>2 DEF Confirm, Row, Numbers
  <2>2. UNCHANGED <<summarized, recovered, backend>> /\ job[j].ids \subseteq summarized
    BY <1>3 DEF Confirm, history, QueueInv, SummaryInv
  <2>3. job'[j].ids = {} /\ job'[j].stage = "idle" /\ \A k \in Jobs \ {j} : job'[k] = job[k]
    BY <1>1, <1>3, IdleIsQuiet DEF Confirm
  <2>4. ConfirmedIsSummarized'
    BY <2>1, <2>2 DEF QueueInv, SummaryInv, ConfirmedIsSummarized
  <2>5. \A k \in Jobs : job[k].ids \subseteq Numbers
    BY <1>1 DEF JobState
  <2>6. ASSUME backend = "postgres", NEW k \in Jobs, NEW n \in job'[k].ids,
               rows'[n].status = "pending"
        PROVE  n \in recovered'
    BY <2>1, <2>2, <2>3, <2>5, <2>6 DEF QueueInv, ClaimsInv
  <2>7. ClaimedTwiceIsRecovered'
    BY <2>2, <2>3 DEF QueueInv, ClaimsInv, ClaimedTwiceIsRecovered
  <2> QED
    BY <2>2, <2>3, <2>4, <2>6, <2>7 DEF QueueInv, SummaryInv, ClaimsInv
<1> QED
  BY <1>2, <1>3

LEMMA HookQueue ==
    ASSUME QueueInv, NEW h \in Hooks, HookStep(h)
    PROVE  SummaryInv' /\ ClaimsInv'
<1>1. UNCHANGED <<summarized, recovered, backend, job>>
  BY DEF HookStep, CheckPasses, CheckFails, Check, Enqueue, history
<1>2. CASE Enqueue(h)
  <2>1. PICK c \in hook[h] : rows' = Append(rows, Fresh(c))
    BY <1>2 DEF Enqueue
  <2>2. c \in Contents /\ Fresh(c) \in Row /\ Fresh(c).status = "pending"
    BY DEF QueueInv, Typed, TypeOK, Fresh, Row
  <2>3. rows \in Seq(Row) /\ Numbers = 1..Len(rows) /\ Len(rows) \in Nat
    BY RowsAreNumbered DEF QueueInv, Typed
  <2>4. /\ \A n \in Numbers : rows'[n] = rows[n]
        /\ rows'[Len(rows) + 1] = Fresh(c)
        /\ Numbers' = Numbers \cup {Len(rows) + 1}
    <3>1. /\ rows' \in Seq(Row) /\ Len(rows') = Len(rows) + 1
          /\ \A i \in 1..Len(rows) : rows'[i] = rows[i]
          /\ rows'[Len(rows) + 1] = Fresh(c)
      BY <2>1, <2>2, <2>3, AppendProperties
    <3>2. Numbers' = 1..Len(rows')
      BY <3>1, LenProperties DEF Numbers
    <3> QED
      BY <2>3, <3>1, <3>2
  <2>5. ConfirmedIsSummarized'
    BY <1>1, <2>2, <2>4 DEF QueueInv, SummaryInv, ConfirmedIsSummarized
  <2>6. \A k \in Jobs : job[k].ids \subseteq Numbers
    BY JobIsTyped DEF QueueInv, JobState
  <2>7. ASSUME backend = "postgres", NEW k \in Jobs, NEW n \in job'[k].ids,
               rows'[n].status = "pending"
        PROVE  n \in recovered'
    BY <1>1, <2>4, <2>6, <2>7 DEF QueueInv, ClaimsInv
  <2> QED
    BY <1>1, <2>5, <2>7 DEF QueueInv, SummaryInv, ClaimsInv, ClaimedTwiceIsRecovered
<1>3. CASE rows' = rows
  BY <1>1, <1>3, QuietStep DEF NoProgress
<1> QED
  BY <1>2, <1>3 DEF HookStep, CheckPasses, CheckFails, Check

LEMMA TimeQueue == ASSUME QueueInv, HalfMinute \/ Minute PROVE SummaryInv' /\ ClaimsInv'
<1>1. UNCHANGED <<summarized, recovered, backend>>
  BY DEF HalfMinute, Minute, history
<1>2. Numbers' = Numbers /\ \A n \in Numbers : rows'[n].status = rows[n].status
  <2>1. rows \in [Numbers -> Row]
    BY RowsAreNumbered DEF QueueInv, Typed
  <2>2. CASE HalfMinute
    <3>1. rows' = [n \in Numbers |-> [rows[n] EXCEPT !.recent = FALSE]]
      BY <2>2 DEF HalfMinute
    <3> QED
      BY <2>1, <3>1 DEF Row, Numbers
  <2>3. CASE Minute
    <3>1. rows' = [n \in Numbers |-> [rows[n] EXCEPT !.recent = FALSE,
                                                     !.stale = rows[n].status = "processing"]]
      BY <2>3 DEF Minute
    <3>2. DOMAIN rows' = Numbers
      BY <3>1
    <3>3. ASSUME NEW n \in Numbers PROVE rows'[n].status = rows[n].status
      BY <2>1, <3>1 DEF Row
    <3> QED
      BY <3>2, <3>3 DEF Numbers
  <2> QED
    BY <2>2, <2>3
<1>3. \A k \in Jobs : job'[k].ids = job[k].ids /\ job'[k].stage = job[k].stage
  <2>1. \A k \in Jobs : job[k] \in JobState
    BY JobIsTyped DEF QueueInv
  <2> QED
    BY <2>1 DEF HalfMinute, Minute, JobState
<1>4. \A k \in Jobs : job[k].ids \subseteq Numbers
  BY JobIsTyped DEF QueueInv, JobState
<1>5. ConfirmedIsSummarized'
  BY <1>1, <1>2 DEF QueueInv, SummaryInv, ConfirmedIsSummarized
<1>6. ClaimsInv'
  BY <1>1, <1>2, <1>3, <1>4 DEF QueueInv, ClaimsInv, ClaimedTwiceIsRecovered
<1> QED
  BY <1>1, <1>3, <1>5, <1>6 DEF QueueInv, SummaryInv

LEMMA NextQueue == QueueInv /\ [Next]_vars => QueueInv'
<1> SUFFICES ASSUME QueueInv, [Next]_vars PROVE QueueInv'
  OBVIOUS
<1>1. Typed'
  BY NextTyped DEF QueueInv
<1>2. CASE UNCHANGED vars
  BY <1>1, <1>2, QuietStep DEF NoProgress, vars, history, QueueInv
<1>3. CASE Next
  BY <1>1, <1>3, HookQueue, RecoverQueue, ClaimQueue, SummarizerQueue, OutcomeQueue, TimeQueue
  DEF Next, Work, QueueInv
<1> QED
  BY <1>2, <1>3

\* Nothing captured is thrown away: an observation is confirmed only after a summary
\* with it was handed to the store, whatever jobs crashed, were late, or claimed it too.
THEOREM ConfirmedAreSummarized == Spec => []ConfirmedIsSummarized
<1>1. Init => QueueInv
  BY InitTyped, InitQueue DEF QueueInv
<1>2. QueueInv => ConfirmedIsSummarized
  BY DEF QueueInv, SummaryInv
<1> QED
  BY <1>1, <1>2, NextQueue, PTL DEF Spec

\* Where claiming is one statement, two jobs go on with one observation only after it
\* was handed back as stale, for any number of jobs.
THEOREM ClaimsAreTakenOnce == Spec => []ClaimedTwiceIsRecovered
<1>1. Init => QueueInv
  BY InitTyped, InitQueue DEF QueueInv
<1>2. QueueInv => ClaimedTwiceIsRecovered
  BY DEF QueueInv, ClaimsInv
<1> QED
  BY <1>1, <1>2, NextQueue, PTL DEF Spec

-----------------------------------------------------------------------------
(* The breaker. *)

LEMMA NextBreaker == Typed /\ BreakerCountsTheStreak /\ [Next]_vars => BreakerCountsTheStreak'
<1> SUFFICES ASSUME Typed, BreakerCountsTheStreak, [Next]_vars, ~collided'
             PROVE  breaker'.failures = streak'
  BY DEF BreakerCountsTheStreak
<1>1. breaker \in Breakers /\ TripThreshold \in Nat \ {0}
  BY QueueAssumption DEF Typed, TypeOK
<1>2. CASE UNCHANGED <<breaker, streak, collided>>
  BY <1>2 DEF BreakerCountsTheStreak
<1>3. CASE Minute
  BY <1>1, <1>3 DEF Minute, history, BreakerCountsTheStreak, Breakers
<1>4. ASSUME NEW j \in Jobs, RecordSuccess(j) PROVE breaker'.failures = streak'
  <2>1. ~collided /\ job[j].seen.failures = breaker.failures
    BY <1>4 DEF RecordSuccess, Outdated
  <2> QED
    BY <1>4, <2>1 DEF RecordSuccess, Closed
<1>5. ASSUME NEW j \in Jobs, RecordFailure(j) PROVE breaker'.failures = streak'
  <2>1. ~collided /\ job[j].seen.failures = breaker.failures
    BY <1>5 DEF RecordFailure, Outdated
  <2>2. job[j].seen \in Breakers
    BY JobIsTyped DEF JobState
  <2>3. breaker' = Tripped(job[j].seen) /\ streak = breaker.failures
        /\ streak' = IF streak < TripThreshold THEN streak + 1 ELSE streak
    BY <1>5, <2>1 DEF RecordFailure, BreakerCountsTheStreak
  <2>4. breaker.failures \in 0..TripThreshold
    BY <1>1 DEF Breakers
  <2> QED
    BY <1>1, <2>1, <2>2, <2>3, <2>4, TrippedTyped
<1> QED
  <2>1. CASE Next
    <3>1. CASE \E j \in Jobs : RecordSuccess(j) \/ RecordFailure(j)
      BY <1>4, <1>5, <3>1
    <3>2. CASE ~ \E j \in Jobs : RecordSuccess(j) \/ RecordFailure(j)
      BY <1>2, <1>3, <2>1, <3>2
      DEF Next, HookStep, CheckPasses, CheckFails, Check, Enqueue, Work, Recover, Claim,
          ClaimPostgres, SelectSqlite, UpdateSqlite, Gate, Fails, Succeeds, Record, ReadBreaker,
          Land, Confirm, Crash, HalfMinute, history
    <3> QED
      BY <3>1, <3>2
  <2>2. CASE UNCHANGED vars
    BY <1>2, <2>2 DEF vars, history
  <2> QED
    BY <2>1, <2>2

\* The breaker file counts the failures since the last success as long as no two jobs
\* wrote it on one read, for any number of jobs and any threshold.
THEOREM BreakerIsAccurate == Spec => []BreakerCountsTheStreak
<1>1. Init => Typed /\ BreakerCountsTheStreak
  BY InitTyped DEF Init, BreakerCountsTheStreak, Closed
<1> QED
  BY <1>1, NextTyped, NextBreaker, PTL DEF Spec

=============================================================================
