-------------------------- MODULE ObservationQueue --------------------------
(***************************************************************************)
(* Auto-capture.  Every tool call of an agent runs the hook `runar         *)
(* enqueue`, which puts an observation on the queue; the end of a session  *)
(* runs `runar summarize`, which claims observations, has a summarizer     *)
(* synthesize entries from them, stores those and confirms the             *)
(* observations.  Each hook and each job is a process of its own; a        *)
(* circuit breaker, a file they share, keeps jobs off a failing            *)
(* summarizer.                                                             *)
(*                                                                         *)
(* There is no clock: time passes in steps of half a minute, which lets    *)
(* equal observations in again, and of a minute, which also makes every    *)
(* claim stale and ends a trip.                                            *)
(***************************************************************************)
EXTENDS Naturals, Sequences, FiniteSets

CONSTANTS
    Contents,       \* tool calls, up to their content hash
    Hooks,          \* processes that enqueue
    Jobs,           \* processes that summarize
    Backends,       \* storage backends of the run: "sqlite", "postgres"
    BatchLimit,     \* observations a job claims at most
    TripThreshold,  \* TRIP_THRESHOLD
    Tries,          \* number of RETRY_BACKOFFS_MS
    MaxRows,        \* bound: observations ever enqueued
    MaxCrashes      \* bound: jobs that die

ASSUME QueueAssumption ==
    /\ Backends \subseteq {"sqlite", "postgres"}
    /\ BatchLimit \in Nat \ {0}
    /\ TripThreshold \in Nat \ {0}
    /\ Tries \in Nat \ {0}
    /\ MaxRows \in Nat
    /\ MaxCrashes \in Nat

VARIABLES
    backend,     \* where pending_observations is; it does not change
    rows,        \* pending_observations, oldest first
    breaker,     \* the breaker file: consecutive failures, and whether it is tripped
    hook,        \* [Hooks -> contents it is about to insert]
    job,         \* [Jobs -> what the job is doing]
    crashes,     \* jobs that died so far
    summarized,  \* history: rows in a summary that was handed to the store
    recovered,   \* history: rows handed back as stale
    streak,      \* history: failures recorded since a success was
    collided     \* history: whether two jobs wrote the breaker file on one read

history == <<summarized, recovered, streak, collided>>
vars == <<backend, rows, breaker, hook, job, crashes, history>>

-----------------------------------------------------------------------------
\* recent: less than half a minute old; stale: claimed more than a minute ago.
Fresh(c) == [content |-> c, status |-> "pending", recent |-> TRUE, stale |-> FALSE]

Closed == [failures |-> 0, tripped |-> FALSE]

\* stage: where run_summarize stands, and ids: the observations it goes on with;
\* tries: attempts left; seen: what it read of the breaker file.
Idle == [stage |-> "idle", ids |-> {}, tries |-> 0, seen |-> Closed]

Init ==
    /\ backend \in Backends
    /\ rows = <<>>
    /\ breaker = Closed
    /\ hook = [h \in Hooks |-> {}]
    /\ job = [j \in Jobs |-> Idle]
    /\ crashes = 0
    /\ summarized = {}
    /\ recovered = {}
    /\ streak = 0
    /\ collided = FALSE

Numbers == DOMAIN rows

-----------------------------------------------------------------------------
(* run_enqueue *)

\* check_observation_duplicate finds an equal observation in the window; a check
\* that fails lets the observation pass.
Check(h, c) ==
    /\ hook[h] = {}
    /\ Len(rows) < MaxRows
    /\ hook' = [hook EXCEPT ![h] = {c}]
    /\ UNCHANGED <<backend, rows, breaker, job, crashes, history>>

Duplicate(c) == \E n \in Numbers : rows[n].content = c /\ rows[n].recent

CheckPasses(h, c) == ~Duplicate(c) /\ Check(h, c)

CheckFails(h, c) == Duplicate(c) /\ Check(h, c)

Enqueue(h) ==
    /\ Len(rows) < MaxRows
    /\ \E c \in hook[h] : rows' = Append(rows, Fresh(c))
    /\ hook' = [hook EXCEPT ![h] = {}]
    /\ UNCHANGED <<backend, breaker, job, crashes, history>>

-----------------------------------------------------------------------------
(* run_summarize: the queue *)

Pending == {n \in Numbers : rows[n].status = "pending"}

\* The first of a set of rows, oldest first.
IsBatch(ids, candidates) ==
    /\ ids \subseteq candidates
    /\ Cardinality(ids) <= BatchLimit
    /\ ids # candidates => Cardinality(ids) = BatchLimit
    /\ \A n \in ids, k \in candidates \ ids : n < k

Move(j, stage) == job' = [job EXCEPT ![j].stage = stage]

\* Slip: only rows that are pending are looked at.
PendingStale == {n \in Numbers : rows[n].status = "pending" /\ rows[n].stale}

Stale == {n \in Numbers : rows[n].status = "processing" /\ rows[n].stale}

\* recover_stale_observations, which every job begins with.
Recover(j) ==
    /\ job[j] = Idle
    /\ rows # <<>>
    /\ rows' = [n \in Numbers |->
                    IF n \in Stale THEN [rows[n] EXCEPT !.status = "pending", !.stale = FALSE]
                    ELSE rows[n]]
    /\ recovered' = recovered \cup Stale
    /\ Move(j, "claim")
    /\ UNCHANGED <<backend, breaker, hook, crashes, summarized, streak, collided>>

\* Slip: rows somebody works on are claimed again.
AnyUnconfirmed == {n \in Numbers : rows[n].status # "confirmed"}

Claimable == Pending

Claimed(ids) ==
    [n \in Numbers |-> IF n \in ids THEN [rows[n] EXCEPT !.status = "processing", !.stale = FALSE]
                       ELSE rows[n]]

\* claim_observations of postgres: one statement, FOR UPDATE SKIP LOCKED.
ClaimPostgres(j) ==
    /\ backend = "postgres"
    /\ job[j].stage = "claim"
    /\ \E ids \in SUBSET Claimable :
        /\ IsBatch(ids, Claimable)
        /\ rows' = Claimed(ids)
        /\ job' = [job EXCEPT ![j] = IF ids = {} THEN Idle
                                     ELSE [Idle EXCEPT !.stage = "gate", !.ids = ids]]
    /\ UNCHANGED <<backend, breaker, hook, crashes, history>>

\* claim_observations of sqlite: the ids are selected in one statement,
SelectSqlite(j) ==
    /\ backend = "sqlite"
    /\ job[j].stage = "claim"
    /\ \E ids \in SUBSET Claimable :
        /\ IsBatch(ids, Claimable)
        /\ job' = [job EXCEPT ![j] = IF ids = {} THEN Idle
                                     ELSE [Idle EXCEPT !.stage = "update", !.ids = ids]]
    /\ UNCHANGED <<backend, rows, breaker, hook, crashes, history>>

\* and updated in another, whatever has become of them.
UpdateSqlite(j) ==
    /\ job[j].stage = "update"
    /\ rows' = Claimed(job[j].ids)
    /\ Move(j, "gate")
    /\ UNCHANGED <<backend, breaker, hook, crashes, history>>

-----------------------------------------------------------------------------
(* run_summarize: the summarizer, through breaker::with_retry *)

\* A tripped breaker ends the job; what it claimed goes stale.
Gate(j) ==
    /\ job[j].stage = "gate"
    /\ job' = [job EXCEPT ![j] = IF breaker.tripped THEN Idle
                                 ELSE [@ EXCEPT !.stage = "try", !.tries = Tries]]
    /\ UNCHANGED <<backend, rows, breaker, hook, crashes, history>>

Fails(j) ==
    /\ job[j].stage = "try"
    /\ job' = [job EXCEPT ![j] = [@ EXCEPT !.tries = job[j].tries - 1,
                                           !.stage = IF job[j].tries = 1 THEN "failed" ELSE "try"]]
    /\ UNCHANGED <<backend, rows, breaker, hook, crashes, history>>

Succeeds(j) ==
    /\ job[j].stage = "try"
    /\ job' = [job EXCEPT ![j] = [@ EXCEPT !.tries = 0, !.stage = "succeeded"]]
    /\ UNCHANGED <<backend, rows, breaker, hook, crashes, history>>

\* record_success and record_failure read the file first,
ReadBreaker(j) ==
    /\ job[j].stage \in {"succeeded", "failed"}
    /\ job' = [job EXCEPT ![j] = [@ EXCEPT !.seen = breaker,
                                           !.stage = IF job[j].stage = "failed" THEN "trip" ELSE "reset"]]
    /\ UNCHANGED <<backend, rows, breaker, hook, crashes, history>>

Outdated(j) == collided' = (collided \/ job[j].seen.failures # breaker.failures)

\* and write it if there is something to clear,
RecordSuccess(j) ==
    /\ job[j].stage = "reset"
    /\ breaker' = IF job[j].seen = Closed THEN breaker ELSE Closed
    /\ streak' = 0
    /\ Outdated(j)
    /\ Move(j, "land")
    /\ UNCHANGED <<backend, rows, hook, crashes, summarized, recovered>>

\* Slip: a job that failed goes on.
AfterFailureGoesOn(j) == [job[j] EXCEPT !.stage = "confirm"]

AfterFailure(j) == Idle

\* Slip: the count goes past the threshold.
TrippedUncapped(seen) ==
    [failures |-> seen.failures + 1,
     tripped |-> seen.tripped \/ seen.failures + 1 >= TripThreshold]

\* Slip: a trip starts the count anew.
TrippedAnew(seen) ==
    [failures |-> IF seen.failures + 1 >= TripThreshold THEN 0 ELSE seen.failures + 1,
     tripped |-> seen.tripped \/ seen.failures + 1 >= TripThreshold]

\* with one more failure, which trips it from the threshold on.  A count beyond
\* the threshold is kept as the threshold.
Tripped(seen) ==
    [failures |-> IF seen.failures < TripThreshold THEN seen.failures + 1 ELSE TripThreshold,
     tripped |-> seen.tripped \/ seen.failures + 1 >= TripThreshold]

RecordFailure(j) ==
    /\ job[j].stage = "trip"
    /\ breaker' = Tripped(job[j].seen)
    /\ streak' = IF streak < TripThreshold THEN streak + 1 ELSE streak
    /\ Outdated(j)
    /\ job' = [job EXCEPT ![j] = AfterFailure(j)]
    /\ UNCHANGED <<backend, rows, hook, crashes, summarized, recovered>>

-----------------------------------------------------------------------------
(* run_summarize: the outcome *)

\* What was synthesized is proposed and the session ended with its summary; an
\* error of either is ignored.
Land(j) ==
    /\ job[j].stage = "land"
    /\ summarized' = summarized \cup job[j].ids
    /\ Move(j, "confirm")
    /\ UNCHANGED <<backend, rows, breaker, hook, crashes, recovered, streak, collided>>

\* confirm_observations, whoever has claimed them since.
Confirm(j) ==
    /\ job[j].stage = "confirm"
    /\ rows' = [n \in Numbers |-> IF n \in job[j].ids THEN [rows[n] EXCEPT !.status = "confirmed", !.stale = FALSE]
                                  ELSE rows[n]]
    /\ job' = [job EXCEPT ![j] = Idle]
    /\ UNCHANGED <<backend, breaker, hook, crashes, history>>

\* A job is killed, or one of its statements fails.
Crash(j) ==
    /\ job[j] # Idle
    /\ crashes < MaxCrashes
    /\ crashes' = crashes + 1
    /\ job' = [job EXCEPT ![j] = Idle]
    /\ UNCHANGED <<backend, rows, breaker, hook, history>>

-----------------------------------------------------------------------------
HalfMinute ==
    /\ rows' = [n \in Numbers |-> [rows[n] EXCEPT !.recent = FALSE]]
    /\ UNCHANGED <<backend, breaker, hook, job, crashes, history>>

Minute ==
    /\ rows' = [n \in Numbers |-> [rows[n] EXCEPT !.recent = FALSE,
                                                  !.stale = rows[n].status = "processing"]]
    /\ breaker' = [breaker EXCEPT !.tripped = FALSE]
    /\ job' = [j \in Jobs |-> [job[j] EXCEPT !.seen.tripped = FALSE]]
    /\ UNCHANGED <<backend, hook, crashes, history>>

HookStep(h) == (\E c \in Contents : CheckPasses(h, c) \/ CheckFails(h, c)) \/ Enqueue(h)

Claim(j) == ClaimPostgres(j) \/ SelectSqlite(j) \/ UpdateSqlite(j)

Record(j) == ReadBreaker(j) \/ RecordSuccess(j) \/ RecordFailure(j)

\* What a job does when the summarizer answers.
Work(j) == Recover(j) \/ Claim(j) \/ Gate(j) \/ Record(j) \/ Land(j) \/ Confirm(j)

Next ==
    \/ \E h \in Hooks : HookStep(h)
    \/ \E j \in Jobs : Work(j) \/ Fails(j) \/ Succeeds(j) \/ Crash(j)
    \/ HalfMinute
    \/ Minute

\* Sessions go on ending, time goes on, and the summarizer does not fail for ever
\* (the heuristic one never does).
Fairness ==
    /\ WF_vars(Minute)
    /\ \A j \in Jobs : WF_vars(Work(j)) /\ SF_vars(Succeeds(j))

Spec == Init /\ [][Next]_vars /\ Fairness

-----------------------------------------------------------------------------
(* Properties. *)

Stages == {"idle", "claim", "update", "gate", "try", "succeeded", "failed", "reset", "trip",
           "land", "confirm"}

Breakers == [failures: 0..TripThreshold, tripped: BOOLEAN]

TypeOK ==
    /\ backend \in Backends
    /\ rows \in Seq([content: Contents, status: {"pending", "processing", "confirmed"},
                     recent: BOOLEAN, stale: BOOLEAN])
    /\ Len(rows) <= MaxRows
    /\ breaker \in Breakers
    /\ hook \in [Hooks -> SUBSET Contents]
    /\ job \in [Jobs -> [stage: Stages, ids: SUBSET Numbers, tries: 0..Tries,
                         seen: Breakers]]
    /\ crashes \in 0..MaxCrashes

\* Nothing captured is thrown away: a confirmed observation is in a summary that
\* was handed to the store (whether the store took it is not looked at).
ConfirmedIsSummarized ==
    \A n \in Numbers : rows[n].status = "confirmed" => n \in summarized

\* Two jobs go on with one observation only after it was handed back as stale, where
\* claiming is one statement.
ClaimedTwiceIsRecovered ==
    backend = "postgres" =>
        \A j, k \in Jobs : j # k => job[j].ids \cap job[k].ids \subseteq recovered

\* The breaker file counts the failures since the last success, as long as no two
\* jobs wrote it on one read.
BreakerCountsTheStreak ==
    ~collided => breaker.failures = streak

\* Every observation is confirmed in the end, where claiming is one statement:
\* neither a crash, nor a tripped breaker, nor another job leaves one behind.
EveryObservationIsConfirmed ==
    backend = "postgres" => <>[](\A n \in Numbers : rows[n].status = "confirmed")

=============================================================================
