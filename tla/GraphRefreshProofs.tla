------------------------- MODULE GraphRefreshProofs -------------------------
(***************************************************************************)
(* Proofs about GraphRefresh, for any files, workers, kinds and bounds.    *)
(***************************************************************************)
EXTENDS GraphRefresh, SequenceTheorems, TLAPS

-----------------------------------------------------------------------------
(* Type correctness. *)

Stages == {"idle", "plan", "steal", "create", "index", "write", "forget", "rebuild", "stamp",
           "unlock"}

Steps == {"lock", "observe", "scan"}

WorkerState ==
    [kind: Kinds \cup {"none"}, plan: Seq(Steps), stage: Stages, full: BOOLEAN,
     observed: Trees, inventory: SUBSET Files, known: Trees, todo: SUBSET Files,
     got: {<<>>} \cup (Files \X Versions), mine: UNION {[D -> Versions] : D \in SUBSET Files},
     holds: BOOLEAN, clean: BOOLEAN]

\* What TypeOK says of a worker, and that it has files to look at only in a pass, writes
\* only a file it has in hand, and removes a lock only when it is about to take it.
WorkerOK(w) ==
    /\ w \in WorkerState
    /\ w.todo \subseteq w.inventory
    /\ w.stage = "idle" <=> w = Idle
    /\ w.stage = "write" => w.got \in Files \X Versions
    /\ w.todo # {} => w.stage \in {"index", "write"}
    /\ w.stage \in {"steal", "create"} => w.plan # <<>> /\ Head(w.plan) = "lock"

Typed ==
    /\ tree \in Trees /\ files \in Trees /\ edges \in Trees /\ baseline \in Trees
    /\ lock \in {"none", "young", "stale"}
    /\ edits \in 0..MaxEdits
    /\ past \subseteq Trees
    /\ DOMAIN worker = Workers
    /\ \A p \in Workers : WorkerOK(worker[p])

LEMMA TypedIsTypeOK == Typed => TypeOK
<1> SUFFICES ASSUME Typed PROVE TypeOK
  OBVIOUS
<1>1. ASSUME NEW p \in Workers
      PROVE  /\ worker[p].kind \in Kinds \cup {"none"}
             /\ worker[p].stage \in Stages
             /\ worker[p].observed \in Trees /\ worker[p].known \in Trees
             /\ worker[p].todo \subseteq worker[p].inventory
             /\ worker[p].stage = "idle" <=> worker[p] = Idle
  BY DEF Typed, WorkerOK, WorkerState
<1>2. ASSUME NEW p \in Workers PROVE DOMAIN worker[p].mine \subseteq Files
  <2>1. worker[p].mine \in UNION {[D -> Versions] : D \in SUBSET Files}
    BY DEF Typed, WorkerOK, WorkerState
  <2> QED
    BY <2>1
<1> QED
  BY <1>1, <1>2 DEF Typed, TypeOK, Stages

LEMMA NothingIsTyped == Nothing \in Trees /\ 0 \in Versions /\ 1 \in Versions
BY RefreshAssumption DEF Nothing, Trees, Versions

LEMMA IdleIsTyped == WorkerOK(Idle)
<1>1. <<>> \in Seq(Steps) /\ <<>> \in UNION {[D -> Versions] : D \in SUBSET Files}
  <2>1. <<>> \in [{} -> Versions]
    OBVIOUS
  <2> QED
    BY <2>1
<1> QED
  BY <1>1, NothingIsTyped DEF WorkerOK, WorkerState, Idle, Stages

LEMMA PlansAreTyped ==
    ASSUME NEW kind \in Kinds
    PROVE  Plan(kind) \in Seq(Steps)
<1>1. CASE kind = "hand"
  BY <1>1 DEF Plan, Steps
<1>2. CASE kind = "auto"
  BY <1>2 DEF Plan, Steps
<1>3. CASE kind = "crawl"
  BY <1>3 DEF Plan, Steps
<1> QED
  BY <1>1, <1>2, <1>3, RefreshAssumption

LEMMA InitTyped == Init => Typed
<1> SUFFICES ASSUME Init PROVE Typed
  OBVIOUS
<1>1. tree \in Trees
  BY NothingIsTyped DEF Init, Trees
<1> QED
  BY <1>1, IdleIsTyped, RefreshAssumption DEF Init, Typed

\* What a step of one worker has to show.
LEMMA WorkerStepTyped ==
    ASSUME Typed, NEW p \in Workers, NEW w, WorkerOK(w), worker' = [worker EXCEPT ![p] = w],
           UNCHANGED <<tree, edits, past>>, files' \in Trees, edges' \in Trees, baseline' \in Trees,
           lock' \in {"none", "young", "stale"}
    PROVE  Typed'
BY DEF Typed

\* A step that is off the list of a worker that has not read any file.
LEMMA DoneIsTyped ==
    ASSUME Typed, NEW p \in Workers, worker[p].stage \in {"plan", "create"}, worker[p].plan # <<>>
    PROVE  /\ WorkerOK(Done(p)) /\ Done(p).stage = "plan"
           /\ Done(p).plan = Tail(worker[p].plan) /\ Done(p).holds = worker[p].holds
<1>1. worker[p] \in WorkerState
  BY DEF Typed, WorkerOK
<1>2. Tail(worker[p].plan) \in Seq(Steps)
  BY <1>1, HeadTailProperties DEF WorkerState
<1> QED
  BY <1>1, <1>2 DEF Typed, WorkerOK, WorkerState, Done, Stages, Idle

-----------------------------------------------------------------------------
(* Steps of one worker that leave the lock file alone. *)

IndexStages == {"index", "write", "forget", "rebuild", "stamp"}

\* A worker that still has to take the lock.
Awaits(w) == \E i \in 1..Len(w.plan) : w.plan[i] = "lock"

\* A worker that indexes, or has nothing of the kind before it.
Past(w) == w.stage \in IndexStages \/ (w.stage = "plan" /\ ~Awaits(w))

\* From v to w a worker neither finds a stale lock, nor takes the lock, nor gets past it.
Quiet(v, w) ==
    /\ w.stage \notin {"steal", "create"}
    /\ w.holds => v.holds
    /\ Past(w) => Past(v) /\ (v.holds => w.holds)

QuietStep(p) ==
    \E w : WorkerOK(w) /\ Quiet(worker[p], w) /\ worker' = [worker EXCEPT ![p] = w]

LEMMA QuietWitness ==
    ASSUME NEW p, NEW w, WorkerOK(w), Quiet(worker[p], w), worker' = [worker EXCEPT ![p] = w]
    PROVE  QuietStep(p)
BY DEF QuietStep

LEMMA TailAwaits ==
    ASSUME NEW s \in Seq(Steps), s # <<>>, Head(s) # "lock",
           NEW i \in 1..Len(s), s[i] = "lock"
    PROVE  i - 1 \in 1..Len(Tail(s)) /\ Tail(s)[i - 1] = "lock"
<1>1. Len(s) \in Nat /\ Head(s) = s[1] /\ Len(Tail(s)) = Len(s) - 1
  BY HeadTailProperties, LenProperties
<1>2. i # 1
  BY <1>1
<1>3. \A k \in 1..Len(Tail(s)) : Tail(s)[k] = s[k + 1]
  BY HeadTailProperties
<1>4. i - 1 \in 1..Len(Tail(s))
  BY <1>1, <1>2
<1>5. Tail(s)[i - 1] = s[(i - 1) + 1]
  BY <1>3, <1>4
<1> QED
  BY <1>1, <1>4, <1>5

LEMMA DoneIsQuiet ==
    ASSUME Typed, NEW p \in Workers, NEW what, what # "lock", Ready(p, what)
    PROVE  Awaits(worker[p]) => Awaits(Done(p))
<1>1. /\ worker[p].plan \in Seq(Steps) /\ worker[p].plan # <<>>
      /\ Head(worker[p].plan) # "lock" /\ Done(p).plan = Tail(worker[p].plan)
  BY DoneIsTyped DEF Ready, Typed, WorkerOK, WorkerState
<1> SUFFICES ASSUME NEW i \in 1..Len(worker[p].plan), worker[p].plan[i] = "lock"
             PROVE  Awaits(Done(p))
  BY DEF Awaits
<1>2. i - 1 \in 1..Len(Done(p).plan) /\ Done(p).plan[i - 1] = "lock"
  BY <1>1, TailAwaits
<1> QED
  BY <1>2 DEF Awaits

LEMMA IdleIsQuiet == ASSUME NEW v PROVE Quiet(v, Idle)
BY DEF Quiet, Idle, Past, IndexStages

LEMMA PlansAwait == ASSUME NEW kind \in Kinds, NEW w, w.plan = Plan(kind) PROVE Awaits(w)
<1>1. CASE kind = "hand"
  <2>1. w.plan = <<"lock", "observe", "scan">>
    BY <1>1 DEF Plan
  <2>2. 1 \in 1..Len(w.plan) /\ w.plan[1] = "lock"
    BY <2>1
  <2> QED
    BY <2>2 DEF Awaits
<1>2. CASE kind = "auto"
  <2>1. w.plan = <<"observe", "lock", "scan">>
    BY <1>2 DEF Plan
  <2>2. 2 \in 1..Len(w.plan) /\ w.plan[2] = "lock"
    BY <2>1
  <2> QED
    BY <2>2 DEF Awaits
<1>3. CASE kind = "crawl"
  <2>1. w.plan = <<"scan", "lock", "observe">>
    BY <1>3 DEF Plan
  <2>2. 2 \in 1..Len(w.plan) /\ w.plan[2] = "lock"
    BY <2>1
  <2> QED
    BY <2>2 DEF Awaits
<1> QED
  BY <1>1, <1>2, <1>3, RefreshAssumption

LEMMA StartQuiet ==
    ASSUME Typed, NEW p \in Workers, NEW kind \in Kinds, NEW full \in BOOLEAN, Start(p, kind, full)
    PROVE  QuietStep(p)
<1> DEFINE w == [Idle EXCEPT !.kind = kind, !.plan = Plan(kind), !.stage = "plan", !.full = full]
<1>1. w.stage = "plan" /\ w.holds = FALSE /\ w.plan = Plan(kind) /\ w # Idle
  BY DEF Idle
<1>2. WorkerOK(w)
  BY <1>1, IdleIsTyped, PlansAreTyped DEF WorkerOK, WorkerState, Idle, Stages
<1>3. worker' = [worker EXCEPT ![p] = w]
  BY DEF Start
<1> HIDE DEF w
<1>4. Quiet(worker[p], w)
  BY <1>1, PlansAwait DEF Quiet, Past, IndexStages
<1> QED
  BY <1>2, <1>3, <1>4, QuietWitness

LEMMA ObserveQuiet == ASSUME Typed, NEW p \in Workers, Observe(p) PROVE QuietStep(p)
<1>1. CASE worker' = [worker EXCEPT ![p] = Idle]
  BY <1>1, IdleIsTyped, IdleIsQuiet, QuietWitness
<1>2. CASE worker' = [worker EXCEPT ![p] = [Done(p) EXCEPT !.observed = tree]]
  <2> DEFINE w == [Done(p) EXCEPT !.observed = tree]
  <2>1. /\ WorkerOK(Done(p)) /\ Done(p).stage = "plan" /\ Done(p).holds = worker[p].holds
        /\ Awaits(worker[p]) => Awaits(Done(p))
    BY DoneIsTyped, DoneIsQuiet DEF Observe, Ready
  <2>2. w.stage = "plan" /\ w.holds = worker[p].holds /\ w.plan = Done(p).plan
    BY <2>1 DEF WorkerOK, WorkerState
  <2>3. WorkerOK(w)
    BY <2>1, <2>2 DEF Typed, WorkerOK, WorkerState, Idle
  <2> HIDE DEF w
  <2>4. Quiet(worker[p], w)
    BY <2>1, <2>2 DEF Quiet, Past, Awaits, IndexStages, Observe, Ready
  <2> QED
    BY <1>2, <2>3, <2>4, QuietWitness DEF w
<1> QED
  BY <1>1, <1>2 DEF Observe

LEMMA ScanQuiet == ASSUME Typed, NEW p \in Workers, Scan(p) PROVE QuietStep(p)
<1> DEFINE stage == IF worker[p].kind = "auto" /\ Present = {} THEN "unlock" ELSE "plan"
           w == [Done(p) EXCEPT !.inventory = Present, !.stage = stage]
<1>1. /\ WorkerOK(Done(p)) /\ Done(p).stage = "plan" /\ Done(p).holds = worker[p].holds
      /\ Awaits(worker[p]) => Awaits(Done(p))
  BY DoneIsTyped, DoneIsQuiet DEF Scan, Ready
<1>2. worker' = [worker EXCEPT ![p] = w]
  BY DEF Scan
<1>3. stage \in {"plan", "unlock"} /\ Present \subseteq Files
  BY DEF Present
<1>4. Done(p).todo = {}
  BY <1>1 DEF WorkerOK
<1> HIDE DEF stage
<1>5. w.stage = stage /\ w.holds = worker[p].holds /\ w.plan = Done(p).plan
  BY <1>1 DEF WorkerOK, WorkerState
<1>6. WorkerOK(w)
  BY <1>1, <1>3, <1>4, <1>5 DEF WorkerOK, WorkerState, Idle, Stages
<1> HIDE DEF w
<1>7. Quiet(worker[p], w)
  BY <1>1, <1>3, <1>5 DEF Quiet, Past, Awaits, IndexStages, Scan, Ready
<1> QED
  BY <1>2, <1>6, <1>7, QuietWitness

\* A pass goes from one stage to another.
LEMMA PassQuiet ==
    ASSUME Typed, NEW p \in Workers, Indexing(p), NEW w, WorkerOK(w),
           w.stage \in IndexStages \cup {"unlock"}, w.holds = worker[p].holds,
           worker' = [worker EXCEPT ![p] = w]
    PROVE  QuietStep(p)
<1>1. Past(worker[p])
  BY DEF Indexing, Past, IndexStages
<1>2. Quiet(worker[p], w)
  BY <1>1 DEF Quiet, IndexStages
<1> QED
  BY <1>2, QuietWitness

LEMMA ReadFileQuiet ==
    ASSUME Typed, NEW p \in Workers, ReadFile(p)
    PROVE  QuietStep(p)
<1>1. PICK f \in worker[p].todo :
        worker' = [worker EXCEPT ![p] =
            [@ EXCEPT !.todo = worker[p].todo \ {f},
                      !.got = IF tree[f] = worker[p].known[f] THEN <<>> ELSE <<f, tree[f]>>,
                      !.stage = IF tree[f] = worker[p].known[f] THEN "index" ELSE "write"]]
  BY DEF ReadFile
<1>2. /\ WorkerOK(worker[p]) /\ worker[p].stage = "index" /\ f \in Files
      /\ tree[f] \in Versions
  BY <1>1 DEF Typed, WorkerOK, WorkerState, ReadFile, Trees
<1>3. CASE tree[f] = worker[p].known[f]
  <2> DEFINE w == [worker[p] EXCEPT !.todo = worker[p].todo \ {f}, !.got = <<>>,
                                    !.stage = "index"]
  <2>1. WorkerOK(w) /\ w.stage = "index" /\ w.holds = worker[p].holds
    BY <1>2 DEF WorkerOK, WorkerState, Stages, Idle
  <2>2. worker' = [worker EXCEPT ![p] = w]
    BY <1>1, <1>3
  <2> HIDE DEF w
  <2> QED
    BY <1>2, <2>1, <2>2, PassQuiet DEF Indexing, IndexStages
<1>4. CASE tree[f] # worker[p].known[f]
  <2> DEFINE w == [worker[p] EXCEPT !.todo = worker[p].todo \ {f}, !.got = <<f, tree[f]>>,
                                    !.stage = "write"]
  <2>1. WorkerOK(w) /\ w.stage = "write" /\ w.holds = worker[p].holds
    BY <1>2 DEF WorkerOK, WorkerState, Stages, Idle
  <2>2. worker' = [worker EXCEPT ![p] = w]
    BY <1>1, <1>4
  <2> HIDE DEF w
  <2> QED
    BY <1>2, <2>1, <2>2, PassQuiet DEF Indexing, IndexStages
<1> QED
  BY <1>3, <1>4

LEMMA WriteFileQuiet ==
    ASSUME Typed, NEW p \in Workers, WriteFile(p)
    PROVE  QuietStep(p) /\ files' \in Trees /\ edges' \in Trees
<1> DEFINE f == worker[p].got[1]
           v == worker[p].got[2]
           mine == [g \in DOMAIN worker[p].mine \cup {f} |->
                       IF g = f THEN v ELSE worker[p].mine[g]]
           w == [worker[p] EXCEPT !.stage = "index", !.got = <<>>, !.mine = mine]
<1>1. WorkerOK(worker[p]) /\ worker[p].stage = "write" /\ f \in Files /\ v \in Versions
  BY DEF Typed, WorkerOK, WriteFile
<1>2. mine \in UNION {[D -> Versions] : D \in SUBSET Files}
  <2>1. worker[p].mine \in UNION {[D -> Versions] : D \in SUBSET Files}
    BY <1>1 DEF WorkerOK, WorkerState
  <2>2. PICK D \in SUBSET Files : worker[p].mine \in [D -> Versions]
    BY <2>1
  <2> HIDE DEF f, v
  <2>3. mine \in [D \cup {f} -> Versions] /\ D \cup {f} \in SUBSET Files
    BY <1>1, <2>2
  <2> QED
    BY <2>3
<1>3. files' = [files EXCEPT ![f] = v] /\ edges' = [edges EXCEPT ![f] = 0]
  BY DEF WriteFile
<1>4. worker' = [worker EXCEPT ![p] = w]
  BY DEF WriteFile
<1> HIDE DEF f, v, mine
<1>5. files' \in Trees /\ edges' \in Trees
  BY <1>1, <1>3, NothingIsTyped DEF Typed, Trees
<1>6. WorkerOK(w) /\ w.stage = "index" /\ w.holds = worker[p].holds
  BY <1>1, <1>2 DEF WorkerOK, WorkerState, Stages, Idle
<1> HIDE DEF w
<1> QED
  BY <1>1, <1>4, <1>5, <1>6, PassQuiet DEF Indexing, IndexStages

LEMMA ForgetQuiet ==
    ASSUME Typed, NEW p \in Workers, Forget(p)
    PROVE  QuietStep(p) /\ files' \in Trees /\ edges' \in Trees
<1> DEFINE w == [worker[p] EXCEPT !.stage = "rebuild", !.inventory = {}, !.known = Nothing]
<1>1. WorkerOK(worker[p]) /\ worker[p].stage = "index" /\ worker[p].todo = {}
  BY DEF Typed, Forget
<1>2. worker' = [worker EXCEPT ![p] = w]
  BY DEF Forget
<1>3. WorkerOK(w) /\ w.stage = "rebuild" /\ w.holds = worker[p].holds
  BY <1>1, NothingIsTyped DEF WorkerOK, WorkerState, Stages, Idle
<1>4. files' \in Trees /\ edges' \in Trees
  BY NothingIsTyped DEF Forget, Typed, Trees
<1> HIDE DEF w
<1> QED
  BY <1>1, <1>2, <1>3, <1>4, PassQuiet DEF Indexing, IndexStages

LEMMA RebuildQuiet ==
    ASSUME Typed, NEW p \in Workers, Rebuild(p)
    PROVE  QuietStep(p) /\ edges' \in Trees
<1> DEFINE w == [worker[p] EXCEPT !.stage = "stamp", !.mine = <<>>]
<1>1. WorkerOK(worker[p]) /\ worker[p].stage = "rebuild"
  BY DEF Typed, Rebuild
<1>2. worker' = [worker EXCEPT ![p] = w]
  BY DEF Rebuild
<1>3. WorkerOK(w) /\ w.stage = "stamp" /\ w.holds = worker[p].holds
  <2>1. <<>> \in UNION {[D -> Versions] : D \in SUBSET Files}
    BY IdleIsTyped DEF WorkerOK, WorkerState, Idle
  <2> QED
    BY <1>1, <2>1 DEF WorkerOK, WorkerState, Stages, Idle
<1>4. edges' \in Trees
  <2>1. PICK D \in SUBSET Files : worker[p].mine \in [D -> Versions]
    BY <1>1 DEF WorkerOK, WorkerState
  <2> QED
    BY <2>1 DEF Rebuild, Facts, Typed, Trees
<1> HIDE DEF w
<1> QED
  BY <1>1, <1>2, <1>3, <1>4, PassQuiet DEF Indexing, IndexStages

\* A pass that ends, well or not.
LEMMA EndQuiet ==
    ASSUME Typed, NEW p \in Workers, Stamp(p) \/ Fail(p)
    PROVE  QuietStep(p) /\ baseline' \in Trees
<1> DEFINE w == [Idle EXCEPT !.kind = worker[p].kind, !.stage = "unlock",
                             !.holds = worker[p].holds]
<1>1. WorkerOK(worker[p]) /\ Indexing(p)
  BY DEF Typed, Stamp, Fail, Indexing
<1>2. worker' = [worker EXCEPT ![p] = w]
  BY DEF Stamp, Fail
<1>3. WorkerOK(w) /\ w.stage = "unlock" /\ w.holds = worker[p].holds
  <2>1. w.stage = "unlock" /\ w.holds = worker[p].holds /\ w.todo = {} /\ w.inventory = {}
    BY DEF Idle
  <2>2. Idle \in WorkerState /\ Idle.stage = "idle"
    BY IdleIsTyped DEF WorkerOK, Idle
  <2>3. /\ worker[p].kind \in Kinds \cup {"none"} /\ worker[p].holds \in BOOLEAN
        /\ "unlock" \in Stages
    BY <1>1 DEF WorkerOK, WorkerState, Stages
  <2>4. w \in WorkerState
    BY <2>2, <2>3 DEF WorkerState
  <2> HIDE DEF w
  <2> QED
    BY <2>1, <2>2, <2>4 DEF WorkerOK
<1>4. baseline' \in Trees
  BY <1>1 DEF Stamp, Fail, Graph, Typed, WorkerOK, WorkerState
<1> HIDE DEF w
<1> QED
  BY <1>1, <1>2, <1>3, <1>4, PassQuiet DEF IndexStages

LEMMA CrashQuiet == ASSUME Typed, NEW p \in Workers, Crash(p) PROVE QuietStep(p)
BY IdleIsTyped, IdleIsQuiet, QuietWitness DEF Crash

-----------------------------------------------------------------------------
(* The lock. *)

\* Without excuses the lock file is never stale, one worker holds it, and whoever
\* indexes does.
LockInv ==
    ~excused =>
        /\ lock # "stale"
        /\ \A p \in Workers :
            /\ worker[p].stage \notin {"steal", "create"}
            /\ Past(worker[p]) => worker[p].holds
            /\ worker[p].holds => lock = "young"
        /\ \A p, q \in Workers : worker[p].holds /\ worker[q].holds => p = q

Inv == Typed /\ LockInv

LEMMA QuietTyped ==
    ASSUME Typed, NEW p \in Workers, QuietStep(p), UNCHANGED <<tree, edits, past, lock>>,
           files' \in Trees, edges' \in Trees, baseline' \in Trees
    PROVE  Typed'
<1>1. PICK w : WorkerOK(w) /\ worker' = [worker EXCEPT ![p] = w]
  BY DEF QuietStep
<1>2. lock' \in {"none", "young", "stale"}
  BY DEF Typed
<1> QED
  BY <1>1, <1>2, WorkerStepTyped

\* No worker takes the lock or gets past it.
LEMMA QuietLock ==
    ASSUME LockInv, excused' = FALSE => ~excused, UNCHANGED lock,
           \A q \in Workers : Quiet(worker[q], worker'[q])
    PROVE  LockInv'
BY DEF LockInv, Quiet

LEMMA QuietKeepsLock ==
    ASSUME Inv, NEW p \in Workers, QuietStep(p), UNCHANGED <<lock, excused>>
    PROVE  LockInv'
<1> SUFFICES ASSUME ~excused PROVE LockInv'
  BY DEF LockInv
<1>1. PICK w : Quiet(worker[p], w) /\ worker' = [worker EXCEPT ![p] = w]
  BY DEF QuietStep
<1>2. DOMAIN worker = Workers
  BY DEF Inv, Typed
<1>3. ASSUME NEW q \in Workers PROVE Quiet(worker[q], worker'[q])
  BY <1>1, <1>2 DEF Quiet, Inv, LockInv
<1> QED
  BY <1>3, QuietLock DEF Inv

LEMMA QuietActions ==
    ASSUME Inv, NEW p \in Workers,
           \/ \E kind \in Kinds, full \in BOOLEAN : Start(p, kind, full)
           \/ Observe(p) \/ Scan(p)
           \/ ReadFile(p) \/ WriteFile(p) \/ Forget(p) \/ Rebuild(p) \/ Stamp(p)
           \/ Fail(p) \/ Crash(p)
    PROVE  Inv'
<1>1. QuietStep(p)
  BY StartQuiet, ObserveQuiet, ScanQuiet, ReadFileQuiet, WriteFileQuiet, ForgetQuiet,
     RebuildQuiet, EndQuiet, CrashQuiet DEF Inv
<1>2. UNCHANGED <<tree, edits, past, lock, excused>>
  BY DEF Start, Observe, Scan, ReadFile, WriteFile, Forget, Rebuild, Stamp, Fail, Crash, history
<1>3. files \in Trees /\ edges \in Trees /\ baseline \in Trees
  BY DEF Inv, Typed
<1>4. CASE WriteFile(p) \/ Forget(p)
  BY <1>3, <1>4, WriteFileQuiet, ForgetQuiet, QuietTyped, QuietKeepsLock, <1>1, <1>2
  DEF Inv, WriteFile, Forget
<1>5. CASE Rebuild(p)
  BY <1>3, <1>5, RebuildQuiet, QuietTyped, QuietKeepsLock, <1>1, <1>2 DEF Inv, Rebuild
<1>6. CASE Stamp(p) \/ Fail(p)
  BY <1>3, <1>6, EndQuiet, QuietTyped, QuietKeepsLock, <1>1, <1>2 DEF Inv, Stamp, Fail, Graph
<1>7. CASE UNCHANGED Graph
  BY <1>3, <1>7, QuietTyped, QuietKeepsLock, <1>1, <1>2 DEF Inv, Graph
<1> QED
  BY <1>4, <1>5, <1>6, <1>7 DEF Start, Observe, Scan, ReadFile, Crash

\* A pass begins: other workers only lose their mark of being undisturbed.
LEMMA BeginKeepsInv == ASSUME Inv, NEW p \in Workers, Begin(p) PROVE Inv'
<1> DEFINE w == [worker[p] EXCEPT !.stage = "index", !.known = files',
                                  !.todo = worker[p].inventory, !.clean = StartsClean(p)]
           other(q) == [worker[q] EXCEPT !.clean = worker[q].clean /\ q \notin Overlapping(p)]
<1>1. worker' = [q \in Workers |-> IF q = p THEN w ELSE other(q)]
  BY DEF Begin
<1>2. WorkerOK(worker[p]) /\ worker[p].stage = "plan" /\ worker[p].plan = <<>>
  BY DEF Inv, Typed, Begin
<1>3. files' \in Trees /\ edges' \in Trees
  BY NothingIsTyped DEF Begin, Inv, Typed, Cleared
<1>4. StartsClean(p) \in BOOLEAN
  BY DEF StartsClean
<1>5. WorkerOK(w) /\ w.stage = "index" /\ w.holds = worker[p].holds
  BY <1>2, <1>3, <1>4 DEF WorkerOK, WorkerState, Stages, Idle
<1>6. Quiet(worker[p], w)
  <2>1. ~Awaits(worker[p])
    BY <1>2, EmptySeq DEF Awaits
  <2> HIDE DEF w
  <2> QED
    BY <1>2, <1>5, <2>1 DEF Quiet, Past, IndexStages
<1>7. ASSUME NEW q \in Workers, q # p
      PROVE  WorkerOK(other(q)) /\ other(q).stage = worker[q].stage
             /\ other(q).holds = worker[q].holds /\ other(q).plan = worker[q].plan
  <2>1. WorkerOK(worker[q])
    BY DEF Inv, Typed
  <2> DEFINE clean == worker[q].clean /\ q \notin Overlapping(p)
             o == [worker[q] EXCEPT !.clean = clean]
  <2>2. clean \in BOOLEAN
    OBVIOUS
  <2>3. worker[q].stage = "idle" => clean = TRUE
    BY <2>1 DEF WorkerOK, Idle, Overlapping, Indexing
  <2> HIDE DEF clean
  <2>4. /\ o.stage = worker[q].stage /\ o.holds = worker[q].holds /\ o.plan = worker[q].plan
        /\ o.todo = worker[q].todo /\ o.inventory = worker[q].inventory /\ o.got = worker[q].got
        /\ o \in WorkerState
    BY <2>1, <2>2 DEF WorkerOK, WorkerState
  <2>5. ASSUME worker[q].stage = "idle" PROVE o = Idle
    <3>1. worker[q] = Idle /\ clean = TRUE
      BY <2>1, <2>3, <2>5 DEF WorkerOK
    <3>2. [Idle EXCEPT !.clean = TRUE] = Idle
      <4>1. Idle \in WorkerState
        BY IdleIsTyped DEF WorkerOK
      <4>2. Idle.clean = TRUE
        BY DEF Idle
      <4> QED
        BY <4>1, <4>2 DEF WorkerState
    <3> QED
      BY <3>1, <3>2
  <2>6. o = Idle => worker[q].stage = "idle"
    BY <2>4 DEF Idle
  <2>7. other(q) = o
    BY DEF clean
  <2> HIDE DEF o, other
  <2>8. WorkerOK(o)
    BY <2>1, <2>4, <2>5, <2>6 DEF WorkerOK
  <2> QED
    BY <2>4, <2>7, <2>8
<1> HIDE DEF w, other
<1>8. /\ worker'[p] = w
      /\ \A q \in Workers : q # p => worker'[q] = other(q)
      /\ DOMAIN worker' = Workers
  BY <1>1
<1>9. UNCHANGED <<tree, edits, past, lock, baseline, excused>>
  BY DEF Begin
<1>10. Typed'
  BY <1>3, <1>5, <1>7, <1>8, <1>9 DEF Typed, Inv
<1>11. ASSUME ~excused, NEW q \in Workers PROVE Quiet(worker[q], worker'[q])
  <2>1. CASE q = p
    BY <1>6, <1>8, <2>1
  <2>2. CASE q # p
    BY <1>7, <1>8, <1>11, <2>2 DEF Quiet, Past, Awaits, Inv, LockInv
  <2> QED
    BY <2>1, <2>2
<1>12. LockInv'
  <2>1. CASE excused
    BY <1>9, <2>1 DEF LockInv
  <2>2. CASE ~excused
    BY <1>9, <1>11, <2>2, QuietLock DEF Inv
  <2> QED
    BY <2>1, <2>2
<1> QED
  BY <1>10, <1>12 DEF Inv

\* The lock is taken while nobody holds it.
LEMMA TakesLock ==
    ASSUME Inv, NEW p \in Workers, lock = "none", lock' = "young", NEW w, WorkerOK(w),
           w.stage = "plan", w.holds = TRUE, worker' = [worker EXCEPT ![p] = w],
           UNCHANGED excused
    PROVE  LockInv'
<1> SUFFICES ASSUME ~excused PROVE LockInv'
  BY DEF LockInv
<1>1. worker'[p] = w /\ \A q \in Workers : q # p => worker'[q] = worker[q]
  BY DEF Inv, Typed
<1>2. \A q \in Workers : q # p => worker[q].holds = FALSE
  <2>1. \A q \in Workers : ~worker[q].holds /\ worker[q].holds \in BOOLEAN
    BY DEF Inv, LockInv, Typed, WorkerOK, WorkerState
  <2> QED
    BY <2>1
<1>3. \A q \in Workers :
        /\ worker'[q].stage \notin {"steal", "create"}
        /\ Past(worker'[q]) => worker'[q].holds
  BY <1>1 DEF Inv, LockInv
<1>4. \A q, r \in Workers : worker'[q].holds /\ worker'[r].holds => q = r
  BY <1>1, <1>2
<1> QED
  BY <1>3, <1>4 DEF LockInv

LEMMA LockAnew ==
    ASSUME Inv, NEW p \in Workers, worker[p].stage \in {"plan", "create"},
           worker[p].plan # <<>>, lock = "none", lock' = "young",
           worker' = [worker EXCEPT ![p] = [Done(p) EXCEPT !.holds = TRUE]],
           UNCHANGED <<tree, Graph, edits, history>>
    PROVE  Inv'
<1> DEFINE w == [Done(p) EXCEPT !.holds = TRUE]
<1>1. WorkerOK(Done(p)) /\ Done(p).stage = "plan"
  BY DoneIsTyped DEF Inv
<1>2. WorkerOK(w) /\ w.stage = "plan" /\ w.holds = TRUE
  BY <1>1 DEF WorkerOK, WorkerState, Idle
<1>3. UNCHANGED <<files, edges, baseline, past, excused>>
  BY DEF Graph, history
<1>4. worker' = [worker EXCEPT ![p] = w]
  OBVIOUS
<1> HIDE DEF w
<1>5. Typed'
  BY <1>2, <1>3, <1>4, WorkerStepTyped DEF Inv, Typed
<1>6. LockInv'
  BY <1>2, <1>3, <1>4, TakesLock
<1> QED
  BY <1>5, <1>6 DEF Inv

\* A worker that does not get the lock, or does not wait for it.
LEMMA RefusedIsQuiet ==
    ASSUME Typed, NEW p \in Workers, worker[p].stage \in {"plan", "create"},
           worker[p].plan # <<>>, Head(worker[p].plan) = "lock",
           worker' = [worker EXCEPT ![p] = Refused(p)]
    PROVE  QuietStep(p)
<1>1. CASE worker[p].kind = "crawl"
  <2> DEFINE w == [worker[p] EXCEPT !.stage = "plan"]
  <2>1. WorkerOK(worker[p])
    BY DEF Typed
  <2>2. w.stage = "plan" /\ w.holds = worker[p].holds /\ w.plan = worker[p].plan
    BY <2>1 DEF WorkerOK, WorkerState
  <2>3. WorkerOK(w)
    BY <2>1, <2>2 DEF WorkerOK, WorkerState, Stages, Idle
  <2>4. worker' = [worker EXCEPT ![p] = w]
    BY <1>1 DEF Refused
  <2>5. Awaits(w)
    <3>1. worker[p].plan \in Seq(Steps)
      BY <2>1 DEF WorkerOK, WorkerState
    <3>2. 1 \in 1..Len(worker[p].plan) /\ worker[p].plan[1] = "lock"
      BY <3>1, HeadTailProperties, LenProperties, EmptySeq
    <3> QED
      BY <2>2, <3>2 DEF Awaits
  <2> HIDE DEF w
  <2>6. Quiet(worker[p], w)
    BY <2>2, <2>5 DEF Quiet, Past, IndexStages
  <2> QED
    BY <2>3, <2>4, <2>6, QuietWitness
<1>2. CASE worker[p].kind # "crawl"
  BY <1>2, IdleIsTyped, IdleIsQuiet, QuietWitness DEF Refused
<1> QED
  BY <1>1, <1>2

LEMMA TryLockKeepsInv == ASSUME Inv, NEW p \in Workers, TryLock(p) PROVE Inv'
<1>1. /\ worker[p].stage = "plan" /\ worker[p].plan # <<>> /\ Head(worker[p].plan) = "lock"
      /\ WorkerOK(worker[p])
  BY DEF TryLock, Ready, Inv, Typed
<1>2. CASE lock = "none"
  BY <1>1, <1>2, LockAnew DEF TryLock, Creates
<1>3. CASE lock # "none" /\ lock # "stale"
  <2>1. QuietStep(p) /\ UNCHANGED <<lock, tree, files, edges, baseline, edits, past, excused>>
    BY <1>1, <1>3, RefusedIsQuiet DEF TryLock, Creates, Graph, history, Inv
  <2> QED
    BY <2>1, QuietTyped, QuietKeepsLock DEF Inv, Typed
<1>4. CASE lock = "stale"
  <2> DEFINE w == [worker[p] EXCEPT !.stage = "steal"]
  <2>1. worker' = [worker EXCEPT ![p] = w]
    BY <1>4 DEF TryLock, Creates
  <2>2. WorkerOK(w)
    BY <1>1 DEF WorkerOK, WorkerState, Stages, Idle
  <2>3. UNCHANGED <<lock, tree, files, edges, baseline, edits, past, excused>>
    BY <1>4 DEF TryLock, Creates, Graph, history
  <2> HIDE DEF w
  <2>4. Typed'
    BY <2>1, <2>2, <2>3, WorkerStepTyped DEF Inv, Typed
  <2> QED
    BY <1>4, <2>3, <2>4 DEF Inv, LockInv
<1> QED
  BY <1>2, <1>3, <1>4

LEMMA StealKeepsInv == ASSUME Inv, NEW p \in Workers, Steal(p) \/ CreateAgain(p) PROVE Inv'
<1>1. WorkerOK(worker[p]) /\ excused
  BY DEF Inv, Typed, LockInv, Steal, CreateAgain
<1>2. UNCHANGED <<tree, files, edges, baseline, edits, past, excused>>
  BY DEF Steal, CreateAgain, Graph, history
<1>3. CASE Steal(p)
  <2> DEFINE w == [worker[p] EXCEPT !.stage = "create"]
  <2>1. worker' = [worker EXCEPT ![p] = w] /\ lock' = "none"
    BY <1>3 DEF Steal
  <2>2. WorkerOK(w)
    BY <1>1, <1>3 DEF Steal, WorkerOK, WorkerState, Stages, Idle
  <2> HIDE DEF w
  <2> QED
    BY <1>1, <1>2, <2>1, <2>2, WorkerStepTyped DEF Inv, Typed, LockInv
<1>4. CASE CreateAgain(p)
  <2>1. /\ worker[p].stage = "create" /\ worker[p].plan # <<>>
        /\ Head(worker[p].plan) = "lock"
    BY <1>1, <1>4 DEF CreateAgain, WorkerOK
  <2>2. CASE lock = "none"
    BY <1>4, <2>1, <2>2, LockAnew DEF CreateAgain
  <2>3. CASE lock # "none"
    <3>1. QuietStep(p) /\ UNCHANGED lock
      BY <1>4, <2>1, <2>3, RefusedIsQuiet DEF CreateAgain, Inv
    <3> QED
      BY <1>2, <3>1, QuietTyped, QuietKeepsLock DEF Inv, Typed
  <2> QED
    BY <2>2, <2>3
<1> QED
  BY <1>3, <1>4

LEMMA GoOnKeepsInv == ASSUME Inv, NEW p \in Workers, GoOn(p) PROVE Inv'
<1>1. WorkerOK(Done(p))
  BY DoneIsTyped DEF GoOn, Ready, Inv
<1>2. worker' = [worker EXCEPT ![p] = Done(p)]
  BY DEF GoOn
<1>3. UNCHANGED <<tree, files, edges, baseline, edits, past, lock>> /\ excused'
  BY DEF GoOn, Graph
<1> QED
  BY <1>1, <1>2, <1>3, WorkerStepTyped DEF Inv, Typed, LockInv

\* The lock is given up by whoever holds it.
LEMMA UnlockKeepsInv == ASSUME Inv, NEW p \in Workers, Unlock(p) PROVE Inv'
<1>1. worker' = [worker EXCEPT ![p] = Idle]
  BY DEF Unlock
<1>2. UNCHANGED <<tree, files, edges, baseline, edits, past, excused>>
  BY DEF Unlock, Graph, history
<1>3. lock' = IF worker[p].holds THEN "none" ELSE lock
  BY DEF Unlock
<1>4. Typed'
  BY <1>1, <1>2, <1>3, IdleIsTyped, WorkerStepTyped DEF Inv, Typed
<1>5. LockInv'
  <2> SUFFICES ASSUME ~excused PROVE LockInv'
    BY <1>2 DEF LockInv
  <2>1. worker'[p] = Idle /\ \A q \in Workers : q # p => worker'[q] = worker[q]
    BY <1>1 DEF Inv, Typed
  <2>2. ~Idle.holds /\ Idle.stage = "idle" /\ ~Past(Idle)
    BY DEF Idle, Past, IndexStages
  <2>3. lock' # "stale"
    BY <1>3 DEF Inv, LockInv
  <2>4. \A q \in Workers : worker'[q].holds => q # p /\ worker[q].holds
    BY <2>1, <2>2
  <2>5. \A q \in Workers : worker'[q].holds => lock' = "young"
    BY <1>3, <2>4 DEF Inv, LockInv
  <2>6. \A q, r \in Workers : worker'[q].holds /\ worker'[r].holds => q = r
    BY <2>4 DEF Inv, LockInv
  <2>7. \A q \in Workers :
          /\ worker'[q].stage \notin {"steal", "create"}
          /\ Past(worker'[q]) => worker'[q].holds
    BY <2>1, <2>2 DEF Inv, LockInv
  <2> QED
    BY <2>3, <2>5, <2>6, <2>7 DEF LockInv
<1> QED
  BY <1>4, <1>5 DEF Inv

LEMMA WorldKeepsInv ==
    ASSUME Inv, LockAges \/ \E f \in Files, v \in 0..edits + 2 : Edit(f, v)
    PROVE  Inv'
<1>1. CASE LockAges
  BY <1>1 DEF LockAges, Inv, Typed, LockInv, Graph
<1>2. ASSUME NEW f \in Files, NEW v \in 0..edits + 2, Edit(f, v) PROVE Inv'
  <2>1. v \in Versions
    BY <1>2, RefreshAssumption DEF Edit, Inv, Typed, Versions
  <2>2. tree' \in Trees /\ edits' \in 0..MaxEdits /\ past' \subseteq Trees
    BY <1>2, <2>1, RefreshAssumption DEF Edit, Inv, Typed, Trees
  <2>3. UNCHANGED <<files, edges, baseline, lock, worker, excused>>
    BY <1>2 DEF Edit, Graph
  <2> QED
    BY <2>2, <2>3 DEF Inv, Typed, LockInv
<1> QED
  BY <1>1, <1>2

LEMMA InvIsInductive == Inv /\ [Next]_vars => Inv'
<1> SUFFICES ASSUME Inv, [Next]_vars PROVE Inv'
  OBVIOUS
<1>1. CASE UNCHANGED vars
  BY <1>1 DEF vars, history, Inv, Typed, LockInv
<1>2. CASE Next
  BY <1>2, QuietActions, BeginKeepsInv, TryLockKeepsInv, StealKeepsInv, GoOnKeepsInv,
     UnlockKeepsInv, WorldKeepsInv DEF Next
<1> QED
  BY <1>1, <1>2

LEMMA InitInv == Init => Inv
<1> SUFFICES ASSUME Init PROVE Inv
  OBVIOUS
<1>1. \A p \in Workers : worker[p] = Idle
  BY DEF Init
<1>2. ~Idle.holds /\ Idle.stage = "idle" /\ ~Past(Idle)
  BY DEF Idle, Past, IndexStages
<1>3. LockInv
  BY <1>1, <1>2 DEF Init, LockInv
<1> QED
  BY <1>3, InitTyped DEF Inv

\* Every worker is where the code can be, and holds what it can hold there.
THEOREM TypeCorrectness == Spec => []TypeOK
<1>1. Inv => TypeOK
  BY TypedIsTypeOK DEF Inv
<1> QED
  BY <1>1, InitInv, InvIsInductive, PTL DEF Spec

\* Two passes never index at once unless a lock got stale or a crawl did not wait for
\* it, however many workers there are and wherever they die.
THEOREM PassesExcludeEachOther == Spec => []PassesAreExclusive
<1>1. Inv => PassesAreExclusive
  <2> SUFFICES ASSUME Inv, ~excused, NEW p \in Workers, NEW q \in Workers,
                      Indexing(p), Indexing(q)
               PROVE  p = q
    BY DEF PassesAreExclusive
  <2>1. worker[p].holds /\ worker[q].holds
    BY DEF Indexing, Past, IndexStages, Inv, LockInv
  <2> QED
    BY <2>1 DEF Inv, LockInv
<1> QED
  BY <1>1, InitInv, InvIsInductive, PTL DEF Spec

-----------------------------------------------------------------------------
(* What a graph that is judged fresh says, of a tree that has not come back.            *)

\* The worker has still to begin its pass.
Plans(w) == w.stage \in {"plan", "steal", "create"}

AtBegin(w) == w.stage = "plan" /\ w.plan = <<>>

\* What is left of each kind's plan, as it goes.
PlanLeft(w) ==
    \/ w.kind = "hand" /\ w.plan \in {<<"lock", "observe", "scan">>, <<"observe", "scan">>,
                                      <<"scan">>, <<>>}
    \/ w.kind = "auto" /\ w.plan \in {<<"observe", "lock", "scan">>, <<"lock", "scan">>,
                                      <<"scan">>, <<>>}
    \/ w.kind = "crawl" /\ w.plan \in {<<"scan", "lock", "observe">>, <<"lock", "observe">>,
                                       <<"observe">>, <<>>}

HasObserved(w) ==
    \/ w.stage \in IndexStages
    \/ Plans(w) /\ w.plan \in {<<"lock", "scan">>, <<"scan">>, <<>>}

\* What a worker observed there was, and a refresh that observed the tree as it is, when
\* it was never left, scanned it as it is.
Sound(w) ==
    /\ Plans(w) => PlanLeft(w) /\ w.mine = <<>>
    /\ HasObserved(w) => w.observed \in past \cup {tree}
    /\ AtBegin(w) /\ w.kind # "crawl" /\ w.observed = tree /\ ~CameBack => w.inventory = Present

\* A pass over the tree as it is: what it has left to do, and has done.
WorksOf(w) ==
    /\ w.stage \in {"index", "write"} =>
        /\ \A f \in Files :
            /\ f \in w.todo => w.known[f] = files[f]
            /\ f \in w.inventory \ w.todo =>
                 files[f] = tree[f] \/ (w.stage = "write" /\ f = w.got[1])
            /\ f \notin w.inventory => tree[f] = 0 /\ w.known[f] = files[f]
        /\ \A f \in DOMAIN w.mine : f \in w.inventory \ w.todo /\ w.mine[f] = tree[f]
        /\ w.stage = "write" => w.got[1] \in w.inventory \ w.todo /\ w.got[2] = tree[w.got[1]]
    /\ w.stage = "rebuild" => files = tree /\ \A f \in DOMAIN w.mine : w.mine[f] = tree[f]
    /\ w.stage = "stamp" => InLine

\* A pass that finds nothing to do.
Harmless(w) ==
    /\ w.clean
    /\ w.stage # "write"
    /\ w.stage = "index" => w.inventory = Present /\ w.known = tree
    /\ w.stage \in {"index", "rebuild"} => w.mine = <<>>

Works(w) == w.stage \in IndexStages /\ w.clean /\ w.observed = tree /\ ~CameBack

Sure == ~doubtful /\ ~CameBack /\ Judge(baseline, tree)

\* The worker sees the tree as it is, as far as its kind looks at it last.
Current(w) == IF w.kind = "crawl" THEN w.observed = tree ELSE w.inventory = Present

FreshInv ==
    /\ baseline \in past \cup {tree}
    /\ \A p \in Workers : Sound(worker[p])
    /\ \A p, q \in Workers : Indexing(p) /\ worker[p].clean /\ Indexing(q) => p = q
    /\ ~doubtful => \A p \in Workers : Indexing(p) => worker[p].clean
    /\ \A p \in Workers : Works(worker[p]) => WorksOf(worker[p])
    /\ Sure => InLine /\ \A p \in Workers : Indexing(p) => Harmless(worker[p])
    /\ Sure \/ (\E p \in Workers : Works(worker[p])) =>
         \A p \in Workers : AtBegin(worker[p]) /\ worker[p].clean => Current(worker[p])

LEMMA InitFresh == Init => FreshInv
<1> SUFFICES ASSUME Init PROVE FreshInv
  OBVIOUS
<1>1. ASSUME NEW p \in Workers
      PROVE  worker[p] = Idle /\ Idle.stage = "idle"
  BY <1>1 DEF Init, Idle
<1>2. \A p \in Workers : /\ worker[p].stage \notin IndexStages /\ ~Plans(worker[p])
                         /\ ~AtBegin(worker[p])
  BY <1>1 DEF IndexStages, Plans, AtBegin
<1> QED
  BY <1>2 DEF CameBack, Init, FreshInv, Sound, HasObserved, Indexing, IndexStages, Works, InLine,
              Harmless

LEMMA FreshFollows == FreshInv => FreshMeansIndexed
BY DEF CameBack, FreshInv, FreshMeansIndexed, Sure

LEMMA PlanFacts ==
    /\ Head(<<"lock", "observe", "scan">>) = "lock" /\ Head(<<"observe", "scan">>) = "observe"
    /\ Head(<<"scan">>) = "scan" /\ Head(<<"observe", "lock", "scan">>) = "observe"
    /\ Head(<<"lock", "scan">>) = "lock" /\ Head(<<"scan", "lock", "observe">>) = "scan"
    /\ Head(<<"lock", "observe">>) = "lock" /\ Head(<<"observe">>) = "observe"
    /\ Tail(<<"lock", "observe", "scan">>) = <<"observe", "scan">>
    /\ Tail(<<"observe", "scan">>) = <<"scan">>
    /\ Tail(<<"scan">>) = <<>> /\ Tail(<<"observe">>) = <<>>
    /\ Tail(<<"observe", "lock", "scan">>) = <<"lock", "scan">>
    /\ Tail(<<"lock", "scan">>) = <<"scan">>
    /\ Tail(<<"scan", "lock", "observe">>) = <<"lock", "observe">>
    /\ Tail(<<"lock", "observe">>) = <<"observe">>
OBVIOUS

\* The plans that are left at a step.
LEMMA PlansAt ==
    ASSUME NEW w, PlanLeft(w), w.plan # <<>>
    PROVE  /\ Head(w.plan) = "lock" =>
                \/ w.kind = "hand" /\ w.plan = <<"lock", "observe", "scan">>
                     /\ Tail(w.plan) = <<"observe", "scan">>
                \/ w.kind = "auto" /\ w.plan = <<"lock", "scan">> /\ Tail(w.plan) = <<"scan">>
                \/ w.kind = "crawl" /\ w.plan = <<"lock", "observe">> /\ Tail(w.plan) = <<"observe">>
           /\ Head(w.plan) = "observe" =>
                \/ w.kind = "hand" /\ w.plan = <<"observe", "scan">> /\ Tail(w.plan) = <<"scan">>
                \/ w.kind = "auto" /\ w.plan = <<"observe", "lock", "scan">>
                     /\ Tail(w.plan) = <<"lock", "scan">>
                \/ w.kind = "crawl" /\ w.plan = <<"observe">> /\ Tail(w.plan) = <<>>
           /\ Head(w.plan) = "scan" =>
                \/ w.kind \in {"hand", "auto"} /\ w.plan = <<"scan">> /\ Tail(w.plan) = <<>>
                \/ w.kind = "crawl" /\ w.plan = <<"scan", "lock", "observe">>
                     /\ Tail(w.plan) = <<"lock", "observe">>
BY PlanFacts DEF PlanLeft

LEMMA PlansDiffer ==
    /\ <<"lock", "scan">> # <<"observe", "scan">> /\ <<"observe", "scan">> # <<"scan">>
    /\ <<"observe", "scan">> # <<>> /\ <<"scan">> # <<>> /\ <<"lock", "scan">> # <<>>
    /\ <<"observe">> # <<>> /\ <<"lock", "observe">> # <<>> /\ <<"observe">> # <<"scan">>
    /\ <<"observe">> # <<"lock", "scan">> /\ <<"lock", "observe">> # <<"lock", "scan">>
    /\ <<"lock", "observe">> # <<"scan">> /\ <<"observe", "scan">> # <<"lock", "observe">>
    /\ <<"observe", "scan">> # <<"observe">> /\ <<"scan">> # <<"observe">>
    /\ <<"scan">> # <<"lock", "observe">> /\ <<"lock", "scan">> # <<"observe">>
    /\ <<"lock", "scan">> # <<"lock", "observe">>
OBVIOUS

\* A step of one worker, that ends outside a pass, when nothing else changes.
LEMMA CalmStep ==
    ASSUME Typed, FreshInv, NEW p \in Workers,
           UNCHANGED <<tree, files, edges, baseline, edits, past, doubtful>>,
           \A q \in Workers \ {p} : worker'[q] = worker[q],
           worker'[p].stage \notin IndexStages, Sound(worker[p])',
           AtBegin(worker'[p]) /\ worker'[p].clean => Current(worker[p])'
    PROVE  FreshInv'
<1>1. ASSUME NEW q \in Workers, worker'[q].stage \in IndexStages
      PROVE  q # p /\ worker'[q] = worker[q]
  BY <1>1
<1>2. \A q \in Workers : Sound(worker[q])'
  <2>1. ASSUME NEW q \in Workers, q # p PROVE Sound(worker[q])'
    <3>1. Sound(worker[q]) /\ worker'[q] = worker[q]
      BY <2>1 DEF FreshInv
    <3> QED
      BY <3>1 DEF CameBack, Sound, Present
  <2> QED
    BY <2>1
<1>3. \A q, r \in Workers : Indexing(q)' /\ worker'[q].clean /\ Indexing(r)' => q = r
  BY <1>1 DEF FreshInv, Indexing, IndexStages
<1>4. ~doubtful' => \A q \in Workers : Indexing(q)' => worker'[q].clean
  BY <1>1 DEF FreshInv, Indexing, IndexStages
<1>5. ASSUME NEW q \in Workers, Works(worker[q])' PROVE WorksOf(worker[q])' /\ Works(worker[q])
  <2>1. worker'[q] = worker[q] /\ Works(worker[q])
    BY <1>1, <1>5 DEF CameBack, Works
  <2> QED
    BY <2>1 DEF FreshInv, WorksOf, InLine
<1>6. Sure' => Sure /\ InLine' /\ \A q \in Workers : Indexing(q)' => Harmless(worker[q])'
  BY <1>1 DEF CameBack, FreshInv, Sure, Judge, InLine, Indexing, IndexStages, Harmless, Present
<1>7. ASSUME Sure' \/ (\E q \in Workers : Works(worker[q])'), NEW q \in Workers,
             AtBegin(worker'[q]), worker'[q].clean
      PROVE  Current(worker[q])'
  <2>1. CASE q = p
    BY <1>7, <2>1
  <2>2. CASE q # p
    <3>1. worker'[q] = worker[q] /\ Current(worker[q])
      BY <1>5, <1>6, <1>7, <2>2 DEF FreshInv
    <3> QED
      BY <3>1 DEF Current, Present
  <2> QED
    BY <2>1, <2>2
<1> QED
  BY <1>2, <1>3, <1>4, <1>5, <1>6, <1>7 DEF FreshInv, AtBegin

\* A worker that rests, or is about to drop its lock, expects nothing of the tree.
LEMMA RestingIsSound ==
    ASSUME Typed, FreshInv, NEW p \in Workers,
           UNCHANGED <<tree, files, edges, baseline, edits, past, doubtful>>,
           \A q \in Workers \ {p} : worker'[q] = worker[q],
           worker'[p].stage \in {"idle", "unlock"}
    PROVE  FreshInv'
<1>2. worker'[p].stage \notin IndexStages /\ ~Plans(worker'[p]) /\ ~AtBegin(worker'[p])
  BY DEF IndexStages, Plans, AtBegin
<1>3. Sound(worker[p])'
  BY <1>2 DEF CameBack, Sound, HasObserved, AtBegin, Plans
<1> QED
  BY <1>2, <1>3, CalmStep

\* What the list of a worker that goes on with it looks like.
LEMMA DoneFields ==
    ASSUME Typed, NEW p \in Workers
    PROVE  /\ Done(p).stage = "plan" /\ Done(p).plan = Tail(worker[p].plan)
           /\ Done(p).kind = worker[p].kind /\ Done(p).observed = worker[p].observed
           /\ Done(p).inventory = worker[p].inventory /\ Done(p).mine = worker[p].mine
           /\ Done(p).clean = worker[p].clean
BY DEF Typed, WorkerOK, WorkerState, Done

LEMMA StartFresh ==
    ASSUME Typed, FreshInv, NEW p \in Workers, NEW kind \in Kinds, NEW full \in BOOLEAN,
           Start(p, kind, full)
    PROVE  FreshInv'
<1> DEFINE w == [Idle EXCEPT !.kind = kind, !.plan = Plan(kind), !.stage = "plan", !.full = full]
<1>1. /\ w.stage = "plan" /\ w.plan = Plan(kind) /\ w.kind = kind /\ w.mine = <<>>
      /\ w.clean
  BY DEF Idle
<1>2. worker'[p] = w /\ \A q \in Workers \ {p} : worker'[q] = worker[q]
  BY DEF Start, Typed
<1> HIDE DEF w
<1>3. PlanLeft(w) /\ w.plan \notin {<<"lock", "scan">>, <<"scan">>, <<>>, <<"lock", "observe">>,
                                    <<"observe">>}
  <2>1. CASE kind = "hand"
    BY <1>1, <2>1 DEF Plan, PlanLeft
  <2>2. CASE kind = "auto"
    BY <1>1, <2>2 DEF Plan, PlanLeft
  <2>3. CASE kind = "crawl"
    BY <1>1, <2>3 DEF Plan, PlanLeft
  <2> QED
    BY <2>1, <2>2, <2>3, RefreshAssumption
<1>4. ~HasObserved(worker'[p]) /\ ~AtBegin(worker'[p])
      /\ worker'[p].stage \notin IndexStages
  BY <1>1, <1>2, <1>3 DEF HasObserved, AtBegin, IndexStages
<1>5. Sound(worker[p])'
  BY <1>1, <1>2, <1>3, <1>4 DEF CameBack, Sound
<1> QED
  BY <1>2, <1>4, <1>5, CalmStep DEF Start, Graph, history

LEMMA ObserveFresh == ASSUME Typed, FreshInv, NEW p \in Workers, Observe(p) PROVE FreshInv'
<1>0. UNCHANGED <<tree, files, edges, baseline, edits, past, doubtful>>
  BY DEF Observe, Graph, history
<1>1. CASE worker' = [worker EXCEPT ![p] = Idle]
  <2>1. worker'[p].stage = "idle" /\ \A q \in Workers \ {p} : worker'[q] = worker[q]
    BY <1>1 DEF Idle, Typed
  <2> QED
    BY <1>0, <2>1, RestingIsSound
<1>2. CASE worker' = [worker EXCEPT ![p] = [Done(p) EXCEPT !.observed = tree]]
  <2> DEFINE w == [Done(p) EXCEPT !.observed = tree]
  <2>1. /\ w.stage = "plan" /\ w.plan = Tail(worker[p].plan) /\ w.kind = worker[p].kind
        /\ w.observed = tree /\ w.inventory = worker[p].inventory /\ w.mine = worker[p].mine
    BY DoneFields DEF Done, Typed, WorkerOK, WorkerState
  <2>2. worker'[p] = w /\ \A q \in Workers \ {p} : worker'[q] = worker[q]
    BY <1>2 DEF Typed
  <2> HIDE DEF w
  <2>3. /\ Sound(worker[p]) /\ Plans(worker[p]) /\ PlanLeft(worker[p]) /\ worker[p].mine = <<>>
        /\ worker[p].plan # <<>> /\ Head(worker[p].plan) = "observe"
    BY DEF CameBack, Observe, Ready, FreshInv, Sound, Plans
  <2>4. PlanLeft(w) /\ (w.plan = <<>> => w.kind = "crawl")
    BY <2>1, <2>3, PlansAt, PlansDiffer DEF PlanLeft
  <2>5. Sound(worker[p])'
    BY <1>0, <2>1, <2>2, <2>3, <2>4 DEF CameBack, Sound, AtBegin, Present
  <2>6. worker'[p].stage \notin IndexStages /\ (AtBegin(worker'[p]) => Current(worker[p])')
    BY <1>0, <2>1, <2>2, <2>4 DEF AtBegin, Current, IndexStages
  <2> QED
    BY <1>0, <2>2, <2>5, <2>6, CalmStep
<1> QED
  BY <1>1, <1>2 DEF Observe

LEMMA ScanFresh == ASSUME Typed, FreshInv, NEW p \in Workers, Scan(p) PROVE FreshInv'
<1> DEFINE stage == IF worker[p].kind = "auto" /\ Present = {} THEN "unlock" ELSE "plan"
           w == [Done(p) EXCEPT !.inventory = Present, !.stage = stage]
<1>0. UNCHANGED <<tree, files, edges, baseline, edits, past, doubtful>>
  BY DEF Scan, Graph, history
<1>1. worker' = [worker EXCEPT ![p] = w] /\ stage \in {"unlock", "plan"}
  BY DEF Scan
<1> HIDE DEF stage
<1>2. /\ w.stage = stage /\ w.plan = Tail(worker[p].plan) /\ w.kind = worker[p].kind
      /\ w.observed = worker[p].observed /\ w.inventory = Present /\ w.mine = worker[p].mine
  BY DoneFields DEF Done, Typed, WorkerOK, WorkerState
<1>3. worker'[p] = w /\ \A q \in Workers \ {p} : worker'[q] = worker[q]
  BY <1>1 DEF Typed
<1> HIDE DEF w
<1>4. CASE stage = "unlock"
  BY <1>0, <1>2, <1>3, <1>4, RestingIsSound
<1>5. CASE stage = "plan"
  <2>1. /\ Sound(worker[p]) /\ Plans(worker[p]) /\ PlanLeft(worker[p]) /\ worker[p].mine = <<>>
        /\ worker[p].plan # <<>> /\ Head(worker[p].plan) = "scan" /\ worker[p].stage = "plan"
    BY DEF CameBack, Scan, Ready, FreshInv, Sound, Plans
  <2>2. PlanLeft(w) /\ (w.plan = <<>> => w.kind # "crawl")
        /\ (HasObserved(w) => HasObserved(worker[p]))
    BY <1>2, <1>5, <2>1, PlansAt, PlansDiffer DEF PlanLeft, HasObserved, Plans, IndexStages
  <2>3. Sound(worker[p])'
    BY <1>0, <1>2, <1>3, <2>1, <2>2 DEF CameBack, Sound, AtBegin, Present
  <2>4. worker'[p].stage \notin IndexStages /\ (AtBegin(worker'[p]) => Current(worker[p])')
    BY <1>0, <1>2, <1>3, <1>5, <2>2 DEF AtBegin, Current, IndexStages, Present
  <2> QED
    BY <1>0, <1>3, <2>3, <2>4, CalmStep
<1> QED
  BY <1>1, <1>4, <1>5

\* The lock is taken, tried for again, or not waited for.
LEMMA LockFresh ==
    ASSUME Typed, FreshInv, NEW p \in Workers, TryLock(p) \/ Steal(p) \/ CreateAgain(p) \/ GoOn(p)
    PROVE  FreshInv'
<1>0. /\ UNCHANGED <<tree, files, edges, baseline, edits, past, doubtful>>
      /\ \A q \in Workers \ {p} : worker'[q] = worker[q]
      /\ WorkerOK(worker[p])
  BY DEF TryLock, Steal, CreateAgain, GoOn, Graph, history, Typed
<1>1. /\ Sound(worker[p]) /\ Plans(worker[p]) /\ PlanLeft(worker[p]) /\ worker[p].mine = <<>>
      /\ worker[p].plan # <<>> /\ Head(worker[p].plan) = "lock"
  BY <1>0 DEF CameBack, TryLock, Steal, CreateAgain, GoOn, Ready, FreshInv, Sound, Plans, WorkerOK
<1>2. CASE worker' = [worker EXCEPT ![p] = Idle]
  <2>1. worker'[p].stage = "idle"
    BY <1>2 DEF Idle, Typed
  <2> QED
    BY <1>0, <2>1, RestingIsSound
<1>3. ASSUME Plans(worker'[p]), worker'[p].kind = worker[p].kind, worker'[p].mine = worker[p].mine,
             worker'[p].observed = worker[p].observed, worker'[p].inventory = worker[p].inventory,
             worker'[p].plan \in {worker[p].plan, Tail(worker[p].plan)}
      PROVE  FreshInv'
  <2>1. /\ PlanLeft(worker'[p]) /\ worker'[p].plan # <<>>
        /\ HasObserved(worker'[p]) => HasObserved(worker[p])
    BY <1>1, <1>3, PlansAt, PlansDiffer DEF PlanLeft, HasObserved, Plans, IndexStages
  <2>2. Sound(worker[p])'
    BY <1>0, <1>1, <1>3, <2>1 DEF CameBack, Sound, AtBegin, Present
  <2>3. worker'[p].stage \notin IndexStages /\ ~AtBegin(worker'[p])
    BY <1>3, <2>1 DEF AtBegin, Plans, IndexStages
  <2> QED
    BY <1>0, <2>2, <2>3, CalmStep
<1>4. ASSUME NEW w, worker' = [worker EXCEPT ![p] = w], Plans(w),
             w.kind = worker[p].kind, w.mine = worker[p].mine,
             w.observed = worker[p].observed, w.inventory = worker[p].inventory,
             w.plan \in {worker[p].plan, Tail(worker[p].plan)}
      PROVE  FreshInv'
  <2>1. worker'[p] = w
    BY <1>4 DEF Typed
  <2> QED
    BY <1>3, <1>4, <2>1
<1>5. \A stage \in {"plan", "steal", "create"} :
         LET w == [worker[p] EXCEPT !.stage = stage]
         IN  /\ Plans(w) /\ w.plan = worker[p].plan /\ w.kind = worker[p].kind
             /\ w.mine = worker[p].mine /\ w.observed = worker[p].observed
             /\ w.inventory = worker[p].inventory
  BY <1>0 DEF WorkerOK, WorkerState, Plans
<1>6. \A w \in {Done(p), [Done(p) EXCEPT !.holds = TRUE]} :
         /\ Plans(w) /\ w.plan = Tail(worker[p].plan) /\ w.kind = worker[p].kind
         /\ w.mine = worker[p].mine /\ w.observed = worker[p].observed
         /\ w.inventory = worker[p].inventory
  BY <1>0 DEF Done, WorkerOK, WorkerState, Plans
<1>7. \/ worker' = [worker EXCEPT ![p] = Idle]
      \/ \E stage \in {"plan", "steal", "create"} :
            worker' = [worker EXCEPT ![p] = [worker[p] EXCEPT !.stage = stage]]
      \/ \E w \in {Done(p), [Done(p) EXCEPT !.holds = TRUE]} : worker' = [worker EXCEPT ![p] = w]
  BY DEF TryLock, Steal, CreateAgain, GoOn, Refused
<1> QED
  BY <1>2, <1>4, <1>5, <1>6, <1>7

LEMMA EndFresh ==
    ASSUME Typed, FreshInv, NEW p \in Workers, Unlock(p) \/ Fail(p) \/ Crash(p)
    PROVE  FreshInv'
<1>1. UNCHANGED <<tree, files, edges, baseline, edits, past, doubtful>>
  BY DEF Unlock, Fail, Crash, Graph, history
<1>2. \/ worker' = [worker EXCEPT ![p] = Idle]
      \/ worker' = [worker EXCEPT ![p] = [Idle EXCEPT !.kind = worker[p].kind, !.stage = "unlock",
                                                      !.holds = worker[p].holds]]
  BY DEF Unlock, Fail, Crash
<1>3. worker'[p].stage \in {"idle", "unlock"} /\ \A q \in Workers \ {p} : worker'[q] = worker[q]
  <2> DEFINE w == [Idle EXCEPT !.kind = worker[p].kind, !.stage = "unlock", !.holds = worker[p].holds]
  <2>1. w.stage = "unlock" /\ Idle.stage = "idle"
    BY DEF Idle
  <2>2. worker' = [worker EXCEPT ![p] = Idle] \/ worker' = [worker EXCEPT ![p] = w]
    BY <1>2
  <2> HIDE DEF w
  <2> QED
    BY <2>1, <2>2 DEF Typed
<1> QED
  BY <1>1, <1>3, RestingIsSound

-----------------------------------------------------------------------------
(* Steps of a pass. *)

LEMMA PassFresh ==
    ASSUME Typed, FreshInv, NEW p \in Workers, Indexing(p),
           UNCHANGED <<tree, baseline, edits, past, doubtful>>,
           \A q \in Workers \ {p} : worker'[q] = worker[q],
           worker'[p].stage \in IndexStages,
           worker'[p].observed = worker[p].observed, worker'[p].clean = worker[p].clean,
           Works(worker[p]) => WorksOf(worker[p])',
           Sure => InLine' /\ Harmless(worker[p])'
    PROVE  FreshInv'
<1>1. \A q \in Workers : Indexing(q)' <=> Indexing(q)
  BY DEF Indexing, IndexStages
<1>2. ~Plans(worker'[p]) /\ ~AtBegin(worker'[p]) /\ HasObserved(worker[p])
  BY DEF Plans, AtBegin, IndexStages, HasObserved, Indexing
<1>3. ASSUME NEW q \in Workers PROVE Sound(worker[q])'
  <2>1. CASE q = p
    BY <1>2, <2>1 DEF CameBack, FreshInv, Sound, AtBegin, Plans
  <2>2. CASE q # p
    <3>1. Sound(worker[q]) /\ worker'[q] = worker[q]
      BY <2>2 DEF FreshInv
    <3> QED
      BY <3>1 DEF CameBack, Sound, Present
  <2> QED
    BY <2>1, <2>2
<1>4. \A q, r \in Workers : Indexing(q)' /\ worker'[q].clean /\ Indexing(r)' => q = r
  BY <1>1 DEF FreshInv
<1>5. ~doubtful' => \A q \in Workers : Indexing(q)' => worker'[q].clean
  BY <1>1 DEF FreshInv
<1>6. ASSUME NEW q \in Workers, Works(worker[q])' PROVE WorksOf(worker[q])' /\ Works(worker[q])
  <2>1. Works(worker[q])
    BY <1>6 DEF CameBack, Works, Indexing, IndexStages
  <2>2. q = p
    BY <2>1 DEF CameBack, FreshInv, Works, Indexing, IndexStages
  <2> QED
    BY <2>1, <2>2
<1>7. Sure' => Sure /\ InLine' /\ \A q \in Workers : Indexing(q)' => Harmless(worker[q])'
  <2> SUFFICES ASSUME Sure' PROVE Sure /\ InLine' /\ \A q \in Workers : Indexing(q)' => Harmless(worker[q])'
    OBVIOUS
  <2>1. Sure
    BY DEF CameBack, Sure, Judge
  <2>2. \A q \in Workers : Indexing(q)' => q = p
    BY <1>1, <2>1 DEF CameBack, FreshInv, Sure
  <2> QED
    BY <2>1, <2>2
<1>8. ASSUME Sure' \/ (\E q \in Workers : Works(worker[q])'), NEW q \in Workers,
             AtBegin(worker'[q]), worker'[q].clean
      PROVE  Current(worker[q])'
  <2>1. q # p /\ worker'[q] = worker[q]
    BY <1>2, <1>8
  <2>2. Current(worker[q])
    BY <1>6, <1>7, <1>8, <2>1 DEF FreshInv
  <2> QED
    BY <2>1, <2>2 DEF Current, Present
<1> QED
  BY <1>3, <1>4, <1>5, <1>6, <1>7, <1>8 DEF FreshInv, AtBegin

LEMMA ReadFileFresh == ASSUME Typed, FreshInv, NEW p \in Workers, ReadFile(p) PROVE FreshInv'
<1>1. PICK f \in worker[p].todo :
        worker' = [worker EXCEPT ![p] =
            [@ EXCEPT !.todo = worker[p].todo \ {f},
                      !.got = IF tree[f] = worker[p].known[f] THEN <<>> ELSE <<f, tree[f]>>,
                      !.stage = IF tree[f] = worker[p].known[f] THEN "index" ELSE "write"]]
  BY DEF ReadFile
<1>2. /\ WorkerOK(worker[p]) /\ worker[p].stage = "index" /\ f \in Files /\ f \in worker[p].inventory
      /\ worker[p] \in WorkerState
  BY <1>1 DEF Typed, WorkerOK, WorkerState, ReadFile
<1>3. /\ UNCHANGED <<tree, files, edges, baseline, edits, past, doubtful>> /\ Indexing(p)
      /\ \A q \in Workers \ {p} : worker'[q] = worker[q]
  BY <1>1, <1>2 DEF ReadFile, Graph, history, Indexing, Typed
<1>4. /\ worker'[p].todo = worker[p].todo \ {f} /\ worker'[p].known = worker[p].known
      /\ worker'[p].inventory = worker[p].inventory /\ worker'[p].mine = worker[p].mine
      /\ worker'[p].observed = worker[p].observed /\ worker'[p].clean = worker[p].clean
      /\ worker'[p].stage = (IF tree[f] = worker[p].known[f] THEN "index" ELSE "write")
      /\ tree[f] # worker[p].known[f] => worker'[p].got = <<f, tree[f]>>
  BY <1>1, <1>2 DEF Typed, WorkerState
<1>5. ASSUME Works(worker[p]) PROVE WorksOf(worker[p])'
  <2>1. WorksOf(worker[p])
    BY <1>5 DEF FreshInv
  <2>2. /\ worker[p].known[f] = files[f]
        /\ \A g \in worker[p].inventory \ worker[p].todo : g # f /\ (g \in Files => files[g] = tree[g])
    BY <1>1, <1>2, <2>1 DEF WorksOf
  <2>3. \A g \in Files :
          /\ g \in worker'[p].todo => worker'[p].known[g] = files'[g]
          /\ g \in worker'[p].inventory \ worker'[p].todo =>
               files'[g] = tree'[g] \/ (worker'[p].stage = "write" /\ g = worker'[p].got[1])
          /\ g \notin worker'[p].inventory => tree'[g] = 0 /\ worker'[p].known[g] = files'[g]
    BY <1>2, <1>3, <1>4, <2>1, <2>2 DEF WorksOf
  <2>4. \A g \in DOMAIN worker'[p].mine :
          g \in worker'[p].inventory \ worker'[p].todo /\ worker'[p].mine[g] = tree'[g]
    BY <1>2, <1>3, <1>4, <2>1 DEF WorksOf
  <2>5. worker'[p].stage = "write" => /\ worker'[p].got[1] \in worker'[p].inventory \ worker'[p].todo
                                      /\ worker'[p].got[2] = tree'[worker'[p].got[1]]
    BY <1>2, <1>3, <1>4
  <2>6. worker'[p].stage \in {"index", "write"}
    BY <1>4
  <2> QED
    BY <2>3, <2>4, <2>5, <2>6 DEF WorksOf
<1>6. ASSUME Sure PROVE InLine' /\ Harmless(worker[p])'
  <2>1. InLine /\ Harmless(worker[p])
    BY <1>3, <1>6 DEF FreshInv
  <2>2. tree[f] = worker[p].known[f]
    BY <1>2, <2>1 DEF Harmless
  <2> QED
    BY <1>2, <1>3, <1>4, <2>1, <2>2 DEF Harmless, InLine, Present
<1>7. worker'[p].stage \in IndexStages
  BY <1>4 DEF IndexStages
<1> QED
  BY <1>3, <1>4, <1>5, <1>6, <1>7, PassFresh

LEMMA WriteFileFresh == ASSUME Typed, FreshInv, NEW p \in Workers, WriteFile(p) PROVE FreshInv'
<1>0. PICK f, v : f = worker[p].got[1] /\ v = worker[p].got[2]
  OBVIOUS
<1>1. /\ WorkerOK(worker[p]) /\ worker[p].stage = "write" /\ f \in Files /\ v \in Versions
      /\ worker[p] \in WorkerState /\ Indexing(p)
  BY <1>0 DEF Typed, WorkerOK, WriteFile, Indexing
<1>2. /\ UNCHANGED <<tree, baseline, edits, past, doubtful>> /\ files' = [files EXCEPT ![f] = v]
      /\ \A q \in Workers \ {p} : worker'[q] = worker[q]
  BY <1>0 DEF WriteFile, history, Typed
<1>3. PICK mine : mine = [g \in DOMAIN worker[p].mine \cup {f} |->
                              IF g = f THEN v ELSE worker[p].mine[g]]
  OBVIOUS
<1>4. worker' = [worker EXCEPT ![p] = [worker[p] EXCEPT !.stage = "index", !.got = <<>>,
                                                        !.mine = mine]]
  BY <1>0, <1>3 DEF WriteFile
<1>5. /\ worker'[p].todo = worker[p].todo /\ worker'[p].known = worker[p].known
      /\ worker'[p].inventory = worker[p].inventory /\ worker'[p].mine = mine
      /\ worker'[p].observed = worker[p].observed /\ worker'[p].clean = worker[p].clean
      /\ worker'[p].stage = "index"
  BY <1>1, <1>4 DEF Typed, WorkerState
<1>6. ASSUME Works(worker[p]) PROVE WorksOf(worker[p])'
  <2>1. WorksOf(worker[p])
    BY <1>6 DEF FreshInv
  <2>2. f \in worker[p].inventory \ worker[p].todo /\ v = tree[f]
    BY <1>0, <1>1, <2>1 DEF WorksOf
  <2>3. \A g \in Files : files'[g] = IF g = f THEN v ELSE files[g]
    BY <1>1, <1>2 DEF Typed, Trees
  <2>4. \A g \in Files :
          /\ g \in worker'[p].todo => worker'[p].known[g] = files'[g]
          /\ g \in worker'[p].inventory \ worker'[p].todo => files'[g] = tree'[g]
          /\ g \notin worker'[p].inventory => tree'[g] = 0 /\ worker'[p].known[g] = files'[g]
    BY <1>0, <1>1, <1>2, <1>5, <2>1, <2>2, <2>3 DEF WorksOf
  <2>5. \A g \in DOMAIN mine :
          g \in worker'[p].inventory \ worker'[p].todo /\ mine[g] = tree'[g]
    BY <1>1, <1>2, <1>3, <1>5, <2>1, <2>2 DEF WorksOf
  <2> QED
    BY <1>5, <2>4, <2>5 DEF WorksOf
<1>7. ~Sure
  BY <1>1 DEF FreshInv, Harmless
<1>8. worker'[p].stage \in IndexStages
  BY <1>5 DEF IndexStages
<1> QED
  BY <1>1, <1>2, <1>5, <1>6, <1>7, <1>8, PassFresh

LEMMA ForgetFresh == ASSUME Typed, FreshInv, NEW p \in Workers, Forget(p) PROVE FreshInv'
<1>1. /\ worker[p].stage = "index" /\ worker[p].todo = {} /\ worker[p] \in WorkerState
      /\ Indexing(p)
  BY DEF Typed, WorkerOK, Forget, Indexing
<1>2. /\ UNCHANGED <<tree, baseline, edits, past, doubtful>>
      /\ files' = [f \in Files |-> IF f \in Forgotten(p) THEN 0 ELSE files[f]]
      /\ edges' = [f \in Files |-> IF f \in Forgotten(p) THEN 0 ELSE edges[f]]
      /\ worker' = [worker EXCEPT ![p] = [worker[p] EXCEPT !.stage = "rebuild", !.inventory = {},
                                                           !.known = Nothing]]
  BY DEF Forget, history
<1>3. /\ worker'[p].stage = "rebuild" /\ worker'[p].mine = worker[p].mine
      /\ worker'[p].observed = worker[p].observed /\ worker'[p].clean = worker[p].clean
      /\ \A q \in Workers \ {p} : worker'[q] = worker[q]
  BY <1>1, <1>2 DEF Typed, WorkerState
<1>4. tree \in [Files -> Versions] /\ files \in [Files -> Versions] /\ edges \in [Files -> Versions]
  BY DEF Typed, Trees
<1>5. ASSUME Works(worker[p]) PROVE WorksOf(worker[p])'
  <2>1. WorksOf(worker[p])
    BY <1>5 DEF FreshInv
  <2>2. ASSUME NEW f \in Files PROVE files'[f] = tree[f]
    <3>1. CASE f \in worker[p].inventory
      BY <1>1, <1>2, <2>1, <3>1 DEF WorksOf, Forgotten
    <3>2. CASE f \notin worker[p].inventory
      BY <1>1, <1>2, <2>1, <3>2 DEF WorksOf, Forgotten
    <3> QED
      BY <3>1, <3>2
  <2>3. files' = tree
    BY <1>2, <1>4, <2>2
  <2> QED
    BY <1>1, <1>2, <1>3, <2>1, <2>3 DEF WorksOf
<1>6. ASSUME Sure PROVE InLine' /\ Harmless(worker[p])'
  <2>1. InLine /\ Harmless(worker[p])
    BY <1>1, <1>6 DEF FreshInv
  <2>2. Forgotten(p) = {}
    BY <1>1, <2>1 DEF Harmless, Forgotten, Present
  <2>3. files' = files /\ edges' = edges
    BY <1>2, <1>4, <2>2
  <2> QED
    BY <1>1, <1>2, <1>3, <2>1, <2>3 DEF Harmless, InLine
<1>7. worker'[p].stage \in IndexStages
  BY <1>3 DEF IndexStages
<1> QED
  BY <1>1, <1>2, <1>3, <1>5, <1>6, <1>7, PassFresh

LEMMA RebuildFresh == ASSUME Typed, FreshInv, NEW p \in Workers, Rebuild(p) PROVE FreshInv'
<1>1. /\ worker[p].stage = "rebuild" /\ worker[p] \in WorkerState /\ Indexing(p)
  BY DEF Typed, WorkerOK, Rebuild, Indexing
<1>2. /\ UNCHANGED <<tree, files, baseline, edits, past, doubtful>> /\ edges' = Facts(p)
      /\ worker' = [worker EXCEPT ![p] = [worker[p] EXCEPT !.stage = "stamp", !.mine = <<>>]]
  BY DEF Rebuild, history
<1>3. /\ worker'[p].stage = "stamp"
      /\ worker'[p].observed = worker[p].observed /\ worker'[p].clean = worker[p].clean
      /\ \A q \in Workers \ {p} : worker'[q] = worker[q]
  BY <1>1, <1>2 DEF Typed, WorkerState
<1>4. tree \in [Files -> Versions]
  BY DEF Typed, Trees
<1>5. ASSUME files = tree, \A f \in DOMAIN worker[p].mine : worker[p].mine[f] = tree[f]
      PROVE  InLine'
  <2>1. Facts(p) = tree
    BY <1>4, <1>5 DEF Facts
  <2> QED
    BY <1>2, <1>5, <2>1 DEF InLine
<1>6. ASSUME Works(worker[p]) PROVE WorksOf(worker[p])'
  <2>1. InLine'
    BY <1>1, <1>5, <1>6 DEF FreshInv, WorksOf
  <2> QED
    BY <1>3, <2>1 DEF WorksOf
<1>7. ASSUME Sure PROVE InLine' /\ Harmless(worker[p])'
  <2>1. InLine /\ Harmless(worker[p]) /\ worker[p].mine = <<>>
    BY <1>1, <1>7 DEF FreshInv, Harmless
  <2>2. InLine'
    BY <1>5, <2>1 DEF InLine
  <2> QED
    BY <1>3, <2>1, <2>2 DEF Harmless
<1>8. worker'[p].stage \in IndexStages
  BY <1>3 DEF IndexStages
<1> QED
  BY <1>1, <1>2, <1>3, <1>6, <1>7, <1>8, PassFresh

LEMMA BeginFresh == ASSUME Typed, FreshInv, NEW p \in Workers, Begin(p) PROVE FreshInv'
<1>1. /\ AtBegin(worker[p]) /\ WorkerOK(worker[p]) /\ worker[p] \in WorkerState
      /\ Sound(worker[p]) /\ worker[p].mine = <<>>
  BY DEF CameBack, Begin, AtBegin, Typed, WorkerOK, FreshInv, Sound, Plans
<1>2. /\ UNCHANGED <<tree, baseline, edits, past>>
      /\ files' = Cleared(worker[p].full, files) /\ edges' = Cleared(worker[p].full, edges)
      /\ doubtful' = (doubtful \/ worker[p].full \/ ~StartsClean(p))
      /\ StartsClean(p) \in BOOLEAN
  BY DEF Begin, StartsClean
<1>3. worker' = [q \in Workers |->
         IF q = p THEN [worker[p] EXCEPT !.stage = "index", !.known = files',
                                         !.todo = worker[p].inventory,
                                         !.clean = StartsClean(p)]
         ELSE [worker[q] EXCEPT !.clean = worker[q].clean /\ q \notin Overlapping(p)]]
  BY DEF Begin
<1>4. /\ worker'[p].stage = "index" /\ worker'[p].known = files'
      /\ worker'[p].todo = worker[p].inventory /\ worker'[p].inventory = worker[p].inventory
      /\ worker'[p].observed = worker[p].observed /\ worker'[p].mine = <<>>
      /\ worker'[p].clean = StartsClean(p) /\ worker'[p].kind = worker[p].kind
  BY <1>1, <1>2, <1>3 DEF WorkerState
<1>5. ASSUME NEW q \in Workers, q # p
      PROVE  /\ worker'[q].stage = worker[q].stage /\ worker'[q].plan = worker[q].plan
             /\ worker'[q].kind = worker[q].kind /\ worker'[q].mine = worker[q].mine
             /\ worker'[q].observed = worker[q].observed
             /\ worker'[q].inventory = worker[q].inventory
             /\ Indexing(q) \/ AtBegin(worker[q]) => ~worker'[q].clean
             /\ worker'[q].clean => worker[q].clean
  <2>1. worker[q] \in WorkerState
    BY DEF Typed, WorkerOK
  <2>2. Indexing(q) \/ AtBegin(worker[q]) => q \in Overlapping(p)
    BY <1>5 DEF Overlapping, AtBegin
  <2> DEFINE clean == worker[q].clean /\ q \notin Overlapping(p)
  <2>3. worker'[q] = [worker[q] EXCEPT !.clean = clean]
    BY <1>3, <1>5
  <2>4. (clean <=> worker[q].clean /\ q \notin Overlapping(p)) /\ clean \in BOOLEAN
    OBVIOUS
  <2> HIDE DEF clean
  <2>5. worker'[q].clean = clean
    BY <2>1, <2>3 DEF WorkerState
  <2> QED
    BY <2>1, <2>2, <2>3, <2>4, <2>5 DEF WorkerState
<1>6. StartsClean(p) => \A q \in Workers : Indexing(q) => q = p
  BY DEF StartsClean
<1>7. ~Indexing(p)
  BY <1>1 DEF AtBegin, Indexing
<1>8. ASSUME NEW q \in Workers PROVE Indexing(q)' <=> q = p \/ Indexing(q)
  BY <1>4, <1>5 DEF Indexing
<1>9. ASSUME NEW q \in Workers PROVE Sound(worker[q])'
  <2>1. CASE q = p
    <3>1. HasObserved(worker[p]) /\ ~Plans(worker'[p]) /\ ~AtBegin(worker'[p])
      BY <1>1, <1>4 DEF HasObserved, Plans, AtBegin
    <3> QED
      BY <1>1, <1>2, <1>4, <2>1, <3>1 DEF CameBack, Sound
  <2>2. CASE q # p
    <3>1. Sound(worker[q])
      BY DEF FreshInv
    <3> QED
      BY <1>2, <1>5, <2>2, <3>1 DEF CameBack, Sound, Plans, PlanLeft, HasObserved, AtBegin, Present
  <2> QED
    BY <2>1, <2>2
<1>10. ASSUME NEW q \in Workers, Indexing(q)', worker'[q].clean
       PROVE  q = p
  BY <1>5, <1>8, <1>10
<1>11. \A q, r \in Workers : Indexing(q)' /\ worker'[q].clean /\ Indexing(r)' => q = r
  BY <1>4, <1>6, <1>7, <1>8, <1>10
<1>12. ~doubtful' => \A q \in Workers : Indexing(q)' => worker'[q].clean
  BY <1>2, <1>4, <1>6, <1>8
<1>13. ASSUME StartsClean(p), worker[p].observed = tree, ~CameBack PROVE worker[p].inventory = Present
  <2>1. CASE worker[p].kind = "crawl"
    BY <1>13, <2>1 DEF StartsClean, Present
  <2>2. CASE worker[p].kind # "crawl"
    BY <1>1, <1>13, <2>2 DEF CameBack, Sound
  <2> QED
    BY <2>1, <2>2
<1>14. ASSUME NEW q \in Workers, Works(worker[q])' PROVE WorksOf(worker[q])'
  <2>1. q = p
    BY <1>10, <1>14 DEF CameBack, Works, Indexing, IndexStages
  <2>2. worker[p].inventory = Present
    BY <1>2, <1>4, <1>13, <1>14, <2>1 DEF CameBack, Works
  <2>3. \A f \in Files : f \notin worker[p].inventory => tree[f] = 0
    BY <2>2 DEF Present
  <2> QED
    BY <1>2, <1>4, <2>1, <2>3 DEF WorksOf
<1>15. ASSUME Sure' PROVE Sure /\ InLine' /\ \A q \in Workers : Indexing(q)' => Harmless(worker[q])'
  <2>1. Sure /\ ~worker[p].full /\ StartsClean(p) /\ worker[p].clean
    BY <1>2, <1>15 DEF CameBack, Sure, Judge, StartsClean
  <2>2. InLine /\ files' = files /\ edges' = edges
    BY <1>2, <2>1 DEF FreshInv, Cleared
  <2>3. worker[p].inventory = Present
    <3>1. Current(worker[p])
      BY <1>1, <2>1 DEF FreshInv
    <3> QED
      BY <1>13, <2>1, <3>1 DEF Current, Sure
  <2>4. Harmless(worker[p])'
    BY <1>2, <1>4, <2>1, <2>2, <2>3 DEF Harmless, InLine, Present
  <2>5. \A q \in Workers : Indexing(q)' => q = p
    BY <1>6, <1>8, <2>1
  <2> QED
    BY <1>2, <2>1, <2>2, <2>4, <2>5 DEF InLine
<1>16. ASSUME NEW q \in Workers, AtBegin(worker'[q]), worker'[q].clean PROVE FALSE
  BY <1>4, <1>5, <1>16 DEF AtBegin
<1> QED
  BY <1>2, <1>9, <1>11, <1>12, <1>14, <1>15, <1>16 DEF FreshInv, AtBegin

LEMMA StampFresh == ASSUME Typed, FreshInv, NEW p \in Workers, Stamp(p) PROVE FreshInv'
<1>1. /\ worker[p].stage = "stamp" /\ Indexing(p) /\ worker[p] \in WorkerState
      /\ HasObserved(worker[p])
  BY DEF Stamp, Indexing, Typed, WorkerOK, HasObserved, IndexStages
<1>2. /\ UNCHANGED <<tree, files, edges, edits, past>> /\ baseline' = worker[p].observed
      /\ doubtful' = ~worker[p].clean
      /\ worker' = [worker EXCEPT ![p] = [Idle EXCEPT !.kind = worker[p].kind, !.stage = "unlock",
                                                      !.holds = worker[p].holds]]
  BY DEF Stamp
<1>3. worker'[p].stage = "unlock" /\ \A q \in Workers \ {p} : worker'[q] = worker[q]
  <2> DEFINE w == [Idle EXCEPT !.kind = worker[p].kind, !.stage = "unlock", !.holds = worker[p].holds]
  <2>1. w.stage = "unlock" /\ worker' = [worker EXCEPT ![p] = w]
    BY <1>2 DEF Idle
  <2> HIDE DEF w
  <2> QED
    BY <2>1 DEF Typed
<1>4. ASSUME NEW q \in Workers, worker'[q].stage \in IndexStages
      PROVE  q # p /\ worker'[q] = worker[q] /\ Indexing(q)
  <2>1. q # p /\ worker'[q] = worker[q]
    BY <1>3, <1>4 DEF IndexStages
  <2> QED
    BY <1>4, <2>1 DEF Indexing, IndexStages
<1>5. baseline' \in past' \cup {tree'}
  BY <1>1, <1>2 DEF CameBack, FreshInv, Sound
<1>6. ASSUME NEW q \in Workers PROVE Sound(worker[q])'
  <2>1. CASE q = p
    BY <1>3, <2>1 DEF CameBack, Sound, Plans, HasObserved, AtBegin, IndexStages
  <2>2. CASE q # p
    <3>1. Sound(worker[q]) /\ worker'[q] = worker[q]
      BY <1>3, <2>2 DEF FreshInv
    <3> QED
      BY <1>2, <3>1 DEF CameBack, Sound, Present
  <2> QED
    BY <2>1, <2>2
<1>7. \A q, r \in Workers : Indexing(q)' /\ worker'[q].clean /\ Indexing(r)' => q = r
  BY <1>4 DEF FreshInv, Indexing, IndexStages
<1>8. ~doubtful' => \A q \in Workers : ~Indexing(q)'
  <2> SUFFICES ASSUME worker[p].clean, NEW q \in Workers, Indexing(q)' PROVE FALSE
    BY <1>2
  <2>1. q # p /\ Indexing(q)
    BY <1>4 DEF Indexing, IndexStages
  <2> QED
    BY <1>1, <2>1 DEF FreshInv
<1>9. ASSUME NEW q \in Workers, Works(worker[q])' PROVE WorksOf(worker[q])' /\ Works(worker[q])
  <2>1. worker'[q] = worker[q] /\ Works(worker[q])
    BY <1>2, <1>4, <1>9 DEF CameBack, Works
  <2> QED
    BY <1>2, <2>1 DEF FreshInv, WorksOf, InLine
<1>10. ASSUME Sure' PROVE InLine' /\ Works(worker[p])
  <2>1. Works(worker[p])
    BY <1>1, <1>2, <1>10 DEF CameBack, Sure, Judge, Works, IndexStages
  <2>2. InLine
    BY <1>1, <2>1 DEF FreshInv, WorksOf
  <2> QED
    BY <1>2, <2>1, <2>2 DEF InLine
<1>11. ASSUME Sure' \/ (\E q \in Workers : Works(worker[q])'), NEW q \in Workers,
              AtBegin(worker'[q]), worker'[q].clean
       PROVE  Current(worker[q])'
  <2>1. q # p /\ worker'[q] = worker[q]
    BY <1>3, <1>11 DEF AtBegin
  <2>2. Current(worker[q])
    BY <1>9, <1>10, <1>11, <2>1 DEF FreshInv
  <2> QED
    BY <1>2, <2>1, <2>2 DEF Current, Present
<1> QED
  BY <1>5, <1>6, <1>7, <1>8, <1>9, <1>10, <1>11 DEF CameBack, FreshInv, AtBegin, Sure

-----------------------------------------------------------------------------

\* A change: whatever was observed is of the past now.
LEMMA EditFresh ==
    ASSUME Typed, FreshInv, NEW f \in Files, NEW v, Edit(f, v)
    PROVE  FreshInv'
<1>1. /\ UNCHANGED <<files, edges, baseline, worker, doubtful>>
      /\ past' = past \cup {tree}
  BY DEF Edit, Graph
<1>2. baseline \in past' /\ \A p \in Workers : HasObserved(worker[p]) => worker[p].observed \in past'
  BY <1>1 DEF CameBack, FreshInv, Sound
<1>3. ~Sure' /\ \A p \in Workers : ~Works(worker[p])'
  BY <1>1, <1>2 DEF Sure, Judge, Works, HasObserved, CameBack
<1>4. ASSUME NEW p \in Workers PROVE Sound(worker[p])'
  <2>1. Sound(worker[p])
    BY DEF FreshInv
  <2>2. AtBegin(worker[p]) => HasObserved(worker[p])
    BY DEF AtBegin, HasObserved, Plans
  <2> QED
    BY <1>1, <1>2, <2>1, <2>2 DEF Sound, CameBack
<1> QED
  BY <1>1, <1>2, <1>3, <1>4 DEF FreshInv, Indexing

LEMMA NextFresh ==
    ASSUME Typed, FreshInv, [Next]_vars
    PROVE  FreshInv'
<1>1. CASE UNCHANGED vars
  BY <1>1 DEF CameBack, vars, Graph, history, FreshInv, Sound, Present, Indexing, Works, WorksOf, Sure, Judge,
              InLine, Harmless, Current
<1>2. CASE LockAges
  BY <1>2 DEF CameBack, LockAges, Graph, FreshInv, Sound, Present, Indexing, Works, WorksOf, Sure, Judge,
              InLine, Harmless, Current
<1>3. ASSUME NEW p \in Workers, NEW kind \in Kinds, NEW full \in BOOLEAN, Start(p, kind, full)
      PROVE  FreshInv'
  BY <1>3, StartFresh
<1> QED
  BY <1>1, <1>2, <1>3, EditFresh, ObserveFresh, ScanFresh, LockFresh, EndFresh, BeginFresh,
     ReadFileFresh, WriteFileFresh, ForgetFresh, RebuildFresh, StampFresh DEF Next

\* A graph that is judged fresh describes the tree, whoever refreshed it, dies or gets in
\* another's way, of any number of files, workers and changes, as long as the tree has
\* not come back to what it was before.
THEOREM FreshGraphsAreIndexed == Spec => []FreshMeansIndexed
<1>1. Init => Inv /\ FreshInv
  BY InitInv, InitFresh
<1>2. Inv /\ FreshInv /\ [Next]_vars => (Inv /\ FreshInv)'
  BY InvIsInductive, NextFresh DEF Inv
<1>3. FreshInv => FreshMeansIndexed
  BY FreshFollows
<1> QED
  BY <1>1, <1>2, <1>3, PTL DEF Spec

\* A pass that nothing disturbed, over a tree that is still what it observed, leaves the
\* graph in line with it, whatever it found there.
THEOREM UndisturbedPassesHeal == Spec => UndisturbedPassHeals
<1>1. Init => Inv /\ FreshInv
  BY InitInv, InitFresh
<1>2. Inv /\ FreshInv /\ [Next]_vars => (Inv /\ FreshInv)'
  BY InvIsInductive, NextFresh DEF Inv
<1>3. FreshInv => \A p \in Workers :
        Stamp(p) /\ worker[p].clean /\ worker[p].observed = tree /\ ~CameBack => InLine
  <2> SUFFICES ASSUME FreshInv, NEW p \in Workers, Stamp(p), worker[p].clean,
                      worker[p].observed = tree, ~CameBack
               PROVE  InLine
    OBVIOUS
  <2>1. Works(worker[p]) /\ worker[p].stage = "stamp"
    BY DEF CameBack, Stamp, Works, IndexStages
  <2> QED
    BY <2>1 DEF FreshInv, WorksOf
<1> QED
  BY <1>1, <1>2, <1>3, PTL DEF Spec, UndisturbedPassHeals

=============================================================================
