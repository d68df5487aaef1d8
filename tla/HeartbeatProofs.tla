---------------------------- MODULE HeartbeatProofs ----------------------------
(***************************************************************************)
(* Proofs about Heartbeat: what the inductive invariant HInv says of the   *)
(* composition, the queue, the lock, the windows of counters and the       *)
(* stages of a heartbeat, that every step preserves it, and the safety     *)
(* properties that follow, for any number of turns, of callers and of      *)
(* heartbeats, and any policy.                                             *)
(***************************************************************************)
EXTENDS Heartbeat, FiniteSetTheorems, SequenceTheorems, TLAPS

Jobs == Turns \cup Runs
Answers == {"new", "pending", "not_started", "closed", "full", "value", "error"}
Shut == {"closing_queue", "closing_service", "closed"}
Over == {"closing_service", "closed"}
Activities == {"idle", "waiting", "locking", "running", "ended", "done", "failed", "refused"}
Stages == {"offered", "notify", "mark", "done", "failed"}
Beats == [by : Callers, seen : Counters,
          snapshot : [worker : BOOLEAN, depth : Nat, completed : Nat, failed : Nat],
          stage : Stages, reason : Reasons \cup {"none"}]

\* The databases that are open before the next step of a composition that
\* has not failed.
OpenBefore(step) ==
    IF step \in {"configuration", "artifact_store"} THEN {}
    ELSE IF step \in {"retriever", "connection"} THEN {"artifacts"}
    ELSE Databases

\* The application only starts when it is composed, and has its databases
\* until they are closed.
Composed ==
    /\ CompositionTypeOK
    /\ FailedCompositionReleases
    /\ composed # "failed" /\ app # "closed" => open = OpenBefore(composed) /\ unclosed = {}
    /\ app # "new" => composed = "live"
    /\ app = "closed" => open = unclosed

\* The queue opens and shuts with the application, and is drained before
\* the service is closed.
Lifecycle ==
    /\ app \in AppStates
    /\ phase \in {"new", "open", "shut"}
    /\ phase = "new" <=> app = "new"
    /\ phase = "shut" <=> app \in Shut
    /\ stopping \in BOOLEAN
    /\ phase = "new" \/ app \in Over => backlog = <<>> /\ running = NoJob

\* Each job that waits or runs is one whose caller waits for its answer; no
\* job is held twice.
Held ==
    /\ answer \in [Jobs -> Answers]
    /\ backlog \in Seq(Jobs)
    /\ running \in Jobs \cup {NoJob}
    /\ \A i \in 1 .. Len(backlog) : answer[backlog[i]] = "pending" /\ backlog[i] # running
    /\ \A i, j \in 1 .. Len(backlog) : backlog[i] = backlog[j] => i = j
    /\ running # NoJob => answer[running] = "pending"

\* One update is handled at a time; the heartbeat that is pending is the one
\* begun last, and its caller runs.
OneByOne ==
    /\ \A t, u \in Turns : answer[t] = "pending" /\ answer[u] = "pending" => t = u
    /\ \A r \in Runs : answer[r] # "new" => r <= Len(runs)
    /\ \A r \in Runs : answer[r] = "pending" =>
           r = Len(runs) /\ caller[runs[r].by] = "running"
    /\ Capacity > 1 => \A j \in Jobs : answer[j] # "full"

\* Only the caller at the head of the lock runs, and the last heartbeat is
\* its own; nobody waits twice.
Locked ==
    /\ caller \in [Callers -> Activities]
    /\ lock \in Seq(Callers)
    /\ \A i \in 1 .. Len(lock) : caller[lock[i]] \in {"locking", "running"}
    /\ \A i, j \in 1 .. Len(lock) : lock[i] = lock[j] => i = j
    /\ \A c \in Callers : caller[c] = "running" =>
           /\ lock # <<>> /\ lock[1] = c
           /\ runs # <<>> /\ runs[Len(runs)].by = c

\* The loop sleeps until the scheduler is started.
Asleep == app \in {"new", "initializing"} => caller[Loop] = "idle"

Locking == {c \in Callers : caller[c] = "locking"}
HasRoom == Len(runs) + Cardinality(Locking) <= MaxRuns

\* The counters count the turns that have ended.
Ended == {t \in Turns : answer[t] \in {"value", "error"}}
Counted ==
    /\ counted \in [completed : Nat, failed : Nat]
    /\ counted.completed + counted.failed = Cardinality(Ended)

\* Each window begins where the one before it ends.
Windows ==
    /\ runs \in Seq(Beats)
    /\ baseline \in Counters
    /\ baseline.completed <= counted.completed /\ baseline.failed <= counted.failed
    /\ baseline.failed = FailuresBefore(Len(runs) + 1)
    /\ \A r \in 1 .. Len(runs) :
           /\ runs[r].snapshot.failed = runs[r].seen.failed - FailuresBefore(r)
           /\ runs[r].snapshot.depth <= 1
           /\ answer[r] = "pending" => runs[r].snapshot.worker

\* What is stored is what the policy expects; an alert is on its way while
\* its heartbeat runs, and marked when it has arrived.
Staged ==
    /\ stored \subseteq 1 .. Len(runs)
    /\ \A r \in stored : /\ runs[r].snapshot.worker
                         /\ runs[r].stage # "offered"
                         /\ runs[r].reason = Expected(runs[r].snapshot)
    /\ \A r \in 1 .. Len(runs) :
           /\ runs[r].stage \in {"notify", "mark"} =>
                  running = r /\ r \in stored /\ runs[r].reason # "system_healthy"
           /\ runs[r].stage = "mark" => r \in delivered
    /\ SentWasDelivered

HInv ==
    /\ Composed /\ Lifecycle /\ Held /\ OneByOne
    /\ Locked /\ Asleep /\ HasRoom /\ Counted /\ Windows /\ Staged

-----------------------------------------------------------------------------
(* The composition and the lifecycle.                                      *)

\* The bounds and the policy, as the proofs need them.
LEMMA Parameters ==
    /\ MaxRuns \in Nat /\ Capacity \in Nat /\ Capacity >= 1
    /\ Runs \cap Turns = {} /\ NoJob \notin Jobs /\ Runs \subseteq Nat
    /\ \A r : r \in Runs <=> r \in Nat /\ 1 <= r /\ r <= MaxRuns
BY HeartbeatAssumption DEF Runs, Jobs

\* The invariant holds before anything is composed.
LEMMA InitHInv == Init => HInv
<1> SUFFICES ASSUME Init PROVE HInv
    OBVIOUS
<1> USE DEF Init, Queue!Init
<1>1. Composed
    BY DEF CompositionInit, Composed, CompositionTypeOK, FailedCompositionReleases, Steps,
           NotRaised, OpenBefore
<1>2. Lifecycle
    BY DEF Lifecycle, AppStates, Shut, Over
<1>3. Held
    BY Parameters DEF Held, Jobs, Answers
<1>4. OneByOne
    BY Parameters DEF OneByOne, Jobs
<1>5. Locked
    BY DEF Locked, Activities
<1>10. Asleep
    BY DEF Asleep, Callers
<1>6. HasRoom
    <2>1. Locking = {}
        BY DEF Locking
    <2> QED
        BY <2>1, FS_EmptySet, Parameters DEF HasRoom
<1>7. Counted
    <2>1. Ended = {}
        BY DEF Ended, Jobs
    <2> QED
        BY <2>1, FS_EmptySet DEF Counted
<1>8. Windows
    <2>1. Cardinality(Turns) \in Nat
        BY HeartbeatAssumption, FS_CardinalityType
    <2>2. Len(runs) + 1 = 1
        OBVIOUS
    <2> QED
        BY <2>1, <2>2 DEF Windows, Counters, FailuresBefore
<1>9. Staged
    BY DEF Staged, SentWasDelivered
<1> QED
    BY <1>1, <1>2, <1>3, <1>4, <1>5, <1>6, <1>7, <1>8, <1>9, <1>10 DEF HInv

\* Whatever a step of the composition does, its failure leaves open what
\* FailedCompositionReleases allows, its success what the next step needs.
LEMMA ComposeComposed ==
    ASSUME Composed, Compose, UNCHANGED app
    PROVE  Composed'
<1> USE DEF Steps, Databases, Kinds, NotRaised, OpenBefore, FailWith, Proceed
<1>1. composed \in Steps \cup {"live", "failed"} /\ app = "new"
    BY DEF Composed, CompositionTypeOK, Compose, Configure, InitializeStore, BuildRetriever,
           Connect, SetUpSaver, CompileGraph, BuildAdapter, BuildHeartbeat
<1>2. open = OpenBefore(composed) /\ unclosed = {} /\ raised \in [by : Kinds, at : Steps] \cup {NotRaised}
    BY <1>1 DEF Composed, CompositionTypeOK, Compose, Configure, InitializeStore, BuildRetriever,
           Connect, SetUpSaver, CompileGraph, BuildAdapter, BuildHeartbeat
<1>3. ASSUME NEW next \in Steps \cup {"live"}, NEW opened \in SUBSET Databases,
             Proceed(next, opened), OpenBefore(next) = open \cup opened
      PROVE  Composed'
    BY <1>1, <1>2, <1>3 DEF Composed, CompositionTypeOK, FailedCompositionReleases
<1>4. ASSUME NEW kind \in Kinds, NEW left \in SUBSET Databases, NEW refusing \in SUBSET Databases,
             FailWith(kind, left, refusing), composed \in Steps,
             \/ left \subseteq refusing
             \/ composed = "connection" /\ left = {"checkpoints"} /\ "checkpoints" \notin refusing
             \/ composed = "graph" /\ refusing = {"checkpoints"}
             \/ kind = "interrupt" /\ composed \in {"artifact_store", "saver", "adapter"}
      PROVE  Composed'
    <2>1. raised' = [by |-> kind, at |-> composed] /\ raised'.by = kind /\ raised'.at = composed
        BY <1>4
    <2>2. open' \ unclosed' = left \ refusing
        BY <1>4
    <2>3. FailedCompositionReleases'
        BY <1>4, <2>1, <2>2 DEF FailedCompositionReleases
    <2>4. CompositionTypeOK'
        BY <1>4, <2>1 DEF CompositionTypeOK
    <2> QED
        BY <1>1, <1>4, <2>3, <2>4 DEF Composed
<1>5. CASE Configure
    BY <1>2, <1>3, <1>4, <1>5 DEF Configure
<1>6. CASE InitializeStore
    BY <1>2, <1>3, <1>4, <1>6 DEF InitializeStore
<1>7. CASE BuildRetriever
    BY <1>2, <1>3, <1>4, <1>7 DEF BuildRetriever
<1>8. CASE Connect
    <2>1. CASE Proceed("saver", {"checkpoints"})
        BY <1>2, <1>3, <1>8, <2>1 DEF Connect
    <2>2. ASSUME NEW kind \in Kinds, NEW left \in SUBSET {"checkpoints"},
                 NEW refusing \in SUBSET {"artifacts"}, FailWith(kind, left, refusing)
          PROVE  Composed'
        <3>1. left \subseteq refusing \/ (left = {"checkpoints"} /\ "checkpoints" \notin refusing)
            OBVIOUS
        <3>2. left \in SUBSET Databases /\ refusing \in SUBSET Databases
            OBVIOUS
        <3> QED
            BY <1>4, <1>8, <2>2, <3>1, <3>2 DEF Connect
    <2> QED
        BY <1>8, <2>1, <2>2 DEF Connect
<1>9. CASE SetUpSaver
    BY <1>2, <1>3, <1>4, <1>9 DEF SetUpSaver
<1>10. CASE CompileGraph
    BY <1>2, <1>3, <1>4, <1>10 DEF CompileGraph
<1>11. CASE BuildAdapter
    BY <1>2, <1>3, <1>4, <1>11 DEF BuildAdapter
<1>12. CASE BuildHeartbeat
    BY <1>2, <1>3, <1>4, <1>12 DEF BuildHeartbeat
<1> QED
    BY <1>5, <1>6, <1>7, <1>8, <1>9, <1>10, <1>11, <1>12 DEF Compose

\* What each part of the invariant depends on.
LEMMA Unmoved ==
    /\ Composed /\ UNCHANGED lifecycle => Composed'
    /\ Lifecycle /\ UNCHANGED <<queueVars, stopping, app>> => Lifecycle'
    /\ Held /\ UNCHANGED queueVars => Held'
    /\ OneByOne /\ UNCHANGED <<answer, runs, caller>> => OneByOne'
    /\ Locked /\ UNCHANGED <<caller, lock, runs>> => Locked'
    /\ Asleep /\ UNCHANGED <<app, caller>> => Asleep'
    /\ HasRoom /\ UNCHANGED <<caller, runs>> => HasRoom'
    /\ Counted /\ UNCHANGED <<counted, answer>> => Counted'
    /\ Windows /\ UNCHANGED <<runs, baseline, counted, answer>> => Windows'
    /\ Staged /\ UNCHANGED <<runs, running, Results>> => Staged'
<1>1. Composed /\ UNCHANGED lifecycle => Composed'
    BY DEF Composed, lifecycle, composition, CompositionTypeOK, FailedCompositionReleases
<1>2. Lifecycle /\ UNCHANGED <<queueVars, stopping, app>> => Lifecycle'
    BY DEF Lifecycle, queueVars
<1>3. Held /\ UNCHANGED queueVars => Held'
    BY DEF Held, queueVars
<1>4. OneByOne /\ UNCHANGED <<answer, runs, caller>> => OneByOne'
    BY DEF OneByOne
<1>5. Locked /\ UNCHANGED <<caller, lock, runs>> => Locked'
    BY DEF Locked
<1>10. Asleep /\ UNCHANGED <<app, caller>> => Asleep'
    BY DEF Asleep
<1>6. HasRoom /\ UNCHANGED <<caller, runs>> => HasRoom'
    BY DEF HasRoom, Locking
<1>7. Counted /\ UNCHANGED <<counted, answer>> => Counted'
    BY DEF Counted, Ended
<1>8. Windows /\ UNCHANGED <<runs, baseline, counted, answer>> => Windows'
    BY DEF Windows, FailuresBefore
<1>9. Staged /\ UNCHANGED <<runs, running, Results>> => Staged'
    BY DEF Staged, Results, SentWasDelivered, Expected
<1> QED
    BY <1>1, <1>2, <1>3, <1>4, <1>5, <1>6, <1>7, <1>8, <1>9, <1>10

-----------------------------------------------------------------------------
(* The lock.                                                               *)

\* A caller that neither holds the lock nor waits for it.
LEMMA CallerMoves ==
    ASSUME HInv, NEW c \in Callers, NEW now \in Activities \ {"locking", "running"},
           caller[c] \notin {"locking", "running"},
           caller' = [caller EXCEPT ![c] = now], UNCHANGED <<lock, runs, answer>>
    PROVE  OneByOne' /\ Locked' /\ HasRoom'
<1> USE DEF HInv
<1>1. OneByOne'
    BY DEF OneByOne, Locked
<1>2. Locked'
    BY DEF Locked
<1>3. Locking' = Locking
    BY DEF Locking, Locked
<1>4. HasRoom'
    BY <1>3 DEF HasRoom
<1> QED
    BY <1>1, <1>2, <1>4

\* Finitely many callers compete for the lock.
LEMMA LockingIsFinite == IsFiniteSet(Callers) /\ IsFiniteSet(Locking) /\ Cardinality(Locking) \in Nat
<1>1. IsFiniteSet(Callers)
    BY HeartbeatAssumption, FS_AddElement DEF Callers
<1>2. IsFiniteSet(Locking)
    BY <1>1, FS_Subset DEF Locking
<1> QED
    BY <1>1, <1>2, FS_CardinalityType

\* A caller begins to wait for the lock that another one has.
LEMMA WaitsForLock ==
    ASSUME HInv, NEW c \in Callers, Acquire(c), caller[c] \notin {"locking", "running"},
           lock # <<>>
    PROVE  OneByOne' /\ Locked' /\ HasRoom'
<1> USE DEF HInv, Acquire
<1>1. OneByOne'
    <2>1. /\ caller' = [caller EXCEPT ![c] = "locking"] /\ caller \in [Callers -> Activities]
          /\ UNCHANGED <<runs, answer>>
        BY DEF Locked, queueVars
    <2> HIDE DEF Acquire
    <2> QED
        BY <2>1 DEF OneByOne
<1>2. /\ lock' \in Seq(Callers) /\ Len(lock') = Len(lock) + 1 /\ Len(lock) \in Nat
      /\ \A i \in 1 .. Len(lock) : lock'[i] = lock[i]
      /\ lock'[Len(lock) + 1] = c
    BY DEF Locked
<1>3. Locked'
    <2>1. caller' \in [Callers -> Activities]
        BY DEF Locked, Activities
    <2>2. ASSUME NEW i \in 1 .. Len(lock')
          PROVE  /\ caller'[lock'[i]] \in {"locking", "running"}
                 /\ i <= Len(lock) => lock'[i] # c
        <3>1. CASE i = Len(lock) + 1
            BY <1>2, <3>1 DEF Locked
        <3>2. CASE i \in 1 .. Len(lock)
            BY <1>2, <3>2, ElementOfSeq DEF Locked
        <3> QED
            BY <1>2, <3>1, <3>2
    <2>3. ASSUME NEW i \in 1 .. Len(lock'), NEW j \in 1 .. Len(lock'), lock'[i] = lock'[j]
          PROVE  i = j
        <3>1. CASE i = Len(lock) + 1
            BY <1>2, <2>2, <2>3, <3>1
        <3>2. CASE j = Len(lock) + 1
            BY <1>2, <2>2, <2>3, <3>2
        <3>3. CASE i \in 1 .. Len(lock) /\ j \in 1 .. Len(lock)
            BY <1>2, <2>3, <3>3 DEF Locked
        <3> QED
            BY <1>2, <3>1, <3>2, <3>3
    <2>4. ASSUME NEW d \in Callers, caller'[d] = "running"
          PROVE  /\ lock' # <<>> /\ lock'[1] = d
                 /\ runs' # <<>> /\ runs'[Len(runs')].by = d
        <3>1. d # c /\ caller[d] = "running"
            BY <2>4 DEF Locked
        <3>2. lock # <<>> /\ lock[1] = d /\ runs # <<>> /\ runs[Len(runs)].by = d
            BY <3>1 DEF Locked
        <3>3. Len(lock) >= 1
            BY <3>2 DEF Locked
        <3>4. lock'[1] = lock[1] /\ Len(lock') # 0
            BY <1>2, <3>3
        <3> QED
            BY <3>2, <3>4
    <2> QED
        BY <1>2, <2>1, <2>2, <2>3, <2>4 DEF Locked
<1>4. HasRoom'
    <2>1. Locking' = Locking \cup {c} /\ c \notin Locking
        BY DEF Locking, Locked
    <2>2. Cardinality(Locking') = Cardinality(Locking) + 1
        BY <2>1, LockingIsFinite, FS_AddElement
    <2>3. Len(runs) + Cardinality(Locking) < MaxRuns
        BY DEF Room, Locking
    <2>4. Len(runs) \in Nat
        BY DEF Windows
    <2> QED
        BY <2>2, <2>3, <2>4, LockingIsFinite, Parameters DEF HasRoom
<1> QED
    BY <1>1, <1>3, <1>4

\* The heartbeat of a caller that runs is the last one.
LEMMA LastRunIsLast ==
    ASSUME HInv, NEW c \in Callers, caller[c] = "running"
    PROVE  /\ LastRun(c) = Len(runs) /\ Len(runs) \in Runs
<1>1. runs \in Seq(Beats) /\ runs # <<>> /\ runs[Len(runs)].by = c
    BY DEF HInv, Locked, Windows
<1>2. Len(runs) \in Nat /\ Len(runs) >= 1 /\ DOMAIN runs = 1 .. Len(runs)
    BY <1>1
<1>3. \A r \in DOMAIN runs :
          runs[r].by = c /\ (\A k \in DOMAIN runs : runs[k].by = c => k <= r) => r = Len(runs)
    <2> SUFFICES ASSUME NEW r \in DOMAIN runs,
                        \A k \in DOMAIN runs : runs[k].by = c => k <= r
                 PROVE  r = Len(runs)
        OBVIOUS
    <2> QED
        BY <1>1, <1>2
<1>4. LastRun(c) = Len(runs)
    BY <1>1, <1>2, <1>3 DEF LastRun
<1>5. Len(runs) <= MaxRuns
    BY <1>2, LockingIsFinite, Parameters DEF HInv, HasRoom
<1> QED
    BY <1>2, <1>4, <1>5, Parameters

\* The steps of the scheduler that leave the queue and the heartbeats alone.
LEMMA SchedulerHInv ==
    ASSUME HInv,
           \/ LoopStops
           \/ \E c \in Triggers : stopping /\ TriggerNow(c)
           \/ \E c \in Callers : RunReturns(c)
    PROVE  HInv'
<1>0. Loop \in Callers /\ Triggers \subseteq Callers
    BY DEF Callers
<1>1. ASSUME OneByOne', Locked', HasRoom', Asleep',
             UNCHANGED <<queueVars, counted, baseline, runs, Results, stopping, lifecycle>>
      PROVE  HInv'
    BY <1>1, Unmoved DEF HInv, queueVars, lifecycle
<1> USE DEF queueVars, lifecycle
<1>3. CASE LoopStops
    <2>1. OneByOne' /\ Locked' /\ HasRoom'
        BY <1>0, <1>3, CallerMoves DEF LoopStops, Activities
    <2>2. Asleep'
        BY <1>0, <1>3 DEF LoopStops, HInv, Asleep
    <2> QED
        BY <1>1, <1>3, <2>1, <2>2 DEF LoopStops
<1>4. ASSUME NEW c \in Triggers, stopping, TriggerNow(c)
      PROVE  HInv'
    <2>1. OneByOne' /\ Locked' /\ HasRoom'
        BY <1>0, <1>4, CallerMoves DEF TriggerNow, Activities
    <2>2. Asleep'
        <3>1. c # Loop
            BY HeartbeatAssumption
        <3> QED
            BY <1>0, <1>4, <3>1 DEF TriggerNow, HInv, Asleep, Locked
    <2> QED
        BY <1>1, <1>4, <2>1, <2>2 DEF TriggerNow
<1>5. ASSUME NEW c \in Callers, RunReturns(c)
      PROVE  HInv'
    <2> DEFINE now == After(c, answer[LastRun(c)] = "value")
    <2>1. /\ lock' = Tail(lock) /\ caller' = [caller EXCEPT ![c] = now]
          /\ now \in Activities \ {"locking", "running"}
          /\ caller[c] = "running"
        BY <1>5 DEF RunReturns, Activities, After
    <2> HIDE DEF now
    <2>2. lock # <<>> /\ lock[1] = c
        BY <2>1 DEF HInv, Locked
    <2>3. OneByOne'
        <3>1. answer[Len(runs)] # "pending"
            BY <1>5, <2>1, LastRunIsLast DEF RunReturns, HasEnded
        <3> QED
            BY <1>5, <3>1 DEF HInv, OneByOne, RunReturns
    <2>4. Locked'
        <3>1. /\ lock' \in Seq(Callers) /\ Len(lock') = Len(lock) - 1 /\ Len(lock) \in Nat
              /\ \A i \in 1 .. Len(lock') : lock'[i] = lock[i + 1]
            BY <2>1, <2>2, HeadTailProperties DEF HInv, Locked
        <3>2. ASSUME NEW i \in 1 .. Len(lock')
              PROVE  /\ i + 1 \in 1 .. Len(lock) /\ lock[i + 1] # c
                     /\ caller'[lock'[i]] \in {"locking", "running"}
            <4>1. i + 1 \in 1 .. Len(lock) /\ 1 \in 1 .. Len(lock) /\ i + 1 # 1
                BY <3>1
            <4>2. lock[i + 1] # c
                BY <2>2, <4>1 DEF HInv, Locked
            <4>3. lock[i + 1] \in Callers
                BY <4>1, ElementOfSeq DEF HInv, Locked
            <4> QED
                BY <2>1, <3>1, <4>1, <4>2, <4>3 DEF HInv, Locked
        <3>3. ASSUME NEW i \in 1 .. Len(lock'), NEW j \in 1 .. Len(lock'), lock'[i] = lock'[j]
              PROVE  i = j
            <4>1. i + 1 \in 1 .. Len(lock) /\ j + 1 \in 1 .. Len(lock)
                BY <3>2
            <4>2. lock[i + 1] = lock[j + 1]
                BY <3>1, <3>3
            <4>3. i + 1 = j + 1
                BY <4>1, <4>2 DEF HInv, Locked
            <4> QED
                BY <4>3
        <3>4. \A d \in Callers : caller'[d] # "running"
            BY <2>1, <2>2 DEF HInv, Locked
        <3>5. caller' \in [Callers -> Activities]
            BY <2>1 DEF HInv, Locked
        <3> QED
            BY <3>1, <3>2, <3>3, <3>4, <3>5 DEF Locked
    <2>5. Locking' = Locking
        BY <2>1 DEF HInv, Locked, Locking
    <2>6. HasRoom'
        BY <1>5, <2>5 DEF HInv, HasRoom, RunReturns
    <2>7. Asleep'
        BY <1>0, <1>5, <2>1 DEF RunReturns, HInv, Asleep
    <2> QED
        BY <1>1, <1>5, <2>3, <2>4, <2>6, <2>7 DEF RunReturns
<1> QED
    BY <1>3, <1>4, <1>5

-----------------------------------------------------------------------------
(* The queue.                                                              *)

\* A job that is taken waits behind the others.
LEMMA OfferHeld ==
    ASSUME Held, NEW j \in Jobs, Queue!Offer(j)
    PROVE  /\ Held' /\ answer' = [answer EXCEPT ![j] = "pending"]
           /\ answer[j] = "new" /\ phase = "open" /\ UNCHANGED <<phase, running>>
<1> USE DEF Held, Queue!Offer
<1>1. /\ backlog' \in Seq(Jobs) /\ Len(backlog') = Len(backlog) + 1 /\ Len(backlog) \in Nat
      /\ \A i \in 1 .. Len(backlog) : backlog'[i] = backlog[i] /\ backlog[i] \in Jobs
      /\ backlog'[Len(backlog) + 1] = j
    BY ElementOfSeq
<1>2. answer' \in [Jobs -> Answers]
    BY DEF Answers
<1>3. ASSUME NEW i \in 1 .. Len(backlog')
      PROVE  /\ answer'[backlog'[i]] = "pending" /\ backlog'[i] # running
             /\ i <= Len(backlog) => backlog'[i] # j
    <2>1. CASE i = Len(backlog) + 1
        <3>1. running # j
            BY Parameters
        <3> QED
            BY <1>1, <2>1, <3>1
    <2>2. CASE i \in 1 .. Len(backlog)
        BY <1>1, <2>2
    <2> QED
        BY <1>1, <2>1, <2>2
<1>4. ASSUME NEW i \in 1 .. Len(backlog'), NEW k \in 1 .. Len(backlog'),
             backlog'[i] = backlog'[k]
      PROVE  i = k
    <2>1. CASE i = Len(backlog) + 1
        BY <1>1, <1>3, <1>4, <2>1
    <2>2. CASE k = Len(backlog) + 1
        BY <1>1, <1>3, <1>4, <2>2
    <2>3. CASE i \in 1 .. Len(backlog) /\ k \in 1 .. Len(backlog)
        BY <1>1, <1>4, <2>3
    <2> QED
        BY <1>1, <2>1, <2>2, <2>3
<1> QED
    BY <1>1, <1>2, <1>3, <1>4

\* A call that is refused is told so; only a queue that has no room is full.
LEMMA RefuseHeld ==
    ASSUME Held, NEW j \in Jobs, Queue!Refuse(j)
    PROVE  /\ Held' /\ answer[j] = "new" /\ UNCHANGED <<phase, backlog, running>>
           /\ \E why \in {"not_started", "closed", "full"} :
                  /\ why = "full" => Len(backlog) = Capacity
                  /\ answer' = [answer EXCEPT ![j] = why]
<1>1. PICK why \in {"not_started", "closed", "full"} :
          /\ why = "full" => Len(backlog) = Capacity
          /\ answer' = [answer EXCEPT ![j] = why]
    BY DEF Queue!Refuse
<1>2. answer[j] = "new" /\ UNCHANGED <<phase, backlog, running>>
    BY DEF Queue!Refuse
<1>3. Held'
    BY <1>1, <1>2, ElementOfSeq, Parameters DEF Held, Answers
<1> QED
    BY <1>1, <1>2, <1>3

\* The oldest job that waits is the next one.
LEMMA BeginHeld ==
    ASSUME Held, Queue!Begin
    PROVE  Held' /\ UNCHANGED <<phase, answer>> /\ running = NoJob /\ backlog # <<>>
<1> USE DEF Held, Queue!Begin
<1>1. /\ backlog' \in Seq(Jobs) /\ Len(backlog') = Len(backlog) - 1 /\ Len(backlog) \in Nat
      /\ \A i \in 1 .. Len(backlog') : backlog'[i] = backlog[i + 1]
      /\ running' = backlog[1] /\ backlog[1] \in Jobs
    BY HeadTailProperties, ElementOfSeq
<1>2. Len(backlog) >= 1
    BY <1>1
<1>3. ASSUME NEW i \in 1 .. Len(backlog')
      PROVE  /\ i + 1 \in 1 .. Len(backlog) /\ 1 \in 1 .. Len(backlog)
             /\ answer'[backlog'[i]] = "pending" /\ backlog'[i] # running'
    <2>1. i + 1 \in 1 .. Len(backlog) /\ 1 \in 1 .. Len(backlog) /\ i + 1 # 1
        BY <1>1
    <2> QED
        BY <1>1, <2>1
<1>4. ASSUME NEW i \in 1 .. Len(backlog'), NEW k \in 1 .. Len(backlog'),
             backlog'[i] = backlog'[k]
      PROVE  i = k
    <2>1. i + 1 \in 1 .. Len(backlog) /\ k + 1 \in 1 .. Len(backlog)
        BY <1>3
    <2>2. backlog[i + 1] = backlog[k + 1]
        BY <1>1, <1>4
    <2>3. i + 1 = k + 1
        BY <2>1, <2>2
    <2> QED
        BY <2>3
<1>5. answer'[running'] = "pending"
    BY <1>1, <1>2
<1> QED
    BY <1>1, <1>3, <1>4, <1>5

\* The job in hand gets its answer.
LEMMA FinishHeld ==
    ASSUME Held, Queue!Finish
    PROVE  /\ Held' /\ running \in Jobs /\ running' = NoJob /\ UNCHANGED <<phase, backlog>>
           /\ \E outcome \in {"value", "error"} :
                  answer' = [answer EXCEPT ![running] = outcome]
<1> USE DEF Held, Queue!Finish
<1>1. PICK outcome \in {"value", "error"} : answer' = [answer EXCEPT ![running] = outcome]
    OBVIOUS
<1>2. \A i \in 1 .. Len(backlog) : backlog[i] \in Jobs /\ backlog[i] # NoJob
    BY ElementOfSeq, Parameters
<1> QED
    BY <1>1, <1>2 DEF Answers

\* Updates and heartbeats come one by one: as long as no update, or no
\* heartbeat, is pending, there is at most one job that waits.
LEMMA ShortBacklog ==
    ASSUME HInv,
           \/ \A t \in Turns : answer[t] # "pending"
           \/ \A r \in Runs : answer[r] # "pending"
    PROVE  Len(backlog) \in Nat /\ Len(backlog) <= 1
<1>1. Len(backlog) \in Nat
    BY DEF HInv, Held
<1>2. SUFFICES ASSUME 1 \in 1 .. Len(backlog), 2 \in 1 .. Len(backlog)
               PROVE  FALSE
    BY <1>1
<1>3. backlog[1] \in Jobs /\ backlog[2] \in Jobs /\ backlog[1] # backlog[2]
    BY <1>2, ElementOfSeq DEF HInv, Held
<1>4. answer[backlog[1]] = "pending" /\ answer[backlog[2]] = "pending"
    BY <1>2 DEF HInv, Held
<1>5. CASE backlog[1] \in Turns /\ backlog[2] \in Turns
    BY <1>3, <1>4, <1>5 DEF HInv, OneByOne
<1>6. CASE backlog[1] \in Runs /\ backlog[2] \in Runs
    BY <1>3, <1>4, <1>6 DEF HInv, OneByOne
<1> QED
    BY <1>3, <1>4, <1>5, <1>6 DEF Jobs

-----------------------------------------------------------------------------
(* Turns.                                                                  *)

\* The answer of a run decides nothing about the turns that have ended.
LEMMA RunsAreNotTurns ==
    \A r \in Runs : r \in Jobs /\ r \notin Turns
BY Parameters DEF Jobs

\* A turn is submitted to the queue, or refused.
LEMMA SubmitTurnHInv ==
    ASSUME HInv, NEW t \in Turns, SubmitTurn(t)
    PROVE  HInv'
<1>1. t \in Jobs /\ t \notin Runs
    BY Parameters DEF Jobs
<1>2. UNCHANGED <<counted, baseline, Scheduling, Results, stopping, lifecycle>>
    BY DEF SubmitTurn
<1>3. app = "running" /\ \A u \in Turns : answer[u] # "pending"
    BY DEF SubmitTurn, OneUpdateAtATime
<1>4. Len(backlog) \in Nat /\ Len(backlog) <= 1
    BY <1>3, ShortBacklog
<1>5. /\ Held' /\ answer[t] = "new" /\ UNCHANGED <<phase, running>>
      /\ \E what \in {"pending", "not_started", "closed", "full"} :
             /\ answer' = [answer EXCEPT ![t] = what]
             /\ what = "full" => Len(backlog) = Capacity
    BY <1>1, OfferHeld, RefuseHeld DEF SubmitTurn, HInv
<1>6. PICK what \in {"pending", "not_started", "closed", "full"} :
          /\ answer' = [answer EXCEPT ![t] = what]
          /\ what = "full" => Len(backlog) = Capacity
    BY <1>5
<1>7. answer \in [Jobs -> Answers] /\ \A r \in Runs : answer'[r] = answer[r]
    BY <1>1, <1>6, RunsAreNotTurns DEF HInv, Held
<1>8. Lifecycle'
    BY <1>2, <1>3, <1>5 DEF HInv, Lifecycle, lifecycle, Shut, Over
<1>9. OneByOne'
    <2>1. \A u, v \in Turns : answer'[u] = "pending" /\ answer'[v] = "pending" => u = v
        BY <1>3, <1>6, <1>7 DEF Jobs
    <2>2. Capacity > 1 => \A j \in Jobs : answer'[j] # "full"
        BY <1>4, <1>6, <1>7 DEF HInv, OneByOne
    <2> QED
        BY <1>2, <1>7, <2>1, <2>2 DEF HInv, OneByOne, Scheduling
<1>10. Counted'
    <2>1. Ended' = Ended
        BY <1>1, <1>5, <1>6, <1>7 DEF Ended
    <2> QED
        BY <1>2, <2>1 DEF HInv, Counted
<1>11. Windows'
    <2>1. \A r \in 1 .. Len(runs) : r \in Runs
        BY LockingIsFinite, Parameters DEF HInv, HasRoom, Windows
    <2> QED
        BY <1>2, <1>7, <2>1 DEF HInv, Windows, FailuresBefore, Scheduling
<1>12. Composed' /\ Locked' /\ Asleep' /\ HasRoom' /\ Staged'
    BY <1>2, <1>5, Unmoved DEF HInv, Scheduling, lifecycle
<1> QED
    BY <1>5, <1>8, <1>9, <1>10, <1>11, <1>12 DEF HInv

\* The worker takes the next job.
LEMMA BeginJobHInv ==
    ASSUME HInv, BeginJob
    PROVE  HInv'
<1>1. UNCHANGED <<counted, baseline, Scheduling, Results, stopping, lifecycle>>
    BY DEF BeginJob
<1>2. Held' /\ UNCHANGED <<phase, answer>> /\ running = NoJob /\ backlog # <<>>
    BY BeginHeld DEF BeginJob, HInv
<1>3. Lifecycle'
    BY <1>1, <1>2 DEF HInv, Lifecycle, lifecycle
<1>4. Staged'
    <2>1. \A r \in 1 .. Len(runs) : r \in Runs /\ r # NoJob
        BY LockingIsFinite, Parameters DEF HInv, HasRoom, Windows, Jobs
    <2>2. \A r \in 1 .. Len(runs) : runs[r].stage \notin {"notify", "mark"}
        BY <1>2, <2>1 DEF HInv, Staged
    <2> QED
        BY <1>1, <2>2 DEF HInv, Staged, Scheduling, Results, SentWasDelivered, Expected
<1> QED
    BY <1>1, <1>2, <1>3, <1>4, Unmoved DEF HInv, Scheduling, lifecycle

\* A turn ends and is counted.
LEMMA FinishTurnHInv ==
    ASSUME HInv, FinishTurn
    PROVE  HInv'
<1>1. UNCHANGED <<baseline, Scheduling, Results, stopping, lifecycle>> /\ running \in Turns
    BY DEF FinishTurn
<1>2. Held' /\ running' = NoJob /\ UNCHANGED <<phase, backlog>>
    BY FinishHeld DEF FinishTurn, HInv
<1>3. PICK outcome \in {"value", "error"} : answer' = [answer EXCEPT ![running] = outcome]
    BY FinishHeld DEF FinishTurn, HInv
<1>4. /\ answer \in [Jobs -> Answers] /\ running \in Jobs /\ answer[running] = "pending"
      /\ \A r \in Runs : answer'[r] = answer[r]
    BY <1>1, <1>3, Parameters, RunsAreNotTurns DEF HInv, Held, Jobs
<1>5. Lifecycle'
    BY <1>1, <1>2 DEF HInv, Lifecycle, lifecycle
<1>6. OneByOne'
    BY <1>1, <1>3, <1>4 DEF HInv, OneByOne, Scheduling, Jobs
<1>7. /\ counted' \in [completed : Nat, failed : Nat]
      /\ counted'.completed + counted'.failed = counted.completed + counted.failed + 1
      /\ counted'.completed >= counted.completed /\ counted'.failed >= counted.failed
    BY DEF FinishTurn, HInv, Counted
<1>8. Counted'
    <2>1. Ended' = Ended \cup {running} /\ running \notin Ended
        BY <1>1, <1>3, <1>4 DEF Ended, Jobs
    <2>2. IsFiniteSet(Ended)
        BY HeartbeatAssumption, FS_Subset DEF Ended
    <2>3. Cardinality(Ended') = Cardinality(Ended) + 1
        BY <2>1, <2>2, FS_AddElement
    <2> QED
        BY <1>7, <2>3 DEF HInv, Counted
<1>9. Windows'
    <2>1. \A r \in 1 .. Len(runs) : r \in Runs
        BY LockingIsFinite, Parameters DEF HInv, HasRoom, Windows
    <2>2. baseline.completed \in Int /\ baseline.failed \in Int
        BY DEF HInv, Windows, Counters
    <2>3. baseline.completed <= counted'.completed /\ baseline.failed <= counted'.failed
        BY <1>7, <2>2 DEF HInv, Windows, Counted
    <2> QED
        BY <1>1, <1>4, <2>1, <2>3 DEF HInv, Windows, FailuresBefore, Scheduling
<1>10. Staged'
    <2>1. \A r \in 1 .. Len(runs) : r # running
        BY <1>1, LockingIsFinite, Parameters, RunsAreNotTurns DEF HInv, HasRoom, Windows
    <2>2. \A r \in 1 .. Len(runs) : runs[r].stage \notin {"notify", "mark"}
        BY <2>1 DEF HInv, Staged
    <2> QED
        BY <1>1, <2>2 DEF HInv, Staged, Scheduling, Results, SentWasDelivered, Expected
<1> QED
    BY <1>1, <1>2, <1>5, <1>6, <1>8, <1>9, <1>10, Unmoved DEF HInv, Scheduling, lifecycle

-----------------------------------------------------------------------------
(* Heartbeats.                                                             *)

\* What a run of a heartbeat has stored.
LEMMA BegunRuns ==
    ASSUME HInv
    PROVE  /\ runs \in Seq(Beats) /\ Len(runs) \in Nat /\ DOMAIN runs = 1 .. Len(runs)
           /\ \A r \in 1 .. Len(runs) : r \in Runs /\ r \in Jobs /\ r # NoJob /\ runs[r] \in Beats
<1>1. runs \in Seq(Beats) /\ Len(runs) \in Nat /\ DOMAIN runs = 1 .. Len(runs)
    BY DEF HInv, Windows
<1>2. Len(runs) <= MaxRuns
    BY <1>1, LockingIsFinite, Parameters DEF HInv, HasRoom
<1> QED
    BY <1>1, <1>2, ElementOfSeq, Parameters DEF Jobs

\* A heartbeat that goes on keeps its caller and what it has seen.
LEMMA GoesOn ==
    ASSUME HInv, NEW r \in 1 .. Len(runs), NEW beat \in Beats,
           runs' = [runs EXCEPT ![r] = beat],
           beat.by = runs[r].by, beat.seen = runs[r].seen, beat.snapshot = runs[r].snapshot,
           UNCHANGED During
    PROVE  /\ Composed' /\ Lifecycle' /\ Held' /\ OneByOne' /\ Locked' /\ Asleep'
           /\ HasRoom' /\ Counted' /\ Windows'
           /\ Len(runs') = Len(runs)
           /\ \A k \in 1 .. Len(runs) : runs'[k].snapshot = runs[k].snapshot
<1>1. /\ runs' \in Seq(Beats) /\ Len(runs') = Len(runs)
      /\ \A k \in 1 .. Len(runs) : /\ runs'[k].by = runs[k].by /\ runs'[k].seen = runs[k].seen
                                  /\ runs'[k].snapshot = runs[k].snapshot
    BY BegunRuns
<1>2. UNCHANGED <<answer, counted, baseline, caller, lock>>
    BY DEF During, queueVars
<1>3. OneByOne'
    BY <1>1, <1>2, BegunRuns DEF HInv, OneByOne
<1>4. Locked'
    <2>1. \A c \in Callers : caller[c] = "running" => Len(runs) \in 1 .. Len(runs)
        BY LastRunIsLast, Parameters, BegunRuns
    <2>2. ASSUME NEW c \in Callers, caller[c] = "running"
          PROVE  /\ lock # <<>> /\ lock[1] = c
                 /\ runs' # <<>> /\ runs'[Len(runs')].by = c
        <3>1. lock # <<>> /\ lock[1] = c /\ runs[Len(runs)].by = c
            BY <2>2 DEF HInv, Locked
        <3>2. Len(runs') # 0
            BY <1>1, <2>1, <2>2
        <3> QED
            BY <1>1, <2>1, <2>2, <3>1, <3>2
    <2> QED
        BY <1>2, <2>2 DEF HInv, Locked
<1>5. HasRoom'
    BY <1>1, <1>2 DEF HInv, HasRoom, Locking
<1>6. Windows'
    <2>1. \A k \in 1 .. Len(runs) + 1 : FailuresBefore(k)' = FailuresBefore(k)
        <3> SUFFICES ASSUME NEW k \in 1 .. Len(runs) + 1
                     PROVE  FailuresBefore(k)' = FailuresBefore(k)
            OBVIOUS
        <3>1. CASE k = 1
            BY <3>1 DEF FailuresBefore
        <3>2. CASE k # 1
            <4>1. k - 1 \in 1 .. Len(runs)
                BY <3>2, BegunRuns
            <4> QED
                BY <1>1, <3>2, <4>1 DEF FailuresBefore
        <3> QED
            BY <3>1, <3>2
    <2>2. Len(runs) + 1 \in 1 .. Len(runs) + 1 /\ \A k \in 1 .. Len(runs) : k \in 1 .. Len(runs) + 1
        BY BegunRuns
    <2>3. baseline'.failed = FailuresBefore(Len(runs) + 1)'
        BY <1>2, <2>1, <2>2 DEF HInv, Windows
    <2>4. (Len(runs) + 1)' = Len(runs) + 1
        BY <1>1
    <2>5. \A k \in 1 .. Len(runs) :
              /\ runs'[k].snapshot.failed = runs'[k].seen.failed - FailuresBefore(k)'
              /\ runs'[k].snapshot.depth <= 1
              /\ answer'[k] = "pending" => runs'[k].snapshot.worker
        BY <1>1, <1>2, <2>1, <2>2 DEF HInv, Windows
    <2> QED
        BY <1>1, <1>2, <2>3, <2>4, <2>5 DEF HInv, Windows, FailuresBefore
<1>7. Composed' /\ Lifecycle' /\ Held' /\ Asleep' /\ Counted'
    BY Unmoved DEF HInv, During, queueVars, lifecycle
<1> QED
    BY <1>1, <1>3, <1>4, <1>5, <1>6, <1>7

\* An assessment is saved only if the policy agrees; an alert is sent before
\* it is marked.
LEMMA WorkHInv ==
    ASSUME HInv, NEW r \in Runs,
           EvaluationFails(r) \/ Evaluate(r) \/ Notify(r) \/ MarkNotificationSent(r)
    PROVE  HInv'
<1>1. r \in 1 .. Len(runs) /\ running = r /\ UNCHANGED During
    BY BegunRuns DEF EvaluationFails, Evaluate, Notify, MarkNotificationSent, At
<1>2. runs[r] \in Beats
    BY <1>1, BegunRuns
<1>3. ASSUME NEW beat \in Beats, runs' = [runs EXCEPT ![r] = beat],
             beat.by = runs[r].by, beat.seen = runs[r].seen, beat.snapshot = runs[r].snapshot,
             Staged'
      PROVE  HInv'
    BY <1>1, <1>3, GoesOn DEF HInv
<1>4. ASSUME NEW stage \in Stages, Advance(r, stage), Staged'
      PROVE  HInv'
    <2> DEFINE beat == [runs[r] EXCEPT !.stage = stage]
    <2>1. /\ beat \in Beats /\ beat.by = runs[r].by /\ beat.seen = runs[r].seen
          /\ beat.snapshot = runs[r].snapshot
        BY <1>2 DEF Beats
    <2>2. runs' = [runs EXCEPT ![r] = beat]
        BY <1>4 DEF Advance
    <2> HIDE DEF beat
    <2> QED
        BY <1>3, <1>4, <2>1, <2>2
<1>5. ASSUME NEW stage \in Stages, Advance(r, stage)
      PROVE  /\ Len(runs') = Len(runs)
             /\ runs'[r].stage = stage
             /\ \A k \in 1 .. Len(runs) : k # r => runs'[k] = runs[k]
             /\ \A k \in 1 .. Len(runs) : runs'[k].snapshot = runs[k].snapshot
                                         /\ runs'[k].reason = runs[k].reason
    BY <1>1, <1>2, <1>5, BegunRuns DEF Advance, Beats
<1>6. \A snapshot : Expected(snapshot)' = Expected(snapshot)
    BY <1>1 DEF Expected
<1>7. stored \subseteq 1 .. Len(runs) /\ SentWasDelivered
    BY DEF HInv, Staged
<1>8. CASE EvaluationFails(r)
    <2>1. Advance(r, "failed") /\ "failed" \in Stages /\ UNCHANGED Results
        BY <1>8 DEF EvaluationFails, Stages
    <2>2. Staged'
        BY <1>1, <1>5, <1>7, <2>1
        DEF HInv, Staged, SentWasDelivered, Results, Expected, During, queueVars
    <2> QED
        BY <1>4, <2>1, <2>2
<1>9. CASE Notify(r)
    <2>0. r \in stored /\ runs[r].reason # "system_healthy" /\ UNCHANGED <<stored, sent>>
        BY <1>1, <1>9 DEF Notify, At, HInv, Staged
    <2>1. CASE delivered' = delivered \cup {r} /\ Advance(r, "mark")
        <3>1. Staged'
            BY <1>1, <1>5, <1>7, <2>0, <2>1
            DEF HInv, Staged, SentWasDelivered, Expected, During, queueVars, Stages
        <3> QED
            BY <1>4, <2>1, <3>1 DEF Stages
    <2>2. CASE delivered' \in {delivered, delivered \cup {r}} /\ Advance(r, "failed")
        <3>1. Staged'
            BY <1>1, <1>5, <1>7, <2>0, <2>2
            DEF HInv, Staged, SentWasDelivered, Expected, During, queueVars, Stages
        <3> QED
            BY <1>4, <2>2, <3>1 DEF Stages
    <2> QED
        BY <1>9, <2>1, <2>2 DEF Notify
<1>10. CASE MarkNotificationSent(r)
    <2>1. PICK stage \in {"done", "failed"} : Advance(r, stage)
        BY <1>10 DEF MarkNotificationSent
    <2>2. r \in delivered /\ sent' \subseteq sent \cup {r} /\ UNCHANGED <<stored, delivered>>
        BY <1>1, <1>10 DEF MarkNotificationSent, At, HInv, Staged
    <2>3. Staged'
        BY <1>1, <1>5, <1>7, <2>1, <2>2
        DEF HInv, Staged, SentWasDelivered, Expected, During, queueVars, Stages
    <2> QED
        BY <1>4, <2>1, <2>3 DEF Stages
<1>11. CASE Evaluate(r)
    <2>1. PICK reason \in Reasons :
              IF reason # Expected(runs[r].snapshot)
              THEN Advance(r, "failed") /\ UNCHANGED stored
              ELSE /\ Save(r)
                   /\ runs' = [runs EXCEPT ![r].reason = reason,
                                           ![r].stage = IF reason = "system_healthy"
                                                        THEN "done" ELSE "notify"]
        BY <1>11 DEF Evaluate
    <2>2. UNCHANGED <<sent, delivered>> /\ runs[r].stage = "offered"
        BY <1>11 DEF Evaluate, At
    <2>3. CASE reason # Expected(runs[r].snapshot)
        <3>1. Staged'
            BY <1>1, <1>5, <1>7, <2>1, <2>2, <2>3
               DEF HInv, Staged, SentWasDelivered, Expected, During, queueVars, Stages
        <3> QED
            BY <1>4, <2>1, <2>3, <3>1 DEF Stages
    <2>4. CASE reason = Expected(runs[r].snapshot)
        <3> DEFINE stage == IF reason = "system_healthy" THEN "done" ELSE "notify"
                   beat == [[runs[r] EXCEPT !.reason = reason] EXCEPT !.stage = stage]
        <3>1. stage \in Stages /\ reason \in Reasons
            BY DEF Stages
        <3>2. /\ beat \in Beats /\ beat.by = runs[r].by /\ beat.seen = runs[r].seen
              /\ beat.snapshot = runs[r].snapshot /\ beat.reason = reason /\ beat.stage = stage
            BY <1>2, <3>1 DEF Beats
        <3>3. runs' = [runs EXCEPT ![r] = beat] /\ stored' = stored \cup {r}
            BY <2>1, <2>4 DEF Save
        <3> HIDE DEF beat
        <3>4. r \notin stored /\ runs[r].snapshot.worker
            <4>1. answer[r] = "pending"
                BY <1>1, BegunRuns DEF HInv, Held
            <4> QED
                BY <1>1, <2>2, <4>1 DEF HInv, Staged, Windows
        <3>5. /\ Len(runs') = Len(runs) /\ runs'[r] = beat
              /\ \A k \in 1 .. Len(runs) : k # r => runs'[k] = runs[k]
            BY <1>1, <3>2, <3>3, BegunRuns
        <3>6. SentWasDelivered'
            BY <1>1, <1>7, <2>2, <3>3, <3>4, <3>5 DEF SentWasDelivered
        <3>7. \A k \in stored' : /\ runs'[k].snapshot.worker
                                 /\ runs'[k].stage # "offered"
                                 /\ runs'[k].reason = Expected(runs'[k].snapshot)
            BY <1>1, <1>7, <2>4, <3>2, <3>3, <3>4, <3>5 DEF HInv, Staged
        <3>8. \A k \in 1 .. Len(runs) :
                  /\ runs'[k].stage \in {"notify", "mark"} =>
                         running' = k /\ k \in stored' /\ runs'[k].reason # "system_healthy"
                  /\ runs'[k].stage = "mark" => k \in delivered'
            BY <1>1, <2>2, <3>2, <3>3, <3>5 DEF HInv, Staged, During, queueVars
        <3>9. Staged'
            BY <1>1, <1>6, <1>7, <3>3, <3>5, <3>6, <3>7, <3>8 DEF Staged, Expected
        <3> QED
            BY <1>3, <3>2, <3>3, <3>9
    <2> QED
        BY <2>3, <2>4
<1> QED
    BY <1>8, <1>9, <1>10, <1>11

\* The answer of a heartbeat that has ended changes nothing but the queue.
LEMMA FinishRunHInv ==
    ASSUME HInv, NEW r \in Runs, FinishRun(r)
    PROVE  HInv'
<1>1. /\ UNCHANGED <<counted, baseline, Scheduling, Results, stopping, lifecycle>>
      /\ r \in 1 .. Len(runs) /\ running = r /\ runs[r].stage \in {"done", "failed"}
    BY BegunRuns DEF FinishRun, At
<1>2. Held' /\ running' = NoJob /\ UNCHANGED <<phase, backlog>>
    BY FinishHeld DEF FinishRun, HInv
<1>3. PICK outcome \in {"value", "error"} : answer' = [answer EXCEPT ![r] = outcome]
    BY <1>1, FinishHeld DEF FinishRun, HInv
<1>4. answer \in [Jobs -> Answers] /\ \A t \in Turns : answer'[t] = answer[t]
    BY <1>3, RunsAreNotTurns DEF HInv, Held
<1>5. Lifecycle'
    BY <1>1, <1>2 DEF HInv, Lifecycle, lifecycle
<1>6. OneByOne'
    <2>1. \A k \in Runs : answer'[k] = "pending" => k # r /\ answer[k] = "pending"
        BY <1>3, <1>4 DEF Jobs
    <2>2. \A k \in Runs : answer'[k] # "new" => k <= Len(runs)
        BY <1>1, <1>3, <1>4 DEF HInv, OneByOne, Jobs
    <2>3. Capacity > 1 => \A j \in Jobs : answer'[j] # "full"
        BY <1>3, <1>4 DEF HInv, OneByOne
    <2> QED
        BY <1>1, <1>4, <2>1, <2>2, <2>3 DEF HInv, OneByOne, Scheduling
<1>7. Counted'
    <2>1. Ended' = Ended
        BY <1>4 DEF Ended
    <2> QED
        BY <1>1, <2>1 DEF HInv, Counted
<1>8. Windows'
    <2>1. \A k \in 1 .. Len(runs) : answer'[k] = "pending" => answer[k] = "pending"
        BY <1>3, <1>4, BegunRuns
    <2> QED
        BY <1>1, <2>1 DEF HInv, Windows, FailuresBefore, Scheduling
<1>9. Staged'
    <2>1. \A k \in 1 .. Len(runs) : runs[k].stage \notin {"notify", "mark"}
        BY <1>1 DEF HInv, Staged
    <2> QED
        BY <1>1, <2>1 DEF HInv, Staged, Scheduling, Results, SentWasDelivered, Expected
<1> QED
    BY <1>1, <1>2, <1>5, <1>6, <1>7, <1>8, <1>9, Unmoved DEF HInv, Scheduling, lifecycle

\* A caller may begin a heartbeat when the lock is free, or released to it.
MayRun(c, waiters) ==
    /\ c = Loop => caller[c] # "idle"
    /\ \/ /\ lock = <<>> /\ waiters = <<>> /\ Room
          /\ caller[c] \notin {"locking", "running"}
       \/ /\ lock # <<>> /\ lock[1] = c /\ caller[c] = "locking"
          /\ waiters = Tail(lock)

\* Those that wait behind the caller that may run are others.
LEMMA Behind ==
    ASSUME HInv, NEW c \in Callers, NEW waiters, MayRun(c, waiters)
    PROVE  /\ waiters \in Seq(Callers) /\ Len(waiters) \in Nat
           /\ \A i \in 1 .. Len(waiters) : /\ waiters[i] \in Callers /\ waiters[i] # c
                                          /\ caller[waiters[i]] = "locking"
           /\ \A i, j \in 1 .. Len(waiters) : waiters[i] = waiters[j] => i = j
           /\ \A d \in Callers : caller[d] # "running"
<1>1. CASE lock = <<>> /\ waiters = <<>>
    BY <1>1 DEF HInv, Locked
<1>2. CASE lock # <<>> /\ lock[1] = c /\ caller[c] = "locking" /\ waiters = Tail(lock)
    <2>1. /\ waiters \in Seq(Callers) /\ Len(waiters) = Len(lock) - 1 /\ Len(lock) \in Nat
          /\ \A i \in 1 .. Len(waiters) : waiters[i] = lock[i + 1]
        BY <1>2, HeadTailProperties DEF HInv, Locked
    <2>2. \A d \in Callers : caller[d] # "running"
        BY <1>2 DEF HInv, Locked
    <2>3. ASSUME NEW i \in 1 .. Len(waiters)
          PROVE  /\ i + 1 \in 1 .. Len(lock) /\ waiters[i] \in Callers /\ waiters[i] # c
                 /\ caller[waiters[i]] = "locking"
        <3>1. i + 1 \in 1 .. Len(lock) /\ 1 \in 1 .. Len(lock) /\ i + 1 # 1
            BY <2>1
        <3>2. lock[i + 1] # c
            BY <1>2, <3>1 DEF HInv, Locked
        <3>3. lock[i + 1] \in Callers
            BY <3>1, ElementOfSeq DEF HInv, Locked
        <3>4. caller[lock[i + 1]] \in {"locking", "running"}
            BY <3>1 DEF HInv, Locked
        <3> QED
            BY <2>1, <2>2, <3>1, <3>2, <3>3, <3>4
    <2>4. ASSUME NEW i \in 1 .. Len(waiters), NEW j \in 1 .. Len(waiters), waiters[i] = waiters[j]
          PROVE  i = j
        <3>1. i + 1 \in 1 .. Len(lock) /\ j + 1 \in 1 .. Len(lock)
            BY <2>3
        <3>2. lock[i + 1] = lock[j + 1]
            BY <2>1, <2>4
        <3>3. i + 1 = j + 1
            BY <3>1, <3>2 DEF HInv, Locked
        <3> QED
            BY <3>3
    <2>5. Len(waiters) \in Nat
        BY <2>1
    <2> QED
        BY <2>1, <2>2, <2>3, <2>4, <2>5
<1> QED
    BY <1>1, <1>2 DEF MayRun

\* There is room for the heartbeat that begins, and for those that wait.
LEMMA RoomToRun ==
    ASSUME HInv, NEW c \in Callers, NEW waiters, MayRun(c, waiters)
    PROVE  /\ Len(runs) \in Nat /\ Len(runs) + 1 \in Runs /\ Len(runs) + 1 \in Jobs
           /\ Len(runs) + 1 \notin Turns
           /\ Len(runs) + 1 + Cardinality(Locking \ {c}) <= MaxRuns
<1>1. /\ Cardinality(Locking \ {c}) \in Nat
      /\ Len(runs) + 1 + Cardinality(Locking \ {c}) <= MaxRuns
    <2>1. CASE caller[c] = "locking"
        <3>1. c \in Locking
            BY <2>1 DEF Locking
        <3>2. Cardinality(Locking \ {c}) = Cardinality(Locking) - 1 /\ Cardinality(Locking) # 0
            BY <3>1, LockingIsFinite, FS_RemoveElement, FS_EmptySet
        <3> QED
            BY <3>2, LockingIsFinite, BegunRuns, Parameters DEF HInv, HasRoom
    <2>2. CASE Room /\ caller[c] # "locking"
        <3>1. Locking \ {c} = Locking
            BY <2>2 DEF Locking
        <3>2. Len(runs) + Cardinality(Locking) < MaxRuns
            BY <2>2 DEF Room, Locking
        <3>3. Cardinality(Locking \ {c}) = Cardinality(Locking)
            BY <3>1, Zenon
        <3>4. Cardinality(Locking) \in Nat /\ Len(runs) \in Nat /\ MaxRuns \in Nat
            BY LockingIsFinite, BegunRuns, Parameters
        <3> QED
            BY <3>2, <3>3, <3>4
    <2> QED
        BY <2>1, <2>2 DEF MayRun
<1> QED
    BY <1>1, BegunRuns, Parameters, RunsAreNotTurns DEF Jobs

\* The caller goes on to wait for its job, or raises.
Goes(c, waiters) ==
    caller' = [caller EXCEPT ![c] = "running"] /\ lock' = <<c>> \o waiters
Raises(c, waiters) ==
    caller' = [caller EXCEPT ![c] = After(c, FALSE)] /\ lock' = waiters

\* What that means for the lock.
LEMMA GoesLocked ==
    ASSUME HInv, NEW c \in Callers, NEW waiters, MayRun(c, waiters), Goes(c, waiters),
           runs' # <<>>, runs'[Len(runs')].by = c
    PROVE  Locked'
<1>1. /\ lock' \in Seq(Callers) /\ Len(lock') = Len(waiters) + 1 /\ Len(waiters) \in Nat
      /\ lock'[1] = c
      /\ \A i \in 1 .. Len(lock') : i # 1 => i - 1 \in 1 .. Len(waiters) /\ lock'[i] = waiters[i - 1]
    <2>1. waiters \in Seq(Callers) /\ <<c>> \in Seq(Callers) /\ Len(<<c>>) = 1 /\ <<c>>[1] = c
        BY Behind
    <2> QED
        BY <2>1, ConcatProperties DEF Goes
<1>2. caller \in [Callers -> Activities] /\ caller' = [caller EXCEPT ![c] = "running"]
    BY DEF HInv, Locked, Goes
<1>3. caller' \in [Callers -> Activities]
    BY <1>2 DEF Activities
<1>4. ASSUME NEW i \in 1 .. Len(lock')
      PROVE  caller'[lock'[i]] \in {"locking", "running"} /\ (i # 1 => lock'[i] # c)
    <2>1. CASE i = 1
        BY <1>1, <1>2, <2>1
    <2>2. CASE i # 1
        <3>1. i - 1 \in 1 .. Len(waiters) /\ lock'[i] = waiters[i - 1]
            BY <1>1, <2>2
        <3>2. /\ waiters[i - 1] \in Callers /\ waiters[i - 1] # c
              /\ caller[waiters[i - 1]] = "locking"
            BY <3>1, Behind
        <3> QED
            BY <1>2, <3>1, <3>2
    <2> QED
        BY <2>1, <2>2
<1>5. ASSUME NEW i \in 1 .. Len(lock'), NEW j \in 1 .. Len(lock'), lock'[i] = lock'[j]
      PROVE  i = j
    <2>1. CASE i = 1 \/ j = 1
        BY <1>1, <1>4, <1>5, <2>1
    <2>2. CASE i # 1 /\ j # 1
        <3>1. /\ i - 1 \in 1 .. Len(waiters) /\ j - 1 \in 1 .. Len(waiters)
              /\ waiters[i - 1] = waiters[j - 1]
            BY <1>1, <1>5, <2>2
        <3>2. i - 1 = j - 1
            BY <3>1, Behind
        <3> QED
            BY <3>2
    <2> QED
        BY <2>1, <2>2
<1>6. \A d \in Callers : caller'[d] = "running" => d = c
    BY <1>2, Behind
<1>7. lock' # <<>>
    BY <1>1
<1> QED
    BY <1>1, <1>3, <1>4, <1>5, <1>6, <1>7 DEF Locked

LEMMA RaisesLocked ==
    ASSUME HInv, NEW c \in Callers, NEW waiters, MayRun(c, waiters), Raises(c, waiters)
    PROVE  Locked'
<1>1. caller \in [Callers -> Activities] /\ lock' = waiters
    BY DEF HInv, Locked, Raises
<1>2. PICK now \in Activities \ {"running", "locking"} : caller' = [caller EXCEPT ![c] = now]
    <2>1. After(c, FALSE) \in Activities \ {"running", "locking"}
        BY DEF After, Activities
    <2> QED
        BY <2>1 DEF Raises
<1>3. \A d \in Callers : caller'[d] # "running"
    BY <1>1, <1>2, Behind
<1>4. \A i \in 1 .. Len(waiters) : caller'[waiters[i]] \in {"locking", "running"}
    BY <1>1, <1>2, Behind
<1> QED
    BY <1>1, <1>2, <1>3, <1>4, Behind DEF Locked

\* A caller that may run begins a heartbeat, whose window is what the
\* counters gained since the heartbeat before; it waits for the job that was
\* taken, or has already released the lock.
LEMMA RunOnceHInv ==
    ASSUME HInv, NEW c \in Callers, NEW waiters, MayRun(c, waiters), RunOnce(c, waiters)
    PROVE  HInv'
<1> DEFINE n == Len(runs)
<1>1. /\ baseline' = counted
      /\ UNCHANGED <<counted, Results, stopping, lifecycle>>
    BY DEF RunOnce, NewBaseline
<1>2. n \in Nat /\ n + 1 \in Runs /\ n + 1 \in Jobs /\ n + 1 \notin Turns
    BY RoomToRun
<1>3. \A d \in Callers : caller[d] # "running"
    BY Behind
<1>4. \A r \in Runs : answer[r] # "pending"
    <2> SUFFICES ASSUME NEW r \in Runs, answer[r] = "pending"
                 PROVE  FALSE
        OBVIOUS
    <2>1. r = n /\ caller[runs[n].by] = "running" /\ n >= 1
        BY Parameters DEF HInv, OneByOne
    <2>2. runs[n].by \in Callers
        BY <2>1, BegunRuns DEF Beats
    <2> QED
        BY <1>3, <2>1, <2>2
<1>5. Len(backlog) \in Nat /\ Len(backlog) <= 1
    BY <1>4, ShortBacklog
<1>6. PICK stage \in {"offered", "failed"} : runs' = Begun(c, stage)
    BY DEF RunOnce, SnapshotIsInvalid
<1> DEFINE beat == [by |-> c, seen |-> counted, snapshot |-> Snapshot, stage |-> stage,
                    reason |-> "none"]
<1>7. /\ Snapshot.worker \in BOOLEAN /\ Snapshot.depth = Len(backlog)
      /\ Snapshot.completed \in Nat
      /\ Snapshot.failed \in Nat /\ Snapshot.failed = counted.failed - baseline.failed
      /\ Snapshot \in [worker : BOOLEAN, depth : Nat, completed : Nat, failed : Nat]
    <2>1. /\ counted.completed \in Nat /\ counted.failed \in Nat
          /\ baseline.completed \in Nat /\ baseline.failed \in Nat
          /\ baseline.completed <= counted.completed /\ baseline.failed <= counted.failed
        BY DEF HInv, Windows, Counted, Counters
    <2>2. /\ Delta(counted.completed, baseline.completed) \in Nat
          /\ Delta(counted.failed, baseline.failed) \in Nat
          /\ Delta(counted.failed, baseline.failed) = counted.failed - baseline.failed
        BY <2>1 DEF Delta
    <2> QED
        BY <1>5, <2>2 DEF Snapshot, Stats
<1>8. counted \in Counters
    <2>1. /\ Cardinality(Ended) <= Cardinality(Turns) /\ Cardinality(Ended) \in Nat
          /\ Cardinality(Turns) \in Nat
        BY HeartbeatAssumption, FS_Subset, FS_CardinalityType DEF Ended
    <2>2. counted.completed \in Nat /\ counted.failed \in Nat
        BY DEF HInv, Counted
    <2>3. counted.completed \in 0 .. Cardinality(Turns) /\ counted.failed \in 0 .. Cardinality(Turns)
        BY <2>1, <2>2 DEF HInv, Counted
    <2> QED
        BY <2>3 DEF HInv, Counted, Counters
<1>9. beat \in Beats
    BY <1>7, <1>8 DEF Beats, Stages
<1>10. /\ runs' \in Seq(Beats) /\ Len(runs') = n + 1
       /\ \A r \in 1 .. n : runs'[r] = runs[r]
       /\ runs'[n + 1] = beat
    BY <1>6, <1>9, BegunRuns DEF Begun
<1>11. /\ beat.by = c /\ beat.seen = counted /\ beat.snapshot = Snapshot /\ beat.reason = "none"
       /\ beat.stage \in {"offered", "failed"}
    OBVIOUS
<1> HIDE DEF beat
<1>12. /\ Held' /\ UNCHANGED <<phase, running>>
       /\ backlog' # backlog => phase = "open"
       /\ \E what \in {"new", "pending", "not_started", "closed", "full"} :
              /\ what = "pending" => Goes(c, waiters)
              /\ what # "pending" => Raises(c, waiters)
              /\ answer' = [answer EXCEPT ![n + 1] = what]
              /\ what = "pending" => phase = "open"
              /\ what = "full" => Len(backlog) = Capacity
    <2>1. CASE Queue!Offer(n + 1) /\ Goes(c, waiters)
        BY <1>2, <2>1, OfferHeld DEF HInv
    <2>2. CASE Queue!Refuse(n + 1) /\ Raises(c, waiters)
        BY <1>2, <2>2, RefuseHeld DEF HInv
    <2>3. CASE SnapshotIsInvalid(c) /\ Raises(c, waiters)
        <3>1. UNCHANGED queueVars
            BY <2>3 DEF SnapshotIsInvalid
        <3>2. answer[n + 1] = "new"
            <4>1. ~(n + 1 <= n)
                BY <1>2
            <4> QED
                BY <1>2, <4>1 DEF HInv, OneByOne
        <3>3. answer' = [answer EXCEPT ![n + 1] = "new"]
            BY <3>1, <3>2 DEF queueVars, HInv, Held
        <3> QED
            BY <2>3, <3>1, <3>3, Unmoved DEF HInv, queueVars
    <2> QED
        BY <2>1, <2>2, <2>3 DEF RunOnce, Goes, Raises
<1>13. PICK what \in {"new", "pending", "not_started", "closed", "full"} :
           /\ what = "pending" => Goes(c, waiters)
           /\ what # "pending" => Raises(c, waiters)
           /\ answer' = [answer EXCEPT ![n + 1] = what]
           /\ what = "pending" => phase = "open"
           /\ what = "full" => Len(backlog) = Capacity
    BY <1>12
<1>14. /\ answer \in [Jobs -> Answers] /\ \A t \in Turns : answer'[t] = answer[t]
       /\ \A r \in Runs : r # n + 1 => answer'[r] = answer[r]
       /\ answer'[n + 1] = what
    BY <1>2, <1>13 DEF HInv, Held, Jobs
<1>15. Lifecycle'
    BY <1>1, <1>12 DEF HInv, Lifecycle, lifecycle, Shut, Over
<1>16. OneByOne'
    <2>1. \A r \in Runs : answer'[r] = "pending" => r = n + 1
        BY <1>4, <1>14
    <2>2. what = "pending" => caller'[runs'[n + 1].by] = "running"
        BY <1>10, <1>11, <1>13 DEF HInv, Locked, Goes
    <2>3. \A r \in Runs : answer'[r] # "new" => r <= n + 1
        BY <1>2, <1>14, Parameters DEF HInv, OneByOne
    <2>4. Capacity > 1 => \A j \in Jobs : answer'[j] # "full"
        BY <1>5, <1>13, <1>14 DEF HInv, OneByOne, Jobs
    <2> QED
        BY <1>10, <1>14, <2>1, <2>2, <2>3, <2>4 DEF HInv, OneByOne
<1>17. Locked'
    <2>1. runs' # <<>> /\ runs'[Len(runs')].by = c
        BY <1>2, <1>10, <1>11
    <2>2. CASE Goes(c, waiters)
        BY <2>1, <2>2, GoesLocked
    <2>3. CASE Raises(c, waiters)
        BY <2>3, RaisesLocked
    <2> QED
        BY <1>13, <2>2, <2>3
<1>18. Asleep'
    <2>1. c = Loop => caller[c] # "idle"
        BY DEF MayRun
    <2>2. PICK now : caller' = [caller EXCEPT ![c] = now]
        BY <1>13 DEF Goes, Raises
    <2>3. app' = app
        BY <1>1 DEF lifecycle
    <2>4. c # Loop => caller'[Loop] = caller[Loop]
        BY <2>2 DEF HInv, Locked, Callers
    <2> QED
        BY <2>1, <2>3, <2>4 DEF HInv, Asleep
<1>19. HasRoom'
    <2>1. Locking' = Locking \ {c}
        BY <1>13 DEF Locking, HInv, Locked, Goes, Raises, After
    <2> QED
        BY <1>10, <2>1, RoomToRun DEF HasRoom
<1>20. Counted'
    <2>1. Ended' = Ended
        BY <1>14 DEF Ended
    <2> QED
        BY <1>1, <2>1 DEF HInv, Counted
<1>21. \A r \in 1 .. n + 1 : FailuresBefore(r)' = FailuresBefore(r)
    <2> SUFFICES ASSUME NEW r \in 1 .. n + 1
                 PROVE  FailuresBefore(r)' = FailuresBefore(r)
        OBVIOUS
    <2>1. CASE r = 1
        BY <2>1 DEF FailuresBefore
    <2>2. CASE r # 1
        <3>1. r - 1 \in 1 .. n
            BY <1>2, <2>2
        <3> QED
            BY <1>10, <2>2, <3>1 DEF FailuresBefore
    <2> QED
        BY <2>1, <2>2
<1>22. Windows'
    <2>1. baseline'.failed = FailuresBefore(Len(runs) + 1)'
        <3>1. Len(runs') + 1 # 1 /\ Len(runs') + 1 - 1 = n + 1
            BY <1>2, <1>10
        <3> QED
            BY <1>1, <1>10, <1>11, <3>1 DEF FailuresBefore
    <2>2. ASSUME NEW r \in 1 .. Len(runs')
          PROVE  /\ runs'[r].snapshot.failed = runs'[r].seen.failed - FailuresBefore(r)'
                 /\ runs'[r].snapshot.depth <= 1
                 /\ answer'[r] = "pending" => runs'[r].snapshot.worker
        <3>1. CASE r = n + 1
            <4>1. Snapshot.failed = counted.failed - FailuresBefore(r)'
                <5>1. FailuresBefore(r)' = FailuresBefore(r)
                    BY <1>2, <1>21, <3>1
                <5>2. Snapshot.failed = counted.failed - FailuresBefore(r)
                    BY <1>7, <3>1 DEF HInv, Windows
                <5> QED
                    BY <5>1, <5>2
            <4>2. answer'[n + 1] = "pending" => Snapshot.worker
                BY <1>13, <1>14 DEF Snapshot, Stats, HInv, Lifecycle, Shut
            <4> QED
                BY <1>5, <1>7, <1>10, <1>11, <3>1, <4>1, <4>2
        <3>2. CASE r \in 1 .. n
            <4>1. r \in 1 .. n + 1 /\ r # n + 1 /\ r \in Runs
                BY <1>2, <3>2, BegunRuns
            <4> QED
                BY <1>10, <1>14, <1>21, <3>2, <4>1 DEF HInv, Windows
        <3> QED
            BY <1>2, <1>10, <3>1, <3>2
    <2>3. counted.completed \in Nat /\ counted.failed \in Nat
        BY DEF HInv, Counted
    <2> QED
        BY <1>1, <1>8, <1>10, <2>1, <2>2, <2>3 DEF Windows
<1>23. Staged'
    <2>1. stored \subseteq 1 .. n /\ n + 1 \notin stored /\ \A r \in stored : runs'[r] = runs[r]
        BY <1>2, <1>10 DEF HInv, Staged
    <2>2. SentWasDelivered'
        BY <1>1, <2>1 DEF HInv, Staged, SentWasDelivered, Results
    <2>3. \A r \in stored : /\ runs'[r].snapshot.worker
                           /\ runs'[r].stage # "offered"
                           /\ runs'[r].reason = Expected(runs'[r].snapshot)
        BY <2>1 DEF HInv, Staged
    <2>4. ASSUME NEW r \in 1 .. Len(runs')
          PROVE  /\ runs'[r].stage \in {"notify", "mark"} =>
                        running = r /\ r \in stored /\ runs'[r].reason # "system_healthy"
                 /\ runs'[r].stage = "mark" => r \in delivered
        <3>1. CASE r = n + 1
            BY <1>10, <1>11, <3>1
        <3>2. CASE r \in 1 .. n
            BY <1>10, <3>2 DEF HInv, Staged
        <3> QED
            BY <1>2, <1>10, <3>1, <3>2
    <2>5. stored \subseteq 1 .. Len(runs')
        BY <1>2, <1>10, <2>1
    <2> QED
        BY <1>1, <1>12, <2>2, <2>3, <2>4, <2>5 DEF Staged, Results, Expected
<1>24. Composed'
    BY <1>1, Unmoved DEF HInv
<1> QED
    BY <1>12, <1>15, <1>16, <1>17, <1>18, <1>19, <1>20, <1>22, <1>23, <1>24 DEF HInv

\* A caller takes the lock if it is free, and waits for it otherwise.
LEMMA AcquireHInv ==
    ASSUME HInv, NEW c \in Callers, Acquire(c), caller[c] \notin {"locking", "running"},
           c = Loop => caller[c] # "idle"
    PROVE  HInv'
<1>1. CASE lock = <<>>
    BY <1>1, RunOnceHInv DEF Acquire, MayRun
<1>2. CASE lock # <<>>
    <2>1. /\ caller' = [caller EXCEPT ![c] = "locking"]
          /\ UNCHANGED <<queueVars, counted, baseline, runs, Results, stopping, lifecycle>>
        BY <1>2 DEF Acquire
    <2>2. OneByOne' /\ Locked' /\ HasRoom'
        BY <1>2, WaitsForLock
    <2>3. Asleep'
        BY <2>1 DEF HInv, Asleep, lifecycle, Locked, Callers
    <2> QED
        BY <2>1, <2>2, <2>3, Unmoved DEF HInv, queueVars, lifecycle
<1> QED
    BY <1>1, <1>2

\* The steps that ask for the lock or have been given it.
LEMMA LockHInv ==
    ASSUME HInv,
           \/ LoopWakes
           \/ \E c \in Triggers : TriggerNow(c)
           \/ \E c \in Callers : Resume(c)
    PROVE  HInv'
<1>0. Loop \in Callers /\ Triggers \subseteq Callers /\ Loop \notin Triggers
    BY HeartbeatAssumption DEF Callers
<1>1. CASE LoopWakes
    BY <1>0, <1>1, AcquireHInv DEF LoopWakes
<1>2. ASSUME NEW c \in Triggers, TriggerNow(c)
      PROVE  HInv'
    <2>1. CASE stopping
        BY <1>2, <2>1, SchedulerHInv
    <2>2. CASE ~stopping
        BY <1>0, <1>2, <2>2, AcquireHInv DEF TriggerNow
    <2> QED
        BY <2>1, <2>2
<1>3. ASSUME NEW c \in Callers, Resume(c)
      PROVE  HInv'
    <2>1. lock # <<>> /\ lock[1] = c /\ caller[c] = "locking"
        BY <1>3 DEF Resume, HasLock, HInv, Locked
    <2>2. MayRun(c, Tail(lock))
        BY <2>1 DEF MayRun
    <2> QED
        BY <1>3, <2>2, RunOnceHInv DEF Resume
<1> QED
    BY <1>1, <1>2, <1>3

-----------------------------------------------------------------------------
\* The steps that take the application up and down.
LEMMA AppHInv ==
    ASSUME HInv,
           \/ ComposeStep \/ StartQueue \/ StartScheduler \/ CloseScheduler \/ Closing
    PROVE  HInv'
<1> USE DEF HInv, Untouched, Results, queueVars
<1>1. CASE ComposeStep
    <2>1. Composed'
        BY <1>1, ComposeComposed DEF ComposeStep
    <2> QED
        BY <1>1, <2>1, Unmoved DEF ComposeStep
<1>2. CASE StartQueue
    <2>1. Composed'
        BY <1>2 DEF StartQueue, Composed, composition, CompositionTypeOK, FailedCompositionReleases
    <2>2. Lifecycle'
        BY <1>2 DEF StartQueue, Queue!Open, Lifecycle, AppStates, Shut, Over
    <2>3. Held'
        BY <1>2 DEF StartQueue, Queue!Open, Held
    <2>9. Asleep'
        BY <1>2 DEF StartQueue, Asleep
    <2> QED
        BY <1>2, <2>1, <2>9, <2>2, <2>3, Unmoved DEF StartQueue, Queue!Open
<1>3. CASE StartScheduler
    <2>1. Composed'
        BY <1>3 DEF StartScheduler, Composed, Lifecycle, composition, CompositionTypeOK,
                    FailedCompositionReleases
    <2>2. Lifecycle'
        BY <1>3 DEF StartScheduler, Lifecycle, AppStates, Shut, Over
    <2>3. OneByOne' /\ Locked' /\ HasRoom'
        <3>1. CASE UNCHANGED caller
            BY <1>3, <3>1, Unmoved DEF StartScheduler
        <3>2. CASE caller' = [caller EXCEPT ![Loop] = "waiting"]
            BY <1>3, <3>2, CallerMoves DEF StartScheduler, Asleep, Callers, Activities
        <3> QED
            BY <1>3, <3>1, <3>2 DEF StartScheduler
    <2>4. Asleep'
        BY <1>3 DEF StartScheduler, Asleep
    <2> QED
        BY <1>3, <2>1, <2>2, <2>3, <2>4, Unmoved DEF StartScheduler
<1>4. CASE CloseScheduler
    <2>1. Composed'
        BY <1>4 DEF CloseScheduler, Composed, composition, CompositionTypeOK,
                    FailedCompositionReleases
    <2>2. Lifecycle'
        BY <1>4 DEF CloseScheduler, Lifecycle, AppStates, Shut, Over
    <2>9. Asleep'
        BY <1>4 DEF CloseScheduler, Asleep
    <2> QED
        BY <1>4, <2>1, <2>9, <2>2, Unmoved DEF CloseScheduler
<1>5. CASE CloseQueue
    <2>1. Composed'
        BY <1>5 DEF CloseQueue, Composed, composition, CompositionTypeOK,
                    FailedCompositionReleases
    <2>2. Lifecycle'
        BY <1>5 DEF CloseQueue, Queue!Shut, Lifecycle, AppStates, Shut, Over
    <2>3. Held'
        BY <1>5 DEF CloseQueue, Queue!Shut, Held
    <2>9. Asleep'
        BY <1>5 DEF CloseQueue, Asleep
    <2> QED
        BY <1>5, <2>1, <2>9, <2>2, <2>3, Unmoved DEF CloseQueue, Queue!Shut
<1>6. CASE CloseService
    <2>1. Composed'
        BY <1>6 DEF CloseService, Composed, composition, CompositionTypeOK,
                    FailedCompositionReleases
    <2>2. Lifecycle'
        BY <1>6 DEF CloseService, Lifecycle, AppStates, Shut, Over
    <2>9. Asleep'
        BY <1>6 DEF CloseService, Asleep
    <2> QED
        BY <1>6, <2>1, <2>9, <2>2, Unmoved DEF CloseService
<1>7. CASE EndClose
    <2>1. composed = "live" /\ open = Databases
        BY <1>7 DEF EndClose, Composed, OpenBefore
    <2>2. Composed'
        BY <1>7, <2>1 DEF EndClose, CloseResources, Composed, CompositionTypeOK,
                          FailedCompositionReleases
    <2>3. Lifecycle'
        BY <1>7 DEF EndClose, Lifecycle, AppStates, Shut, Over
    <2>9. Asleep'
        BY <1>7 DEF EndClose, Asleep
    <2> QED
        BY <1>7, <2>9, <2>2, <2>3, Unmoved DEF EndClose
<1> QED
    BY <1>1, <1>2, <1>3, <1>4, <1>5, <1>6, <1>7 DEF Closing

-----------------------------------------------------------------------------
(* What is true in every state.                                            *)

\* Every step preserves the invariant.
LEMMA NextHInv == HInv /\ [Next]_vars => HInv'
<1> SUFFICES ASSUME HInv, [Next]_vars PROVE HInv'
    OBVIOUS
<1>1. CASE \E t \in Turns : SubmitTurn(t)
    BY <1>1, SubmitTurnHInv
<1>2. CASE BeginJob \/ FinishTurn
    BY <1>2, BeginJobHInv, FinishTurnHInv
<1>3. CASE \E r \in Runs : Work(r)
    BY <1>3, WorkHInv, FinishRunHInv DEF Work
<1>4. CASE \E c \in Callers : Resume(c) \/ RunReturns(c)
    BY <1>4, LockHInv, SchedulerHInv
<1>5. CASE LoopWakes \/ LoopStops \/ \E c \in Triggers : TriggerNow(c)
    BY <1>5, LockHInv, SchedulerHInv
<1>6. CASE ComposeStep \/ StartQueue \/ StartScheduler \/ CloseScheduler \/ Closing
    BY <1>6, AppHInv
<1>7. CASE UNCHANGED vars
    BY <1>7, Unmoved DEF HInv, vars, queueVars, lifecycle, Results
<1> QED
    BY <1>1, <1>2, <1>3, <1>4, <1>5, <1>6, <1>7 DEF Next

\* The inductive invariant of the heartbeat.
THEOREM HeartbeatInductive == Spec => []HInv
<1> QED
    BY InitHInv, NextHInv, PTL DEF Spec

\* The types: the counters never exceed the number of turns, no heartbeat
\* beyond the bound is begun, and an alert is on its way while it runs.
THEOREM HeartbeatTypes == Spec => []TypeOK
<1>1. HInv => TypeOK
    <2> SUFFICES ASSUME HInv PROVE TypeOK
        OBVIOUS
    <2>1. counted \in Counters
        <3>1. /\ Cardinality(Ended) <= Cardinality(Turns) /\ Cardinality(Ended) \in Nat
              /\ Cardinality(Turns) \in Nat
            BY HeartbeatAssumption, FS_Subset, FS_CardinalityType DEF Ended
        <3>2. counted.completed \in Nat /\ counted.failed \in Nat
            BY DEF HInv, Counted
        <3>3. counted.completed \in 0 .. Cardinality(Turns) /\ counted.failed \in 0 .. Cardinality(Turns)
            BY <3>1, <3>2 DEF HInv, Counted
        <3> QED
            BY <3>3 DEF HInv, Counted, Counters
    <2>2. Len(runs) <= MaxRuns
        BY BegunRuns, LockingIsFinite, Parameters DEF HInv, HasRoom
    <2>3. DOMAIN lock = 1 .. Len(lock) /\ DOMAIN runs = 1 .. Len(runs)
        BY BegunRuns DEF HInv, Locked
    <2> QED
        BY <2>1, <2>2, <2>3 DEF TypeOK, HInv, Locked, Windows, Lifecycle, Composed, Staged,
                                Activities, Beats, Stages
<1> QED
    BY <1>1, HeartbeatInductive, PTL

\* Whatever ended the composition, its databases are closed, but for the
\* cases the property names.
THEOREM CompositionReleases == Spec => []FailedCompositionReleases
<1>1. HInv => FailedCompositionReleases
    BY DEF HInv, Composed
<1> QED
    BY <1>1, HeartbeatInductive, PTL

\* A turn has both databases, and the shutdown leaves only open what has
\* refused to close.
THEOREM DatabasesOutlive == Spec => []DatabasesOutliveTurns
<1>1. HInv => DatabasesOutliveTurns
    <2> SUFFICES ASSUME HInv PROVE DatabasesOutliveTurns
        OBVIOUS
    <2>1. ASSUME running \in Turns
          PROVE  open = Databases
        <3>1. running # NoJob
            BY <2>1, HeartbeatAssumption
        <3>2. app # "new" /\ app # "closed"
            BY <3>1 DEF HInv, Lifecycle, Over
        <3> QED
            BY <3>2 DEF HInv, Composed, OpenBefore
    <2> QED
        BY <2>1 DEF DatabasesOutliveTurns, HInv, Composed
<1> QED
    BY <1>1, HeartbeatInductive, PTL

\* What the policy expects says "repeated failures" for nothing but failures
\* of a queue that works.
LEMMA ExpectedFailures ==
    ASSUME NEW snapshot, snapshot.worker
    PROVE  Expected(snapshot) = "repeated_failures" <=> snapshot.failed >= Threshold
BY DEF Expected

\* Each stored alert of failures is about failures nobody was alerted of.
THEOREM Alerts == Spec => []AlertsAreJustified
<1>1. HInv => AlertsAreJustified
    <2> SUFFICES ASSUME HInv, NEW r \in stored
                 PROVE  runs[r].reason = "repeated_failures" <=>
                            runs[r].seen.failed - FailuresBefore(r) >= Threshold
        BY DEF AlertsAreJustified
    <2>1. /\ runs[r].snapshot.worker /\ runs[r].reason = Expected(runs[r].snapshot)
          /\ runs[r].snapshot.failed = runs[r].seen.failed - FailuresBefore(r)
        BY DEF HInv, Staged, Windows
    <2> QED
        BY <2>1, ExpectedFailures
<1> QED
    BY <1>1, HeartbeatInductive, PTL

\* Marked results were delivered, and only stored alerts are.
THEOREM Sent == Spec => []SentWasDelivered
<1>1. HInv => SentWasDelivered
    BY DEF HInv, Staged
<1> QED
    BY <1>1, HeartbeatInductive, PTL

\* Heartbeats do not overlap, neither in the queue nor at their callers.
THEOREM OneAtATime == Spec => []OneHeartbeatAtATime
<1>1. HInv => OneHeartbeatAtATime
    <2> SUFFICES ASSUME HInv PROVE OneHeartbeatAtATime
        OBVIOUS
    <2>1. {r \in Runs : answer[r] = "pending"} \subseteq {Len(runs)}
        BY DEF HInv, OneByOne
    <2>2. {c \in Callers : caller[c] = "running"} \subseteq {lock[1]}
        BY DEF HInv, Locked
    <2>3. \A S, x : S \subseteq {x} => Cardinality(S) <= 1
        <3> TAKE S, x
        <3> HAVE S \subseteq {x}
        <3>1. S = {} \/ S = {x}
            OBVIOUS
        <3>2. Cardinality({}) = 0 /\ Cardinality({x}) = 1
            BY FS_EmptySet, FS_Singleton
        <3> QED
            BY <3>1, <3>2
    <2> QED
        BY <2>1, <2>2, <2>3 DEF OneHeartbeatAtATime
<1> QED
    BY <1>1, HeartbeatInductive, PTL

\* One waiting job is no pressure if the threshold is above it.
LEMMA NoPressure ==
    ASSUME NEW snapshot, snapshot.worker, snapshot.depth \in Nat, snapshot.depth <= 1,
           Capacity * Pressure[1] > Pressure[2]
    PROVE  Expected(snapshot) # "queue_pressure"
<1>1. Pressure[1] \in Nat /\ Pressure[2] \in Nat /\ Capacity \in Nat
    BY HeartbeatAssumption DEF PolicyIsValid
<1>2. snapshot.depth * Pressure[2] <= Pressure[2]
    <2>1. snapshot.depth = 0 \/ snapshot.depth = 1
        OBVIOUS
    <2>2. 0 * Pressure[2] = 0 /\ 1 * Pressure[2] = Pressure[2]
        BY <1>1
    <2> QED
        BY <1>1, <2>1, <2>2
<1>3. ~(snapshot.depth * Pressure[2] >= Capacity * Pressure[1])
    <2> DEFINE left == snapshot.depth * Pressure[2]
               right == Capacity * Pressure[1]
    <2>1. left \in Nat /\ right \in Nat
        BY <1>1
    <2>2. left <= Pressure[2] /\ right > Pressure[2]
        BY <1>2
    <2> HIDE DEF left, right
    <2>3. ~(left >= right)
        BY <1>1, <2>1, <2>2
    <2> QED
        BY <2>3 DEF left, right
<1> QED
    BY <1>3 DEF Expected

\* No heartbeat sees more than one job waiting, a queue with room for two
\* never refuses one for want of it, and none is reported to be under
\* pressure if one waiting job is no pressure.
THEOREM ShortQueue == Spec => []QueueStaysShort
<1>1. HInv /\ OneHeartbeatAtATime => QueueStaysShort
    <2> SUFFICES ASSUME HInv, OneHeartbeatAtATime PROVE QueueStaysShort
        OBVIOUS
    <2>1. \A r \in DOMAIN runs : runs[r].snapshot.depth <= 1
        BY BegunRuns DEF HInv, Windows
    <2>2. Capacity > 1 => \A j \in Turns \cup Runs : answer[j] # "full"
        BY DEF HInv, OneByOne, Jobs
    <2>3. ASSUME Capacity * Pressure[1] > Pressure[2], NEW r \in stored
          PROVE  runs[r].reason # "queue_pressure"
        <3>1. /\ r \in 1 .. Len(runs) /\ runs[r].snapshot.worker
              /\ runs[r].reason = Expected(runs[r].snapshot)
            BY DEF HInv, Staged
        <3>2. runs[r].snapshot.depth \in Nat /\ runs[r].snapshot.depth <= 1
            BY <2>1, <3>1, BegunRuns DEF Beats
        <3> QED
            BY <2>3, <3>1, <3>2, NoPressure
    <2> QED
        BY <2>1, <2>2, <2>3 DEF QueueStaysShort
<1> QED
    BY <1>1, OneAtATime, HeartbeatInductive, PTL

\* Nothing is executed, stored or sent once the queue is closed.
THEOREM NothingAfter == Spec => NothingAfterShutdown
<1>1. HInv /\ [Next]_vars => [(app \in Over) => QuietStep]_vars
    <2> SUFFICES ASSUME HInv, Next, app \in Over
                 PROVE  QuietStep
        OBVIOUS
    <2>1. backlog = <<>> /\ running = NoJob /\ NoJob \notin Turns /\ NoJob \notin Runs
        BY HeartbeatAssumption DEF HInv, Lifecycle
    <2>2. ~BeginJob /\ ~FinishTurn /\ \A r \in Runs : ~Work(r)
        BY <2>1 DEF BeginJob, FinishTurn, Work, EvaluationFails, Evaluate, Notify,
                    MarkNotificationSent, FinishRun, At, Queue!Begin
    <2>3. CASE \E t \in Turns : SubmitTurn(t)
        BY <2>3 DEF SubmitTurn, Over
    <2>4. CASE \E c \in Callers : Resume(c) \/ RunReturns(c)
        BY <2>4 DEF Resume, RunOnce, SnapshotIsInvalid, RunReturns, Queue!Offer, Queue!Refuse,
                    queueVars, Results, QuietStep
    <2>5. CASE LoopWakes \/ LoopStops \/ \E c \in Triggers : TriggerNow(c)
        BY <2>5 DEF LoopWakes, LoopStops, TriggerNow, Acquire, RunOnce, SnapshotIsInvalid,
                    Queue!Offer, Queue!Refuse, queueVars, Results, QuietStep
    <2>6. CASE ComposeStep \/ StartQueue \/ StartScheduler \/ CloseScheduler \/ Closing
        BY <2>6 DEF ComposeStep, StartQueue, StartScheduler, CloseScheduler, Closing, CloseQueue,
                    CloseService, EndClose, Queue!Open, Queue!Shut, Untouched, queueVars, Results,
                    QuietStep
    <2> QED
        BY <2>2, <2>3, <2>4, <2>5, <2>6 DEF Next
<1> QED
    BY <1>1, HeartbeatInductive, PTL DEF Spec, NothingAfterShutdown, Over

\* What turns and heartbeats, the loop and the shutdown do to the queue is
\* what the executor allows its callers.
THEOREM KeepsToTheExecutor == Spec => Queue!SafeSpec
<1>1. Init => Queue!Init
    BY DEF Init
<1>2. HInv /\ [Next]_vars => [Queue!Next]_Queue!vars
    <2> SUFFICES ASSUME HInv, [Next]_vars
                 PROVE  Queue!Next \/ UNCHANGED queueVars
        BY DEF queueVars, Queue!vars
    <2>1. ASSUME NEW t \in Turns, SubmitTurn(t)
          PROVE  Queue!Next
        BY <2>1 DEF SubmitTurn, Queue!Next
    <2>2. CASE BeginJob \/ FinishTurn
        BY <2>2 DEF BeginJob, FinishTurn, Queue!Next
    <2>3. ASSUME NEW r \in Runs, Work(r)
          PROVE  Queue!Next \/ UNCHANGED queueVars
        BY <2>3 DEF Work, EvaluationFails, Evaluate, Notify, MarkNotificationSent, FinishRun,
                    During, Queue!Next
    <2>4. ASSUME NEW c \in Callers, NEW waiters, MayRun(c, waiters), RunOnce(c, waiters)
          PROVE  Queue!Next \/ UNCHANGED queueVars
        <3>1. Len(runs) + 1 \in Turns \cup Runs
            BY <2>4, RoomToRun
        <3> QED
            BY <2>4, <3>1 DEF RunOnce, SnapshotIsInvalid, Queue!Next
    <2>9. ASSUME NEW c \in Callers, Acquire(c), caller[c] \notin {"locking", "running"},
                 c = Loop => caller[c] # "idle"
          PROVE  Queue!Next \/ UNCHANGED queueVars
        BY <2>4, <2>9 DEF Acquire, MayRun
    <2>5. ASSUME NEW c \in Callers, Resume(c) \/ RunReturns(c)
          PROVE  Queue!Next \/ UNCHANGED queueVars
        <3>1. CASE Resume(c)
            <4>1. lock # <<>> /\ lock[1] = c /\ caller[c] = "locking"
                BY <3>1 DEF Resume, HasLock, HInv, Locked
            <4>2. MayRun(c, Tail(lock))
                BY <4>1 DEF MayRun
            <4> QED
                BY <2>4, <3>1, <4>2 DEF Resume
        <3> QED
            BY <2>5, <3>1 DEF RunReturns
    <2>6. CASE LoopWakes \/ LoopStops \/ \E c \in Triggers : TriggerNow(c)
        <3>1. Loop \in Callers /\ Triggers \subseteq Callers /\ Loop \notin Triggers
            BY HeartbeatAssumption DEF Callers
        <3> QED
            BY <2>6, <2>9, <3>1 DEF LoopWakes, LoopStops, TriggerNow
    <2>7. CASE ComposeStep \/ StartQueue \/ StartScheduler \/ CloseScheduler \/ Closing
        BY <2>7 DEF ComposeStep, StartQueue, StartScheduler, CloseScheduler, Closing, CloseQueue,
                    CloseService, EndClose, Queue!Next
    <2>8. CASE UNCHANGED vars
        BY <2>8 DEF vars
    <2> QED
        BY <2>1, <2>2, <2>3, <2>5, <2>6, <2>7, <2>8 DEF Next
<1> QED
    BY <1>1, <1>2, HeartbeatInductive, PTL DEF Spec, Queue!SafeSpec
=============================================================================
