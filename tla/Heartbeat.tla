----------------------------- MODULE Heartbeat -----------------------------
(***************************************************************************)
(* src/src/editorial_team/operations and the lifecycle of                  *)
(* interfaces/telegram.py: the scheduler's loop and calls of trigger_now() *)
(* run heartbeats, one at a time, as jobs of the runtime queue that the    *)
(* Telegram turns go through; a heartbeat collects a window of the queue's *)
(* counters, is evaluated, stored, and perhaps sent to the maintainer; the *)
(* application, once it is composed, starts and closes it all.             *)
(*                                                                         *)
(* The queue is what it promises (SerialExecutor), not its worker: that    *)
(* RuntimeQueue keeps the promise is shown there.                          *)
(***************************************************************************)
EXTENDS Composition, Naturals, Sequences

CONSTANTS
    Turns,      \* Telegram updates
    Triggers,   \* calls of trigger_now()
    Loop,       \* the scheduler's own task
    MaxRuns,    \* bound: heartbeats
    Capacity,   \* of the queue
    Threshold,  \* failure_threshold
    Pressure,   \* queue_pressure_ratio, as a fraction <<numerator, denominator>>
    NoJob

Runs == 1 .. MaxRuns

\* AdminPolicy
PolicyIsValid ==
    /\ Threshold \in Nat \ {0}
    /\ Pressure \in (Nat \ {0}) \X (Nat \ {0}) /\ Pressure[1] <= Pressure[2]

ASSUME HeartbeatAssumption ==
    /\ MaxRuns \in Nat /\ Capacity \in Nat \ {0}
    /\ PolicyIsValid
    /\ IsFiniteSet(Turns) /\ IsFiniteSet(Triggers)
    /\ Loop \notin Triggers
    /\ NoJob \notin Turns \cup Runs
    /\ Turns \cap Runs = {}

VARIABLES
    phase, backlog, running, answer,  \* the queue
    counted,    \* its counters of Telegram jobs
    baseline,   \* the collector's
    caller,     \* what the loop and each trigger_now() call are doing
    lock,       \* _run_lock: its holder, then those that wait for it
    runs,       \* the heartbeats begun, in their order
    stored,     \* results in the database ...
    sent,       \* ... those with notification_sent
    delivered,  \* alerts the maintainer got
    stopping,   \* the scheduler's _closed and its stop event
    app         \* where the application is

queueVars == <<phase, backlog, running, answer>>
lifecycle == <<app, composition>>
vars == <<queueVars, counted, baseline, caller, lock, runs, stored, sent, delivered,
          stopping, lifecycle>>

Queue == INSTANCE SerialExecutor WITH Jobs <- Turns \cup Runs, Fatal <- {}

Callers == Triggers \cup {Loop}
Reasons == {"system_healthy", "worker_stopped", "repeated_failures", "queue_pressure"}
AppStates == {"new", "initializing", "running", "start_failed",
              "closing_scheduler", "closing_queue", "closing_service", "closed"}

Counters == [completed : 0 .. Cardinality(Turns), failed : 0 .. Cardinality(Turns)]

\* The types, and that an alert is only on its way to the maintainer while
\* its heartbeat runs, is stored, and reports a problem.
TypeOK ==
    /\ counted \in Counters /\ baseline \in Counters
    /\ caller \in [Callers -> {"idle", "waiting", "locking", "running", "ended",
                               "done", "failed", "refused"}]
    /\ \A i \in DOMAIN lock : caller[lock[i]] \in {"locking", "running"}
    /\ runs \in Seq([by : Callers, seen : Counters,
                     snapshot : [worker : BOOLEAN, depth : Nat, completed : Nat, failed : Nat],
                     stage : {"offered", "notify", "mark", "done", "failed"},
                     reason : Reasons \cup {"none"}])
    /\ Len(runs) <= MaxRuns
    /\ stopping \in BOOLEAN
    /\ app \in AppStates
    /\ CompositionTypeOK
    /\ \A r \in DOMAIN runs :
           runs[r].stage \in {"notify", "mark"} =>
               running = r /\ r \in stored /\ runs[r].reason # "system_healthy"

Init ==
    /\ Queue!Init
    /\ counted = [completed |-> 0, failed |-> 0]
    /\ baseline = [completed |-> 0, failed |-> 0]
    /\ caller = [c \in Callers |-> "idle"]
    /\ lock = <<>>
    /\ runs = <<>>
    /\ stored = {} /\ sent = {} /\ delivered = {}
    /\ stopping = FALSE
    /\ app = "new"
    /\ CompositionInit

Scheduling == <<caller, lock, runs>>
Results == <<stored, sent, delivered>>

-----------------------------------------------------------------------------
(* Telegram turns.  The application handles one update after the other, so *)
(* that a turn is only submitted when the one before it has its answer.    *)
(* Closing does not wait for that answer here, which allows more than the  *)
(* bot library does.                                                       *)
OneUpdateAtATime == \A t \in Turns : answer[t] # "pending"

SubmitTurn(t) ==
    /\ app = "running"
    /\ OneUpdateAtATime
    /\ Queue!Offer(t) \/ Queue!Refuse(t)
    /\ UNCHANGED <<counted, baseline, Scheduling, Results, stopping, lifecycle>>

\* The worker takes the next job.
BeginJob ==
    /\ Queue!Begin
    /\ UNCHANGED <<counted, baseline, Scheduling, Results, stopping, lifecycle>>

\* A turn ends; only a failure to deliver its answer makes it a failed job.
FinishTurn ==
    /\ running \in Turns
    /\ Queue!Finish
    /\ counted' = IF answer'[running] = "value"
                  THEN [counted EXCEPT !.completed = @ + 1]
                  ELSE [counted EXCEPT !.failed = @ + 1]
    /\ UNCHANGED <<baseline, Scheduling, Results, stopping, lifecycle>>

-----------------------------------------------------------------------------
(* run_once(): collect() and the call of submit() happen without an await. *)

\* _delta(): the queue's counters never decrease while it lives.
Delta(now, before) == IF now >= before THEN now - before ELSE now

\* stats() of the queue.  (The depth leaves the sentinel of close() out: no snapshot taken after it
\* is ever evaluated, because the heartbeat is refused.)
Stats ==
    [worker |-> phase # "new" /\ app \notin {"closing_service", "closed"},
     depth |-> Len(backlog)]

Snapshot ==
    [worker |-> Stats.worker, depth |-> Stats.depth,
     completed |-> Delta(counted.completed, baseline.completed),
     failed |-> Delta(counted.failed, baseline.failed)]

Begun(c, stage) ==
    Append(runs, [by |-> c, seen |-> counted, snapshot |-> Snapshot, stage |-> stage,
                  reason |-> "none"])

WantsLock(c) == caller[c] = "locking"  \* mutant: the lock is not awaited
HasLock(c) == lock # <<>> /\ Head(lock) = c /\ caller[c] = "locking"

OldBaseline == [counted EXCEPT !.failed = baseline.failed]  \* mutant: windows overlap
NewBaseline == counted

\* OperationalSnapshot refuses a last success after the time of observation.
SnapshotIsInvalid(c) ==
    /\ runs' = Begun(c, "failed")
    /\ UNCHANGED queueVars

\* What a caller does when run_once() has returned, or raised: the loop goes on in both cases.
After(c, returned) ==
    IF c = Loop THEN "waiting" ELSE IF returned THEN "done" ELSE "failed"

\* A heartbeat of c, which has the lock, while `waiters` wait for it: c goes on to wait for the job
\* the queue takes, or raises and releases the lock before anything else happens.
RunOnce(c, waiters) ==
    /\ baseline' = NewBaseline
    /\ LET r == Len(runs) + 1 IN
       \/ /\ Queue!Offer(r)
          /\ runs' = Begun(c, "offered")
          /\ caller' = [caller EXCEPT ![c] = "running"]
          /\ lock' = <<c>> \o waiters
       \/ /\ \/ Queue!Refuse(r) /\ runs' = Begun(c, "offered")
             \/ SnapshotIsInvalid(c)
          /\ caller' = [caller EXCEPT ![c] = After(c, FALSE)]
          /\ lock' = waiters
    /\ UNCHANGED <<counted, Results, stopping, lifecycle>>

\* expected_admin_assessment()
Expected(snapshot) ==
    IF ~snapshot.worker THEN "worker_stopped"
    ELSE IF snapshot.failed >= Threshold THEN "repeated_failures"
    ELSE IF snapshot.depth * Pressure[2] >= Capacity * Pressure[1] THEN "queue_pressure"
    ELSE "system_healthy"

At(r, stage) == r \in DOMAIN runs /\ running = r /\ runs[r].stage = stage
Advance(r, stage) == runs' = [runs EXCEPT ![r].stage = stage]
During == <<queueVars, counted, baseline, caller, lock, stopping, lifecycle>>

\* save() of the store; identifiers are new.
Save(r) == stored' = stored \cup {r}

\* The agent raises, or the store does.
EvaluationFails(r) ==
    /\ At(r, "offered")
    /\ Advance(r, "failed")
    /\ UNCHANGED <<Results, During>>

\* evaluate_and_store(): only an assessment the policy agrees with is saved,
\* and only an alert is sent.
Evaluate(r) ==
    /\ At(r, "offered")
    /\ \E reason \in Reasons :
           IF reason # Expected(runs[r].snapshot)
           THEN Advance(r, "failed") /\ UNCHANGED stored
           ELSE /\ Save(r)
                /\ runs' = [runs EXCEPT ![r].reason = reason,
                                        ![r].stage = IF reason = "system_healthy"
                                                     THEN "done" ELSE "notify"]
    /\ UNCHANGED <<sent, delivered, During>>

NotifyMarkedFirst(r) ==  \* mutant: the result is marked before it is sent
    /\ At(r, "notify")
    /\ sent' = sent \cup {r}
    /\ \/ delivered' = delivered \cup {r} /\ Advance(r, "done")
       \/ delivered' = delivered /\ Advance(r, "failed")
    /\ UNCHANGED <<stored, During>>

\* A failure to send may still have reached the maintainer.
Notify(r) ==
    /\ At(r, "notify")
    /\ \/ delivered' = delivered \cup {r} /\ Advance(r, "mark")
       \/ delivered' \in {delivered, delivered \cup {r}} /\ Advance(r, "failed")
    /\ UNCHANGED <<stored, sent, During>>

\* mark_notification_sent() may fail before its commit, and after it, when it
\* reads the result back.
MarkNotificationSent(r) ==
    /\ At(r, "mark")
    /\ \/ sent' = sent \cup {r} /\ Advance(r, "done")
       \/ sent' \in {sent, sent \cup {r}} /\ Advance(r, "failed")
    /\ UNCHANGED <<stored, delivered, During>>

FinishRun(r) ==
    /\ At(r, "done") \/ At(r, "failed")
    /\ Queue!Finish
    /\ answer'[r] = IF runs[r].stage = "done" THEN "value" ELSE "error"
    /\ UNCHANGED <<counted, baseline, Scheduling, Results, stopping, lifecycle>>

-----------------------------------------------------------------------------
(* The scheduler.                                                          *)

Room == Len(runs) + Cardinality({c \in Callers : caller[c] = "locking"}) < MaxRuns

\* A lock that is free is taken at once, and the heartbeat begins; else the caller waits for it.
Acquire(c) ==
    /\ Room
    /\ IF lock = <<>> THEN RunOnce(c, <<>>)
       ELSE /\ lock' = Append(lock, c)
            /\ caller' = [caller EXCEPT ![c] = "locking"]
            /\ UNCHANGED <<queueVars, counted, baseline, runs, Results, stopping, lifecycle>>

\* The lock has been released to the caller that has waited longest.
Resume(c) == HasLock(c) /\ RunOnce(c, Tail(lock))

\* The interval is over before close() is called.
LoopWakes ==
    /\ caller[Loop] = "waiting"
    /\ ~stopping
    /\ Acquire(Loop)

LoopStops ==
    /\ caller[Loop] = "waiting"
    /\ stopping
    /\ caller' = [caller EXCEPT ![Loop] = "ended"]
    /\ UNCHANGED <<queueVars, counted, baseline, lock, runs, Results, stopping, lifecycle>>

\* There is a scheduler to call once the application is composed.
TriggerNow(c) ==
    /\ composed = "live"
    /\ caller[c] = "idle"
    /\ \/ ~stopping /\ Acquire(c)
       \/ /\ stopping
          /\ caller' = [caller EXCEPT ![c] = "refused"]
          /\ UNCHANGED <<queueVars, counted, baseline, lock, runs, Results, stopping, lifecycle>>

LastRun(c) == CHOOSE r \in DOMAIN runs :
                  runs[r].by = c /\ \A k \in DOMAIN runs : runs[k].by = c => k <= r

HasEnded(r) == answer[r] # "pending"

RunReturnsHolding(c) ==  \* mutant: a run that raises keeps the lock
    /\ caller[c] = "running"
    /\ HasEnded(LastRun(c))
    /\ lock' = IF answer[LastRun(c)] = "value" THEN Tail(lock) ELSE lock
    /\ caller' = [caller EXCEPT ![c] = After(c, answer[LastRun(c)] = "value")]
    /\ UNCHANGED <<queueVars, counted, baseline, runs, Results, stopping, lifecycle>>

\* The job of the heartbeat is over, and run_once() returns or raises: the lock is released.
RunReturns(c) ==
    /\ caller[c] = "running"
    /\ HasEnded(LastRun(c))
    /\ lock' = Tail(lock)
    /\ caller' = [caller EXCEPT ![c] = After(c, answer[LastRun(c)] = "value")]
    /\ UNCHANGED <<queueVars, counted, baseline, runs, Results, stopping, lifecycle>>

-----------------------------------------------------------------------------
(* The application: start_runtime() and close_runtime().                   *)

Untouched == <<counted, baseline, lock, runs, Results>>

ComposeStep ==
    /\ Compose
    /\ UNCHANGED <<queueVars, Untouched, caller, stopping, app>>

StartQueue ==
    /\ app = "new"
    /\ composed = "live"
    /\ Queue!Open
    /\ app' = "initializing"
    /\ UNCHANGED <<Untouched, composition, caller, stopping>>

\* The heartbeat store is initialised in a thread, then the loop starts.
StartScheduler ==
    /\ app = "initializing"
    /\ \/ app' = "running" /\ caller' = [caller EXCEPT ![Loop] = "waiting"]
       \/ app' = "start_failed" /\ UNCHANGED caller
    /\ UNCHANGED <<Untouched, composition, queueVars, stopping>>

CloseScheduler ==
    /\ app \in {"running", "start_failed"}
    /\ stopping' = TRUE
    /\ app' = "closing_scheduler"
    /\ UNCHANGED <<Untouched, composition, queueVars, caller>>

LoopHasEnded == caller[Loop] \in {"idle", "ended"}

\* The scheduler's close() has awaited its task: the queue's close() begins.
CloseQueue ==
    /\ app = "closing_scheduler"
    /\ LoopHasEnded
    /\ Queue!Shut
    /\ app' = "closing_queue"
    /\ UNCHANGED <<Untouched, composition, caller, stopping>>

CloseServiceAtOnce ==  \* mutant: the job in hand is not awaited
    /\ app = "closing_queue"
    /\ backlog = <<>>
    /\ app' = "closing_service"
    /\ UNCHANGED <<Untouched, composition, queueVars, caller, stopping>>

CloseService ==
    /\ app = "closing_queue"
    /\ backlog = <<>> /\ running = NoJob
    /\ app' = "closing_service"
    /\ UNCHANGED <<Untouched, composition, queueVars, caller, stopping>>

EndClose ==
    /\ app = "closing_service"
    /\ app' = "closed"
    /\ CloseResources
    /\ UNCHANGED <<Untouched, queueVars, caller, stopping>>

Work(r) == EvaluationFails(r) \/ Evaluate(r) \/ Notify(r) \/ MarkNotificationSent(r)
           \/ FinishRun(r)
Closing == CloseQueue \/ CloseService \/ EndClose

Next ==
    \/ ComposeStep \/ StartQueue \/ StartScheduler \/ CloseScheduler \/ Closing
    \/ \E t \in Turns : SubmitTurn(t)
    \/ BeginJob \/ FinishTurn
    \/ \E r \in Runs : Work(r)
    \/ \E c \in Callers : Resume(c) \/ RunReturns(c)
    \/ \E c \in Triggers : TriggerNow(c)
    \/ LoopWakes \/ LoopStops

Spec == Init /\ [][Next]_vars

\* The event loop runs what can run, and the agents and the bot answer.
Fairness ==
    /\ WF_vars(BeginJob) /\ WF_vars(FinishTurn)
    /\ \A r \in Runs : WF_vars(Work(r))
    /\ \A c \in Callers : WF_vars(Resume(c) \/ RunReturns(c))
    /\ WF_vars(LoopStops)
    /\ WF_vars(Closing)

FairSpec == Spec /\ Fairness

-----------------------------------------------------------------------------
\* Heartbeats of the loop and of trigger_now() never overlap, neither while
\* one waits in the queue nor while it runs (scheduler.py:1).
OneHeartbeatAtATime ==
    /\ Cardinality({r \in Runs : answer[r] = "pending"}) <= 1
    /\ Cardinality({c \in Callers : caller[c] = "running"}) <= 1

\* What is stored is right whatever the agent answers: repeated failures are
\* reported exactly when the turns that failed since the heartbeat before
\* this one reach the threshold; no failure makes two alerts.
FailuresBefore(r) == IF r = 1 THEN 0 ELSE runs[r - 1].seen.failed
AlertsAreJustified ==
    \A r \in stored :
        runs[r].reason = "repeated_failures" <=>
            runs[r].seen.failed - FailuresBefore(r) >= Threshold

\* A result that says it was sent was delivered, and the maintainer only gets
\* alerts that are in the database.
SentWasDelivered ==
    /\ sent \subseteq delivered
    /\ delivered \subseteq {r \in stored : runs[r].reason # "system_healthy"}

\* Updates are handled one by one and heartbeats do not overlap: a heartbeat
\* never sees more than one waiting job, so that a queue of more than one
\* slot never refuses a job for its capacity, and a queue whose threshold of
\* pressure is more than one job is never reported to be under pressure
\* (telegram.py:366, policy.py:65-69).
QueueStaysShort ==
    /\ OneHeartbeatAtATime
    /\ \A r \in DOMAIN runs : answer[r] # "closed" => runs[r].snapshot.depth <= 1
    /\ Capacity > 1 => \A j \in Turns \cup Runs : answer[j] # "full"
    /\ Capacity * Pressure[1] > Pressure[2] =>
           \A r \in stored : runs[r].reason # "queue_pressure"

\* A turn has both databases from its beginning to its end, and when the
\* shutdown is over only what refused to close is open, whatever failed on
\* the way (telegram.py:180-203, composition.py:174-186).
DatabasesOutliveTurns ==
    /\ running \in Turns => open = Databases
    /\ app = "closed" => open = unclosed

QuietStep == UNCHANGED <<stored, sent, delivered, counted, running>>

\* Once close_runtime() has closed the queue, nothing is stored or sent any
\* more, not even by a trigger_now() call that waits (telegram.py:180-203).
NothingAfterShutdown ==
    [][(app \in {"closing_service", "closed"}) => QuietStep]_vars

\* The shutdown comes to an end, with the loop, the queue and any heartbeat.
ShutdownEnds == app = "closing_scheduler" ~> app = "closed"

\* "Stop future runs and await any in-flight heartbeat." (scheduler.py:91):
\* when the close() of a scheduler whose loop was started has returned, and
\* the shutdown has gone on, no heartbeat is executed.
NoHeartbeatAfterClose ==
    app \in {"closing_queue", "closing_service", "closed"} /\ caller[Loop] = "ended" =>
        running \notin Runs
=============================================================================
