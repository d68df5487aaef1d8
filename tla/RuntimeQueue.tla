---------------------------- MODULE RuntimeQueue ----------------------------
(***************************************************************************)
(* src/src/editorial_team/runtime/queue.py: one bounded asyncio queue, at  *)
(* most one worker task, and the coroutines that submit to it, stop        *)
(* waiting for it and close it.                                            *)
(*                                                                         *)
(* An action is the code between two awaits of one coroutine, or a part of *)
(* it: the worker's "finish a job, then get the next one" runs without     *)
(* yielding when a job waits, and is two actions here, which only adds     *)
(* interleavings.                                                          *)
(***************************************************************************)
EXTENDS Naturals, Sequences, FiniteSets

CONSTANTS
    Jobs,      \* calls of submit(), each with its own operation
    Sources,   \* RuntimeJobSource
    SourceOf,  \* the source each job is submitted under
    Capacity,  \* maxsize of the asyncio queue
    Workers,   \* identities of the worker tasks start() may create
    Closers,   \* calls of close()
    Fatal,     \* jobs whose operation may raise a BaseException that is not
               \* an Exception (an asyncio.CancelledError of an inner task)
    STOP,      \* the _STOP sentinel
    NoJob, NoWorker

ASSUME CapacityAssumption == Capacity \in Nat \ {0}
ASSUME SourceAssumption == SourceOf \in [Jobs -> Sources]
ASSUME JobAssumption == /\ Fatal \subseteq Jobs
                        /\ STOP \notin Jobs
                        /\ NoJob \notin Jobs
                        /\ NoWorker \notin Workers
ASSUME FiniteAssumption == IsFiniteSet(Jobs) /\ IsFiniteSet(Workers)

VARIABLES
    accepting,  \* _accepting
    closed,     \* _closed
    worker,     \* _worker: the task the queue refers to
    task,       \* state of each worker task
    current,    \* the job a worker task executes, or died in
    queue,      \* contents of the asyncio queue
    unfinished, \* its count of items put and not yet task_done()
    result,     \* what each submit() call has got
    completed, failed,  \* _completed, _failed
    closer,     \* where each close() call is
    accepted, started   \* history: jobs in the order put and in the order got

vars == <<accepting, closed, worker, task, current, queue, unfinished, result,
          completed, failed, closer, accepted, started>>

Refusals == {"not_started", "closed", "full"}
Settlements == {"value", "error", "cancelled"}

TypeOK ==
    /\ accepting \in BOOLEAN
    /\ closed \in BOOLEAN
    /\ worker \in Workers \cup {NoWorker}
    /\ task \in [Workers -> {"absent", "waiting", "running", "done", "dead"}]
    /\ current \in [Workers -> Jobs \cup {NoJob}]
    /\ queue \in Seq(Jobs \cup {STOP})
    /\ unfinished \in Nat
    /\ result \in [Jobs -> {"new", "pending"} \cup Refusals \cup Settlements]
    /\ completed \in [Sources -> Nat]
    /\ failed \in [Sources -> Nat]
    /\ closer \in [Closers ->
           {"idle", "joining", "stopping", "returned", "ignored", "raised"}]
    /\ accepted \in Seq(Jobs)
    /\ started \in Seq(Jobs)

Init ==
    /\ accepting = FALSE
    /\ closed = FALSE
    /\ worker = NoWorker
    /\ task = [w \in Workers |-> "absent"]
    /\ current = [w \in Workers |-> NoJob]
    /\ queue = <<>>
    /\ unfinished = 0
    /\ result = [j \in Jobs |-> "new"]
    /\ completed = [s \in Sources |-> 0]
    /\ failed = [s \in Sources |-> 0]
    /\ closer = [c \in Closers |-> "idle"]
    /\ accepted = <<>>
    /\ started = <<>>

(***************************************************************************)
(* start(): with a live worker it returns, with a dead one or on a closed  *)
(* queue it raises, and changes nothing.                                   *)
(***************************************************************************)
Start ==
    /\ ~closed
    /\ worker = NoWorker
    /\ accepting' = TRUE
    /\ \E w \in Workers :
           /\ task[w] = "absent"
           /\ worker' = w
           /\ task' = [task EXCEPT ![w] = "waiting"]
    /\ UNCHANGED <<closed, current, queue, unfinished, result, completed, failed,
                   closer, accepted, started>>

(***************************************************************************)
(* submit(): validated and put without an await, then a wait for the       *)
(* job's future.                                                           *)
(***************************************************************************)
Refuse(j) ==
    /\ closed \/ ~accepting
    /\ result' = [result EXCEPT ![j] = IF closed THEN "closed" ELSE "not_started"]
    /\ UNCHANGED <<queue, unfinished, accepted>>

RejectAtCapacity(j) ==
    /\ ~closed /\ accepting
    /\ Len(queue) >= Capacity
    /\ result' = [result EXCEPT ![j] = "full"]
    /\ UNCHANGED <<queue, unfinished, accepted>>

AcceptAfterClose(j) ==  \* mutant: the closed queue is not checked
    /\ accepting \/ closed
    /\ Len(queue) < Capacity
    /\ queue' = Append(queue, j)
    /\ unfinished' = unfinished + 1
    /\ result' = [result EXCEPT ![j] = "pending"]
    /\ accepted' = Append(accepted, j)

Accept(j) ==
    /\ ~closed /\ accepting
    /\ Len(queue) < Capacity
    /\ queue' = Append(queue, j)
    /\ unfinished' = unfinished + 1
    /\ result' = [result EXCEPT ![j] = "pending"]
    /\ accepted' = Append(accepted, j)

Submit(j) ==
    /\ result[j] = "new"
    /\ Refuse(j) \/ RejectAtCapacity(j) \/ Accept(j)
    /\ UNCHANGED <<accepting, closed, worker, task, current, completed, failed,
                   closer, started>>

(***************************************************************************)
(* The coroutine that awaits submit() is cancelled: its future is, the job *)
(* stays in the queue.                                                     *)
(***************************************************************************)
CancelSubmitter(j) ==
    /\ result[j] = "pending"
    /\ result' = [result EXCEPT ![j] = "cancelled"]
    /\ UNCHANGED <<accepting, closed, worker, task, current, queue, unfinished,
                   completed, failed, closer, accepted, started>>

(***************************************************************************)
(* _run_worker() and _execute().                                           *)
(***************************************************************************)
Take(w) ==
    /\ task[w] = "waiting"
    /\ queue # <<>>
    /\ Head(queue) # STOP
    /\ task' = [task EXCEPT ![w] = "running"]
    /\ current' = [current EXCEPT ![w] = Head(queue)]
    /\ started' = Append(started, Head(queue))
    /\ queue' = Tail(queue)
    /\ UNCHANGED <<accepting, closed, worker, unfinished, result, completed,
                   failed, closer, accepted>>

TakeStop(w) ==
    /\ task[w] = "waiting"
    /\ queue # <<>>
    /\ Head(queue) = STOP
    /\ task' = [task EXCEPT ![w] = "done"]
    /\ queue' = Tail(queue)
    /\ unfinished' = unfinished - 1
    /\ UNCHANGED <<accepting, closed, worker, current, result, completed,
                   failed, closer, accepted, started>>

\* A future somebody has cancelled is left alone.
Settled(j, outcome) ==
    IF result[j] = "pending" THEN [result EXCEPT ![j] = outcome] ELSE result

\* The operation has returned and the clock's reading is valid.
Complete(w) ==
    /\ task[w] = "running"
    /\ completed' = [completed EXCEPT ![SourceOf[current[w]]] = @ + 1]
    /\ result' = Settled(current[w], "value")
    /\ task' = [task EXCEPT ![w] = "waiting"]
    /\ current' = [current EXCEPT ![w] = NoJob]
    /\ unfinished' = unfinished - 1
    /\ UNCHANGED <<accepting, closed, worker, queue, failed, closer, accepted,
                   started>>

FailUncounted(w) ==  \* mutant: a failure nobody waits for is not counted
    /\ task[w] = "running"
    /\ failed' = IF result[current[w]] = "pending"
               THEN [failed EXCEPT ![SourceOf[current[w]]] = @ + 1] ELSE failed
    /\ result' = Settled(current[w], "error")
    /\ task' = [task EXCEPT ![w] = "waiting"]
    /\ current' = [current EXCEPT ![w] = NoJob]
    /\ unfinished' = unfinished - 1
    /\ UNCHANGED <<accepting, closed, worker, queue, completed, closer,
                   accepted, started>>

FailUnsettled(w) ==  \* mutant: the future of a failed job is forgotten
    /\ task[w] = "running"
    /\ failed' = [failed EXCEPT ![SourceOf[current[w]]] = @ + 1]
    /\ result' = result
    /\ task' = [task EXCEPT ![w] = "waiting"]
    /\ current' = [current EXCEPT ![w] = NoJob]
    /\ unfinished' = unfinished - 1
    /\ UNCHANGED <<accepting, closed, worker, queue, completed, closer,
                   accepted, started>>

FailNotDone(w) ==  \* mutant: a failed job is not task_done()
    /\ task[w] = "running"
    /\ failed' = [failed EXCEPT ![SourceOf[current[w]]] = @ + 1]
    /\ result' = Settled(current[w], "error")
    /\ task' = [task EXCEPT ![w] = "waiting"]
    /\ current' = [current EXCEPT ![w] = NoJob]
    /\ unfinished' = unfinished
    /\ UNCHANGED <<accepting, closed, worker, queue, completed, closer,
                   accepted, started>>

\* The operation has raised an Exception, or the clock's reading is invalid.
Fail(w) ==
    /\ task[w] = "running"
    /\ failed' = [failed EXCEPT ![SourceOf[current[w]]] = @ + 1]
    /\ result' = Settled(current[w], "error")
    /\ task' = [task EXCEPT ![w] = "waiting"]
    /\ current' = [current EXCEPT ![w] = NoJob]
    /\ unfinished' = unfinished - 1
    /\ UNCHANGED <<accepting, closed, worker, queue, completed, closer,
                   accepted, started>>

DieNotDone(w) ==  \* mutant: task_done() is not in a finally clause
    /\ task[w] = "running"
    /\ current[w] \in Fatal
    /\ task' = [task EXCEPT ![w] = "dead"]
    /\ UNCHANGED <<accepting, closed, worker, current, queue, unfinished, result,
                   completed, failed, closer, accepted, started>>

\* What "except Exception" does not catch passes through the finally clause
\* and ends the worker task; current[w] keeps the job it ended in.
Die(w) ==
    /\ task[w] = "running"
    /\ current[w] \in Fatal
    /\ task' = [task EXCEPT ![w] = "dead"]
    /\ unfinished' = unfinished - 1
    /\ UNCHANGED <<accepting, closed, worker, current, queue, result, completed,
                   failed, closer, accepted, started>>

(***************************************************************************)
(* close(): only the first call goes on; it joins the queue, puts the      *)
(* sentinel and awaits the worker task, whose exception it raises.         *)
(***************************************************************************)
BeginCloseOpen(c) ==  \* mutant: submissions are taken until close() ends
    /\ closer[c] = "idle"
    /\ \A d \in Closers : closer[d] = "idle"
    /\ closer' = [closer EXCEPT ![c] =
                      IF worker = NoWorker THEN "returned" ELSE "joining"]
    /\ UNCHANGED <<accepting, closed, worker, task, current, queue, unfinished,
                   result, completed, failed, accepted, started>>

BeginClose(c) ==
    /\ closer[c] = "idle"
    /\ ~closed
    /\ accepting' = FALSE
    /\ closed' = TRUE
    /\ closer' = [closer EXCEPT ![c] =
                      IF worker = NoWorker THEN "returned" ELSE "joining"]
    /\ UNCHANGED <<worker, task, current, queue, unfinished, result, completed,
                   failed, accepted, started>>

IgnoreClose(c) ==
    /\ closer[c] = "idle"
    /\ closed
    /\ closer' = [closer EXCEPT ![c] = "ignored"]
    /\ UNCHANGED <<accepting, closed, worker, task, current, queue, unfinished,
                   result, completed, failed, accepted, started>>

PutStop(c) ==
    /\ closer[c] = "joining"
    /\ unfinished = 0
    /\ Len(queue) < Capacity
    /\ queue' = Append(queue, STOP)
    /\ unfinished' = unfinished + 1
    /\ closer' = [closer EXCEPT ![c] = "stopping"]
    /\ UNCHANGED <<accepting, closed, worker, task, current, result, completed,
                   failed, accepted, started>>

EndClose(c) ==
    /\ closer[c] = "stopping"
    /\ \/ /\ task[worker] = "done"
          /\ closer' = [closer EXCEPT ![c] = "returned"]
          /\ worker' = NoWorker
       \/ /\ task[worker] = "dead"
          /\ closer' = [closer EXCEPT ![c] = "raised"]
          /\ worker' = worker
    /\ UNCHANGED <<accepting, closed, task, current, queue, unfinished, result,
                   completed, failed, accepted, started>>

Work(w) == Take(w) \/ TakeStop(w) \/ Complete(w) \/ Fail(w) \/ Die(w)

Next ==
    \/ Start
    \/ \E j \in Jobs : Submit(j) \/ CancelSubmitter(j)
    \/ \E w \in Workers : Work(w)
    \/ \E c \in Closers : BeginClose(c) \/ IgnoreClose(c) \/ PutStop(c) \/ EndClose(c)

Spec == Init /\ [][Next]_vars

(***************************************************************************)
(* The event loop runs every ready task: a worker that can go on does, an  *)
(* operation returns or raises, and a close() call that was made goes on.  *)
(* Nobody has to submit, cancel or close.                                  *)
(***************************************************************************)
Fairness ==
    /\ \A w \in Workers : WF_vars(Work(w))
    /\ \A c \in Closers : WF_vars(PutStop(c) \/ EndClose(c))

FairSpec == Spec /\ Fairness

-----------------------------------------------------------------------------
InFlight == {w \in Workers : task[w] = "running"}
HeldJobs(s) == {w \in Workers : current[w] # NoJob /\ SourceOf[current[w]] = s}
StartedFrom(s) == {i \in DOMAIN started : SourceOf[started[i]] = s}
IsQueued(j) == \E i \in DOMAIN queue : queue[i] = j
Waiting == IF queue # <<>> /\ queue[Len(queue)] = STOP
           THEN SubSeq(queue, 1, Len(queue) - 1) ELSE queue

\* Two operations never run at the same time: a job never overlaps another
\* one, whatever start(), close() and submit() calls race (queue.py:127).
SerialExecution == \A v, w \in InFlight : v = w

\* Jobs start in the order in which they were accepted, none is skipped and
\* none runs twice (FIFO order, queue.py:127).
FIFOOrder == accepted = started \o Waiting

\* The unfinished count that join() waits for is exactly the items in the
\* queue and the item a worker holds, a worker that dies included
\* (queue.py:262-272).
UnfinishedIsExact == unfinished = Len(queue) + Cardinality(InFlight)

\* Every job a worker has taken is counted once, as completed or as failed,
\* under its own source, unless it is still running or ended the worker.
EveryStartedJobCounted ==
    \A s \in Sources :
        Cardinality(StartedFrom(s)) =
            completed[s] + failed[s] + Cardinality(HeldJobs(s))

NoDeath == \A w \in Workers : task[w] # "dead"

\* As long as no operation has ended the worker, a submit() call that waits
\* has its job in the queue or in the hands of the worker: nobody waits for a
\* job that was dropped.
NoSubmitterStranded ==
    NoDeath => \A j \in Jobs : result[j] = "pending" =>
        \/ IsQueued(j)
        \/ \E w \in InFlight : current[w] = j

\* When the closing call has returned, everything accepted has been executed,
\* nobody waits any more and no worker task is left (queue.py:227).
CloseDrained ==
    (\E c \in Closers : closer[c] = "returned") =>
        /\ Waiting = <<>>
        /\ \A j \in Jobs : result[j] # "pending"
        /\ \A w \in Workers : task[w] \in {"absent", "done"}

\* What a submit() call got never changes, and a refused job never enters
\* the queue.
OutcomesAreFinal ==
    [][\A j \in Jobs : result[j] \in Refusals \cup Settlements =>
           /\ result'[j] = result[j]
           /\ result[j] \in Refusals => ~IsQueued(j)']_vars

\* The call that closes the queue comes to an end, with the accepted jobs
\* drained and the worker terminated, as the docstring of close() says
\* (queue.py:227).
CloseDrainsAndTerminates ==
    \A c \in Closers : closer[c] = "joining" ~>
        /\ closer[c] \in {"returned", "raised"}
        /\ \A j \in Jobs : result[j] # "pending"
        /\ \A w \in Workers : task[w] \in {"absent", "done", "dead"}

\* What is left of it: the closing call hangs only when an operation has ended
\* the worker.
ClosesUnlessDead ==
    \A c \in Closers : closer[c] = "joining" ~>
        \/ ~NoDeath
        \/ /\ closer[c] = "returned"
           /\ \A j \in Jobs : result[j] # "pending"
           /\ \A w \in Workers : task[w] \in {"absent", "done"}

\* Once an operation has ended the worker, the queue executes nothing any
\* more, whatever it still accepts, and no close() call returns normally.
DeathIsFinal ==
    [][\A w \in Workers : task[w] = "dead" =>
           /\ started' = started
           /\ \A c \in Closers : closer'[c] = "returned" => closer[c] = "returned"]_vars

(***************************************************************************)
(* The executor the queue implements: the backlog is the queue without the *)
(* sentinel, the running job the one in the hands of the worker, or the    *)
(* one the worker died in, which nobody ever finishes.                     *)
(***************************************************************************)
Phase == IF closed THEN "shut" ELSE IF accepting THEN "open" ELSE "new"
Holders == {w \in Workers : task[w] \in {"running", "dead"}}
Running == IF Holders = {} THEN NoJob ELSE current[CHOOSE w \in Holders : TRUE]

Executor == INSTANCE SerialExecutor WITH
    phase <- Phase, backlog <- Waiting, running <- Running, answer <- result

\* The queue is a serial executor, its liveness included: what is accepted is
\* executed in its order, one job at a time, until an operation ends the
\* worker, and answered as the executor says.
ImplementsExecutor == Executor!Spec
=============================================================================
