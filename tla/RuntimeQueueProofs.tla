------------------------- MODULE RuntimeQueueProofs -------------------------
(***************************************************************************)
(* Theorems about RuntimeQueue, for every set of jobs, every capacity and  *)
(* every number of start(), submit() and close() calls.                    *)
(*                                                                         *)
(* The argument: there is never a second worker task (OneTask), because    *)
(* _worker is only None before the first start() or on a closed queue;     *)
(* the sentinel is only put into an empty queue that takes nothing any     *)
(* more (Sentinel), because join() counts exactly what is queued or held   *)
(* (Count).  Everything else follows the one task and the queue.           *)
(***************************************************************************)
EXTENDS RuntimeQueue, FiniteSetTheorems, SequenceTheorems, TLAPS

\* A worker task has a job exactly while it runs it, or when it died in it.
Held == \A w \in Workers : current[w] \in Jobs <=> task[w] \in {"running", "dead"}

\* start() creates at most one task in the life of the queue.
OneTask == \A v, w \in Workers : task[v] # "absent" /\ task[w] # "absent" => v = w

\* Before start() there is no task, nothing is taken and nobody waits.
Unstarted ==
    worker = NoWorker /\ ~closed =>
        /\ ~accepting
        /\ queue = <<>>
        /\ \A w \in Workers : task[w] = "absent"
        /\ \A j \in Jobs : result[j] # "pending"

\* One close() call got past the test of _closed.
OneCloser ==
    /\ \A c \in Closers : closer[c] \notin {"idle", "ignored"} => closed
    /\ \A c, d \in Closers :
           closer[c] \notin {"idle", "ignored"} /\ closer[d] \notin {"idle", "ignored"}
               => c = d
    /\ \A c \in Closers : closer[c] \in {"joining", "stopping"} => worker # NoWorker

\* The queue holds jobs, the accepted ones not started yet, or the sentinel
\* alone.
Sentinel ==
    \/ queue \in Seq(Jobs) /\ accepted = started \o queue
    \/ queue = <<STOP>> /\ closed /\ accepted = started

\* What join() counts.
Count == unfinished = Len(queue) + IF InFlight = {} THEN 0 ELSE 1

\* While the closing call joins, the sentinel has not been put.
Joining ==
    \A c \in Closers : closer[c] = "joining" =>
        queue \in Seq(Jobs) /\ \A w \in Workers : task[w] # "done"

\* A submit() call that waits has its job in the queue or with the task.
Tracked == \A j \in Jobs : result[j] = "pending" =>
               IsQueued(j) \/ \E w \in Workers : current[w] = j

Drained == /\ closed
           /\ queue = <<>>
           /\ \A j \in Jobs : result[j] # "pending"

\* The worker ends and the closing call returns only when all is drained.
Ended ==
    /\ \A w \in Workers : task[w] = "done" => Drained
    /\ \A c \in Closers : closer[c] = "returned" =>
           Drained /\ \A w \in Workers : task[w] \in {"absent", "done"}

IInv == /\ TypeOK
        /\ Held
        /\ OneTask
        /\ Unstarted
        /\ OneCloser
        /\ Sentinel
        /\ Count
        /\ Joining
        /\ Tracked
        /\ Ended

-----------------------------------------------------------------------------
\* A job put after the others comes last in "started, then queued".
LEMMA AppendJob ==
    ASSUME NEW a \in Seq(Jobs), NEW q \in Seq(Jobs), NEW j \in Jobs
    PROVE  Append(a \o q, j) = a \o Append(q, j)
  BY SMT

\* Taking the first job leaves "started, then queued" as it is.
LEMMA MoveHead ==
    ASSUME NEW a \in Seq(Jobs), NEW q \in Seq(Jobs), q # <<>>
    PROVE  /\ Append(a, Head(q)) \o Tail(q) = a \o q
           /\ Head(q) \in Jobs
           /\ Tail(q) \in Seq(Jobs)
           /\ Len(Tail(q)) = Len(q) - 1
           /\ \A i \in DOMAIN q : q[i] = Head(q) \/ \E k \in DOMAIN Tail(q) : Tail(q)[k] = q[i]
  <1>1. /\ Head(q) \in Jobs
        /\ Tail(q) \in Seq(Jobs)
        /\ Len(Tail(q)) = Len(q) - 1
    BY HeadTailProperties
  <1>2. Append(a, Head(q)) \o Tail(q) = a \o q
    BY <1>1, SMT
  <1>3. ASSUME NEW i \in DOMAIN q, q[i] # Head(q)
        PROVE  \E k \in DOMAIN Tail(q) : Tail(q)[k] = q[i]
    <2>1. i - 1 \in DOMAIN Tail(q) /\ Tail(q)[i - 1] = q[i]
      BY <1>1, <1>3, SMT
    <2> QED
      BY <2>1
  <1> QED
    BY <1>1, <1>2, <1>3

\* A queue that was just built satisfies the invariant.
LEMMA InitIInv == Init => IInv
  <1> SUFFICES ASSUME Init PROVE IInv
    OBVIOUS
  <1>1. InFlight = {}
    BY DEF Init, InFlight
  <1>2. TypeOK
    BY EmptySeq DEF Init, TypeOK
  <1>3. Sentinel
    BY SMT DEF Init, Sentinel
  <1>4. Count
    BY <1>1, CapacityAssumption DEF Init, Count
  <1> QED
    BY <1>2, <1>3, <1>4, JobAssumption
    DEF Init, IInv, Held, OneTask, Unstarted, OneCloser, Joining, Tracked, Ended, Drained

\* start() finds no task, or leaves everything alone.
LEMMA StartIInv ==
    ASSUME IInv, Start
    PROVE  IInv'
  <1> USE DEF IInv
  <1>1. PICK w \in Workers :
            /\ task[w] = "absent"
            /\ worker' = w
            /\ task' = [task EXCEPT ![w] = "waiting"]
    BY DEF Start
  <1>2. InFlight' = InFlight
    BY <1>1 DEF InFlight, TypeOK
  <1>3. TypeOK'
    BY <1>1 DEF Start, TypeOK
  <1>4. Held' /\ OneTask' /\ Unstarted' /\ OneCloser'
    BY <1>1, JobAssumption DEF Start, TypeOK, Held, OneTask, Unstarted, OneCloser
  <1>5. Sentinel' /\ Count'
    BY <1>2 DEF Start, Sentinel, Count
  <1>6. Joining' /\ Tracked'
    BY <1>1 DEF Start, TypeOK, Joining, Tracked, IsQueued
  <1>7. Ended'
    BY <1>1 DEF Start, TypeOK, Ended, Drained
  <1> QED
    BY <1>3, <1>4, <1>5, <1>6, <1>7

\* A refused call changes nothing but its answer, a taken one is queued.
LEMMA SubmitIInv ==
    ASSUME IInv, NEW j \in Jobs, Submit(j)
    PROVE  IInv'
  <1> USE DEF IInv
  <1>1. InFlight' = InFlight
    BY DEF Submit, InFlight
  <1>2. CASE Refuse(j) \/ RejectAtCapacity(j)
    <2>1. TypeOK'
      BY <1>2 DEF Submit, Refuse, RejectAtCapacity, TypeOK, Refusals
    <2>2. \A k \in Jobs : result'[k] = "pending" => result[k] = "pending"
      BY <1>2 DEF Submit, Refuse, RejectAtCapacity, TypeOK
    <2>3. /\ UNCHANGED <<queue, unfinished, accepted>>
          /\ UNCHANGED <<accepting, closed, worker, task, current, closer, started>>
      BY <1>2 DEF Submit, Refuse, RejectAtCapacity
    <2>4. Held' /\ OneTask' /\ Unstarted' /\ OneCloser'
      BY <2>2, <2>3 DEF Held, OneTask, Unstarted, OneCloser
    <2>5. Sentinel' /\ Count'
      BY <1>1, <2>3 DEF Sentinel, Count
    <2>6. Joining' /\ Tracked'
      BY <2>2, <2>3 DEF Joining, Tracked, IsQueued
    <2>7. Ended'
      BY <2>2, <2>3 DEF Ended, Drained
    <2> QED
      BY <2>1, <2>4, <2>5, <2>6, <2>7
  <1>3. CASE Accept(j)
    <2>1. queue \in Seq(Jobs) /\ accepted = started \o queue
      BY <1>3 DEF Accept, Sentinel
    <2>2. /\ queue' \in Seq(Jobs)
          /\ Len(queue') = Len(queue) + 1
          /\ \A i \in 1 .. Len(queue) : queue'[i] = queue[i]
          /\ queue'[Len(queue) + 1] = j
          /\ Len(queue) \in Nat
      BY <2>1, <1>3, AppendProperties, LenProperties DEF Accept
    <2>3. TypeOK'
      <3>1. queue' \in Seq(Jobs \cup {STOP})
        BY <2>2, SeqMonotonic
      <3>2. accepted' \in Seq(Jobs)
        BY <1>3, AppendProperties DEF Accept, TypeOK
      <3> QED
        BY <3>1, <3>2, <1>3 DEF Submit, Accept, TypeOK
    <2>4. worker # NoWorker /\ ~closed
      BY <1>3 DEF Accept, Unstarted
    <2>5. Held' /\ OneTask' /\ Unstarted' /\ OneCloser'
      BY <2>4 DEF Submit, Held, OneTask, Unstarted, OneCloser
    <2>6. Sentinel'
      BY <1>3, <2>1, <2>2, AppendJob DEF Submit, Accept, Sentinel, TypeOK
    <2>7. Count'
      BY <1>1, <1>3, <2>2, CapacityAssumption DEF Accept, Count, TypeOK
    <2>8. Joining' /\ Ended'
      BY <2>4, <1>3, <2>2 DEF Submit, Joining, Ended, Drained, OneCloser
    <2>9. Tracked'
      <3> SUFFICES ASSUME NEW k \in Jobs, result'[k] = "pending"
                   PROVE  IsQueued(k)' \/ \E w \in Workers : current'[w] = k
        BY DEF Tracked
      <3>1. CASE k = j
        <4>1. Len(queue) + 1 \in DOMAIN queue'
          BY <2>2, LenProperties
        <4> QED
          BY <3>1, <4>1, <2>2 DEF IsQueued
      <3>2. CASE k # j
        <4>1. IsQueued(k) \/ \E w \in Workers : current[w] = k
          BY <3>2, <1>3 DEF Accept, Tracked, TypeOK
        <4>2. ASSUME IsQueued(k) PROVE IsQueued(k)'
          <5>1. PICK i \in DOMAIN queue : queue[i] = k
            BY <4>2 DEF IsQueued
          <5>2. i \in DOMAIN queue' /\ queue'[i] = k
            BY <5>1, <2>1, <2>2, LenProperties
          <5> QED
            BY <5>2 DEF IsQueued
        <4> QED
          BY <4>1, <4>2 DEF Submit
      <3> QED
        BY <3>1, <3>2
    <2> QED
      BY <2>3, <2>5, <2>6, <2>7, <2>8, <2>9
  <1> QED
    BY <1>2, <1>3 DEF Submit

\* A caller that stops waiting leaves its job where it is.
LEMMA CancelIInv ==
    ASSUME IInv, NEW j \in Jobs, CancelSubmitter(j)
    PROVE  IInv'
  <1> USE DEF IInv
  <1>1. TypeOK'
    BY DEF CancelSubmitter, TypeOK, Settlements
  <1>2. \A k \in Jobs : result'[k] = "pending" => result[k] = "pending"
    BY DEF CancelSubmitter, TypeOK
  <1>3. Held' /\ OneTask' /\ Unstarted' /\ OneCloser'
    BY <1>2 DEF CancelSubmitter, Held, OneTask, Unstarted, OneCloser
  <1>4. Sentinel' /\ Count'
    BY DEF CancelSubmitter, Sentinel, Count, InFlight
  <1>5. Joining' /\ Tracked' /\ Ended'
    BY <1>2 DEF CancelSubmitter, Joining, Tracked, IsQueued, Ended, Drained
  <1> QED
    BY <1>1, <1>3, <1>4, <1>5

\* The worker takes the oldest job.
LEMMA TakeIInv ==
    ASSUME IInv, NEW w \in Workers, Take(w)
    PROVE  IInv'
  <1> USE DEF IInv
  <1>1. queue \in Seq(Jobs) /\ accepted = started \o queue /\ queue # <<>>
    BY DEF Take, Sentinel
  <1>2. /\ accepted = Append(started, Head(queue)) \o Tail(queue)
        /\ Head(queue) \in Jobs
        /\ Tail(queue) \in Seq(Jobs)
        /\ Len(Tail(queue)) = Len(queue) - 1
        /\ \A i \in DOMAIN queue :
               queue[i] = Head(queue) \/ \E k \in DOMAIN Tail(queue) : Tail(queue)[k] = queue[i]
    BY <1>1, MoveHead DEF TypeOK
  <1>3. TypeOK'
    <2>1. queue' \in Seq(Jobs \cup {STOP})
      BY <1>2, SeqMonotonic DEF Take
    <2>2. started' \in Seq(Jobs)
      BY <1>2, AppendProperties DEF Take, TypeOK
    <2> QED
      BY <1>2, <2>1, <2>2 DEF Take, TypeOK
  <1>4. Held' /\ OneTask' /\ Unstarted' /\ OneCloser'
    BY <1>2, <1>1 DEF Take, TypeOK, Held, OneTask, Unstarted, OneCloser
  <1>5. Sentinel'
    <2>1. queue' \in Seq(Jobs) /\ accepted' = started' \o queue'
      BY <1>2, Zenon DEF Take
    <2> QED
      BY <2>1 DEF Sentinel
  <1>6. Count'
    <2>1. InFlight = {}
      BY DEF Take, InFlight, OneTask, TypeOK
    <2>2. w \in InFlight'
      BY DEF Take, InFlight, TypeOK
    <2>3. Len(queue) \in Nat
      BY <1>1, LenProperties
    <2> QED
      BY <1>2, <2>1, <2>2, <2>3 DEF Take, Count, TypeOK
  <1>7. Joining' /\ Ended'
    <2>1. \A v \in Workers : task'[v] # "done"
      BY DEF Take, OneTask, TypeOK
    <2>2. \A c \in Closers : closer[c] # "returned"
      BY DEF Take, Ended, TypeOK
    <2> QED
      BY <1>2, <2>1, <2>2 DEF Take, Joining, Ended
  <1>8. Tracked'
    <2> SUFFICES ASSUME NEW k \in Jobs, result'[k] = "pending"
                 PROVE  IsQueued(k)' \/ \E v \in Workers : current'[v] = k
      BY DEF Tracked
    <2>1. IsQueued(k) \/ \E v \in Workers : current[v] = k
      BY DEF Tracked, Take
    <2>2. CASE IsQueued(k)
      <3>1. k = Head(queue) \/ \E i \in DOMAIN Tail(queue) : Tail(queue)[i] = k
        BY <1>2, <2>2 DEF IsQueued
      <3> QED
        BY <3>1 DEF Take, IsQueued, TypeOK
    <2>3. ASSUME NEW v \in Workers, current[v] = k PROVE FALSE
      BY <2>3 DEF Held, OneTask, Take
    <2> QED
      BY <2>1, <2>2, <2>3
  <1> QED
    BY <1>3, <1>4, <1>5, <1>6, <1>7, <1>8

\* The worker that takes the sentinel leaves nothing behind.
LEMMA TakeStopIInv ==
    ASSUME IInv, NEW w \in Workers, TakeStop(w)
    PROVE  IInv'
  <1> USE DEF IInv
  <1>1. queue = <<STOP>> /\ closed /\ accepted = started
    <2>1. ASSUME queue \in Seq(Jobs) PROVE FALSE
      BY <2>1, HeadTailProperties, JobAssumption DEF TakeStop
    <2> QED
      BY <2>1 DEF Sentinel
  <1>2. queue' = <<>> /\ Len(queue) = 1
    BY <1>1, SMT DEF TakeStop
  <1>3. InFlight = {} /\ InFlight' = {}
    BY DEF TakeStop, InFlight, OneTask, TypeOK
  <1>4. unfinished = 1 /\ unfinished' = 0
    BY <1>2, <1>3 DEF TakeStop, Count
  <1>5. \A j \in Jobs : result[j] # "pending"
    <2>1. \A j \in Jobs : ~IsQueued(j)
      BY <1>1, JobAssumption DEF IsQueued
    <2>2. \A v \in Workers : current[v] \notin Jobs
      BY DEF TakeStop, Held, OneTask
    <2> QED
      BY <2>1, <2>2 DEF Tracked
  <1>6. TypeOK'
    BY <1>2, <1>4 DEF TakeStop, TypeOK
  <1>7. Held' /\ OneTask' /\ Unstarted' /\ OneCloser'
    BY <1>1 DEF TakeStop, TypeOK, Held, OneTask, Unstarted, OneCloser
  <1>8. Sentinel'
    <2>1. accepted = started \o <<>>
      BY <1>1, ConcatEmptySeq DEF TypeOK
    <2> QED
      BY <1>2, <2>1, EmptySeq DEF Sentinel, TakeStop
  <1>9. Count'
    BY <1>2, <1>3, <1>4, CapacityAssumption DEF Count
  <1>10. Joining'
    BY <1>1, JobAssumption, ElementOfSeq DEF TakeStop, Joining
  <1>11. Tracked' /\ Ended'
    <2>1. \A v \in Workers : task'[v] \in {"absent", "done"}
      BY DEF TakeStop, TypeOK, OneTask
    <2> QED
      BY <1>1, <1>2, <1>5, <2>1 DEF TakeStop, Tracked, Ended, Drained
  <1> QED
    BY <1>6, <1>7, <1>8, <1>9, <1>10, <1>11

\* A job that returns or raises an Exception gives the worker back.
LEMMA EndJobIInv ==
    ASSUME IInv, NEW w \in Workers, Complete(w) \/ Fail(w)
    PROVE  IInv'
  <1> USE DEF IInv
  <1>1. /\ task[w] = "running"
        /\ task' = [task EXCEPT ![w] = "waiting"]
        /\ current' = [current EXCEPT ![w] = NoJob]
        /\ unfinished' = unfinished - 1
        /\ UNCHANGED <<accepting, closed, worker, queue, closer, accepted, started>>
    BY DEF Complete, Fail
  <1>2. current[w] \in Jobs
    BY <1>1 DEF Held
  <1>3. \A j \in Jobs : result'[j] = "pending" => result[j] = "pending" /\ j # current[w]
    BY <1>2 DEF Complete, Fail, Settled, TypeOK
  <1>4. w \in InFlight /\ InFlight' = {}
    BY <1>1 DEF InFlight, OneTask, TypeOK
  <1>5. Len(queue) \in Nat
    BY LenProperties DEF TypeOK
  <1>6. TypeOK'
    <2>1. unfinished' \in Nat
      BY <1>1, <1>4, <1>5 DEF Count, TypeOK
    <2>2. result' \in [Jobs -> {"new", "pending"} \cup Refusals \cup Settlements]
      <3>1. PICK outcome \in {"value", "error"} : result' = Settled(current[w], outcome)
        BY DEF Complete, Fail
      <3> QED
        BY <3>1 DEF Settled, TypeOK, Settlements
    <2>3. completed' \in [Sources -> Nat] /\ failed' \in [Sources -> Nat]
      <3>1. SourceOf[current[w]] \in Sources
        BY <1>2, SourceAssumption
      <3>2. CASE Complete(w)
        BY <3>1, <3>2 DEF Complete, TypeOK
      <3>3. CASE Fail(w)
        BY <3>1, <3>3 DEF Fail, TypeOK
      <3> QED
        BY <3>2, <3>3
    <2> QED
      BY <1>1, <2>1, <2>2, <2>3 DEF TypeOK
  <1>7. Held' /\ OneTask' /\ Unstarted' /\ OneCloser'
    BY <1>1, <1>3, JobAssumption DEF TypeOK, Held, OneTask, Unstarted, OneCloser
  <1>8. Sentinel'
    BY <1>1 DEF Sentinel
  <1>9. Count'
    BY <1>1, <1>4, <1>5 DEF Count, TypeOK
  <1>10. Joining' /\ Ended'
    <2>1. \A v \in Workers : task'[v] # "done"
      BY <1>1 DEF OneTask, TypeOK
    <2>2. \A c \in Closers : closer[c] # "returned"
      BY <1>1 DEF Ended
    <2> QED
      BY <1>1, <2>1, <2>2 DEF Joining, Ended
  <1>11. Tracked'
    <2> SUFFICES ASSUME NEW k \in Jobs, result'[k] = "pending"
                 PROVE  IsQueued(k)' \/ \E v \in Workers : current'[v] = k
      BY DEF Tracked
    <2>1. /\ k # current[w]
          /\ IsQueued(k) \/ \E v \in Workers : current[v] = k
      BY <1>3 DEF Tracked
    <2>2. \A v \in Workers : current[v] = k => current'[v] = k
      BY <1>1, <2>1 DEF TypeOK
    <2>3. IsQueued(k) => IsQueued(k)'
      BY <1>1 DEF IsQueued
    <2> QED
      BY <2>1, <2>2, <2>3
  <1> QED
    BY <1>6, <1>7, <1>8, <1>9, <1>10, <1>11

\* A job that raises more ends the worker, its item is counted all the same.
LEMMA DieIInv ==
    ASSUME IInv, NEW w \in Workers, Die(w)
    PROVE  IInv'
  <1> USE DEF IInv
  <1>1. w \in InFlight /\ InFlight' = {}
    BY DEF Die, InFlight, OneTask, TypeOK
  <1>2. Len(queue) \in Nat
    BY LenProperties DEF TypeOK
  <1>3. TypeOK'
    BY <1>1, <1>2 DEF Die, TypeOK, Count
  <1>4. Held' /\ OneTask' /\ Unstarted' /\ OneCloser'
    BY DEF Die, TypeOK, Held, OneTask, Unstarted, OneCloser
  <1>5. Sentinel'
    BY DEF Die, Sentinel
  <1>6. Count'
    BY <1>1, <1>2 DEF Die, Count, TypeOK
  <1>7. Joining' /\ Tracked'
    BY DEF Die, TypeOK, Joining, Tracked, IsQueued
  <1>8. Ended'
    BY DEF Die, TypeOK, Ended, Drained
  <1> QED
    BY <1>3, <1>4, <1>5, <1>6, <1>7, <1>8

\* The first close() shuts the queue.
LEMMA BeginCloseIInv ==
    ASSUME IInv, NEW c \in Closers, BeginClose(c)
    PROVE  IInv'
  <1> USE DEF IInv
  <1>1. queue \in Seq(Jobs) /\ accepted = started \o queue
    BY DEF BeginClose, Sentinel
  <1>2. \A d \in Closers : closer[d] \in {"idle", "ignored"}
    BY DEF BeginClose, OneCloser
  <1>3. \A w \in Workers : task[w] # "done"
    BY DEF BeginClose, Ended, Drained
  <1>4. TypeOK'
    BY DEF BeginClose, TypeOK
  <1>5. Held' /\ OneTask' /\ Unstarted'
    BY DEF BeginClose, Held, OneTask, Unstarted
  <1>6. OneCloser'
    BY <1>2 DEF BeginClose, OneCloser, TypeOK
  <1>7. Sentinel' /\ Count' /\ Tracked'
    BY <1>1 DEF BeginClose, Sentinel, Count, Tracked, InFlight, IsQueued
  <1>8. Joining'
    BY <1>1, <1>3 DEF BeginClose, Joining
  <1>9. Ended'
    BY <1>2, <1>3 DEF BeginClose, Ended, Drained, Unstarted, TypeOK
  <1> QED
    BY <1>4, <1>5, <1>6, <1>7, <1>8, <1>9

\* Any other close() changes nothing.
LEMMA IgnoreCloseIInv ==
    ASSUME IInv, NEW c \in Closers, IgnoreClose(c)
    PROVE  IInv'
  <1> USE DEF IInv
  <1>1. TypeOK'
    BY DEF IgnoreClose, TypeOK
  <1>2. Held' /\ OneTask' /\ Unstarted' /\ OneCloser'
    BY DEF IgnoreClose, TypeOK, Held, OneTask, Unstarted, OneCloser
  <1>3. Sentinel' /\ Count' /\ Tracked'
    BY DEF IgnoreClose, Sentinel, Count, Tracked, InFlight, IsQueued
  <1>4. Joining' /\ Ended'
    BY DEF IgnoreClose, TypeOK, Joining, Ended, Drained
  <1> QED
    BY <1>1, <1>2, <1>3, <1>4

\* After join() the queue is empty and takes the sentinel.
LEMMA PutStopIInv ==
    ASSUME IInv, NEW c \in Closers, PutStop(c)
    PROVE  IInv'
  <1> USE DEF IInv
  <1>1. queue \in Seq(Jobs) /\ accepted = started \o queue
    BY JobAssumption, ElementOfSeq DEF PutStop, Joining, Sentinel
  <1>2. queue = <<>> /\ InFlight = {}
    <2>1. Len(queue) \in Nat /\ Len(queue) = 0 /\ InFlight = {}
      BY <1>1, LenProperties DEF PutStop, Count
    <2> QED
      BY <1>1, <2>1, EmptySeq
  <1>3. queue' = <<STOP>> /\ Len(queue') = 1
    BY <1>2, SMT DEF PutStop
  <1>4. closed
    BY DEF PutStop, OneCloser
  <1>5. accepted = started
    BY <1>1, <1>2, ConcatEmptySeq DEF TypeOK
  <1>6. TypeOK'
    <2>1. queue' \in Seq(Jobs \cup {STOP})
      BY AppendProperties DEF PutStop, TypeOK
    <2> QED
      BY <2>1 DEF PutStop, TypeOK
  <1>7. Held' /\ OneTask' /\ Unstarted' /\ OneCloser'
    BY <1>4 DEF PutStop, TypeOK, Held, OneTask, Unstarted, OneCloser
  <1>8. Sentinel'
    BY <1>3, <1>4, <1>5 DEF PutStop, Sentinel
  <1>9. Count'
    BY <1>2, <1>3, CapacityAssumption DEF PutStop, Count, InFlight
  <1>10. Joining'
    BY DEF PutStop, TypeOK, Joining, OneCloser
  <1>11. Tracked'
    BY <1>2 DEF PutStop, Tracked, IsQueued
  <1>12. Ended'
    <2>1. \A w \in Workers : task[w] # "done"
      BY DEF PutStop, Joining
    <2>2. \A d \in Closers : closer'[d] # "returned"
      BY DEF PutStop, OneCloser, TypeOK
    <2> QED
      BY <2>1, <2>2 DEF PutStop, Ended
  <1> QED
    BY <1>6, <1>7, <1>8, <1>9, <1>10, <1>11, <1>12

\* close() ends with the worker task.
LEMMA EndCloseIInv ==
    ASSUME IInv, NEW c \in Closers, EndClose(c)
    PROVE  IInv'
  <1> USE DEF IInv
  <1>1. closed /\ worker \in Workers
    BY DEF EndClose, OneCloser, TypeOK
  <1>2. TypeOK'
    BY DEF EndClose, TypeOK
  <1>3. Held' /\ OneTask' /\ Unstarted'
    BY <1>1 DEF EndClose, Held, OneTask, Unstarted
  <1>4. OneCloser'
    BY <1>1 DEF EndClose, TypeOK, OneCloser
  <1>5. Sentinel' /\ Count' /\ Tracked'
    BY DEF EndClose, Sentinel, Count, Tracked, InFlight, IsQueued
  <1>6. Joining'
    BY DEF EndClose, TypeOK, Joining
  <1>7. Ended'
    <2>1. CASE task[worker] = "done"
      <3>1. Drained /\ \A w \in Workers : task[w] \in {"absent", "done"}
        BY <1>1, <2>1 DEF Ended, OneTask, TypeOK
      <3> QED
        BY <3>1 DEF EndClose, Ended, Drained
    <2>2. CASE task[worker] # "done"
      <3>1. \A d \in Closers : closer'[d] = "returned" => closer[d] = "returned"
        BY <2>2 DEF EndClose, TypeOK
      <3> QED
        BY <3>1 DEF EndClose, Ended, Drained
    <2> QED
      BY <2>1, <2>2
  <1> QED
    BY <1>2, <1>3, <1>4, <1>5, <1>6, <1>7

\* Every step keeps the invariant.
LEMMA StepIInv == IInv /\ [Next]_vars => IInv'
  <1> SUFFICES ASSUME IInv, [Next]_vars PROVE IInv'
    OBVIOUS
  <1>1. CASE Start
    BY <1>1, StartIInv
  <1>2. ASSUME NEW j \in Jobs, Submit(j) \/ CancelSubmitter(j) PROVE IInv'
    BY <1>2, SubmitIInv, CancelIInv
  <1>3. ASSUME NEW w \in Workers, Work(w) PROVE IInv'
    BY <1>3, TakeIInv, TakeStopIInv, EndJobIInv, DieIInv DEF Work
  <1>4. ASSUME NEW c \in Closers,
               BeginClose(c) \/ IgnoreClose(c) \/ PutStop(c) \/ EndClose(c)
        PROVE  IInv'
    BY <1>4, BeginCloseIInv, IgnoreCloseIInv, PutStopIInv, EndCloseIInv
  <1>5. CASE UNCHANGED vars
    BY <1>5 DEF vars, IInv, TypeOK, Held, OneTask, Unstarted, OneCloser, Sentinel,
                Count, Joining, Tracked, Ended, Drained,
                InFlight, IsQueued
  <1> QED
    BY <1>1, <1>2, <1>3, <1>4, <1>5 DEF Next

\* The invariant holds in every reachable state of the queue.
THEOREM Inductive == Spec => []IInv
  BY InitIInv, StepIInv, PTL DEF Spec

-----------------------------------------------------------------------------
\* The variables keep their types, whatever the bounds.
THEOREM TypeCorrect == Spec => []TypeOK
  <1>1. IInv => TypeOK
    BY DEF IInv
  <1> QED
    BY <1>1, Inductive, PTL

\* Two operations never overlap (queue.py:127).
THEOREM Serial == Spec => []SerialExecution
  <1>1. IInv => SerialExecution
    BY DEF IInv, OneTask, SerialExecution, InFlight
  <1> QED
    BY <1>1, Inductive, PTL

\* Jobs are started in the order of acceptance, each once, none skipped
\* (queue.py:127).
THEOREM FIFO == Spec => []FIFOOrder
  <1>1. IInv => FIFOOrder
    <2> SUFFICES ASSUME IInv PROVE FIFOOrder
      OBVIOUS
    <2>1. CASE queue \in Seq(Jobs) /\ accepted = started \o queue
      <3>1. queue # <<>> => Len(queue) \in 1 .. Len(queue)
        BY <2>1, EmptySeq, LenProperties
      <3>2. queue # <<>> => queue[Len(queue)] # STOP
        BY <2>1, <3>1, ElementOfSeq, JobAssumption
      <3> QED
        BY <2>1, <3>2 DEF FIFOOrder, Waiting
    <2>2. CASE queue = <<STOP>> /\ accepted = started
      <3>1. queue # <<>> /\ Len(queue) = 1 /\ queue[Len(queue)] = STOP
        BY <2>2, SMT
      <3>2. Waiting = <<>>
        BY <3>1, SubSeqEmpty DEF Waiting
      <3> QED
        BY <2>2, <3>2, ConcatEmptySeq DEF FIFOOrder, IInv, TypeOK
    <2> QED
      BY <2>1, <2>2 DEF IInv, Sentinel
  <1> QED
    BY <1>1, Inductive, PTL

\* What join() waits for is what is queued or in hand.
THEOREM JoinIsExact == Spec => []UnfinishedIsExact
  <1>1. IInv => UnfinishedIsExact
    <2> SUFFICES ASSUME IInv PROVE UnfinishedIsExact
      OBVIOUS
    <2>1. CASE InFlight = {}
      BY <2>1, FS_EmptySet DEF IInv, Count, UnfinishedIsExact
    <2>2. CASE InFlight # {}
      <3>1. PICK w \in InFlight : InFlight = {w}
        BY <2>2 DEF InFlight, IInv, OneTask
      <3>2. Cardinality(InFlight) = 1
        BY <3>1, FS_Singleton
      <3> QED
        BY <2>2, <3>2 DEF IInv, Count, UnfinishedIsExact
    <2> QED
      BY <2>1, <2>2
  <1> QED
    BY <1>1, Inductive, PTL

\* As long as no operation has ended the worker, a submit() call that waits
\* has its job in the queue or in the hands of the live worker.
THEOREM NobodyStranded == Spec => []NoSubmitterStranded
  <1>1. IInv => NoSubmitterStranded
    BY DEF NoDeath, IInv, Tracked, Held, TypeOK, NoSubmitterStranded, InFlight
  <1> QED
    BY <1>1, Inductive, PTL

\* The sets that are counted are finite.
LEMMA CountedAreFinite ==
    ASSUME TypeOK, NEW s \in Sources
    PROVE  /\ IsFiniteSet(StartedFrom(s)) /\ Cardinality(StartedFrom(s)) \in Nat
           /\ IsFiniteSet(HeldJobs(s)) /\ Cardinality(HeldJobs(s)) \in Nat
  <1>1. StartedFrom(s) \subseteq 1 .. Len(started) /\ Len(started) \in Nat
    BY DEF StartedFrom, TypeOK
  <1>2. IsFiniteSet(1 .. Len(started))
    BY <1>1, FS_Interval
  <1>3. IsFiniteSet(StartedFrom(s)) /\ IsFiniteSet(HeldJobs(s))
    BY <1>1, <1>2, FS_Subset, FiniteAssumption DEF HeldJobs
  <1> QED
    BY <1>3, FS_CardinalityType

\* A job that starts is held under its source.
LEMMA TakeCounts ==
    ASSUME IInv, EveryStartedJobCounted, NEW w \in Workers, Take(w), NEW s \in Sources
    PROVE  Cardinality(StartedFrom(s)') =
               completed'[s] + failed'[s] + Cardinality(HeldJobs(s)')
  <1> DEFINE j == Head(queue)
             last == Len(started) + 1
  <1>1. j \in Jobs /\ current[w] \notin Jobs /\ w \in Workers
    <2>1. queue \in Seq(Jobs)
      BY DEF IInv, Sentinel, Take
    <2> QED
      BY <2>1, HeadTailProperties DEF IInv, Held, Take
  <1>2. current' = [current EXCEPT ![w] = j] /\ started' = Append(started, j)
        /\ UNCHANGED <<completed, failed>>
    BY DEF Take
  <1>3. /\ started \in Seq(Jobs) /\ current \in [Workers -> Jobs \cup {NoJob}]
        /\ completed[s] \in Nat /\ failed[s] \in Nat
        /\ Cardinality(StartedFrom(s)) = completed[s] + failed[s] + Cardinality(HeldJobs(s))
    BY DEF IInv, TypeOK, EveryStartedJobCounted
  <1> HIDE DEF j
  <1>4. /\ DOMAIN started' = DOMAIN started \cup {last} /\ last \notin DOMAIN started
        /\ started'[last] = j /\ \A i \in DOMAIN started : started'[i] = started[i]
    BY <1>1, <1>2, <1>3
  <1>5. /\ IsFiniteSet(StartedFrom(s)) /\ Cardinality(StartedFrom(s)) \in Nat
        /\ IsFiniteSet(HeldJobs(s)) /\ Cardinality(HeldJobs(s)) \in Nat
    BY CountedAreFinite DEF IInv
  <1>6. CASE SourceOf[j] = s
    <2>1. StartedFrom(s)' = StartedFrom(s) \cup {last} /\ last \notin StartedFrom(s)
      BY <1>4, <1>6 DEF StartedFrom
    <2>2. HeldJobs(s)' = HeldJobs(s) \cup {w} /\ w \notin HeldJobs(s)
      BY <1>1, <1>2, <1>3, <1>6, JobAssumption DEF HeldJobs
    <2>3. /\ Cardinality(StartedFrom(s)') = Cardinality(StartedFrom(s)) + 1
          /\ Cardinality(HeldJobs(s)') = Cardinality(HeldJobs(s)) + 1
      BY <1>5, <2>1, <2>2, FS_AddElement
    <2> QED
      BY <1>2, <1>3, <1>5, <2>3
  <1>7. CASE SourceOf[j] # s
    <2>1. StartedFrom(s)' = StartedFrom(s)
      BY <1>4, <1>7 DEF StartedFrom
    <2>2. HeldJobs(s)' = HeldJobs(s)
      BY <1>1, <1>2, <1>3, <1>7, JobAssumption DEF HeldJobs
    <2> QED
      BY <1>2, <1>3, <2>1, <2>2
  <1> QED
    BY <1>6, <1>7

\* A job that ends is let go and counted in the same step, under its source.
LEMMA EndJobCounts ==
    ASSUME IInv, EveryStartedJobCounted, NEW w \in Workers, Complete(w) \/ Fail(w),
           NEW s \in Sources
    PROVE  Cardinality(StartedFrom(s)') =
               completed'[s] + failed'[s] + Cardinality(HeldJobs(s)')
  <1> DEFINE j == current[w]
             more == IF SourceOf[j] = s THEN 1 ELSE 0
  <1>1. j \in Jobs /\ SourceOf[j] \in Sources
    BY SourceAssumption DEF IInv, Held, Complete, Fail
  <1>2. current' = [current EXCEPT ![w] = NoJob] /\ UNCHANGED started
    BY DEF Complete, Fail
  <1>3. /\ current \in [Workers -> Jobs \cup {NoJob}]
        /\ completed \in [Sources -> Nat] /\ failed \in [Sources -> Nat]
        /\ Cardinality(StartedFrom(s)) = completed[s] + failed[s] + Cardinality(HeldJobs(s))
    BY DEF IInv, TypeOK, EveryStartedJobCounted
  <1>4. completed'[s] + failed'[s] = completed[s] + failed[s] + more
    <2>1. CASE Complete(w)
      BY <1>1, <1>3, <2>1 DEF Complete
    <2>2. CASE Fail(w)
      BY <1>1, <1>3, <2>2 DEF Fail
    <2> QED
      BY <2>1, <2>2
  <1>5. IsFiniteSet(HeldJobs(s)) /\ Cardinality(HeldJobs(s)) \in Nat
    BY CountedAreFinite DEF IInv
  <1>6. StartedFrom(s)' = StartedFrom(s)
    BY <1>2 DEF StartedFrom
  <1>7. CASE SourceOf[j] = s
    <2>1. HeldJobs(s)' = HeldJobs(s) \ {w} /\ w \in HeldJobs(s)
      BY <1>1, <1>2, <1>3, <1>7, JobAssumption DEF HeldJobs
    <2>2. Cardinality(HeldJobs(s)') = Cardinality(HeldJobs(s)) - 1
      BY <1>5, <2>1, FS_RemoveElement
    <2> QED
      BY <1>3, <1>4, <1>5, <1>6, <1>7, <2>2
  <1>8. CASE SourceOf[j] # s
    <2>1. HeldJobs(s)' = HeldJobs(s)
      BY <1>1, <1>2, <1>3, <1>8, JobAssumption DEF HeldJobs
    <2> QED
      BY <1>3, <1>4, <1>5, <1>6, <1>8, <2>1
  <1> QED
    BY <1>7, <1>8

\* Every job the worker has taken is counted exactly once, unless it is still
\* running or has ended the worker.
THEOREM StartedAreCounted == Spec => []EveryStartedJobCounted
  <1>1. Init => EveryStartedJobCounted
    <2> SUFFICES ASSUME Init, NEW s \in Sources
                 PROVE  Cardinality(StartedFrom(s)) =
                            completed[s] + failed[s] + Cardinality(HeldJobs(s))
      BY DEF EveryStartedJobCounted
    <2>1. StartedFrom(s) = {} /\ HeldJobs(s) = {}
      BY DEF Init, StartedFrom, HeldJobs
    <2> QED
      BY <2>1, FS_EmptySet DEF Init
  <1>2. IInv /\ EveryStartedJobCounted /\ [Next]_vars => EveryStartedJobCounted'
    <2> SUFFICES ASSUME IInv, EveryStartedJobCounted, [Next]_vars
                 PROVE  EveryStartedJobCounted'
      OBVIOUS
    <2>1. CASE UNCHANGED <<started, current, completed, failed>>
      BY <2>1 DEF EveryStartedJobCounted, StartedFrom, HeldJobs
    <2>2. ASSUME NEW w \in Workers, Take(w) PROVE EveryStartedJobCounted'
      BY <2>2, TakeCounts DEF EveryStartedJobCounted
    <2>3. ASSUME NEW w \in Workers, Complete(w) \/ Fail(w) PROVE EveryStartedJobCounted'
      BY <2>3, EndJobCounts DEF EveryStartedJobCounted
    <2>4. ASSUME NEW w \in Workers, TakeStop(w) \/ Die(w) PROVE EveryStartedJobCounted'
      BY <2>1, <2>4 DEF TakeStop, Die
    <2>5. CASE Start
      BY <2>1, <2>5 DEF Start
    <2>6. ASSUME NEW j \in Jobs, Submit(j) \/ CancelSubmitter(j) PROVE EveryStartedJobCounted'
      BY <2>1, <2>6 DEF Submit, CancelSubmitter
    <2>7. ASSUME NEW c \in Closers,
                 BeginClose(c) \/ IgnoreClose(c) \/ PutStop(c) \/ EndClose(c)
          PROVE  EveryStartedJobCounted'
      BY <2>1, <2>7 DEF BeginClose, IgnoreClose, PutStop, EndClose
    <2>8. CASE UNCHANGED vars
      BY <2>1, <2>8 DEF vars
    <2> QED
      BY <2>2, <2>3, <2>4, <2>5, <2>6, <2>7, <2>8 DEF Next, Work
  <1> QED
    BY <1>1, <1>2, Inductive, PTL DEF Spec

\* When close() has returned, all accepted work is done, nobody waits and no
\* worker task is left (queue.py:227).
THEOREM CloseDrains == Spec => []CloseDrained
  <1>1. IInv => CloseDrained
    BY DEF IInv, Ended, Drained, CloseDrained, Waiting
  <1> QED
    BY <1>1, Inductive, PTL

-----------------------------------------------------------------------------
(* What the queue does step by step, beyond its invariants: outcomes are   *)
(* final, a dead worker stays dead, and every step is a step of the serial *)
(* executor, or none: an operation that ends the worker is a job the       *)
(* executor never finishes.  Two facts are added to the invariant: the     *)
(* queue never holds more than Capacity items, so that "full" means        *)
(* exactly full; and what is in it was accepted.                           *)

QueueFits == Len(queue) <= Capacity

QueuedIsAccepted ==
    \A i \in DOMAIN queue : \A j \in Jobs :
        queue[i] = j => result[j] \notin Refusals \cup {"new"}

RInv == IInv /\ QueueFits /\ QueuedIsAccepted

-----------------------------------------------------------------------------
\* The queue is empty.
LEMMA InitRInv == Init => RInv
  BY InitIInv, CapacityAssumption DEF Init, RInv, QueueFits, QueuedIsAccepted

\* A settlement never makes an accepted job a refused one.
LEMMA SettledIsAccepted ==
    ASSUME TypeOK, NEW k \in Jobs, NEW outcome \in Settlements, NEW j \in Jobs,
           result[j] \notin Refusals \cup {"new"}
    PROVE  Settled(k, outcome)[j] \notin Refusals \cup {"new"}
  BY DEF TypeOK, Settled, Settlements, Refusals

\* What leaves the queue at its head leaves the rest as it was.
LEMMA TailRInv ==
    ASSUME TypeOK, QueueFits, QueuedIsAccepted, queue # <<>>, queue' = Tail(queue),
           result' = result
    PROVE  QueueFits' /\ QueuedIsAccepted'
  <1>1. /\ queue \in Seq(Jobs \cup {STOP})
        /\ Len(queue') = Len(queue) - 1
        /\ \A i \in DOMAIN queue' : i + 1 \in DOMAIN queue /\ queue'[i] = queue[i + 1]
    BY DEF TypeOK
  <1> QED
    BY <1>1, CapacityAssumption DEF QueueFits, QueuedIsAccepted

\* A job is put into the queue when there is room, and is then pending.
LEMMA SubmitRInv ==
    ASSUME RInv, NEW j \in Jobs, Submit(j)
    PROVE  QueueFits' /\ QueuedIsAccepted'
  <1>1. /\ result \in [Jobs -> {"new", "pending"} \cup Refusals \cup Settlements]
        /\ queue \in Seq(Jobs \cup {STOP}) /\ result[j] = "new"
    BY DEF RInv, IInv, TypeOK, Submit
  <1>2. CASE Refuse(j) \/ RejectAtCapacity(j)
    <2>1. /\ queue' = queue
          /\ \A k \in Jobs : k # j => result'[k] = result[k]
      BY <1>1, <1>2 DEF Refuse, RejectAtCapacity
    <2> QED
      BY <1>1, <2>1 DEF RInv, QueueFits, QueuedIsAccepted
  <1>3. CASE Accept(j)
    <2>1. /\ queue' = Append(queue, j) /\ Len(queue) < Capacity
          /\ result'[j] = "pending"
          /\ \A k \in Jobs : k # j => result'[k] = result[k]
      BY <1>1, <1>3 DEF Accept
    <2>2. Len(queue') = Len(queue) + 1
      BY <1>1, <2>1
    <2>3. \A i \in DOMAIN queue' : (i \in DOMAIN queue /\ queue'[i] = queue[i]) \/ queue'[i] = j
      BY <1>1, <2>1
    <2>4. QueueFits'
      BY <1>1, <2>1, <2>2, CapacityAssumption DEF QueueFits
    <2>5. QueuedIsAccepted'
      BY <1>1, <2>1, <2>3 DEF RInv, QueuedIsAccepted, Refusals
    <2> QED
      BY <2>4, <2>5
  <1> QED
    BY <1>2, <1>3 DEF Submit

\* So is the sentinel.
LEMMA PutStopRInv ==
    ASSUME RInv, NEW c \in Closers, PutStop(c)
    PROVE  QueueFits' /\ QueuedIsAccepted'
  <1>1. /\ queue \in Seq(Jobs \cup {STOP}) /\ Len(queue) < Capacity
        /\ queue' = Append(queue, STOP) /\ result' = result
    BY DEF RInv, IInv, TypeOK, PutStop
  <1>2. Len(queue') = Len(queue) + 1
    BY <1>1
  <1>3. \A i \in DOMAIN queue' : (i \in DOMAIN queue /\ queue'[i] = queue[i]) \/ queue'[i] = STOP
    BY <1>1
  <1>4. QueueFits'
    BY <1>1, <1>2, CapacityAssumption DEF QueueFits
  <1>5. QueuedIsAccepted'
    BY <1>1, <1>3, JobAssumption DEF RInv, QueuedIsAccepted
  <1> QED
    BY <1>4, <1>5

\* What the worker does only takes from the queue.
LEMMA WorkRInv ==
    ASSUME RInv, NEW w \in Workers, Work(w)
    PROVE  QueueFits' /\ QueuedIsAccepted'
  <1>1. CASE Take(w) \/ TakeStop(w)
    BY <1>1, TailRInv DEF RInv, IInv, Take, TakeStop
  <1>2. CASE Complete(w) \/ Fail(w)
    <2>1. current[w] \in Jobs /\ queue' = queue
      BY <1>2 DEF RInv, IInv, Held, Complete, Fail
    <2>2. PICK outcome \in Settlements : result' = Settled(current[w], outcome)
      BY <1>2 DEF Complete, Fail, Settlements
    <2> QED
      BY <2>1, <2>2, SettledIsAccepted DEF RInv, IInv, QueueFits, QueuedIsAccepted
  <1>3. CASE Die(w)
    BY <1>3 DEF RInv, Die, QueueFits, QueuedIsAccepted
  <1> QED
    BY <1>1, <1>2, <1>3 DEF Work

\* Every step keeps the strengthened invariant.
LEMMA StepRInv == RInv /\ [Next]_vars => RInv'
  <1> SUFFICES ASSUME RInv, [Next]_vars PROVE QueueFits' /\ QueuedIsAccepted'
    BY StepIInv DEF RInv
  <1>1. ASSUME NEW j \in Jobs, CancelSubmitter(j)
        PROVE  QueueFits' /\ QueuedIsAccepted'
    BY <1>1 DEF CancelSubmitter, RInv, IInv, TypeOK, QueueFits, QueuedIsAccepted, Refusals
  <1>2. ASSUME NEW c \in Closers, BeginClose(c) \/ IgnoreClose(c) \/ EndClose(c)
        PROVE  QueueFits' /\ QueuedIsAccepted'
    BY <1>2 DEF BeginClose, IgnoreClose, EndClose, RInv, QueueFits, QueuedIsAccepted
  <1>3. CASE Start \/ UNCHANGED vars
    BY <1>3 DEF Start, vars, RInv, QueueFits, QueuedIsAccepted
  <1> QED
    BY <1>1, <1>2, <1>3, SubmitRInv, WorkRInv, PutStopRInv DEF Next

\* It holds in every behaviour.
LEMMA Strengthened == Spec => []RInv
  BY InitRInv, StepRInv, PTL DEF Spec

-----------------------------------------------------------------------------
\* What a submit() call got never changes (queue.py:200-224).
LEMMA OutcomeStays ==
    ASSUME RInv, [Next]_vars, NEW j \in Jobs, result[j] \in Refusals \cup Settlements
    PROVE  result'[j] = result[j]
  <1>1. /\ result \in [Jobs -> {"new", "pending"} \cup Refusals \cup Settlements]
        /\ result[j] \notin {"new", "pending"}
    BY DEF RInv, IInv, TypeOK, Refusals, Settlements
  <1>2. ASSUME NEW k \in Jobs, Submit(k) \/ CancelSubmitter(k)
        PROVE  result'[j] = result[j]
    BY <1>1, <1>2
    DEF Submit, Refuse, RejectAtCapacity, Accept, CancelSubmitter
  <1>3. ASSUME NEW w \in Workers, Work(w)
        PROVE  result'[j] = result[j]
    <2>1. CASE Complete(w) \/ Fail(w)
      <3>1. current[w] \in Jobs
        BY <2>1 DEF RInv, IInv, Held, Complete, Fail
      <3> QED
        BY <1>1, <2>1, <3>1 DEF Complete, Fail, Settled
    <2> QED
      BY <1>3, <2>1 DEF Work, Take, TakeStop, Die
  <1>4. ASSUME NEW c \in Closers,
               BeginClose(c) \/ IgnoreClose(c) \/ PutStop(c) \/ EndClose(c)
        PROVE  result'[j] = result[j]
    BY <1>4 DEF BeginClose, IgnoreClose, PutStop, EndClose
  <1>5. CASE Start \/ UNCHANGED vars
    BY <1>5 DEF Start, vars
  <1> QED
    BY <1>2, <1>3, <1>4, <1>5 DEF Next

\* Outcomes never change, and a refused job never enters the queue.
THEOREM OutcomesFinal == Spec => OutcomesAreFinal
  <1>1. RInv /\ RInv' /\ [Next]_vars =>
            [\A j \in Jobs : result[j] \in Refusals \cup Settlements =>
                 /\ result'[j] = result[j]
                 /\ result[j] \in Refusals => ~IsQueued(j)']_vars
    <2> SUFFICES ASSUME RInv, RInv', [Next]_vars, NEW j \in Jobs,
                        result[j] \in Refusals \cup Settlements
                 PROVE  /\ result'[j] = result[j]
                        /\ result[j] \in Refusals => ~IsQueued(j)'
      OBVIOUS
    <2>1. result'[j] = result[j]
      BY OutcomeStays
    <2>2. result[j] \in Refusals => ~IsQueued(j)'
      BY <2>1 DEF RInv, QueuedIsAccepted, IsQueued
    <2> QED
      BY <2>1, <2>2
  <1> QED
    BY <1>1, Strengthened, PTL DEF Spec, OutcomesAreFinal

\* After the death of the worker nothing is executed, and no close() call
\* returns normally (queue.py:172-184, 262-272).
THEOREM DeathFinal == Spec => DeathIsFinal
  <1>1. IInv /\ [Next]_vars =>
            [\A w \in Workers : task[w] = "dead" =>
                 /\ started' = started
                 /\ \A c \in Closers :
                        closer'[c] = "returned" => closer[c] = "returned"]_vars
    <2> SUFFICES ASSUME IInv, [Next]_vars, NEW w \in Workers, task[w] = "dead"
                 PROVE  /\ started' = started
                        /\ \A c \in Closers :
                               closer'[c] = "returned" => closer[c] = "returned"
      OBVIOUS
    <2>1. \A v \in Workers : task[v] \in {"absent", "dead"}
      BY DEF IInv, OneTask
    <2>2. worker = NoWorker => closed
      BY DEF IInv, Unstarted
    <2>3. started' = started
      BY <2>1 DEF Next, vars, Start, Submit, CancelSubmitter, Work, Take, TakeStop, Complete,
             Fail, Die, BeginClose, IgnoreClose, PutStop, EndClose
    <2>4. ASSUME NEW c \in Closers, closer'[c] = "returned"
          PROVE  closer[c] = "returned"
      <3>1. CASE UNCHANGED closer
        BY <2>4, <3>1
      <3>2. ASSUME NEW d \in Closers, BeginClose(d) \/ IgnoreClose(d) \/ PutStop(d)
            PROVE  closer[c] = "returned"
        BY <2>2, <2>4, <3>2 DEF BeginClose, IgnoreClose, PutStop, IInv, TypeOK
      <3>3. ASSUME NEW d \in Closers, EndClose(d)
            PROVE  closer[c] = "returned"
        <4>1. worker \in Workers
          BY <3>3 DEF EndClose, IInv, OneCloser, TypeOK
        <4> QED
          BY <2>1, <2>4, <3>3, <4>1 DEF EndClose, IInv, TypeOK
      <3> QED
        BY <3>1, <3>2, <3>3 DEF Next, vars, Start, Submit, CancelSubmitter, Work, Take,
           TakeStop, Complete, Fail, Die
    <2> QED
      BY <2>3, <2>4
  <1> QED
    BY <1>1, Inductive, PTL DEF Spec, DeathIsFinal

-----------------------------------------------------------------------------
(* The refinement: the steps of the queue as steps of the executor.        *)

\* Without the sentinel the backlog is the queue.
LEMMA WaitingIs ==
    /\ queue \in Seq(Jobs) => Waiting = queue
    /\ queue = <<STOP>> => Waiting = <<>>
  <1>1. ASSUME queue \in Seq(Jobs)
        PROVE  Waiting = queue
    <2>1. queue # <<>> => queue[Len(queue)] \in Jobs
      BY <1>1
    <2> QED
      BY <2>1, JobAssumption DEF Waiting
  <1>2. ASSUME queue = <<STOP>>
        PROVE  Waiting = <<>>
    BY <1>2 DEF Waiting
  <1> QED
    BY <1>1, <1>2

\* The job in the hands of the one worker that may run or have died.
LEMMA RunningIs ==
    ASSUME OneTask
    PROVE  \A w \in Workers : task[w] \in {"running", "dead"} => Running = current[w]
  <1> SUFFICES ASSUME NEW w \in Workers, task[w] \in {"running", "dead"}
               PROVE  Running = current[w]
    OBVIOUS
  <1>1. Holders = {w}
    BY DEF Holders, OneTask
  <1>2. (CHOOSE v \in Holders : TRUE) = w
    BY <1>1
  <1> QED
    BY <1>1, <1>2 DEF Running

\* The executor does not see tasks and jobs that stay as they are.
LEMMA SameRunning == UNCHANGED <<task, current>> => UNCHANGED Running
  <1> SUFFICES ASSUME task' = task, current' = current
               PROVE  Running' = Running
    OBVIOUS
  <1>1. Holders' = Holders
    BY DEF Holders
  <1> QED
    BY <1>1 DEF Running

\* Starting the worker opens the executor.
LEMMA OpenRefines ==
    ASSUME RInv, Start
    PROVE  Executor!Open
  <1>1. /\ ~closed /\ worker = NoWorker /\ accepting' = TRUE /\ closed' = closed
        /\ queue' = queue /\ result' = result /\ current' = current
    BY DEF Start
  <1>2. ~accepting /\ Holders = {}
    BY <1>1 DEF RInv, IInv, Unstarted, Holders
  <1>3. Holders' = {}
    BY <1>2 DEF Start, Holders, RInv, IInv, TypeOK
  <1>4. Running = NoJob /\ Running' = NoJob
    BY <1>2, <1>3 DEF Running
  <1>5. Phase = "new" /\ Phase' = "open"
    BY <1>1, <1>2 DEF Phase
  <1>6. Waiting' = Waiting
    BY <1>1 DEF Waiting
  <1> QED
    BY <1>1, <1>4, <1>5, <1>6 DEF Executor!Open

\* A submission is an offer or a refusal.
LEMMA SubmitRefines ==
    ASSUME RInv, NEW j \in Jobs, Submit(j)
    PROVE  Executor!Offer(j) \/ Executor!Refuse(j)
  <1>1. /\ result[j] = "new" /\ Running' = Running /\ Phase' = Phase
    BY SameRunning DEF Submit, Phase
  <1>2. CASE Refuse(j)
    <2>1. Waiting' = Waiting
      BY <1>2 DEF Refuse, Waiting
    <2>2. CASE closed
      BY <1>1, <1>2, <2>1, <2>2 DEF Refuse, Executor!Refuse, Phase
    <2>3. CASE ~closed
      BY <1>1, <1>2, <2>1, <2>3 DEF Refuse, Executor!Refuse, Phase
    <2> QED
      BY <2>2, <2>3
  <1>3. CASE RejectAtCapacity(j)
    <2>1. Waiting' = Waiting /\ ~closed /\ accepting
      BY <1>3 DEF RejectAtCapacity, Waiting
    <2>2. Waiting = queue
      BY <2>1, WaitingIs DEF RInv, IInv, Sentinel
    <2>3. Len(queue) = Capacity
      BY <1>3, CapacityAssumption DEF RejectAtCapacity, RInv, IInv, TypeOK, QueueFits
    <2> QED
      BY <1>1, <1>3, <2>1, <2>2, <2>3 DEF RejectAtCapacity, Executor!Refuse, Phase
  <1>4. CASE Accept(j)
    <2>1. /\ ~closed /\ accepting /\ queue \in Seq(Jobs)
          /\ Len(queue) < Capacity /\ queue' = Append(queue, j)
          /\ result' = [result EXCEPT ![j] = "pending"]
      BY <1>4 DEF Accept, RInv, IInv, Sentinel
    <2>2. queue' \in Seq(Jobs) /\ queue' # <<>> /\ queue'[Len(queue')] = j
      BY <2>1
    <2>3. Waiting = queue /\ Waiting' = queue'
      BY <2>1, <2>2, WaitingIs, JobAssumption DEF Waiting
    <2> QED
      BY <1>1, <2>1, <2>3 DEF Executor!Offer, Phase
  <1> QED
    BY <1>2, <1>3, <1>4 DEF Submit

\* Taking a job from the queue begins the first one that waits.
LEMMA TakeRefines ==
    ASSUME RInv, NEW w \in Workers, Take(w)
    PROVE  Executor!Begin
  <1>1. /\ task[w] = "waiting" /\ queue # <<>> /\ Head(queue) # STOP
        /\ queue' = Tail(queue)
        /\ task' = [task EXCEPT ![w] = "running"]
        /\ current' = [current EXCEPT ![w] = Head(queue)]
        /\ Phase' = Phase /\ result' = result
    BY DEF Take, Phase
  <1>2. queue \in Seq(Jobs)
    BY <1>1 DEF RInv, IInv, Sentinel
  <1>3. Holders = {} /\ Holders' = {w}
    BY <1>1 DEF Holders, RInv, IInv, OneTask, TypeOK
  <1>4. Running = NoJob /\ Running' = Head(queue)
    <2>1. (CHOOSE v \in Holders' : TRUE) = w
      BY <1>3
    <2>2. current'[w] = Head(queue)
      BY <1>1 DEF RInv, IInv, TypeOK
    <2> QED
      BY <1>3, <2>1, <2>2 DEF Running
  <1>5. Tail(queue) \in Seq(Jobs) /\ Waiting = queue
    BY <1>1, <1>2, WaitingIs
  <1>6. Waiting' = Tail(queue)
    <2>1. queue' # <<>> => queue'[Len(queue')] \in Jobs
      BY <1>1, <1>5
    <2> QED
      BY <1>1, <2>1, JobAssumption DEF Waiting
  <1> QED
    BY <1>1, <1>4, <1>5, <1>6 DEF Executor!Begin

\* A job that completes or fails is finished.
LEMMA EndJobRefines ==
    ASSUME RInv, NEW w \in Workers, Complete(w) \/ Fail(w)
    PROVE  Executor!Finish
  <1>1. /\ task[w] = "running" /\ current[w] \in Jobs
        /\ task' = [task EXCEPT ![w] = "waiting"]
        /\ queue' = queue /\ Phase' = Phase
    BY DEF Complete, Fail, Phase, RInv, IInv, Held
  <1>2. Running = current[w] /\ Running # NoJob
    BY <1>1, RunningIs, JobAssumption DEF RInv, IInv
  <1>3. Holders' = {}
    BY <1>1 DEF Holders, RInv, IInv, OneTask, TypeOK
  <1>4. Running' = NoJob /\ Waiting' = Waiting
    BY <1>1, <1>3 DEF Running, Waiting
  <1>5. PICK outcome \in {"value", "error"} : result' = Settled(current[w], outcome)
    BY DEF Complete, Fail
  <1> QED
    BY <1>1, <1>2, <1>4, <1>5 DEF Executor!Finish, Settled

\* Closing shuts the executor, or does not show.
LEMMA CloseRefines ==
    ASSUME RInv, NEW c \in Closers,
           BeginClose(c) \/ IgnoreClose(c) \/ PutStop(c) \/ EndClose(c)
    PROVE  Executor!Shut \/ UNCHANGED Executor!vars
  <1>1. Running' = Running /\ result' = result
    BY SameRunning DEF BeginClose, IgnoreClose, PutStop, EndClose
  <1>2. CASE BeginClose(c)
    BY <1>1, <1>2 DEF BeginClose, Phase, Waiting, Executor!Shut
  <1>3. CASE IgnoreClose(c) \/ EndClose(c)
    BY <1>1, <1>3 DEF IgnoreClose, EndClose, Phase, Waiting, Executor!vars
  <1>4. CASE PutStop(c)
    <2>1. queue \in Seq(Jobs) /\ unfinished = 0 /\ queue' = Append(queue, STOP)
      BY <1>4 DEF PutStop, RInv, IInv, Joining
    <2>2. queue = <<>>
      BY <2>1 DEF RInv, IInv, Count
    <2>3. queue' = <<STOP>>
      BY <2>1, <2>2
    <2>4. Waiting = <<>> /\ Waiting' = <<>>
      BY <2>2, <2>3 DEF Waiting
    <2>5. Phase' = Phase
      BY <1>4 DEF PutStop, Phase
    <2> QED
      BY <1>1, <2>4, <2>5 DEF Executor!vars
  <1> QED
    BY <1>2, <1>3, <1>4

\* The executor does not see the death of the worker.
LEMMA DieRefines ==
    ASSUME RInv, RInv', NEW w \in Workers, Die(w)
    PROVE  UNCHANGED Executor!vars
  <1>1. /\ task[w] = "running" /\ task'[w] = "dead" /\ current' = current
        /\ queue' = queue /\ Phase' = Phase /\ result' = result
    BY DEF Die, Phase, RInv, IInv, TypeOK
  <1>2. Running = current[w] /\ Running' = current'[w]
    <2>1. Holders = {w} /\ Holders' = {w}
      BY <1>1 DEF Holders, RInv, IInv, OneTask
    <2>2. (CHOOSE v \in Holders : TRUE) = w /\ (CHOOSE v \in Holders' : TRUE) = w
      BY <2>1
    <2> QED
      BY <2>1, <2>2 DEF Running
  <1>3. Waiting' = Waiting
    BY <1>1 DEF Waiting
  <1> QED
    BY <1>1, <1>2, <1>3 DEF Executor!vars

\* Every step of the queue is a step of the serial executor or a stutter,
\* whatever operations raise (queue.py:127).
THEOREM ImplementsSafely == Spec => Executor!SafeSpec
  <1>1. Init => Executor!Init
    BY DEF Init, Executor!Init, Phase, Waiting, Running, Holders
  <1>2. RInv /\ RInv' /\ [Next]_vars => [Executor!Next]_(Executor!vars)
    <2> SUFFICES ASSUME RInv, RInv', [Next]_vars PROVE Executor!Next \/ UNCHANGED Executor!vars
      OBVIOUS
    <2>1. CASE Start
      BY <2>1, OpenRefines DEF Executor!Next
    <2>2. ASSUME NEW j \in Jobs, Submit(j)
          PROVE  Executor!Next
      BY <2>2, SubmitRefines DEF Executor!Next
    <2>3. ASSUME NEW j \in Jobs, CancelSubmitter(j)
          PROVE  Executor!Next
      <3>1. Running' = Running /\ Phase' = Phase /\ Waiting' = Waiting
        BY <2>3, SameRunning DEF CancelSubmitter, Phase, Waiting
      <3>2. Executor!GiveUp(j)
        BY <2>3, <3>1 DEF CancelSubmitter, Executor!GiveUp
      <3> QED
        BY <3>2 DEF Executor!Next
    <2>4. ASSUME NEW w \in Workers, Work(w)
          PROVE  Executor!Next \/ UNCHANGED Executor!vars
      <3>1. CASE Take(w)
        BY <3>1, TakeRefines DEF Executor!Next
      <3>2. CASE TakeStop(w)
        <4>1. queue = <<STOP>> /\ queue' = <<>>
          <5>1. queue \notin Seq(Jobs)
            BY <3>2, JobAssumption DEF TakeStop
          <5>2. queue = <<STOP>>
            BY <5>1 DEF RInv, IInv, Sentinel
          <5> QED
            BY <3>2, <5>2 DEF TakeStop
        <4>2. Waiting = <<>> /\ Waiting' = <<>>
          BY <4>1 DEF Waiting
        <4>3. Holders = {} /\ Holders' = {}
          <5>1. /\ task \in [Workers -> {"absent", "waiting", "running", "done", "dead"}]
                /\ task[w] = "waiting" /\ task' = [task EXCEPT ![w] = "done"]
                /\ \A v \in Workers : v # w => task[v] = "absent"
            BY <3>2 DEF TakeStop, RInv, IInv, OneTask, TypeOK
          <5> QED
            BY <5>1 DEF Holders
        <4>4. Running' = Running
          BY <4>3 DEF Running
        <4>5. Phase' = Phase /\ result' = result
          BY <3>2 DEF TakeStop, Phase
        <4> QED
          BY <4>2, <4>4, <4>5 DEF Executor!vars
      <3>3. CASE Complete(w) \/ Fail(w)
        BY <3>3, EndJobRefines DEF Executor!Next
      <3>4. CASE Die(w)
        BY <3>4, DieRefines
      <3> QED
        BY <2>4, <3>1, <3>2, <3>3, <3>4 DEF Work
    <2>5. ASSUME NEW c \in Closers,
                 BeginClose(c) \/ IgnoreClose(c) \/ PutStop(c) \/ EndClose(c)
          PROVE  Executor!Next \/ UNCHANGED Executor!vars
      BY <2>5, CloseRefines DEF Executor!Next
    <2>6. CASE UNCHANGED vars
      BY <2>6, SameRunning DEF vars, Phase, Waiting, Executor!vars
    <2> QED
      BY <2>1, <2>2, <2>3, <2>4, <2>5, <2>6 DEF Next
  <1> QED
    BY <1>1, <1>2, Strengthened, PTL DEF Spec, Executor!SafeSpec
=============================================================================
