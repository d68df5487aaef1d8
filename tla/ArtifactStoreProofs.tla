------------------------ MODULE ArtifactStoreProofs ------------------------
(***************************************************************************)
(* Theorems about save_run(), for every set of processes and of runs.      *)
(*                                                                         *)
(* The argument: the transaction sees the committed rows and some of its   *)
(* run's own; a row it has passed is the only one of its task and producer *)
(* (Passed), and what was stored for the task has the producers of the run *)
(* (Comparable).  At the commit both together leave only two cases:        *)
(* nothing was stored for the task, or exactly the run.                    *)
(***************************************************************************)
EXTENDS ArtifactStore, TLAPS

\* The committed outputs of the task(s) of a run.
StoredFor(run) == {r \in rows : \E a \in run : r.task = a.task}

Comparable(run) == StoredFor(run) = {} \/ Producers(StoredFor(run)) = Producers(run)

Passed == \A a \in call[lock] \ tx.todo : SameKey(a) = {a}

\* What the transaction under way knows.
Tx == lock # None =>
    /\ tx.rows \subseteq rows \cup call[lock]
    /\ tx.phase = "compare" => tx.rows = rows /\ tx.todo = call[lock]
    /\ tx.phase # "compare" => Comparable(call[lock])
    /\ Passed
    /\ IF tx.phase = "chunks"
       THEN /\ tx.todo # {}
            /\ SameKey(Current) = {Current}
            /\ tx.rows = tx.chunked \cup {Current}
       ELSE tx.rows = tx.chunked

IInv == TypeOK /\ WholeRunsOnly /\ ChunksMatchArtifacts /\ Tx

-----------------------------------------------------------------------------
\* There is a current output while there is one to do.
LEMMA CurrentIsTodo ==
    ASSUME tx.todo # {}
    PROVE  Current \in tx.todo
  <1> DEFINE P(a) == a.producer = "writer" \/ \A b \in tx.todo : b.producer # "writer"
  <1>1. \E a \in tx.todo : P(a)
    OBVIOUS
  <1> QED
    BY <1>1, Zenon DEF Current

\* Two outputs of a run are of one task and of two producers.
LEMMA RunShape ==
    ASSUME NEW run \in Runs
    PROVE  /\ run # {}
           /\ run \subseteq Artifacts
           /\ run # None
           /\ \A a, b \in run : a.task = b.task
           /\ \A a, b \in run : a.producer = b.producer => a = b
  <1>1. IsRun(run)
    BY RunAssumption
  <1>2. run # {}
    <2> SUFFICES ASSUME run = {} PROVE FALSE
      OBVIOUS
    <2>1. {a.producer : a \in run} = {}
      OBVIOUS
    <2> QED
      BY <1>1, <2>1 DEF IsRun
  <1> QED
    BY <1>1, <1>2, WriterAssumption DEF IsRun, Artifacts

\* The call that holds the lock saves a run.
LEMMA Holder ==
    ASSUME TypeOK, lock # None
    PROVE  /\ lock \in Writers
           /\ call[lock] \in Runs
           /\ rows \subseteq tx.rows
           /\ tx.todo \subseteq call[lock]
  BY DEF TypeOK

\* The store is empty and nobody has begun.
LEMMA InitIInv == Init => IInv
  BY WriterAssumption
  DEF Init, IInv, TypeOK, WholeRunsOnly, ChunksMatchArtifacts, Tx, NoTx, Replies, Phases

\* What the transaction knows only depends on its own call.
LEMMA Frame ==
    ASSUME Tx, UNCHANGED <<rows, chunked, lock, tx>>,
           lock # None => call'[lock] = call[lock]
    PROVE  Tx'
  <1> SUFFICES ASSUME lock # None PROVE Tx'
    BY DEF Tx
  <1>1. Comparable(call[lock]) <=> Comparable(call[lock])'
    BY DEF Comparable, StoredFor, Producers
  <1>2. Passed <=> Passed'
    BY DEF Passed, SameKey
  <1>3. Current' = Current
    BY Zenon DEF Current
  <1>4. SameKey(Current)' = SameKey(Current)
    BY <1>3 DEF SameKey
  <1> QED
    BY <1>1, <1>2, <1>3, <1>4 DEF Tx

\* A call that begins or gives up does not touch the transaction of another.
LEMMA OutsideIInv ==
    ASSUME IInv, NEW w \in Writers,
           (\E run \in Runs : Call(w, run)) \/ BeginTimesOut(w)
    PROVE  IInv'
  <1>1. UNCHANGED <<rows, chunked, lock, tx>>
    BY DEF Call, BeginTimesOut
  <1>2. lock # None => call'[lock] = call[lock]
    BY DEF Call, BeginTimesOut, Return, IInv, TypeOK
  <1>3. TypeOK'
    BY <1>1, <1>2 DEF IInv, TypeOK, Call, BeginTimesOut, Return, Replies
  <1>4. Tx'
    BY <1>1, <1>2, Frame DEF IInv
  <1> QED
    BY <1>1, <1>3, <1>4 DEF IInv, WholeRunsOnly, ChunksMatchArtifacts

\* A transaction that is rolled back leaves nothing.
LEMMA RollbackIInv ==
    ASSUME IInv, NEW w \in Writers, NEW answer \in Replies, lock = w, Rollback(w, answer)
    PROVE  IInv'
  <1>1. TypeOK'
    BY DEF IInv, TypeOK, Rollback, Return, NoTx, Phases
  <1>2. UNCHANGED <<rows, chunked>> /\ lock' = None
    BY DEF Rollback
  <1> QED
    BY <1>1, <1>2 DEF IInv, WholeRunsOnly, ChunksMatchArtifacts, Tx

\* A process that stops rolls its own transaction back.
LEMMA StopIInv ==
    ASSUME IInv, NEW w \in Writers, Stop(w)
    PROVE  IInv'
  <1>1. CASE lock = w
    <2>1. Rollback(w, "stopped")
      BY <1>1 DEF Stop, Rollback
    <2> QED
      BY <1>1, <2>1, RollbackIInv DEF Replies
  <1>2. CASE lock # w
    <2>1. UNCHANGED <<rows, chunked, lock, tx>>
      BY <1>2 DEF Stop
    <2>2. lock # None => call'[lock] = call[lock]
      BY <1>2 DEF Stop, Return, IInv, TypeOK
    <2>3. TypeOK'
      BY <2>1, <2>2 DEF IInv, TypeOK, Stop, Return, Replies
    <2>4. Tx'
      BY <2>1, <2>2, Frame DEF IInv
    <2> QED
      BY <2>1, <2>3, <2>4 DEF IInv, WholeRunsOnly, ChunksMatchArtifacts
  <1> QED
    BY <1>1, <1>2

\* A transaction begins from what is committed.
LEMMA BeginIInv ==
    ASSUME IInv, NEW w \in Writers, Begin(w)
    PROVE  IInv'
  <1>1. /\ call' = call /\ rows' = rows /\ chunked' = chunked /\ reply' = reply
        /\ lock' = w /\ w # None
        /\ tx' = [rows |-> rows, chunked |-> chunked, todo |-> call[w], phase |-> "compare"]
    BY WriterAssumption DEF Begin
  <1>2. call[w] \in Runs
    BY DEF Begin, IInv, TypeOK
  <1>3. TypeOK'
    BY <1>1, <1>2, RunShape DEF IInv, TypeOK, Phases
  <1>4. Tx'
    BY <1>1, <1>2 DEF IInv, Tx, Passed, ChunksMatchArtifacts
  <1> QED
    BY <1>1, <1>3, <1>4 DEF IInv, WholeRunsOnly, ChunksMatchArtifacts

\* save_editorial_run() compares producers, and fails or goes on to write.
LEMMA CompareIInv ==
    ASSUME IInv, NEW w \in Writers, CompareProducers(w)
    PROVE  IInv'
  <1>1. lock = w /\ lock # None /\ tx.phase = "compare" /\ tx.rows = rows
    BY WriterAssumption DEF CompareProducers, IInv, Tx
  <1>2. CASE Rollback(w, "conflict")
    BY <1>1, <1>2, RollbackIInv DEF Replies
  <1>3. CASE /\ ~(StoredOutputs(w) # {} /\ Producers(StoredOutputs(w)) # Producers(call[w]))
             /\ tx' = [tx EXCEPT !.phase = "write"]
             /\ UNCHANGED <<rows, chunked, lock, call, reply>>
    <2>1. StoredFor(call[w]) = StoredOutputs(w)
      BY <1>1 DEF StoredFor, StoredOutputs
    <2>2. Comparable(call[w])
      BY <1>3, <2>1 DEF Comparable
    <2>3. /\ tx'.rows = tx.rows /\ tx'.chunked = tx.chunked /\ tx'.todo = tx.todo
          /\ tx'.phase = "write"
      BY <1>3 DEF IInv, TypeOK
    <2>4. TypeOK'
      BY <1>1, <1>3, <2>3 DEF IInv, TypeOK, Phases
    <2>5. Comparable(call[w])'
      BY <2>2, <1>3 DEF Comparable, StoredFor, Producers
    <2>6. Tx'
      BY <1>1, <1>3, <2>3, <2>5 DEF IInv, Tx, Passed, SameKey
    <2> QED
      BY <1>3, <2>4, <2>6 DEF IInv, WholeRunsOnly, ChunksMatchArtifacts
  <1> QED
    BY <1>2, <1>3 DEF CompareProducers

\* A stored artifact is the same as the one saved, or conflicts.
LEMMA VerifyIInv ==
    ASSUME IInv, NEW w \in Writers, Verify(w)
    PROVE  IInv'
  <1>1. lock = w /\ lock # None /\ tx.phase = "write" /\ tx.todo # {}
    BY WriterAssumption DEF Verify
  <1>2. CASE Rollback(w, "conflict")
    BY <1>1, <1>2, RollbackIInv DEF Replies
  <1>3. CASE /\ SameKey(Current) = {Current}
             /\ tx' = [tx EXCEPT !.todo = @ \ {Current}]
             /\ UNCHANGED <<rows, chunked, lock, call, reply>>
    <2>1. /\ tx'.rows = tx.rows /\ tx'.chunked = tx.chunked
          /\ tx'.todo = tx.todo \ {Current} /\ tx'.phase = "write"
      BY <1>1, <1>3 DEF IInv, TypeOK
    <2>2. TypeOK'
      BY <1>1, <1>3, <2>1 DEF IInv, TypeOK
    <2>3. Passed'
      BY <1>1, <1>3, <2>1 DEF IInv, Tx, Passed, SameKey
    <2>4. Comparable(call[lock])'
      BY <1>1, <1>3 DEF IInv, Tx, Comparable, StoredFor, Producers
    <2>5. Tx'
      BY <1>1, <1>3, <2>1, <2>3, <2>4 DEF IInv, Tx
    <2> QED
      BY <1>3, <2>2, <2>5 DEF IInv, WholeRunsOnly, ChunksMatchArtifacts
  <1> QED
    BY <1>2, <1>3 DEF Verify

\* A new artifact is only seen inside of its transaction.
LEMMA InsertIInv ==
    ASSUME IInv, NEW w \in Writers, InsertArtifact(w)
    PROVE  IInv'
  <1>1. /\ lock = w /\ lock # None /\ tx.phase = "write" /\ tx.todo # {}
        /\ SameKey(Current) = {}
        /\ tx' = [tx EXCEPT !.rows = @ \cup {Current}, !.phase = "chunks"]
        /\ UNCHANGED <<rows, chunked, lock, call, reply>>
    BY WriterAssumption DEF InsertArtifact
  <1>2. /\ tx'.rows = tx.rows \cup {Current} /\ tx'.chunked = tx.chunked
        /\ tx'.todo = tx.todo /\ tx'.phase = "chunks"
    BY <1>1 DEF IInv, TypeOK
  <1>3. /\ Current \in tx.todo /\ Current \in call[lock] /\ call[lock] \in Runs
        /\ Current \in Artifacts
    BY <1>1, CurrentIsTodo, Holder, RunShape DEF IInv
  <1>4. Current' = Current
    BY <1>2, Zenon DEF Current
  <1>5. TypeOK'
    BY <1>1, <1>2, <1>3 DEF IInv, TypeOK, Phases
  <1>6. Passed'
    <2> SUFFICES ASSUME NEW a \in call[lock], a \notin tx.todo
                 PROVE  SameKey(a)' = {a}
      BY <1>1, <1>2 DEF Passed
    <2>1. SameKey(a) = {a}
      BY <1>1 DEF IInv, Tx, Passed
    <2>2. Current.producer # a.producer
      BY <1>3, RunShape
    <2> QED
      BY <1>2, <2>1, <2>2 DEF SameKey
  <1>7. SameKey(Current)' = {Current}
    BY <1>1, <1>2, <1>4 DEF SameKey
  <1>8. Comparable(call[lock])'
    BY <1>1 DEF IInv, Tx, Comparable, StoredFor, Producers
  <1>9. Tx'
    BY <1>1, <1>2, <1>3, <1>4, <1>6, <1>7, <1>8 DEF IInv, Tx
  <1> QED
    BY <1>1, <1>5, <1>9 DEF IInv, WholeRunsOnly, ChunksMatchArtifacts

\* Its chunks follow, inside of the same transaction.
LEMMA InsertChunksIInv ==
    ASSUME IInv, NEW w \in Writers, InsertChunks(w)
    PROVE  IInv'
  <1>1. /\ lock = w /\ lock # None /\ tx.phase = "chunks"
        /\ tx' = [tx EXCEPT !.chunked = @ \cup {Current}, !.todo = @ \ {Current},
                            !.phase = "write"]
        /\ UNCHANGED <<rows, chunked, lock, call, reply>>
    BY WriterAssumption DEF InsertChunks
  <1>2. /\ tx'.rows = tx.rows /\ tx'.chunked = tx.chunked \cup {Current}
        /\ tx'.todo = tx.todo \ {Current} /\ tx'.phase = "write"
    BY <1>1 DEF IInv, TypeOK
  <1>3. /\ tx.todo # {} /\ SameKey(Current) = {Current}
        /\ tx.rows = tx.chunked \cup {Current}
    BY <1>1 DEF IInv, Tx
  <1>4. Current \in Artifacts
    BY <1>1, <1>3, CurrentIsTodo, Holder, RunShape DEF IInv
  <1>5. TypeOK'
    BY <1>1, <1>2, <1>4 DEF IInv, TypeOK, Phases
  <1>6. Passed'
    BY <1>1, <1>2, <1>3 DEF IInv, Tx, Passed, SameKey
  <1>7. Comparable(call[lock])'
    BY <1>1 DEF IInv, Tx, Comparable, StoredFor, Producers
  <1>8. Tx'
    BY <1>1, <1>2, <1>3, <1>6, <1>7 DEF IInv, Tx
  <1> QED
    BY <1>1, <1>5, <1>8 DEF IInv, WholeRunsOnly, ChunksMatchArtifacts

\* At the commit the run is in the view, and nothing stored contradicts it.
LEMMA CommitFacts ==
    ASSUME IInv, NEW w \in Writers, Commit(w)
    PROVE  /\ lock = w /\ call[w] \in Runs
           /\ rows' = rows \cup call[w] /\ chunked' = rows'
           /\ StoredFor(call[w]) \in {{}, call[w]}
  <1>1. /\ lock = w /\ lock # None /\ tx.phase = "write" /\ tx.todo = {}
        /\ rows' = tx.rows /\ chunked' = tx.chunked
    BY WriterAssumption DEF Commit
  <1>2. call[w] \in Runs /\ rows \subseteq tx.rows
    BY <1>1, Holder DEF IInv
  <1>3. /\ tx.rows \subseteq rows \cup call[w]
        /\ Comparable(call[w])
        /\ tx.rows = tx.chunked
        /\ \A a \in call[w] : SameKey(a) = {a}
    BY <1>1 DEF IInv, Tx, Passed
  <1>4. call[w] \subseteq tx.rows
    BY <1>3 DEF SameKey
  <1>5. CASE StoredFor(call[w]) # {}
    <2>1. Producers(StoredFor(call[w])) = Producers(call[w])
      BY <1>3, <1>5 DEF Comparable
    <2>2. ASSUME NEW s \in StoredFor(call[w]), NEW a \in call[w],
                 s.producer = a.producer
          PROVE  s = a
      <3>1. s \in tx.rows /\ s.task = a.task
        BY <1>2, RunShape DEF StoredFor
      <3>2. s \in SameKey(a)
        BY <2>2, <3>1 DEF SameKey
      <3> QED
        BY <1>3, <3>2
    <2>3. ASSUME NEW s \in StoredFor(call[w])
          PROVE  s \in call[w]
      <3>1. s.producer \in Producers(call[w])
        BY <2>1 DEF Producers
      <3>2. PICK a \in call[w] : s.producer = a.producer
        BY <3>1 DEF Producers
      <3> QED
        BY <2>2, <3>2
    <2>4. ASSUME NEW a \in call[w]
          PROVE  a \in StoredFor(call[w])
      <3>1. a.producer \in Producers(StoredFor(call[w]))
        BY <2>1 DEF Producers
      <3>2. PICK s \in StoredFor(call[w]) : s.producer = a.producer
        BY <3>1 DEF Producers
      <3> QED
        BY <2>2, <3>2
    <2> QED
      BY <2>3, <2>4
  <1> QED
    BY <1>1, <1>2, <1>3, <1>4, <1>5

\* A commit publishes the run as a whole.
LEMMA CommitIInv ==
    ASSUME IInv, NEW w \in Writers, Commit(w)
    PROVE  IInv'
  <1>1. /\ lock = w /\ call[w] \in Runs
        /\ rows' = rows \cup call[w] /\ chunked' = rows'
        /\ StoredFor(call[w]) \in {{}, call[w]}
    BY CommitFacts
  <1>2. lock' = None /\ tx' = NoTx
    BY DEF Commit
  <1>3. TypeOK'
    BY <1>1, <1>2, RunShape DEF IInv, TypeOK, Commit, Return, NoTx, Phases, Replies
  <1>4. WholeRunsOnly'
    <2> SUFFICES ASSUME NEW a \in rows'
                 PROVE  {r \in rows' : r.task = a.task} \in Runs
      BY DEF WholeRunsOnly
    <2>1. CASE \E b \in call[w] : b.task = a.task
      <3>1. {r \in rows' : r.task = a.task} = StoredFor(call[w]) \cup call[w]
        BY <1>1, <2>1, RunShape DEF StoredFor
      <3> QED
        BY <1>1, <3>1
    <2>2. CASE \A b \in call[w] : b.task # a.task
      <3>1. {r \in rows' : r.task = a.task} = {r \in rows : r.task = a.task} /\ a \in rows
        BY <1>1, <2>2
      <3> QED
        BY <3>1 DEF IInv, WholeRunsOnly
    <2> QED
      BY <2>1, <2>2
  <1> QED
    BY <1>1, <1>2, <1>3, <1>4 DEF IInv, ChunksMatchArtifacts, Tx

\* Every step of every process keeps the invariant.
LEMMA StepIInv == IInv /\ [Next]_vars => IInv'
  <1> SUFFICES ASSUME IInv, [Next]_vars PROVE IInv'
    OBVIOUS
  <1>1. ASSUME NEW w \in Writers, Step(w)
        PROVE  IInv'
    <2>1. CASE StatementFails(w)
      BY <2>1, RollbackIInv DEF StatementFails, Replies
    <2> QED
      BY <1>1, <2>1, BeginIInv, OutsideIInv, CompareIInv, VerifyIInv, InsertIInv,
         InsertChunksIInv, CommitIInv
      DEF Step
  <1>2. ASSUME NEW w \in Writers, Stop(w)
        PROVE  IInv'
    BY <1>2, StopIInv
  <1>3. ASSUME NEW w \in Writers, NEW run \in Runs, Call(w, run)
        PROVE  IInv'
    BY <1>3, OutsideIInv
  <1>4. CASE UNCHANGED vars
    <2>1. Tx'
      BY <1>4, Frame DEF IInv, vars
    <2> QED
      BY <1>4, <2>1 DEF vars, IInv, TypeOK, WholeRunsOnly, ChunksMatchArtifacts
  <1> QED
    BY <1>1, <1>2, <1>3, <1>4 DEF Next

-----------------------------------------------------------------------------
\* The strengthened invariant holds in every behaviour.
THEOREM Inductive == Spec => []IInv
  BY InitIInv, StepIInv, PTL DEF Spec

\* The variables keep their types, and an open transaction sees what was
\* committed before it.
THEOREM TypeCorrect == Spec => []TypeOK
  <1>1. IInv => TypeOK
    BY DEF IInv
  <1> QED
    BY <1>1, Inductive, PTL

\* The outputs stored for a task are one saved run (store.py:118-153).
THEOREM WholeRuns == Spec => []WholeRunsOnly
  <1>1. IInv => WholeRunsOnly
    BY DEF IInv
  <1> QED
    BY <1>1, Inductive, PTL

\* Artifacts and their chunks are committed together (store.py:118-153).
THEOREM ChunksMatch == Spec => []ChunksMatchArtifacts
  <1>1. IInv => ChunksMatchArtifacts
    BY DEF IInv
  <1> QED
    BY <1>1, Inductive, PTL

\* save_run() implements the ledger: every step saves a whole run that
\* conflicts with nothing stored, or changes nothing (README.md:393-396).
THEOREM Implements == Spec => ImplementsLedger
  <1>1. Init => Ledger!Init
    BY DEF Init, Ledger!Init
  <1>2. IInv /\ [Next]_vars => [Ledger!Next]_rows
    <2> SUFFICES ASSUME IInv, [Next]_vars, rows' # rows PROVE Ledger!Next
      OBVIOUS
    <2>1. PICK w \in Writers : Commit(w)
      BY DEF Next, vars, Step, Stop, Call, Begin, BeginTimesOut, StatementFails, Rollback,
             CompareProducers, Verify, InsertArtifact, InsertChunks
    <2>2. /\ call[w] \in Runs /\ rows' = rows \cup call[w]
          /\ StoredFor(call[w]) \in {{}, call[w]}
      BY <2>1, CommitFacts
    <2>3. \A a \in call[w] : Ledger!StoredRun(a.task) = StoredFor(call[w])
      BY <2>2, RunShape DEF StoredFor, Ledger!StoredRun
    <2>4. ~Ledger!Conflicts(call[w])
      BY <2>2, <2>3 DEF Ledger!Conflicts
    <2> QED
      BY <2>2, <2>4 DEF Ledger!Next, Ledger!Save
  <1> QED
    BY <1>1, <1>2, Inductive, PTL DEF Spec, Ledger!Spec, ImplementsLedger

\* A call that reports a conflict met other outputs of its task, one that
\* reports success has its run stored (store.py:122-136).
LEMMA TruthfulStep ==
    ASSUME IInv, [Next]_vars, NEW w \in Writers, call[w] # None, call'[w] = None
    PROVE  /\ reply'[w] = "saved" => call[w] \subseteq rows'
           /\ reply'[w] = "conflict" => Ledger!Conflicts(call[w])
  <1>1. CASE reply'[w] = "saved"
    <2>1. Commit(w)
      BY <1>1 DEF IInv, TypeOK, Next, vars, Step, Stop, Call, Return, Begin, BeginTimesOut,
             StatementFails, Rollback, CompareProducers, Verify, InsertArtifact,
             InsertChunks, Commit
    <2> QED
      BY <1>1, <2>1, CommitFacts
  <1>2. CASE reply'[w] = "conflict"
    <2>1. CompareProducers(w) \/ Verify(w)
      BY <1>2 DEF IInv, TypeOK, Next, vars, Step, Stop, Call, Return, Begin, BeginTimesOut,
             StatementFails, Rollback, CompareProducers, Verify, InsertArtifact,
             InsertChunks, Commit
    <2>2. /\ lock = w /\ lock # None /\ call[w] \in Runs
      BY <2>1, Holder, WriterAssumption DEF CompareProducers, Verify, IInv
    <2>3. \A a \in call[w] : Ledger!StoredRun(a.task) = StoredFor(call[w])
      BY <2>2, RunShape DEF StoredFor, Ledger!StoredRun
    <2>4. StoredFor(call[w]) \notin {{}, call[w]}
      <3>1. CASE CompareProducers(w)
        <4>1. tx.rows = rows
          BY <2>2, <3>1 DEF CompareProducers, IInv, Tx
        <4>2. StoredOutputs(w) = StoredFor(call[w])
          BY <4>1 DEF StoredOutputs, StoredFor
        <4>3. StoredOutputs(w) # {} /\ Producers(StoredOutputs(w)) # Producers(call[w])
          BY <3>1 DEF CompareProducers
        <4> QED
          BY <4>2, <4>3
      <3>2. CASE Verify(w)
        <4>1. /\ tx.phase = "write" /\ tx.todo # {} /\ SameKey(Current) # {}
              /\ ~(SameKey(Current) = {Current} /\ Current \in tx.chunked)
          BY <3>2 DEF Verify
        <4>2. tx.rows = tx.chunked /\ tx.rows \subseteq rows \cup call[w]
          BY <2>2, <4>1 DEF IInv, Tx
        <4>3. SameKey(Current) # {Current}
          BY <4>1, <4>2 DEF SameKey
        <4>4. PICK r \in SameKey(Current) : r # Current
          BY <4>1, <4>3
        <4>5. Current \in call[w]
          BY <2>2, <4>1, CurrentIsTodo, Holder DEF IInv
        <4>6. r \notin call[w]
          BY <2>2, <4>4, <4>5, RunShape DEF SameKey
        <4>7. r \in StoredFor(call[w])
          BY <4>2, <4>4, <4>5, <4>6 DEF SameKey, StoredFor
        <4> QED
          BY <4>6, <4>7
      <3> QED
        BY <2>1, <3>1, <3>2
    <2>5. PICK a \in call[w] : Ledger!StoredRun(a.task) \notin {{}, call[w]}
      BY <2>2, <2>3, <2>4, RunShape
    <2> QED
      BY <1>2, <2>5 DEF Ledger!Conflicts
  <1> QED
    BY <1>1, <1>2

\* The replies of save_run() are true (store.py:122-136).
THEOREM Truthful == Spec => RepliesAreTruthful
  <1>1. IInv /\ [Next]_vars =>
            [\A w \in Writers : call[w] # None /\ call'[w] = None =>
                /\ reply'[w] = "saved" => call[w] \subseteq rows'
                /\ reply'[w] = "conflict" => Ledger!Conflicts(call[w])]_vars
    BY TruthfulStep
  <1> QED
    BY <1>1, Inductive, PTL DEF Spec, RepliesAreTruthful
=============================================================================
