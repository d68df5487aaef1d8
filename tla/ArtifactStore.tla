--------------------------- MODULE ArtifactStore ----------------------------
(***************************************************************************)
(* src/src/editorial_team/artifacts/store.py: save_run() as the statements *)
(* of one SQLite transaction, called by several processes that share the   *)
(* database file (the live application, the seeding script, a replay),     *)
(* which may stop at any point and be started again.                       *)
(***************************************************************************)
EXTENDS Naturals, FiniteSets

CONSTANTS
    Writers,  \* processes, each with a connection of its own
    Runs,     \* output sets that save_run() may get: _validate_run() has
              \* accepted them
    None

\* _validate_run(): one task and conversation, the Writer's output and
\* perhaps the Editor's.
IsRun(run) ==
    /\ \A a, b \in run : a.task = b.task /\ a.conv = b.conv /\ (a # b => a.producer # b.producer)
    /\ {a.producer : a \in run} \in {{"writer"}, {"writer", "editor"}}

ASSUME RunAssumption == \A run \in Runs : IsRun(run)
ASSUME WriterAssumption == None \notin Writers /\ None \notin Runs

VARIABLES
    rows,    \* committed rows of the table artifacts
    chunked, \* artifacts whose rows of artifact_chunks are committed
    lock,    \* the process that has begun a transaction
    tx,      \* its view of the two tables, and where it is
    call,    \* the run each process is saving, or None
    reply    \* how its last call ended

vars == <<rows, chunked, lock, tx, call, reply>>

Artifacts == UNION Runs
Phases == {"compare", "write", "chunks"}
Replies == {"none", "saved", "conflict", "error", "stopped"}
NoTx == [rows |-> {}, chunked |-> {}, todo |-> {}, phase |-> "compare"]

\* The types, and what the lock stands for: a transaction of a call that is
\* under way, which sees what was committed before it.
TypeOK ==
    /\ rows \subseteq Artifacts
    /\ chunked \subseteq Artifacts
    /\ lock \in Writers \cup {None}
    /\ tx \in [rows : SUBSET Artifacts, chunked : SUBSET Artifacts,
               todo : SUBSET Artifacts, phase : Phases]
    /\ call \in [Writers -> Runs \cup {None}]
    /\ reply \in [Writers -> Replies]
    /\ IF lock = None THEN tx = NoTx
       ELSE call[lock] # None /\ rows \subseteq tx.rows /\ tx.todo \subseteq call[lock]

\* initialize(): the tables exist, here of a database that is new.
Init ==
    /\ rows = {}
    /\ chunked = {}
    /\ lock = None
    /\ tx = NoTx
    /\ call = [w \in Writers |-> None]
    /\ reply = [w \in Writers |-> "none"]

Call(w, run) ==
    /\ call[w] = None
    /\ call' = [call EXCEPT ![w] = run]
    /\ reply' = [reply EXCEPT ![w] = "none"]
    /\ UNCHANGED <<rows, chunked, lock, tx>>

Return(w, answer) ==
    /\ call' = [call EXCEPT ![w] = None]
    /\ reply' = [reply EXCEPT ![w] = answer]

Rollback(w, answer) ==
    /\ lock' = None
    /\ tx' = NoTx
    /\ Return(w, answer)
    /\ UNCHANGED <<rows, chunked>>

\* BEGIN IMMEDIATE takes the write lock of the database file.
Begin(w) ==
    /\ call[w] # None
    /\ lock = None
    /\ lock' = w
    /\ tx' = [rows |-> rows, chunked |-> chunked, todo |-> call[w], phase |-> "compare"]
    /\ UNCHANGED <<rows, chunked, call, reply>>

\* It gives up when the lock is not free within the timeout.
BeginTimesOut(w) ==
    /\ call[w] # None
    /\ lock \notin {None, w}
    /\ Return(w, "error")
    /\ UNCHANGED <<rows, chunked, lock, tx>>

\* Any statement of the transaction may raise an sqlite3.Error.
StatementFails(w) ==
    /\ lock = w
    /\ Rollback(w, "error")

Producers(artifacts) == {a.producer : a \in artifacts}
StoredOutputs(w) == {r \in tx.rows : \E a \in call[w] : r.task = a.task}

SkipProducers(w) ==  \* mutant: the stored producers are not compared
    /\ lock = w
    /\ tx.phase = "compare"
    /\ tx' = [tx EXCEPT !.phase = "write"]
    /\ UNCHANGED <<rows, chunked, lock, call, reply>>

\* A stored run with other producers is another run.
CompareProducers(w) ==
    /\ lock = w
    /\ tx.phase = "compare"
    /\ IF StoredOutputs(w) # {} /\ Producers(StoredOutputs(w)) # Producers(call[w])
       THEN Rollback(w, "conflict")
       ELSE /\ tx' = [tx EXCEPT !.phase = "write"]
            /\ UNCHANGED <<rows, chunked, lock, call, reply>>

\* The Writer's output comes first.
Current == CHOOSE a \in tx.todo :
               a.producer = "writer" \/ \A b \in tx.todo : b.producer # "writer"

SameKey(a) == {r \in tx.rows : r.task = a.task /\ r.producer = a.producer}

IgnoreStored(w) ==  \* mutant: INSERT OR IGNORE, a stored row is not compared
    /\ lock = w
    /\ tx.phase = "write" /\ tx.todo # {}
    /\ SameKey(Current) # {}
    /\ tx' = [tx EXCEPT !.todo = @ \ {Current}]
    /\ UNCHANGED <<rows, chunked, lock, call, reply>>

\* _insert_or_verify(), with a row of this task and producer.
Verify(w) ==
    /\ lock = w
    /\ tx.phase = "write" /\ tx.todo # {}
    /\ SameKey(Current) # {}
    /\ IF SameKey(Current) = {Current} /\ Current \in tx.chunked
       THEN /\ tx' = [tx EXCEPT !.todo = @ \ {Current}]
            /\ UNCHANGED <<rows, chunked, lock, call, reply>>
       ELSE Rollback(w, "conflict")

InsertWithoutChunks(w) ==  \* mutant: the chunks are left for later
    /\ lock = w
    /\ tx.phase = "write" /\ tx.todo # {}
    /\ SameKey(Current) = {}
    /\ tx' = [tx EXCEPT !.rows = @ \cup {Current}, !.todo = @ \ {Current}]
    /\ UNCHANGED <<rows, chunked, lock, call, reply>>

\* ... and without one: two statements.
InsertArtifact(w) ==
    /\ lock = w
    /\ tx.phase = "write" /\ tx.todo # {}
    /\ SameKey(Current) = {}
    /\ tx' = [tx EXCEPT !.rows = @ \cup {Current}, !.phase = "chunks"]
    /\ UNCHANGED <<rows, chunked, lock, call, reply>>

InsertChunks(w) ==
    /\ lock = w
    /\ tx.phase = "chunks"
    /\ tx' = [tx EXCEPT !.chunked = @ \cup {Current}, !.todo = @ \ {Current},
                        !.phase = "write"]
    /\ UNCHANGED <<rows, chunked, lock, call, reply>>

\* The process may stop after the commit and before it hears of it.
Commit(w) ==
    /\ lock = w
    /\ tx.phase = "write" /\ tx.todo = {}
    /\ rows' = tx.rows
    /\ chunked' = tx.chunked
    /\ lock' = None
    /\ tx' = NoTx
    /\ \E answer \in {"saved", "stopped"} : Return(w, answer)

\* The process stops: SQLite forgets its transaction.
Stop(w) ==
    /\ call[w] # None
    /\ Return(w, "stopped")
    /\ lock' = IF lock = w THEN None ELSE lock
    /\ tx' = IF lock = w THEN NoTx ELSE tx
    /\ UNCHANGED <<rows, chunked>>

Step(w) == \/ Begin(w) \/ BeginTimesOut(w) \/ StatementFails(w) \/ CompareProducers(w)
           \/ Verify(w) \/ InsertArtifact(w) \/ InsertChunks(w) \/ Commit(w)

Next == \E w \in Writers : Step(w) \/ Stop(w) \/ \E run \in Runs : Call(w, run)

Spec == Init /\ [][Next]_vars

-----------------------------------------------------------------------------
Ledger == INSTANCE ArtifactLedger WITH artifacts <- rows

\* Whatever fails, stops or overlaps, the committed artifacts only ever grow
\* by a whole run that conflicts with nothing stored (README.md:393-396).
ImplementsLedger == Ledger!Spec

\* The outputs stored for a task are exactly one run somebody saved: never an
\* Editor's output alone, never half a run, never a mix of two.
WholeRunsOnly ==
    \A a \in rows : {r \in rows : r.task = a.task} \in Runs

\* The searchable corpus is complete: an artifact and its chunks are
\* committed together, so that search and get_draft() agree.
ChunksMatchArtifacts == chunked = rows

\* A call that ends as saved has its run in the database, also when the run
\* was there before; a conflict is only reported when other outputs are
\* stored for the task (store.py:122-136).
RepliesAreTruthful ==
    [][\A w \in Writers : call[w] # None /\ call'[w] = None =>
           /\ reply'[w] = "saved" => call[w] \subseteq rows'
           /\ reply'[w] = "conflict" => Ledger!Conflicts(call[w])]_vars
=============================================================================
