----------------------------- MODULE Composition ------------------------------
(***************************************************************************)
(* How the application is put together, and the databases it opens on the  *)
(* way: build_live_application_from_env() and build_conversation_service() *)
(* of src/src/editorial_team/app/composition.py, initialize() of           *)
(* artifacts/store.py and create_sqlite_checkpointer() of                  *)
(* graphs/checkpointing.py; and what close_resources() does to them.       *)
(*                                                                         *)
(* A step raises an Exception ("error") or another BaseException           *)
(* ("interrupt"): the handlers tell them apart.                            *)
(***************************************************************************)
EXTENDS FiniteSets

VARIABLES
    composed,  \* the step that comes next, "live", or "failed"
    raised,    \* what ended the composition, and where
    open,      \* databases that are open
    unclosed   \* those whose close() has raised

composition == <<composed, raised, open, unclosed>>

Databases == {"artifacts", "checkpoints"}
Steps == {"configuration", "artifact_store", "retriever", "connection", "saver", "graph",
          "adapter", "heartbeat"}
Kinds == {"error", "interrupt"}
NotRaised == [by |-> "none", at |-> "none"]

CompositionTypeOK ==
    /\ composed \in Steps \cup {"live", "failed"}
    /\ raised \in [by : Kinds, at : Steps] \cup {NotRaised}
    /\ open \subseteq Databases /\ unclosed \subseteq Databases

CompositionInit ==
    /\ composed = "configuration"
    /\ raised = NotRaised
    /\ open = {} /\ unclosed = {}

-----------------------------------------------------------------------------
Proceed(next, opened) ==
    /\ composed' = next
    /\ open' = open \cup opened
    /\ UNCHANGED <<raised, unclosed>>

\* The composition ends; its handlers leave some databases open, those
\* included whose close() they have called in vain.
FailWith(kind, left, refusing) ==
    /\ composed' = "failed"
    /\ raised' = [by |-> kind, at |-> composed]
    /\ open' = left \cup refusing
    /\ unclosed' = refusing

\* Configuration, time zone and model clients.
Configure ==
    /\ composed = "configuration"
    /\ \/ Proceed("artifact_store", {})
       \/ \E kind \in Kinds : FailWith(kind, {}, {})

\* initialize() closes its connection after an error of SQLite or the system.
InitializeStore ==
    /\ composed = "artifact_store"
    /\ \/ Proceed("retriever", {"artifacts"})
       \/ \E refusing \in SUBSET {"artifacts"} : FailWith("error", {}, refusing)
       \/ \E left \in SUBSET {"artifacts"} : FailWith("interrupt", left, {})

BuildRetriever ==
    /\ composed = "retriever"
    /\ \/ Proceed("connection", {})
       \/ \E kind \in Kinds, refusing \in SUBSET {"artifacts"} : FailWith(kind, {}, refusing)

ConnectOnly ==  \* mutant: nothing closes the artifact store
    /\ composed = "connection"
    /\ \/ Proceed("saver", {"checkpoints"})
       \/ \E kind \in Kinds, left \in SUBSET {"checkpoints"} : FailWith(kind, open \cup left, {})

\* The checkpoint database: between connect() and setup() its mode and its
\* timeout are set, and no handler closes the connection if that fails.
Connect ==
    /\ composed = "connection"
    /\ \/ Proceed("saver", {"checkpoints"})
       \/ \E kind \in Kinds, left \in SUBSET {"checkpoints"}, refusing \in SUBSET {"artifacts"} :
              FailWith(kind, left, refusing)

\* setup() of the saver: only an Exception closes the connection.
SetUpSaver ==
    /\ composed = "saver"
    /\ \/ Proceed("graph", {})
       \/ \E refusing \in SUBSET Databases : FailWith("error", {}, refusing)
       \/ \E refusing \in SUBSET {"artifacts"} : FailWith("interrupt", {"checkpoints"}, refusing)

\* Here the store is only closed when the checkpointer has closed.
CompileGraph ==
    /\ composed = "graph"
    /\ \/ Proceed("adapter", {})
       \/ \E kind \in Kinds :
              \/ \E refusing \in SUBSET {"artifacts"} : FailWith(kind, {}, refusing)
              \/ FailWith(kind, {"artifacts"}, {"checkpoints"})

\* The service exists, and closes both as close_resources() does; here, too,
\* only an Exception makes it.
BuildAdapter ==
    /\ composed = "adapter"
    /\ \/ Proceed("heartbeat", {})
       \/ \E refusing \in SUBSET Databases : FailWith("error", {}, refusing)
       \/ FailWith("interrupt", open, {})

BuildHeartbeat ==
    /\ composed = "heartbeat"
    /\ \/ Proceed("live", {})
       \/ \E kind \in Kinds, refusing \in SUBSET Databases : FailWith(kind, {}, refusing)

Compose ==
    \/ Configure \/ InitializeStore \/ BuildRetriever \/ Connect \/ SetUpSaver
    \/ CompileGraph \/ BuildAdapter \/ BuildHeartbeat

CloseUntilFailure ==  \* mutant: a checkpointer that does not close ends close_resources()
    /\ \E failing \in SUBSET open :
           /\ unclosed' = failing
           /\ open' = IF "checkpoints" \in failing THEN open ELSE failing
    /\ UNCHANGED <<composed, raised>>

\* close_resources(): each close() may raise, and the other is still called.
CloseResources ==
    /\ \E failing \in SUBSET open : unclosed' = failing /\ open' = failing
    /\ UNCHANGED <<composed, raised>>

-----------------------------------------------------------------------------
\* A composition that fails has closed every database that was ready for
\* use, whatever has raised, wherever it did, but for a connection whose own
\* preparation fails, a store behind a checkpointer that does not close, and
\* an interrupt at one of three steps (composition.py:126-172, 246-297).
FailedCompositionReleases ==
    composed = "failed" =>
        LET lost == open \ unclosed IN
        \/ lost = {}
        \/ raised.at = "connection" /\ lost = {"checkpoints"}
        \/ raised.at = "graph" /\ unclosed = {"checkpoints"}
        \/ raised.by = "interrupt" /\ raised.at \in {"artifact_store", "saver", "adapter"}
=============================================================================
