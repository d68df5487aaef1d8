--------------------------- MODULE EditorialGraph ---------------------------
(***************************************************************************)
(* src/src/editorial_team/graphs/editorial.py: the Writer-Critic-optional  *)
(* Editor workflow.  It works on its own copy of the turn's channels (sub) *)
(* and hands back the result; an exception of a node ends the run with a   *)
(* reason.  The three agents are language models: what they return is any  *)
(* text of Texts, any verdict, or an exception.                            *)
(*                                                                         *)
(* Texts stand for drafts: the properties only tell equal drafts from      *)
(* different ones.  Blank and malformed answers are the agent's failure.   *)
(***************************************************************************)
EXTENDS Naturals, Sequences, FiniteSets

CONSTANTS
    Texts,   \* contents of drafts
    Ids,     \* identifiers of editorial runs: the fresh task id of each
    None     \* Python's None

VARIABLES
    node,    \* the node that is about to run
    reason,  \* why the run failed
    sub      \* channels of the workflow

Verdicts == {"pass", "revise"}
Statuses == {"created", "drafted", "reviewed", "revised", "retrieved"}
Operations == {"new_task", "active_revision", "historical_transformation"}

\* Failures that only a wrong state of the graph itself can cause.
Inconsistencies == {"inconsistent_context", "stale_output", "foreign_output",
                    "missing_output", "invalid_state"}
AgentFailures == {"writer", "critic", "editor"}

Tasks == [id : Ids, status : Statuses, draft : Texts \cup {None},
          verdict : Verdicts \cup {None}]

Results == [writer : Texts, verdict : Verdicts, draft : Texts, revised : BOOLEAN]

\* None is no text, no word and no record.
ASSUME NoneIsNothing ==
    /\ None \notin Texts /\ None \notin Ids
    /\ None \notin Verdicts /\ None \notin AgentFailures /\ None \notin Inconsistencies
    /\ None \notin Results
    /\ None \notin [operation : Operations, task : Tasks]

EditorialNodes == {"writer", "critic", "editor", "build_pass_result",
                   "build_revised_result", "edited"}

\* _result(): what EditorialResult accepts.
ValidResult(r) ==
    IF r.verdict = "pass" THEN ~r.revised /\ r.draft = r.writer ELSE r.revised

Goto(n) == node' = n /\ UNCHANGED reason
FailWith(why) == node' = "failed" /\ reason' = why /\ UNCHANGED sub

\* _context()
ContextIsConsistent == sub.context # None /\ sub.task = sub.context.task

HasStaleOutput == sub.writerOutput # None \/ sub.report # None \/ sub.result # None

OwnWriter == sub.writerRun = sub.context.task.id
OwnCritic == sub.criticRun = sub.context.task.id

\* The guards every node but the writer shares, in the order of the code.
Inconsistency(needsCritic, needsDraft) ==
    IF ~ContextIsConsistent THEN "inconsistent_context"
    ELSE IF ~OwnWriter \/ (needsCritic /\ ~OwnCritic) THEN "foreign_output"
    ELSE IF \/ sub.writerOutput = None
            \/ needsCritic /\ sub.report = None
            \/ needsDraft /\ sub.draft = None THEN "missing_output"
    ELSE None

WriterInconsistency ==
    IF ~ContextIsConsistent THEN "inconsistent_context"
    ELSE IF HasStaleOutput THEN "stale_output"
    ELSE None

WriterNode ==
    /\ node = "writer"
    /\ IF WriterInconsistency # None THEN FailWith(WriterInconsistency)
       ELSE \/ FailWith("writer")
            \/ /\ \E text \in Texts :
                      sub' = [sub EXCEPT !.writerOutput = text,
                                         !.writerRun = sub.context.task.id]
               /\ Goto("critic")

TrustedVerdict(verdict) == verdict  \* mutant: the Critic is believed

\* A transformation that gave back its input cannot pass: the critic's
\* verdict is replaced.
EffectiveVerdict(verdict) ==
    IF /\ sub.context.operation # "new_task"
       /\ sub.context.task.draft = sub.writerOutput
    THEN "revise" ELSE verdict

CriticNode ==
    /\ node = "critic"
    /\ IF Inconsistency(FALSE, FALSE) # None THEN FailWith(Inconsistency(FALSE, FALSE))
       ELSE \/ FailWith("critic")
            \/ \E verdict \in Verdicts :
                   /\ sub' = [sub EXCEPT !.report = EffectiveVerdict(verdict),
                                         !.criticRun = sub.context.task.id]
                   /\ Goto(IF EffectiveVerdict(verdict) = "pass"
                           THEN "build_pass_result" ELSE "editor")

EditorNode ==
    /\ node = "editor"
    /\ IF Inconsistency(TRUE, FALSE) # None THEN FailWith(Inconsistency(TRUE, FALSE))
       ELSE \/ FailWith("editor")
            \/ /\ \E text \in Texts : sub' = [sub EXCEPT !.draft = text]
               /\ Goto("build_revised_result")

BuildResult(from, draft, revised) ==
    LET built == [writer |-> sub.writerOutput, verdict |-> sub.report,
                  draft |-> draft, revised |-> revised]
        wrong == IF Inconsistency(TRUE, revised) # None THEN Inconsistency(TRUE, revised)
                 ELSE IF ~ValidResult(built) THEN "invalid_state"
                 ELSE None
    IN  /\ node = from
        /\ IF wrong # None THEN FailWith(wrong)
           ELSE /\ sub' = [sub EXCEPT !.draft = draft, !.result = built]
                /\ Goto("edited")

BuildPassResult == BuildResult("build_pass_result", sub.writerOutput, FALSE)
BuildRevisedResult == BuildResult("build_revised_result", sub.draft, TRUE)

EditorialNext ==
    WriterNode \/ CriticNode \/ EditorNode \/ BuildPassResult \/ BuildRevisedResult

-----------------------------------------------------------------------------
(* The workflow on its own: it starts from any run the parent graph        *)
(* prepares (its _context is right and its outputs are None).              *)

Prepared(id, operation, draft) ==
    LET task == [id |-> id,
                 status |-> IF operation = "active_revision" THEN "reviewed" ELSE "created",
                 draft |-> draft,
                 verdict |-> IF operation = "active_revision" THEN "pass" ELSE None]
    IN  [context |-> [operation |-> operation, task |-> task], task |-> task,
         writerOutput |-> None, writerRun |-> None, report |-> None,
         criticRun |-> None, draft |-> None, result |-> None]

EditorialInit ==
    /\ node = "writer"
    /\ reason = None
    /\ \E id \in Ids, operation \in Operations, draft \in Texts \cup {None} :
           /\ (draft = None) = (operation = "new_task")
           /\ sub = Prepared(id, operation, draft)

editorialVars == <<node, reason, sub>>

EditorialSpec == EditorialInit /\ [][EditorialNext]_editorialVars

\* The type of the channels, and which of them are filled at which node.
EditorialTypeOK ==
    /\ node \in EditorialNodes \cup {"failed"}
    /\ reason \in AgentFailures \cup Inconsistencies \cup {None}
    /\ (node = "failed") = (reason # None)
    /\ node = "build_pass_result" => sub.report = "pass"
    /\ node \in {"editor", "build_revised_result"} => sub.report = "revise"
    /\ node = "build_revised_result" => sub.draft # None
    /\ (node = "edited") = (sub.result # None)
    /\ sub.task \in Tasks
    /\ sub.writerOutput \in Texts \cup {None}
    /\ sub.report \in Verdicts \cup {None}
    /\ sub.draft \in Texts \cup {None}
    /\ sub.result \in Results \cup {None}

\* A finished run is canonical: what passed is the Writer's own text, what
\* did not is the Editor's, and a transformation never passes unchanged
\* (editorial.py:103-121, domain/editorial.py:124-149).
ResultIsCanonical ==
    node = "edited" =>
        /\ sub.result.revised = (sub.result.verdict = "revise")
        /\ ~sub.result.revised => sub.result.draft = sub.result.writer
        /\ sub.result.draft = sub.draft
        /\ ~sub.result.revised /\ sub.context.operation # "new_task"
               => sub.result.draft # sub.context.task.draft

\* The nodes' consistency checks never fire: only an agent can make a run
\* fail that was prepared properly.
OnlyAgentsFail == reason \in AgentFailures \cup {None}
=============================================================================
