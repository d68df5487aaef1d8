------------------------ MODULE EditorialGraphProofs ------------------------
(***************************************************************************)
(* Theorems about the editorial workflow on its own, for every set of      *)
(* texts and identifiers and whatever the three agents answer.             *)
(*                                                                         *)
(* The argument: the node says how far the run has come, and that says     *)
(* which channels are filled, by whom and for which run (Progress); the    *)
(* identifiers and the prepared task never change (SameRun).               *)
(***************************************************************************)
EXTENDS EditorialGraph, TLAPS

Channels == [context : [operation : Operations, task : Tasks], task : Tasks,
             writerOutput : Texts \cup {None}, writerRun : Ids \cup {None},
             report : Verdicts \cup {None}, criticRun : Ids \cup {None},
             draft : Texts \cup {None}, result : Results \cup {None}]

Typed ==
    /\ node \in EditorialNodes \cup {"failed"}
    /\ reason \in AgentFailures \cup {None}
    /\ node = "failed" <=> reason # None
    /\ sub \in Channels

\* The run works on the task it was prepared for.
SameRun == sub.task = sub.context.task

HasWriter == /\ sub.writerOutput \in Texts
             /\ sub.writerRun = sub.context.task.id

Unchanged == /\ sub.context.operation # "new_task"
             /\ sub.context.task.draft = sub.writerOutput

HasCritic == /\ HasWriter
             /\ sub.criticRun = sub.context.task.id
             /\ sub.report \in Verdicts
             /\ Unchanged => sub.report = "revise"

Built(r) ==
    /\ r \in Results
    /\ r.writer = sub.writerOutput
    /\ r.verdict = sub.report
    /\ r.draft = sub.draft
    /\ r.revised <=> sub.report = "revise"
    /\ sub.draft \in Texts
    /\ sub.report = "pass" => sub.draft = sub.writerOutput

\* What each node finds.
Progress ==
    /\ node = "writer" => ~HasStaleOutput
    /\ node = "critic" => HasWriter
    /\ node \in {"editor", "build_revised_result"} => HasCritic /\ sub.report = "revise"
    /\ node = "build_revised_result" => sub.draft \in Texts
    /\ node = "build_pass_result" => HasCritic /\ sub.report = "pass"
    /\ node = "edited" => HasCritic /\ Built(sub.result)
    /\ node # "edited" => sub.result = None

EInv == Typed /\ SameRun /\ Progress

-----------------------------------------------------------------------------
\* A prepared run satisfies the invariant.
LEMMA InitEInv == EditorialInit => EInv
  <1> SUFFICES ASSUME EditorialInit PROVE EInv
    OBVIOUS
  <1>1. PICK id \in Ids, operation \in Operations, draft \in Texts \cup {None} :
            sub = Prepared(id, operation, draft)
    BY DEF EditorialInit
  <1>2. node = "writer" /\ reason = None
    BY DEF EditorialInit
  <1>3. sub.context.task \in Tasks /\ sub.task = sub.context.task
    BY <1>1 DEF Prepared, Tasks, Statuses, Verdicts
  <1>4. sub \in Channels
    BY <1>1, <1>3 DEF Prepared, Channels
  <1> QED
    BY <1>1, <1>2, <1>3, <1>4, NoneIsNothing
    DEF EInv, Typed, SameRun, Progress, HasStaleOutput, Prepared, EditorialNodes,
        AgentFailures

\* Nothing is inconsistent for a node that finds what Progress promises.
LEMMA ContextHolds ==
    ASSUME EInv
    PROVE  ContextIsConsistent
  BY NoneIsNothing DEF EInv, Typed, SameRun, Channels, ContextIsConsistent

\* The writer starts a run or continues one.
LEMMA WriterEInv ==
    ASSUME EInv, WriterNode
    PROVE  EInv'
  <1>1. ~HasStaleOutput /\ node = "writer" /\ sub.result = None
    BY DEF EInv, Progress, WriterNode
  <1>2. WriterInconsistency = None
    BY <1>1, ContextHolds DEF WriterInconsistency
  <1>3. CASE FailWith("writer")
    BY <1>3, <1>1, NoneIsNothing
    DEF FailWith, EInv, Typed, SameRun, Progress, AgentFailures, EditorialNodes
  <1>4. CASE \E text \in Texts :
                 /\ sub' = [sub EXCEPT !.writerOutput = text,
                                       !.writerRun = sub.context.task.id]
                 /\ Goto("critic")
    <2>1. PICK text \in Texts :
              /\ sub' = [sub EXCEPT !.writerOutput = text,
                                    !.writerRun = sub.context.task.id]
              /\ Goto("critic")
      BY <1>4
    <2>2. sub \in Channels /\ sub.context.task.id \in Ids
      BY DEF EInv, Typed, Channels, Tasks
    <2>3. /\ sub' \in Channels
          /\ sub'.context = sub.context /\ sub'.task = sub.task
          /\ sub'.result = sub.result
          /\ sub'.writerOutput = text /\ sub'.writerRun = sub.context.task.id
      BY <2>1, <2>2 DEF Channels
    <2>4. node' = "critic" /\ reason' = reason
      BY <2>1 DEF Goto
    <2> QED
      BY <2>3, <2>4, <1>1, NoneIsNothing
      DEF EInv, Typed, SameRun, Progress, HasWriter, EditorialNodes
  <1> QED
    BY <1>2, <1>3, <1>4, NoneIsNothing DEF WriterNode, Goto

\* The critic reviews the draft of this run.
LEMMA CriticEInv ==
    ASSUME EInv, CriticNode
    PROVE  EInv'
  <1>1. HasWriter /\ node = "critic" /\ sub.result = None
    BY DEF EInv, Progress, CriticNode
  <1>2. Inconsistency(FALSE, FALSE) = None
    BY <1>1, ContextHolds, NoneIsNothing DEF Inconsistency, HasWriter, OwnWriter
  <1>3. CASE FailWith("critic")
    BY <1>3, <1>1, NoneIsNothing
    DEF FailWith, EInv, Typed, SameRun, Progress, AgentFailures, EditorialNodes
  <1>4. ASSUME NEW verdict \in Verdicts,
               sub' = [sub EXCEPT !.report = EffectiveVerdict(verdict),
                                  !.criticRun = sub.context.task.id],
               Goto(IF EffectiveVerdict(verdict) = "pass"
                    THEN "build_pass_result" ELSE "editor")
        PROVE  EInv'
    <2>1. sub \in Channels /\ sub.context.task.id \in Ids
      BY DEF EInv, Typed, Channels, Tasks
    <2>2. /\ EffectiveVerdict(verdict) \in Verdicts
          /\ Unchanged => EffectiveVerdict(verdict) = "revise"
      BY DEF EffectiveVerdict, Unchanged, Verdicts
    <2>3. /\ sub' \in Channels
          /\ sub'.context = sub.context /\ sub'.task = sub.task
          /\ sub'.result = sub.result
          /\ sub'.writerOutput = sub.writerOutput /\ sub'.writerRun = sub.writerRun
          /\ sub'.criticRun = sub.context.task.id
          /\ sub'.report = EffectiveVerdict(verdict)
      BY <1>4, <2>1, <2>2 DEF Channels
    <2>4. HasCritic'
      BY <1>1, <2>2, <2>3 DEF HasCritic, HasWriter, Unchanged
    <2>5. /\ reason' = reason
          /\ \/ node' = "build_pass_result" /\ sub'.report = "pass"
             \/ node' = "editor" /\ sub'.report = "revise"
      BY <1>4, <2>2, <2>3 DEF Goto, Verdicts
    <2> QED
      BY <2>3, <2>4, <2>5, <1>1, NoneIsNothing
      DEF EInv, Typed, SameRun, Progress, EditorialNodes
  <1> QED
    BY <1>2, <1>3, <1>4 DEF CriticNode

\* The editor revises it for the report of this run.
LEMMA EditorEInv ==
    ASSUME EInv, EditorNode
    PROVE  EInv'
  <1>1. HasCritic /\ sub.report = "revise" /\ node = "editor" /\ sub.result = None
    BY DEF EInv, Progress, EditorNode
  <1>2. Inconsistency(TRUE, FALSE) = None
    BY <1>1, ContextHolds, NoneIsNothing
    DEF Inconsistency, HasCritic, HasWriter, OwnWriter, OwnCritic
  <1>3. CASE FailWith("editor")
    BY <1>3, <1>1, NoneIsNothing
    DEF FailWith, EInv, Typed, SameRun, Progress, AgentFailures, EditorialNodes
  <1>4. ASSUME NEW text \in Texts, sub' = [sub EXCEPT !.draft = text],
               Goto("build_revised_result")
        PROVE  EInv'
    <2>1. sub \in Channels
      BY DEF EInv, Typed
    <2>2. /\ sub' \in Channels
          /\ sub'.context = sub.context /\ sub'.task = sub.task
          /\ sub'.result = sub.result /\ sub'.report = sub.report
          /\ sub'.writerOutput = sub.writerOutput /\ sub'.writerRun = sub.writerRun
          /\ sub'.criticRun = sub.criticRun
          /\ sub'.draft = text
      BY <1>4, <2>1 DEF Channels
    <2>3. HasCritic'
      BY <1>1, <2>2 DEF HasCritic, HasWriter, Unchanged
    <2>4. reason' = reason /\ node' = "build_revised_result"
      BY <1>4 DEF Goto
    <2> QED
      BY <2>2, <2>3, <2>4, <1>1, NoneIsNothing
      DEF EInv, Typed, SameRun, Progress, EditorialNodes
  <1> QED
    BY <1>2, <1>3, <1>4 DEF EditorNode

\* Both ways to build a result, from a draft that fits the verdict.
LEMMA BuildEInv ==
    ASSUME EInv, NEW from \in {"build_pass_result", "build_revised_result"},
           NEW draft \in Texts, NEW revised \in BOOLEAN,
           HasCritic, sub.result = None,
           revised = (sub.report = "revise"),
           revised => sub.draft = draft,
           ~revised => sub.writerOutput = draft,
           BuildResult(from, draft, revised)
    PROVE  EInv'
  <1> DEFINE built == [writer |-> sub.writerOutput, verdict |-> sub.report,
                       draft |-> draft, revised |-> revised]
  <1>1. Inconsistency(TRUE, revised) = None
    BY ContextHolds, NoneIsNothing
    DEF Inconsistency, HasCritic, HasWriter, OwnWriter, OwnCritic
  <1>2. ValidResult(built)
    BY DEF ValidResult, HasCritic, HasWriter, Verdicts
  <1>3. /\ sub' = [sub EXCEPT !.draft = draft, !.result = built]
        /\ Goto("edited")
    BY <1>1, <1>2 DEF BuildResult
  <1>4. sub \in Channels /\ built \in Results
    BY DEF EInv, Typed, Results, HasCritic, HasWriter
  <1>5. /\ sub' \in Channels
        /\ sub'.context = sub.context /\ sub'.task = sub.task
        /\ sub'.result = built /\ sub'.report = sub.report
        /\ sub'.writerOutput = sub.writerOutput /\ sub'.writerRun = sub.writerRun
        /\ sub'.criticRun = sub.criticRun
        /\ sub'.draft = draft
    BY <1>3, <1>4 DEF Channels
  <1>6. HasCritic'
    BY <1>5 DEF HasCritic, HasWriter, Unchanged
  <1>7. Built(sub.result)'
    <2>1. built.revised <=> sub.report = "revise"
      OBVIOUS
    <2>2. sub.report = "pass" => draft = sub.writerOutput
      OBVIOUS
    <2> QED
      BY <1>4, <1>5, <2>1, <2>2 DEF Built, Results
  <1>8. reason' = reason /\ node' = "edited" /\ node # "failed"
    BY <1>3 DEF Goto, BuildResult
  <1> QED
    BY <1>5, <1>6, <1>7, <1>8 DEF EInv, Typed, SameRun, Progress, EditorialNodes

\* Every step of the workflow keeps the invariant, whatever the agents do.
LEMMA StepEInv == EInv /\ [EditorialNext]_editorialVars => EInv'
  <1> SUFFICES ASSUME EInv, [EditorialNext]_editorialVars PROVE EInv'
    OBVIOUS
  <1>1. CASE WriterNode
    BY <1>1, WriterEInv
  <1>2. CASE CriticNode
    BY <1>2, CriticEInv
  <1>3. CASE EditorNode
    BY <1>3, EditorEInv
  <1>4. CASE BuildPassResult
    <2>1. node = "build_pass_result"
      BY <1>4 DEF BuildPassResult, BuildResult
    <2>2. HasCritic /\ sub.report = "pass" /\ sub.result = None
      BY <2>1 DEF EInv, Progress
    <2>3. sub.writerOutput \in Texts
      BY <2>2 DEF HasCritic, HasWriter
    <2> QED
      BY <1>4, <2>2, <2>3, BuildEInv DEF BuildPassResult
  <1>5. CASE BuildRevisedResult
    <2>1. node = "build_revised_result"
      BY <1>5 DEF BuildRevisedResult, BuildResult
    <2>2. HasCritic /\ sub.report = "revise" /\ sub.result = None /\ sub.draft \in Texts
      BY <2>1 DEF EInv, Progress
    <2> QED
      BY <1>5, <2>2, BuildEInv DEF BuildRevisedResult
  <1>6. CASE UNCHANGED editorialVars
    BY <1>6
    DEF editorialVars, EInv, Typed, SameRun, Progress, HasStaleOutput, HasWriter,
        HasCritic, Unchanged, Built
  <1> QED
    BY <1>1, <1>2, <1>3, <1>4, <1>5, <1>6 DEF EditorialNext

-----------------------------------------------------------------------------
\* The invariant holds in every run of the workflow.
THEOREM EditorialInductive == EditorialSpec => []EInv
  BY InitEInv, StepEInv, PTL DEF EditorialSpec

\* The channels keep their types and are filled when their node runs.
THEOREM EditorialTypes == EditorialSpec => []EditorialTypeOK
  <1>1. EInv => EditorialTypeOK
    BY NoneIsNothing
    DEF EInv, Typed, Progress, HasCritic, Built, Channels, EditorialTypeOK, Results
  <1> QED
    BY <1>1, EditorialInductive, PTL

\* What the invariant says of a result is that it is canonical.
LEMMA BuiltIsCanonical == EInv => ResultIsCanonical
  <1>1. ASSUME EInv, node = "edited"
        PROVE  /\ sub.result.revised = (sub.result.verdict = "revise")
               /\ ~sub.result.revised => sub.result.draft = sub.result.writer
               /\ sub.result.draft = sub.draft
               /\ ~sub.result.revised /\ sub.context.operation # "new_task"
                      => sub.result.draft # sub.context.task.draft
    <2>1. HasCritic /\ Built(sub.result)
      BY <1>1 DEF EInv, Progress
    <2>2. /\ sub.result.writer = sub.writerOutput
          /\ sub.result.verdict = sub.report
          /\ sub.result.draft = sub.draft
          /\ sub.result.revised \in BOOLEAN
      BY <2>1 DEF Built, Results
    <2>3. sub.result.revised <=> sub.report = "revise"
      BY <2>1 DEF Built
    <2>4. CASE sub.report = "revise"
      <3>1. sub.result.revised = TRUE
        BY <2>2, <2>3, <2>4
      <3> QED
        BY <2>2, <2>4, <3>1
    <2>5. CASE sub.report = "pass"
      <3>1. sub.result.revised = FALSE
        BY <2>2, <2>3, <2>5
      <3>2. sub.draft = sub.writerOutput /\ ~Unchanged
        BY <2>1, <2>5 DEF Built, HasCritic
      <3>3. sub.context.operation # "new_task" => sub.draft # sub.context.task.draft
        BY <3>2 DEF Unchanged
      <3> QED
        BY <2>2, <2>5, <3>1, <3>2, <3>3
    <2> QED
      BY <2>1, <2>4, <2>5 DEF HasCritic, Verdicts
  <1> QED
    BY <1>1, Zenon DEF ResultIsCanonical

\* A finished run is canonical (editorial.py:103-121).
THEOREM Canonical == EditorialSpec => []ResultIsCanonical
  BY BuiltIsCanonical, EditorialInductive, PTL

\* The nodes' consistency checks never fire.
THEOREM OnlyAgents == EditorialSpec => []OnlyAgentsFail
  <1>1. EInv => OnlyAgentsFail
    BY DEF EInv, Typed, OnlyAgentsFail
  <1> QED
    BY <1>1, EditorialInductive, PTL
=============================================================================
