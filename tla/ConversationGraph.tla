-------------------------- MODULE ConversationGraph --------------------------
(***************************************************************************)
(* src/src/editorial_team/graphs/conversation.py, with the workflow of     *)
(* EditorialGraph inside it: what one message of a conversation goes       *)
(* through, from process_message() to the answer, over the two databases   *)
(* it writes: the checkpoints of LangGraph and the artifact store.         *)
(*                                                                         *)
(* Turns run one after the other (RuntimeQueue).  A node works on the      *)
(* channels (ch) and hands its update over when it ends; LangGraph writes  *)
(* the checkpoint of a finished node in the background, and waits for it   *)
(* before invoke() returns or raises.  A new invoke() starts at the first  *)
(* node on the channels of the last checkpoint, whatever happened before.  *)
(*                                                                         *)
(* The number of a turn stands for every identifier made in it: of the     *)
(* messages, of the writing task, and so of the editorial run.             *)
(***************************************************************************)
EXTENDS EditorialGraph

CONSTANTS
    Conversations,
    MaxTurns,          \* bound: messages received
    MaxToolRounds,     \* MAX_COORDINATOR_TOOL_ROUNDS
    MaxCalls,          \* bound: tool calls in one answer of the coordinator
    MaxRecentMessages, \* max_recent_messages
    Background         \* FALSE: only the behaviours in which the checkpoint of
                       \* a node is written before the next node runs

ASSUME BoundAssumption == /\ Background \in BOOLEAN
                          /\ MaxTurns \in Nat /\ MaxToolRounds \in Nat
                          /\ MaxCalls \in Nat \ {0}
                          /\ MaxRecentMessages \in Nat \ {0}
                          /\ Ids = 1 .. MaxTurns
VARIABLES
    ch,         \* channels of the turn that runs
    saved,      \* their checkpoint is written
    checkpoint, \* channels of the last checkpoint of each conversation
    artifacts,  \* committed rows of the artifact store
    turns       \* history: the messages received, and what became of each

vars == <<node, reason, sub, ch, saved, checkpoint, artifacts, turns>>

turn == Len(turns)
conv == turns[turn].conv

Routes == {"chat", "start_writing_task", "revise_task", "show_retrieved_draft"}
Rejections == {"coordinator_limit", "retrieval_revises", "retrieval_unused",
               "nothing_to_show", "no_draft_loaded", "nothing_to_revise"}
Faults == AgentFailures \cup {"coordinator", "talker", "clock", "artifact_store",
                              "checkpoint"}

Artifacts == [task : Ids, producer : {"writer", "editor"}, conv : Conversations,
              content : Texts]

Messages == [turn : Ids, role : {"user", "assistant"}]
ConversationStates == [active : Tasks \cup {None}, recent : Seq(Messages)]

NewConversation == [active |-> None, recent |-> <<>>]

ASSUME NoneAssumption ==
    /\ None \notin Texts \cup Conversations \cup Nat
    /\ None \notin Routes \cup Faults \cup Rejections
    /\ None \notin Tasks /\ None \notin ConversationStates

Message(role) == [turn |-> turn, role |-> role]

\* The channels of a new thread.
NoChannels ==
    [conversation |-> None,    \* the durable one
     assistant |-> None,       \* the turn whose answers are kept for the caller
     turnConversation |-> None, decision |-> None, talkerResponse |-> None,
     task |-> None, context |-> None, writerRun |-> None, criticRun |-> None,
     writerOutput |-> None, report |-> None, draft |-> None, result |-> None,
     prompt |-> None,   \* the turn that coordinator_messages are about
     calls |-> <<>>,    \* tool calls of their last message
     steps |-> 0, searched |-> FALSE, retrieved |-> None]

Ledger == INSTANCE ArtifactLedger WITH Runs <- SUBSET Artifacts

TypeOK ==
    /\ node \in EditorialNodes \cup {"idle", "failed", "end",
           "validate_and_prepare_turn", "coordinator_agent", "coordinator_tools",
           "talker", "prepare_new_task", "prepare_revision", "editorial_subgraph",
           "finalize_task", "persist_editorial_artifacts", "finalize_turn"}
    /\ reason \in {None} \cup Faults \cup Rejections \cup Inconsistencies
    /\ saved \in BOOLEAN
    /\ artifacts \subseteq Artifacts
    /\ ch.decision \in Routes \cup {None}
    /\ ch.steps \in 0 .. MaxToolRounds
    /\ ch.retrieved \in Artifacts \cup {None}
    /\ ch.task \in Tasks \cup {None}
    /\ ch.result \in Results \cup {None}
    /\ \A c \in Conversations :
           LET kept == checkpoint[c].conversation IN
               kept # None => /\ kept \in ConversationStates
                              /\ Len(kept.recent) <= MaxRecentMessages

Init ==
    /\ node = "idle"
    /\ reason = None
    /\ sub = None
    /\ ch = NoChannels
    /\ saved = TRUE
    /\ checkpoint = [c \in Conversations |-> NoChannels]
    /\ artifacts = {}
    /\ turns = <<>>

-----------------------------------------------------------------------------
\* How a node ends: it updates channels, or raises.
Update(channels, next) ==
    /\ ch' = channels
    /\ saved' = FALSE
    /\ Goto(next)

Raise(why) ==
    /\ FailWith(why)
    /\ UNCHANGED <<ch, saved>>

Stores == <<checkpoint, artifacts, turns>>

ReceiveMessage(c) ==
    /\ node = "idle"
    /\ turn < MaxTurns
    /\ turns' = Append(turns, [conv |-> c, outcome |-> "running"])
    /\ ch' = checkpoint[c]
    /\ saved' = TRUE
    /\ node' = "validate_and_prepare_turn"
    /\ UNCHANGED <<reason, sub, checkpoint, artifacts>>

Known == IF ch.conversation = None THEN NewConversation ELSE ch.conversation
WithMessage == [Known EXCEPT !.recent = Append(@, Message("user"))]

LeftoverTurn ==  \* mutant: the channels of an earlier turn are not reset
    [ch EXCEPT !.turnConversation = WithMessage, !.decision = None]

\* Every channel of an earlier turn is reset but the durable conversation.
PreparedTurn ==
    [NoChannels EXCEPT !.conversation = ch.conversation, !.turnConversation = WithMessage]

ValidateAndPrepareTurn ==
    /\ node = "validate_and_prepare_turn"
    /\ \/ Raise("clock")
       \/ Update(PreparedTurn, "coordinator_agent") /\ UNCHANGED sub
    /\ UNCHANGED Stores

(***************************************************************************)
(* The coordinator: one more answer of the model, with tool calls or with  *)
(* a decision.                                                             *)
(***************************************************************************)
Calls == [tool : {"search_corpus"}, ok : BOOLEAN]  \* FALSE: failed, or no such tool
         \cup [tool : {"get_draft"}, target : artifacts \cup {None}]
CallLists == UNION {[1 .. n -> Calls] : n \in 1 .. MaxCalls}

Prompted == IF ch.prompt = None THEN turn ELSE ch.prompt

RejectionButRevision(route) ==  \* mutant: a revision after a retrieval is let through
    IF /\ ch.retrieved # None
       /\ route \notin {"start_writing_task", "show_retrieved_draft", "revise_task"}
    THEN "retrieval_unused"
    ELSE IF ch.retrieved = None /\ route = "show_retrieved_draft" THEN "nothing_to_show"
    ELSE None

\* The checks of coordinator_agent() on a decision, in their order.
Rejection(route) ==
    IF ch.steps > 0 /\ route = "revise_task" THEN "retrieval_revises"
    ELSE IF /\ ch.retrieved # None
            /\ route \notin {"start_writing_task", "show_retrieved_draft"}
         THEN "retrieval_unused"
    ELSE IF ch.retrieved = None /\ route = "show_retrieved_draft" THEN "nothing_to_show"
    ELSE None

\* _route_coordinator_decision()
NextNode(route) ==
    CASE route = "chat" -> "talker"
      [] route = "start_writing_task" -> "prepare_new_task"
      [] route = "revise_task" -> "prepare_revision"
      [] route = "show_retrieved_draft" -> "finalize_turn"

CoordinatorAgent ==
    /\ node = "coordinator_agent"
    /\ IF ch.turnConversation = None THEN Raise("invalid_state")
       ELSE \/ Raise("coordinator")
            \/ \E calls \in CallLists :
                   /\ Update([ch EXCEPT !.prompt = Prompted, !.calls = calls],
                             "coordinator_tools")
                   /\ UNCHANGED sub
            \/ \E route \in Routes :
                   IF Rejection(route) # None THEN Raise(Rejection(route))
                   ELSE /\ Update([ch EXCEPT !.decision = route, !.prompt = Prompted,
                                             !.calls = <<>>],
                                  NextNode(route))
                        /\ UNCHANGED sub
    /\ UNCHANGED Stores

\* get_artifact_for_conversation()
Visible == {a \in artifacts : a.conv = conv}

\* The calls of one answer run in order.  get_draft finds an artifact of the
\* conversation, and only after a search that worked, in this answer or in
\* an earlier one; the last draft loaded counts.
SearchedBefore(i) ==
    ch.searched \/ \E k \in 1 .. i - 1 :
                       ch.calls[k].tool = "search_corpus" /\ ch.calls[k].ok

LoadsAnyones(i) ==  \* mutant: the conversation of the artifact is not compared
    /\ ch.calls[i].tool = "get_draft"
    /\ SearchedBefore(i)
    /\ ch.calls[i].target # None

Loads(i) ==
    /\ ch.calls[i].tool = "get_draft"
    /\ SearchedBefore(i)
    /\ ch.calls[i].target \in Visible

LastLoad == CHOOSE i \in DOMAIN ch.calls :
                Loads(i) /\ \A k \in DOMAIN ch.calls : Loads(k) => k <= i
RetrievedDraft == ch.calls[LastLoad].target

LimitReached == ch.steps >= MaxToolRounds

SameRound == ch.steps  \* mutant: rounds are not counted
NextRound == ch.steps + 1

CoordinatorTools ==
    /\ node = "coordinator_tools"
    /\ IF ch.calls = <<>> THEN Raise("invalid_state")
       ELSE IF LimitReached THEN Raise("coordinator_limit")
       ELSE /\ Update([ch EXCEPT
                          !.steps = NextRound,
                          !.searched = SearchedBefore(Len(ch.calls) + 1),
                          !.retrieved = IF \E i \in DOMAIN ch.calls : Loads(i)
                                        THEN RetrievedDraft ELSE @,
                          !.calls = <<>>],
                      "coordinator_agent")
            /\ UNCHANGED sub
    /\ UNCHANGED Stores

Talker ==
    /\ node = "talker"
    /\ \/ Raise("talker")
       \/ Update([ch EXCEPT !.talkerResponse = turn], "finalize_turn") /\ UNCHANGED sub
    /\ UNCHANGED Stores

PrepareNewTask ==
    /\ node = "prepare_new_task"
    /\ IF ch.steps > 0 /\ ch.retrieved = None THEN Raise("no_draft_loaded")
       ELSE \/ Raise("clock")
            \/ LET historical == ch.retrieved # None
                   task == [id |-> turn, status |-> "created",
                            draft |-> IF historical THEN ch.retrieved.content ELSE None,
                            verdict |-> None]
                   operation == IF historical THEN "historical_transformation"
                                ELSE "new_task"
               IN  /\ Update([ch EXCEPT !.task = task,
                                        !.context = [operation |-> operation, task |-> task]],
                             "editorial_subgraph")
                   /\ UNCHANGED sub
    /\ UNCHANGED Stores

Revisable(task) ==
    /\ task # None
    /\ task.status \in {"reviewed", "revised", "retrieved"}
    /\ task.status # "retrieved" => task.verdict # None
    /\ task.draft # None

\* The prepared task keeps everything of the active one but its identifier.
PrepareRevision ==
    /\ node = "prepare_revision"
    /\ LET active == ch.turnConversation.active IN
       IF ~Revisable(active) THEN Raise("nothing_to_revise")
       ELSE \/ Raise("clock")
            \/ LET task == [active EXCEPT !.id = turn] IN
               /\ Update([ch EXCEPT !.task = task,
                                    !.context = [operation |-> "active_revision",
                                                 task |-> task]],
                         "editorial_subgraph")
               /\ UNCHANGED sub
    /\ UNCHANGED Stores

(***************************************************************************)
(* The editorial workflow gets a copy of the channels; its result comes    *)
(* back when it is through, nothing when one of its nodes raises.          *)
(***************************************************************************)
EnterEditorial ==
    /\ node = "editorial_subgraph"
    /\ sub' = [context |-> ch.context, task |-> ch.task,
               writerOutput |-> ch.writerOutput, writerRun |-> ch.writerRun,
               report |-> ch.report, criticRun |-> ch.criticRun,
               draft |-> ch.draft, result |-> ch.result]
    /\ Goto("writer")
    /\ UNCHANGED <<ch, saved>>
    /\ UNCHANGED Stores

EditorialStep ==
    /\ EditorialNext
    /\ UNCHANGED <<ch, saved>>
    /\ UNCHANGED Stores

LeaveEditorial ==
    /\ node = "edited"
    /\ Update([ch EXCEPT !.writerOutput = sub.result.writer,
                         !.report = sub.result.verdict,
                         !.draft = sub.result.draft,
                         !.result = sub.result,
                         !.writerRun = sub.writerRun,
                         !.criticRun = sub.criticRun],
              "finalize_task")
    /\ sub' = None
    /\ UNCHANGED Stores

IsOwnRun ==
    /\ ch.task # None /\ ch.context # None /\ ch.result # None
    /\ ch.context.task = ch.task
    /\ ch.writerRun = ch.context.task.id
    /\ ch.criticRun = ch.context.task.id
    /\ ch.decision \in {"start_writing_task", "revise_task"}

FinishedTask ==
    [ch.task EXCEPT !.status = IF ch.result.revised THEN "revised" ELSE "reviewed",
                    !.draft = ch.result.draft,
                    !.verdict = ch.result.verdict]

FinalizeTaskDurably ==  \* mutant: the durable conversation gets the task at once
    /\ node = "finalize_task"
    /\ Update([ch EXCEPT !.turnConversation.active = FinishedTask,
                         !.conversation = [Known EXCEPT !.active = FinishedTask]],
              "persist_editorial_artifacts")
    /\ UNCHANGED sub
    /\ UNCHANGED Stores

FinalizeTask ==
    /\ node = "finalize_task"
    /\ IF ~IsOwnRun THEN Raise("invalid_state")
       ELSE \/ Raise("clock")
            \/ /\ Update([ch EXCEPT !.turnConversation.active = FinishedTask],
                         "persist_editorial_artifacts")
               /\ UNCHANGED sub
    /\ UNCHANGED Stores

(***************************************************************************)
(* _completed_turn_state(): the answers join the conversation, the window  *)
(* of recent messages is cut, everything of the turn is cleared.           *)
(***************************************************************************)
FirstOf(seq, n) == SubSeq(seq, 1, IF Len(seq) <= n THEN Len(seq) ELSE n)  \* mutant
LastOf(seq, n) == IF Len(seq) <= n THEN seq ELSE SubSeq(seq, Len(seq) - n + 1, Len(seq))

HasAnswer ==
    CASE ch.decision = "chat" -> ch.talkerResponse # None
      [] ch.decision = "show_retrieved_draft" -> ch.retrieved # None
      [] OTHER -> ch.result # None

Answers ==
    IF ch.decision \in {"chat", "show_retrieved_draft"} THEN <<Message("assistant")>>
    ELSE <<Message("assistant"), Message("assistant"), Message("assistant")>>

ActiveTaskNotLoaded ==  \* mutant: the task shown has the status of a new one
    IF ch.decision = "show_retrieved_draft"
    THEN [id |-> turn, status |-> "created", draft |-> ch.retrieved.content,
          verdict |-> None]
    ELSE ch.turnConversation.active

ActiveTask ==
    IF ch.decision = "show_retrieved_draft"
    THEN [id |-> turn, status |-> "retrieved", draft |-> ch.retrieved.content,
          verdict |-> None]
    ELSE ch.turnConversation.active

Completed ==
    [NoChannels EXCEPT
        !.conversation = [active |-> ActiveTask,
                          recent |-> LastOf(ch.turnConversation.recent \o Answers,
                                           MaxRecentMessages)],
        !.assistant = turn]

FinalizeTurn ==
    /\ node = "finalize_turn"
    /\ IF ~HasAnswer THEN Raise("invalid_state")
       ELSE \/ Raise("clock")
            \/ Update(Completed, "end") /\ UNCHANGED sub
    /\ UNCHANGED Stores

Artifact(producer, content) ==
    [task |-> ch.task.id, producer |-> producer, conv |-> conv, content |-> content]

WriterOutputs ==  \* mutant: the Editor's text is not saved
    {Artifact("writer", ch.result.writer)}

RunOutputs ==
    {Artifact("writer", ch.result.writer)}
    \cup IF ch.result.revised THEN {Artifact("editor", ch.result.draft)} ELSE {}

PersistFirst ==  \* mutant: the answer is made after save_run()
    /\ node = "persist_editorial_artifacts"
    /\ Ledger!Save(RunOutputs)
    /\ \/ Raise("clock")
       \/ Update(Completed, "end") /\ UNCHANGED sub
    /\ UNCHANGED <<checkpoint, turns>>

\* save_run() commits, or raises and leaves nothing.
PersistEditorialArtifacts ==
    /\ node = "persist_editorial_artifacts"
    /\ \/ /\ IF ~HasAnswer THEN Raise("invalid_state")
             ELSE Raise("clock") \/ Raise("artifact_store")
          /\ UNCHANGED artifacts
       \/ /\ HasAnswer
          /\ Ledger!Save(RunOutputs)
          /\ Update(Completed, "end")
          /\ UNCHANGED sub
    /\ UNCHANGED <<checkpoint, turns>>

-----------------------------------------------------------------------------
(* What LangGraph does around the nodes, and what process_message() sees.  *)

SaveCheckpoint ==
    /\ node \notin {"idle", "failed"}
    /\ ~saved
    /\ checkpoint' = [checkpoint EXCEPT ![conv] = ch]
    /\ saved' = TRUE
    /\ UNCHANGED <<node, reason, sub, ch, artifacts, turns>>

CheckpointFails ==
    /\ node \notin {"idle", "failed"}
    /\ ~saved
    /\ node' = "failed"
    /\ reason' = "checkpoint"
    /\ UNCHANGED <<sub, ch, saved, checkpoint, artifacts, turns>>

\* Nothing of the turn stays in memory.
Forget == /\ node' = "idle"
          /\ reason' = None
          /\ sub' = None
          /\ ch' = NoChannels
          /\ saved' = TRUE

EndWith(outcome) == turns' = [turns EXCEPT ![turn].outcome = outcome]

AnswerEarly ==  \* mutant: invoke() does not wait for the last checkpoint
    /\ node = "end"
    /\ EndWith("answered")
    /\ Forget
    /\ UNCHANGED <<checkpoint, artifacts>>

\* The caller gets the messages of the last checkpoint, if there are any.
AnswerTurn ==
    /\ node = "end"
    /\ saved
    /\ EndWith(IF ch.assistant = None THEN "failed" ELSE "answered")
    /\ Forget
    /\ UNCHANGED <<checkpoint, artifacts>>

\* invoke() raises; a checkpoint that is still being written is waited for.
FailTurn ==
    /\ node = "failed"
    /\ EndWith(IF reason = "checkpoint" THEN "not_saved" ELSE "failed")
    /\ checkpoint' = IF saved \/ reason = "checkpoint" THEN checkpoint
                     ELSE [checkpoint EXCEPT ![conv] = ch]
    /\ Forget
    /\ UNCHANGED artifacts

Crash ==
    /\ node # "idle"
    /\ EndWith("crashed")
    /\ Forget
    /\ UNCHANGED <<checkpoint, artifacts>>

RunNode ==
    /\ Background \/ saved
    /\ \/ ValidateAndPrepareTurn \/ CoordinatorAgent \/ CoordinatorTools \/ Talker
       \/ PrepareNewTask \/ PrepareRevision
       \/ EnterEditorial \/ EditorialStep \/ LeaveEditorial
       \/ FinalizeTask \/ PersistEditorialArtifacts \/ FinalizeTurn

Step == RunNode \/ AnswerTurn \/ FailTurn

Next == \/ \E c \in Conversations : ReceiveMessage(c)
        \/ Step
        \/ SaveCheckpoint \/ CheckpointFails
        \/ Crash

Spec == Init /\ [][Next]_vars

\* A turn that runs goes on, and a checkpoint is written or fails.
FairSpec == Spec /\ WF_vars(Step) /\ WF_vars(SaveCheckpoint)

-----------------------------------------------------------------------------
Outcome(t) == turns[t].outcome
Kept(c) == IF checkpoint[c].conversation = None THEN NewConversation
           ELSE checkpoint[c].conversation

\* A turn fails because of an agent, a clock, a store or a rejected decision,
\* never because of what an earlier turn, failed or crashed half-way, left in
\* the checkpoint.
NoLeftovers == reason \notin Inconsistencies

\* The coordinator's prompt, its tool rounds and the draft it loaded are of
\* the turn that runs, and the draft belongs to its conversation and was
\* loaded after a search.
TurnUsesItsOwnRetrieval ==
    node \notin {"idle", "failed", "validate_and_prepare_turn"} =>
        /\ ch.prompt \in {None, turn}
        /\ ch.retrieved # None => /\ ch.retrieved.conv = conv
                                  /\ ch.retrieved \in artifacts
                                  /\ ch.searched
                                  /\ ch.steps > 0

\* Historical retrieval never revises the active task, and a transformation
\* works on the draft it was asked for (conversation.py:198-206).
RunsWorkOnTheRightDraft ==
    node \in EditorialNodes \cup {"finalize_task"} =>
        LET run == ch.context IN
        /\ run.operation = "active_revision" =>
               /\ ch.steps = 0
               /\ run.task.draft = Kept(conv).active.draft
               /\ run.task.id # Kept(conv).active.id
        /\ run.operation = "historical_transformation" =>
               run.task.draft = ch.retrieved.content
        /\ run.operation = "new_task" => ch.steps = 0 /\ run.task.draft = None

\* What the user works on is in the corpus: the draft of the active task is
\* the Writer's text when it passed and the Editor's when it was revised, and
\* a retrieved one is an artifact of the same conversation.
ActiveDraftIsStored ==
    \A c \in Conversations :
        LET active == Kept(c).active IN
        active # None =>
            \E a \in artifacts :
                /\ a.conv = c
                /\ a.content = active.draft
                /\ active.status = "reviewed" => a.task = active.id /\ a.producer = "writer"
                /\ active.status = "revised" => a.task = active.id /\ a.producer = "editor"

\* An active task can always be revised (README.md:198-200).
ActiveTaskIsRevisable ==
    \A c \in Conversations : Kept(c).active # None => Revisable(Kept(c).active)

\* An answer was durable before it was given: after a crash the conversation
\* remembers it, unless it has fallen out of the window.
AnswersAreRemembered ==
    \A t \in 1 .. turn : Outcome(t) = "answered" =>
        LET recent == Kept(turns[t].conv).recent IN
        /\ recent # <<>>
        /\ recent[Len(recent)].turn >= t

\* A user's message and the answers that follow it, everything of its turn.
IsExchange(recent, i, n) ==
    /\ i + n <= Len(recent)
    /\ \A k \in DOMAIN recent : recent[k].turn = recent[i].turn <=> k \in i .. i + n
    /\ \A k \in i + 1 .. i + n : recent[k].role = "assistant"

\* The window holds whole exchanges in their order.  A user's message has all
\* the answers of its turn, one or three, right behind it; every turn but the
\* first begins with its message; an answer is last.  Only the first exchange
\* may have lost its beginning, to the cut of conversation.py:613-618.
WindowIsOrdered ==
    \A c \in Conversations :
        LET recent == Kept(c).recent IN
        /\ recent # <<>> => recent[Len(recent)].role = "assistant"
        /\ \A i, k \in DOMAIN recent : i < k => recent[i].turn <= recent[k].turn
        /\ \A i \in DOMAIN recent :
               recent[i].role = "user" => \E n \in {1, 3} : IsExchange(recent, i, n)
        /\ \A i \in 2 .. Len(recent) :
               recent[i].turn # recent[i - 1].turn => recent[i].role = "user"

\* The durable conversation only changes when a turn of it is complete, all
\* at once; a turn that fails or crashes before that leaves it as it was.
ConversationChangesAtCompletion ==
    [][\A c \in Conversations :
           checkpoint'[c].conversation # checkpoint[c].conversation =>
               node = "end" /\ c = conv]_vars

\* Failed editorial runs leave no artifacts (README.md:390-391): a turn whose
\* artifacts are committed can only fail, or be lost, because its answer's
\* checkpoint was not written.
FailedRunsLeaveNoArtifacts ==
    \A a \in artifacts : Outcome(a.task) # "failed"

\* Every message is answered, fails or is lost in a crash: no turn loops in
\* the coordinator's tools.
IsRunning(t) == t <= turn /\ Outcome(t) = "running"
EveryTurnEnds == \A t \in 1 .. MaxTurns : IsRunning(t) ~> ~IsRunning(t)
=============================================================================
