----------------------- MODULE ConversationGraphProofs -----------------------
(***************************************************************************)
(* Theorems about the conversation graph over its two databases, for every *)
(* number of messages, conversations, tool rounds and texts, every window, *)
(* and a crash, an exception or a failed checkpoint at any step.           *)
(*                                                                         *)
(* The argument: what counts of a checkpoint is the conversation in it.    *)
(* Until a turn is complete its channels carry the very conversation that  *)
(* the checkpoint has (Durable), so that a checkpoint of a half-finished   *)
(* turn changes nothing; the node says which channels of this turn are     *)
(* filled, and that they are of this turn (Progressing); and  *)
(* the conversation made at the end is as good as the one it replaces,     *)
(* because the artifact of its active task is committed by then            *)
(* (KeptWell, Completion).                                                 *)
(***************************************************************************)
EXTENDS ConversationGraph, EditorialGraphProofs, SequenceTheorems,
        WellFoundedInduction

TurnRecords == [conv : Conversations,
                outcome : {"running", "answered", "failed", "not_saved", "crashed"}]

EveryCall == [tool : {"search_corpus"}, ok : BOOLEAN]
             \cup [tool : {"get_draft"}, target : Artifacts \cup {None}]

Contexts == [operation : Operations, task : Tasks]

TurnChannels ==
    [conversation : ConversationStates \cup {None}, assistant : Ids \cup {None},
     turnConversation : ConversationStates \cup {None},
     decision : Routes \cup {None}, talkerResponse : Ids \cup {None},
     task : Tasks \cup {None}, context : Contexts \cup {None},
     writerRun : Ids \cup {None}, criticRun : Ids \cup {None},
     writerOutput : Texts \cup {None}, report : Verdicts \cup {None},
     draft : Texts \cup {None}, result : Results \cup {None},
     prompt : Ids \cup {None}, calls : Seq(EveryCall), steps : 0 .. MaxToolRounds,
     searched : BOOLEAN, retrieved : Artifacts \cup {None}]

\* Nodes before the first agent's text is known, and after.
Choosing == {"coordinator_agent", "coordinator_tools", "talker", "prepare_new_task",
             "prepare_revision", "finalize_turn"}
Editing == EditorialNodes \cup {"editorial_subgraph"}
Finishing == {"finalize_task", "persist_editorial_artifacts"}
Nodes == Choosing \cup Editing \cup Finishing
         \cup {"idle", "failed", "end", "validate_and_prepare_turn"}

Causes == Faults \cup Rejections

TurnTyped ==
    /\ node \in Nodes
    /\ saved \in BOOLEAN
    /\ ch \in TurnChannels
    /\ checkpoint \in [Conversations -> TurnChannels]
    /\ artifacts \subseteq Artifacts
    /\ turns \in Seq(TurnRecords)
    /\ turn <= MaxTurns

\* Only a node that raises gives a reason, and never an inconsistency.
ReasonKnown == IF node = "failed" THEN reason \in Causes ELSE reason = None

\* The turn that runs is the last one, and commits its artifacts when it is
\* complete, never before.
Recorded ==
    /\ node # "idle" => turn > 0 /\ Outcome(turn) = "running"
    /\ \A a \in artifacts : a.task \in 1 .. turn /\ Outcome(a.task) # "failed"
    /\ node \notin {"idle", "end"} /\ reason # "checkpoint"
           => \A a \in artifacts : a.task # turn

\* What a checkpoint holds of the conversation.
Durable ==
    /\ node # "idle" /\ saved => checkpoint[conv] = ch
    /\ node \notin {"idle", "end"} /\ reason # "checkpoint"
           => ch.conversation = checkpoint[conv].conversation

\* A conversation that can go on: its draft is in the corpus, its active
\* task can be revised, and its window is in order.
Stored(c, task) ==
    \E a \in artifacts :
        /\ a.conv = c
        /\ a.content = task.draft
        /\ task.status = "reviewed" => a.task = task.id /\ a.producer = "writer"
        /\ task.status = "revised" => a.task = task.id /\ a.producer = "editor"

Ordered(recent) ==
    \A i, k \in DOMAIN recent : i < k => recent[i].turn <= recent[k].turn

Answered(recent) ==
    \A i \in DOMAIN recent :
        recent[i].role = "user" => \E n \in {1, 3} : IsExchange(recent, i, n)

Opened(recent) ==
    \A i \in 2 .. Len(recent) :
        recent[i].turn # recent[i - 1].turn => recent[i].role = "user"

EndsWithAnswer(recent) == recent # <<>> => recent[Len(recent)].role = "assistant"

\* Messages up to turn t, the last of them an answer of that turn.
ClosesWith(t, recent) ==
    /\ recent \in Seq(Messages) /\ Len(recent) > 0
    /\ recent[Len(recent)].turn = t /\ recent[Len(recent)].role = "assistant"
    /\ Ordered(recent) /\ Answered(recent) /\ Opened(recent)
    /\ \A i \in DOMAIN recent : recent[i].turn <= t

WithinWindow(recent) == Len(recent) <= MaxRecentMessages

GoodFor(c, kept) ==
    /\ kept.active # None => Revisable(kept.active) /\ Stored(c, kept.active)
    /\ WithinWindow(kept.recent)
    /\ Ordered(kept.recent)
    /\ Answered(kept.recent)
    /\ Opened(kept.recent)
    /\ EndsWithAnswer(kept.recent)

\* Everything in a conversation is of turn t or of an earlier one.
UpTo(t, kept) ==
    /\ \A i \in DOMAIN kept.recent : kept.recent[i].turn <= t
    /\ kept.active # None => kept.active.id <= t

KeptWell == \A c \in Conversations : GoodFor(c, Kept(c)) /\ UpTo(turn, Kept(c))

\* A turn that is not complete works on what earlier turns left.
OlderThanTurn ==
    node \notin {"idle", "failed", "end"} => UpTo(turn - 1, Kept(conv))

Completion ==
    node = "end" =>
        LET done == ch.conversation IN
        /\ done \in ConversationStates
        /\ GoodFor(conv, done) /\ UpTo(turn, done)
        /\ done.recent # <<>> /\ done.recent[Len(done.recent)].turn = turn
        /\ ch.prompt = None /\ ch.retrieved = None /\ ch.assistant # None

-----------------------------------------------------------------------------
\* What each node finds in the channels of its turn.
TurnPrepared ==
    node \in Choosing \cup Editing \cup Finishing =>
        /\ ch.turnConversation \in ConversationStates
        /\ ch.turnConversation.recent = Append(Known.recent, Message("user"))
        /\ node # "persist_editorial_artifacts"
               => ch.turnConversation.active = Known.active
        /\ ch.prompt \in {None, turn}
        /\ ch.retrieved # None => /\ ch.retrieved.conv = conv
                                  /\ ch.retrieved \in artifacts
                                  /\ ch.searched
                                  /\ ch.steps > 0

NothingWritten ==
    node \in Choosing \cup Editing =>
        /\ ch.writerOutput = None /\ ch.writerRun = None
        /\ ch.report = None /\ ch.criticRun = None
        /\ ch.draft = None /\ ch.result = None

Decided ==
    /\ node = "coordinator_tools" => ch.calls # <<>>
    /\ node = "talker" => ch.decision = "chat"
    /\ node = "prepare_new_task" => ch.decision = "start_writing_task"
    /\ node = "prepare_revision" => ch.decision = "revise_task" /\ ch.steps = 0
    /\ node = "finalize_turn" =>
           \/ ch.decision = "chat" /\ ch.talkerResponse # None
           \/ ch.decision = "show_retrieved_draft" /\ ch.retrieved # None

RightDraft ==
    LET run == ch.context IN
    /\ run.operation = "active_revision" =>
           /\ ch.steps = 0
           /\ Kept(conv).active # None
           /\ run.task.draft = Kept(conv).active.draft
    /\ run.operation = "historical_transformation" =>
           /\ ch.retrieved # None
           /\ run.task.draft = ch.retrieved.content
    /\ run.operation = "new_task" => ch.steps = 0 /\ run.task.draft = None

RunPrepared ==
    node \in Editing \cup Finishing =>
        /\ ch.context \in Contexts
        /\ ch.task = ch.context.task
        /\ ch.task.id = turn
        /\ ch.decision \in {"start_writing_task", "revise_task"}
        /\ RightDraft

\* The workflow runs on a copy of what was prepared.
WorkflowIsOwn == node \in EditorialNodes => EInv /\ sub.context = ch.context

ResultIsBack ==
    node \in Finishing =>
        /\ ch.writerRun = turn /\ ch.criticRun = turn
        /\ ch.result \in Results /\ ValidResult(ch.result)
        /\ node = "persist_editorial_artifacts"
               => ch.turnConversation.active = FinishedTask

Progressing == TurnPrepared /\ NothingWritten /\ Decided /\ RunPrepared
               /\ WorkflowIsOwn /\ ResultIsBack

\* All but what the nodes find.
Lasting == /\ TurnTyped /\ ReasonKnown /\ Recorded /\ Durable
           /\ KeptWell /\ OlderThanTurn /\ Completion /\ AnswersAreRemembered

CInv == Lasting /\ Progressing

-----------------------------------------------------------------------------
\* A turn that runs is one of the turns there are.
LEMMA TurnIsTyped ==
    ASSUME CInv, node # "idle"
    PROVE  turn \in Ids /\ turn \in Nat \ {0} /\ conv \in Conversations
  <1>1. turns \in Seq(TurnRecords) /\ turn > 0 /\ turn <= MaxTurns
    BY DEF CInv, Lasting, TurnTyped, Recorded
  <1>2. turn \in Nat /\ turn \in 1 .. MaxTurns
    BY <1>1, BoundAssumption DEF turn
  <1>3. turns[turn] \in TurnRecords
    BY <1>1, <1>2 DEF turn
  <1> QED
    BY <1>2, <1>3, BoundAssumption DEF conv, TurnRecords

\* The causes of a failure and None are different things.
LEMMA CausesAreNoInconsistencies ==
    /\ None \notin Causes
    /\ Causes \cap Inconsistencies = {}
    /\ AgentFailures \subseteq Causes
  BY NoneAssumption DEF Causes, Faults, Rejections, AgentFailures, Inconsistencies

\* A conversation without a checkpoint begins with empty channels.
LEMMA NewThreadIsTyped ==
    NoChannels \in TurnChannels /\ NoChannels.conversation = None
  <1>1. 0 \in 0 .. MaxToolRounds
    BY BoundAssumption
  <1>2. <<>> \in Seq(EveryCall)
    OBVIOUS
  <1> QED
    BY <1>1, <1>2 DEF NoChannels, TurnChannels

\* Channels stay typed when one of them is updated.
LEMMA ChannelUpdates ==
    ASSUME NEW c \in TurnChannels
    PROVE  /\ \A x \in ConversationStates \cup {None} : [c EXCEPT !.conversation = x] \in TurnChannels
           /\ \A x \in Ids \cup {None} : [c EXCEPT !.assistant = x] \in TurnChannels
           /\ \A x \in ConversationStates \cup {None} : [c EXCEPT !.turnConversation = x] \in TurnChannels
           /\ \A x \in Routes \cup {None} : [c EXCEPT !.decision = x] \in TurnChannels
           /\ \A x \in Ids \cup {None} : [c EXCEPT !.talkerResponse = x] \in TurnChannels
           /\ \A x \in Tasks \cup {None} : [c EXCEPT !.task = x] \in TurnChannels
           /\ \A x \in Contexts \cup {None} : [c EXCEPT !.context = x] \in TurnChannels
           /\ \A x \in Ids \cup {None} : [c EXCEPT !.writerRun = x] \in TurnChannels
           /\ \A x \in Ids \cup {None} : [c EXCEPT !.criticRun = x] \in TurnChannels
           /\ \A x \in Texts \cup {None} : [c EXCEPT !.writerOutput = x] \in TurnChannels
           /\ \A x \in Verdicts \cup {None} : [c EXCEPT !.report = x] \in TurnChannels
           /\ \A x \in Texts \cup {None} : [c EXCEPT !.draft = x] \in TurnChannels
           /\ \A x \in Results \cup {None} : [c EXCEPT !.result = x] \in TurnChannels
           /\ \A x \in Ids \cup {None} : [c EXCEPT !.prompt = x] \in TurnChannels
           /\ \A x \in Seq(EveryCall) : [c EXCEPT !.calls = x] \in TurnChannels
           /\ \A x \in 0 .. MaxToolRounds : [c EXCEPT !.steps = x] \in TurnChannels
           /\ \A x \in BOOLEAN : [c EXCEPT !.searched = x] \in TurnChannels
           /\ \A x \in Artifacts \cup {None} : [c EXCEPT !.retrieved = x] \in TurnChannels
  <1>1. ASSUME NEW x \in ConversationStates \cup {None}
       PROVE  [c EXCEPT !.conversation = x] \in TurnChannels
    BY DEF TurnChannels
  <1>2. ASSUME NEW x \in Ids \cup {None}
       PROVE  [c EXCEPT !.assistant = x] \in TurnChannels
    BY DEF TurnChannels
  <1>3. ASSUME NEW x \in ConversationStates \cup {None}
       PROVE  [c EXCEPT !.turnConversation = x] \in TurnChannels
    BY DEF TurnChannels
  <1>4. ASSUME NEW x \in Routes \cup {None}
       PROVE  [c EXCEPT !.decision = x] \in TurnChannels
    BY DEF TurnChannels
  <1>5. ASSUME NEW x \in Ids \cup {None}
       PROVE  [c EXCEPT !.talkerResponse = x] \in TurnChannels
    BY DEF TurnChannels
  <1>6. ASSUME NEW x \in Tasks \cup {None}
       PROVE  [c EXCEPT !.task = x] \in TurnChannels
    BY DEF TurnChannels
  <1>7. ASSUME NEW x \in Contexts \cup {None}
       PROVE  [c EXCEPT !.context = x] \in TurnChannels
    BY DEF TurnChannels
  <1>8. ASSUME NEW x \in Ids \cup {None}
       PROVE  [c EXCEPT !.writerRun = x] \in TurnChannels
    BY DEF TurnChannels
  <1>9. ASSUME NEW x \in Ids \cup {None}
       PROVE  [c EXCEPT !.criticRun = x] \in TurnChannels
    BY DEF TurnChannels
  <1>10. ASSUME NEW x \in Texts \cup {None}
       PROVE  [c EXCEPT !.writerOutput = x] \in TurnChannels
    BY DEF TurnChannels
  <1>11. ASSUME NEW x \in Verdicts \cup {None}
       PROVE  [c EXCEPT !.report = x] \in TurnChannels
    BY DEF TurnChannels
  <1>12. ASSUME NEW x \in Texts \cup {None}
       PROVE  [c EXCEPT !.draft = x] \in TurnChannels
    BY DEF TurnChannels
  <1>13. ASSUME NEW x \in Results \cup {None}
       PROVE  [c EXCEPT !.result = x] \in TurnChannels
    BY DEF TurnChannels
  <1>14. ASSUME NEW x \in Ids \cup {None}
       PROVE  [c EXCEPT !.prompt = x] \in TurnChannels
    BY DEF TurnChannels
  <1>15. ASSUME NEW x \in Seq(EveryCall)
       PROVE  [c EXCEPT !.calls = x] \in TurnChannels
    BY DEF TurnChannels
  <1>16. ASSUME NEW x \in 0 .. MaxToolRounds
       PROVE  [c EXCEPT !.steps = x] \in TurnChannels
    BY DEF TurnChannels
  <1>17. ASSUME NEW x \in BOOLEAN
       PROVE  [c EXCEPT !.searched = x] \in TurnChannels
    BY DEF TurnChannels
  <1>18. ASSUME NEW x \in Artifacts \cup {None}
       PROVE  [c EXCEPT !.retrieved = x] \in TurnChannels
    BY DEF TurnChannels
  <1> QED
    BY <1>1, <1>2, <1>3, <1>4, <1>5, <1>6, <1>7, <1>8, <1>9, <1>10,
       <1>11, <1>12, <1>13, <1>14, <1>15, <1>16, <1>17, <1>18

\* What the next turn of a conversation starts from is a conversation.
LEMMA KeptIsTyped ==
    ASSUME TurnTyped, NEW c \in Conversations
    PROVE  Kept(c) \in ConversationStates
  <1>1. NewConversation \in ConversationStates
    BY DEF NewConversation, ConversationStates
  <1>2. checkpoint[c].conversation \in ConversationStates \cup {None}
    BY DEF TurnTyped, TurnChannels
  <1> QED
    BY <1>1, <1>2 DEF Kept

\* A new conversation has nothing that could be wrong.
LEMMA NewConversationIsGood ==
    ASSUME NEW c \in Conversations, NEW t \in Nat
    PROVE  GoodFor(c, NewConversation) /\ UpTo(t, NewConversation)
  BY BoundAssumption
  DEF GoodFor, UpTo, NewConversation, WithinWindow, Ordered, Answered, Opened,
      EndsWithAnswer

\* The invariant holds before the first turn.
LEMMA InitCInv == Init => CInv
  <1> SUFFICES ASSUME Init PROVE CInv
    OBVIOUS
  <1>1. turn = 0 /\ turns \in Seq(TurnRecords)
    BY DEF Init, turn
  <1>2. \A c \in Conversations : Kept(c) = NewConversation
    BY NewThreadIsTyped DEF Init, Kept
  <1>3. KeptWell
    BY <1>1, <1>2, NewConversationIsGood DEF KeptWell
  <1>4. TurnTyped
    BY <1>1, NewThreadIsTyped, BoundAssumption DEF Init, TurnTyped, Nodes
  <1>5. Progressing
    BY DEF Init, Progressing, TurnPrepared, NothingWritten, Decided, RunPrepared,
           WorkflowIsOwn, ResultIsBack, Choosing, Editing, Finishing, EditorialNodes
  <1>6. AnswersAreRemembered
    BY <1>1 DEF AnswersAreRemembered
  <1> QED
    BY <1>3, <1>4, <1>5, <1>6
    DEF Init, CInv, Lasting, ReasonKnown, Recorded, Durable, OlderThanTurn, Completion

\* What is kept stays good while neither it nor the store nor a turn changes.
LEMMA KeptStays ==
    ASSUME CInv, UNCHANGED <<artifacts, turns>>, turn' = turn,
           \A c \in Conversations : Kept(c)' = Kept(c)
    PROVE  KeptWell' /\ AnswersAreRemembered'
  <1>1. KeptWell'
    <2> SUFFICES ASSUME NEW c \in Conversations
                 PROVE  GoodFor(c, Kept(c))' /\ UpTo(turn, Kept(c))'
      BY DEF KeptWell
    <2>1. GoodFor(c, Kept(c)) /\ UpTo(turn, Kept(c)) /\ Kept(c)' = Kept(c)
      BY DEF CInv, Lasting, KeptWell
    <2>2. GoodFor(c, Kept(c))'
      BY <2>1 DEF GoodFor, Stored
    <2>3. UpTo(turn, Kept(c))'
      BY <2>1 DEF UpTo
    <2> QED
      BY <2>2, <2>3
  <1>2. AnswersAreRemembered'
    <2>1. \A t \in 1 .. turn : turns[t].conv \in Conversations
      <3>1. turns \in Seq(TurnRecords)
        BY DEF CInv, Lasting, TurnTyped
      <3>2. \A t \in 1 .. turn : turns[t] \in TurnRecords
        BY <3>1, ElementOfSeq DEF turn
      <3> QED
        BY <3>2 DEF TurnRecords
    <2>2. \A t \in 1 .. turn : /\ Outcome(t)' = Outcome(t)
                               /\ Kept(turns[t].conv)' = Kept(turns[t].conv)
      BY <2>1 DEF Outcome
    <2> QED
      BY <2>2 DEF CInv, Lasting, AnswersAreRemembered
  <1> QED
    BY <1>1, <1>2

\* A node that raises leaves everything but the node as it was.
LEMMA RaiseCInv ==
    ASSUME CInv, NEW why \in Causes \ {"checkpoint"},
           node \notin {"idle", "failed", "end"},
           Raise(why), UNCHANGED Stores
    PROVE  CInv'
  <1>1. /\ node' = "failed" /\ reason' = why
        /\ UNCHANGED <<sub, ch, saved, checkpoint, artifacts, turns>>
    BY DEF Raise, FailWith, Stores
  <1>2. turn' = turn /\ conv' = conv /\ \A c \in Conversations : Kept(c)' = Kept(c)
    BY <1>1 DEF turn, conv, Kept
  <1>3. TurnTyped' /\ ReasonKnown'
    BY <1>1, <1>2 DEF CInv, Lasting, TurnTyped, ReasonKnown, Nodes
  <1>4. reason # "checkpoint"
    BY NoneAssumption DEF CInv, Lasting, ReasonKnown, Faults
  <1>5. Recorded' /\ Durable'
    BY <1>1, <1>2, <1>4 DEF CInv, Lasting, Recorded, Durable, Outcome, turn, conv
  <1>6. KeptWell' /\ AnswersAreRemembered'
    BY <1>1, <1>2, KeptStays
  <1>7. Progressing'
    BY <1>1
    DEF Progressing, TurnPrepared, NothingWritten, Decided, RunPrepared,
        WorkflowIsOwn, ResultIsBack, Choosing, Editing, Finishing, EditorialNodes
  <1> QED
    BY <1>1, <1>3, <1>5, <1>6, <1>7 DEF CInv, Lasting, OlderThanTurn, Completion

\* A node that hands over an update without completing the turn.
LEMMA UpdateLasting ==
    ASSUME CInv, NEW channels \in TurnChannels,
           NEW next \in Choosing \cup Editing \cup Finishing,
           node \notin {"idle", "failed", "end"},
           channels.conversation = ch.conversation,
           Update(channels, next), UNCHANGED Stores
    PROVE  Lasting'
  <1>1. /\ node' = next /\ reason' = reason /\ ch' = channels /\ saved' = FALSE
        /\ UNCHANGED <<checkpoint, artifacts, turns>>
    BY DEF Update, Goto, Stores
  <1>2. turn' = turn /\ conv' = conv /\ \A c \in Conversations : Kept(c)' = Kept(c)
    BY <1>1 DEF turn, conv, Kept
  <1>3. node' \notin {"idle", "failed", "end"}
    BY <1>1 DEF Choosing, Editing, Finishing, EditorialNodes
  <1>4. TurnTyped' /\ ReasonKnown'
    BY <1>1, <1>2, <1>3 DEF CInv, Lasting, TurnTyped, ReasonKnown, Nodes
  <1>5. Recorded' /\ Durable'
    BY <1>1, <1>2, <1>3 DEF CInv, Lasting, Recorded, Durable, Outcome, turn, conv
  <1>6. KeptWell' /\ AnswersAreRemembered'
    BY <1>1, <1>2, KeptStays
  <1>7. OlderThanTurn'
    BY <1>1, <1>2, <1>3 DEF CInv, Lasting, OlderThanTurn, UpTo, turn, conv, Kept
  <1> QED
    BY <1>3, <1>4, <1>5, <1>6, <1>7 DEF Lasting, Completion

-----------------------------------------------------------------------------
\* What LangGraph and process_message() do around the nodes.
LEMMA OutcomeRecorded ==
    ASSUME CInv, node # "idle", NEW outcome, EndWith(outcome),
           outcome \in {"answered", "failed", "not_saved", "crashed"}
    PROVE  /\ turns' \in Seq(TurnRecords) /\ turn' = turn
           /\ \A t \in 1 .. turn : /\ turns'[t].conv = turns[t].conv
                                   /\ Outcome(t)' = IF t = turn THEN outcome ELSE Outcome(t)
  <1>1. turns \in Seq(TurnRecords) /\ turn \in 1 .. Len(turns) /\ turn = Len(turns)
    BY TurnIsTyped DEF CInv, Lasting, TurnTyped, turn
  <1>2. turns' = [turns EXCEPT ![turn] = [turns[turn] EXCEPT !.outcome = outcome]]
    BY DEF EndWith
  <1>3. turns[turn] \in TurnRecords
    BY <1>1
  <1>4. /\ [turns[turn] EXCEPT !.outcome = outcome] \in TurnRecords
        /\ [turns[turn] EXCEPT !.outcome = outcome].outcome = outcome
        /\ [turns[turn] EXCEPT !.outcome = outcome].conv = turns[turn].conv
    BY <1>3 DEF TurnRecords
  <1>5. turns' \in Seq(TurnRecords) /\ Len(turns') = Len(turns)
    BY <1>1, <1>2, <1>4, ExceptSeq
  <1>6. \A t \in 1 .. turn : turns'[t] = IF t = turn
                                         THEN [turns[turn] EXCEPT !.outcome = outcome]
                                         ELSE turns[t]
    BY <1>1, <1>2
  <1> QED
    BY <1>1, <1>4, <1>5, <1>6 DEF turn, Outcome

\* The written checkpoint only changes the conversation of a complete turn.
LEMMA WrittenCheckpoint ==
    ASSUME CInv, node # "idle", reason # "checkpoint",
           checkpoint' = [checkpoint EXCEPT ![conv] = ch]
    PROVE  /\ checkpoint' \in [Conversations -> TurnChannels]
           /\ checkpoint'[conv] = ch
           /\ \A c \in Conversations :
                  /\ Kept(c)' = IF node = "end" /\ c = conv THEN ch.conversation ELSE Kept(c)
                  /\ checkpoint'[c].conversation # checkpoint[c].conversation
                         => node = "end" /\ c = conv
  <1>1. ch \in TurnChannels /\ checkpoint \in [Conversations -> TurnChannels]
    BY DEF CInv, Lasting, TurnTyped
  <1>2. conv \in Conversations
    BY TurnIsTyped
  <1>3. \A c \in Conversations : checkpoint'[c] = IF c = conv THEN ch ELSE checkpoint[c]
    BY <1>1, <1>2
  <1>4. node # "end" => ch.conversation = checkpoint[conv].conversation
    BY DEF CInv, Lasting, Durable
  <1>5. node = "end" => ch.conversation # None
    BY NoneAssumption DEF CInv, Lasting, Completion
  <1>6. checkpoint' \in [Conversations -> TurnChannels]
    BY <1>1, <1>2
  <1>7. \A c \in Conversations :
            Kept(c)' = IF node = "end" /\ c = conv THEN ch.conversation ELSE Kept(c)
    BY <1>3, <1>4, <1>5 DEF Kept
  <1> QED
    BY <1>2, <1>3, <1>4, <1>6, <1>7

\* What is kept stays good when a complete conversation replaces it.
LEMMA WrittenKept ==
    ASSUME CInv, node # "idle", artifacts' = artifacts, turn' = turn,
           \A t \in 1 .. turn : turns'[t].conv = turns[t].conv,
           \A t \in 1 .. turn : Outcome(t)' = "answered" =>
               \/ Outcome(t) = "answered"
               \/ t = turn /\ node = "end" /\ Kept(conv)' = ch.conversation,
           \A c \in Conversations :
               \/ Kept(c)' = Kept(c)
               \/ node = "end" /\ c = conv /\ Kept(c)' = ch.conversation
    PROVE  KeptWell' /\ AnswersAreRemembered'
  <1>1. turn \in Nat /\ turns \in Seq(TurnRecords) /\ conv \in Conversations
    BY TurnIsTyped DEF CInv, Lasting, TurnTyped
  <1>2. KeptWell'
    <2> SUFFICES ASSUME NEW c \in Conversations
                 PROVE  (GoodFor(c, Kept(c)) /\ UpTo(turn, Kept(c)))'
      BY DEF KeptWell
    <2>1. GoodFor(c, Kept(c)) /\ UpTo(turn, Kept(c))
      BY DEF CInv, Lasting, KeptWell
    <2>2. CASE Kept(c)' = Kept(c)
      BY <2>1, <2>2 DEF GoodFor, UpTo, Stored
    <2>3. CASE node = "end" /\ c = conv /\ Kept(c)' = ch.conversation
      BY <2>3 DEF GoodFor, UpTo, Stored, CInv, Lasting, Completion
    <2> QED
      BY <2>2, <2>3
  <1>3. AnswersAreRemembered'
    <2> SUFFICES ASSUME NEW t \in 1 .. turn, Outcome(t)' = "answered"
                 PROVE  /\ Kept(turns[t].conv)'.recent # <<>>
                        /\ Kept(turns[t].conv)'.recent[Len(Kept(turns[t].conv)'.recent)].turn >= t
      BY DEF AnswersAreRemembered
    <2> DEFINE c == turns[t].conv
    <2>1. turns[t] \in TurnRecords
      BY <1>1 DEF turn
    <2>2. c \in Conversations /\ turns'[t].conv = c
      BY <2>1 DEF TurnRecords
    <2>3. Kept(turns[t].conv)' = Kept(c)'
      BY <2>2 DEF Kept
    <2>4. node = "end" =>
            /\ ch.conversation.recent # <<>>
            /\ ch.conversation.recent[Len(ch.conversation.recent)].turn = turn
      BY DEF CInv, Lasting, Completion
    <2>5. CASE node = "end" /\ c = conv /\ Kept(c)' = ch.conversation
      BY <1>1, <2>3, <2>4, <2>5
    <2>6. CASE Kept(c)' = Kept(c) /\ Outcome(t) = "answered"
      BY <2>3, <2>6 DEF CInv, Lasting, AnswersAreRemembered
    <2>7. t = turn => c = conv /\ Kept(conv)' = Kept(c)'
      BY <2>2 DEF conv, Kept
    <2> QED
      BY <2>2, <2>5, <2>6, <2>7
  <1> QED
    BY <1>2, <1>3

\* The turn ends: what is in memory is gone.
LEMMA ForgetCInv ==
    ASSUME CInv, node # "idle",
           NEW outcome \in {"answered", "failed", "not_saved", "crashed"},
           EndWith(outcome), Forget, UNCHANGED artifacts,
           checkpoint' \in [Conversations -> TurnChannels],
           KeptWell', AnswersAreRemembered',
           outcome = "failed" => \A a \in artifacts : a.task # turn
    PROVE  CInv'
  <1>1. /\ turns' \in Seq(TurnRecords) /\ turn' = turn
        /\ \A t \in 1 .. turn : Outcome(t)' = IF t = turn THEN outcome ELSE Outcome(t)
    BY OutcomeRecorded
  <1>2. /\ node' = "idle" /\ reason' = None /\ saved' = TRUE /\ ch' = NoChannels
        /\ artifacts' = artifacts
    BY DEF Forget
  <1>3. TurnTyped' /\ ReasonKnown'
    BY <1>1, <1>2, NewThreadIsTyped DEF CInv, Lasting, TurnTyped, ReasonKnown, Nodes
  <1>4. Recorded'
    BY <1>1, <1>2 DEF CInv, Lasting, Recorded
  <1>5. Progressing'
    BY <1>2
    DEF Progressing, TurnPrepared, NothingWritten, Decided, RunPrepared, WorkflowIsOwn,
        ResultIsBack, Choosing, Editing, Finishing, EditorialNodes
  <1> QED
    BY <1>2, <1>3, <1>4, <1>5
    DEF CInv, Lasting, Durable, OlderThanTurn, Completion

\* A turn that ends without a trace leaves the conversations as they were.
LEMMA KeptUntouched ==
    ASSUME CInv, node # "idle", NEW outcome \in {"failed", "not_saved", "crashed"},
           EndWith(outcome), UNCHANGED <<checkpoint, artifacts>>
    PROVE  KeptWell' /\ AnswersAreRemembered'
  <1>1. /\ turn' = turn
        /\ \A t \in 1 .. turn : /\ turns'[t].conv = turns[t].conv
                                /\ Outcome(t)' = IF t = turn THEN outcome ELSE Outcome(t)
    BY OutcomeRecorded
  <1>2. \A c \in Conversations : Kept(c)' = Kept(c)
    BY DEF Kept
  <1> QED
    BY <1>1, <1>2, WrittenKept

\* The process ends in a turn: what was in memory is gone.
LEMMA CrashCInv ==
    ASSUME CInv, Crash
    PROVE  CInv'
  <1>1. node # "idle" /\ EndWith("crashed") /\ Forget /\ UNCHANGED <<checkpoint, artifacts>>
    BY DEF Crash
  <1>2. KeptWell' /\ AnswersAreRemembered'
    BY <1>1, KeptUntouched
  <1>3. checkpoint' \in [Conversations -> TurnChannels]
    BY <1>1 DEF CInv, Lasting, TurnTyped
  <1> QED
    BY <1>1, <1>2, <1>3, ForgetCInv

\* An answer is given once it is durable.
LEMMA AnswerCInv ==
    ASSUME CInv, AnswerTurn
    PROVE  CInv'
  <1>1. /\ node = "end" /\ saved /\ EndWith("answered") /\ Forget
        /\ UNCHANGED <<checkpoint, artifacts>>
    BY DEF AnswerTurn, CInv, Lasting, Completion
  <1>2. /\ turn' = turn
        /\ \A t \in 1 .. turn : /\ turns'[t].conv = turns[t].conv
                                /\ Outcome(t)' = IF t = turn THEN "answered" ELSE Outcome(t)
    BY <1>1, OutcomeRecorded
  <1>3. \A c \in Conversations : Kept(c)' = Kept(c)
    BY <1>1 DEF Kept
  <1>4. conv' = conv
    BY <1>1, <1>2, TurnIsTyped DEF conv
  <1>5. Kept(conv)' = ch.conversation
    BY <1>1, <1>4, NoneAssumption DEF Kept, CInv, Lasting, Durable, Completion
  <1>6. KeptWell' /\ AnswersAreRemembered'
    BY <1>1, <1>2, <1>3, <1>5, WrittenKept
  <1>7. checkpoint' \in [Conversations -> TurnChannels]
    BY <1>1 DEF CInv, Lasting, TurnTyped
  <1> QED
    BY <1>1, <1>6, <1>7, ForgetCInv

\* A turn fails: the caller gets the reason.
LEMMA FailCInv ==
    ASSUME CInv, FailTurn
    PROVE  CInv'
  <1>1. node = "failed" /\ Forget /\ UNCHANGED artifacts
    BY DEF FailTurn
  <1>2. CASE reason = "checkpoint"
    <2>1. EndWith("not_saved") /\ checkpoint' = checkpoint
      BY <1>2 DEF FailTurn
    <2>2. KeptWell' /\ AnswersAreRemembered'
      BY <1>1, <2>1, KeptUntouched
    <2>3. checkpoint' \in [Conversations -> TurnChannels]
      BY <2>1 DEF CInv, Lasting, TurnTyped
    <2> QED
      BY <1>1, <2>1, <2>2, <2>3, ForgetCInv
  <1>3. CASE reason # "checkpoint"
    <2>1. EndWith("failed")
      BY <1>3 DEF FailTurn
    <2>2. \A a \in artifacts : a.task # turn
      BY <1>1, <1>3 DEF CInv, Lasting, Recorded
    <2>3. /\ turn' = turn
          /\ \A t \in 1 .. turn : /\ turns'[t].conv = turns[t].conv
                                  /\ Outcome(t)' = IF t = turn THEN "failed" ELSE Outcome(t)
      BY <1>1, <2>1, OutcomeRecorded
    <2>4. CASE checkpoint' = checkpoint
      <3>1. KeptWell' /\ AnswersAreRemembered'
        BY <1>1, <2>1, <2>4, KeptUntouched
      <3>2. checkpoint' \in [Conversations -> TurnChannels]
        BY <2>4 DEF CInv, Lasting, TurnTyped
      <3> QED
        BY <1>1, <2>1, <2>2, <3>1, <3>2, ForgetCInv
    <2>5. CASE checkpoint' = [checkpoint EXCEPT ![conv] = ch]
      <3>1. /\ checkpoint' \in [Conversations -> TurnChannels]
            /\ \A c \in Conversations : Kept(c)' = Kept(c)
        BY <1>1, <1>3, <2>5, WrittenCheckpoint
      <3>2. KeptWell' /\ AnswersAreRemembered'
        BY <1>1, <2>3, <3>1, WrittenKept
      <3> QED
        BY <1>1, <2>1, <2>2, <3>1, <3>2, ForgetCInv
    <2> QED
      BY <1>3, <2>4, <2>5 DEF FailTurn
  <1> QED
    BY <1>2, <1>3

\* The checkpoint of a finished node is written.
LEMMA SaveCInv ==
    ASSUME CInv, SaveCheckpoint
    PROVE  CInv'
  <1>1. /\ node \notin {"idle", "failed"} /\ saved' = TRUE
        /\ checkpoint' = [checkpoint EXCEPT ![conv] = ch]
        /\ UNCHANGED <<node, reason, sub, ch, artifacts, turns>>
    BY DEF SaveCheckpoint
  <1>2. reason # "checkpoint"
    BY <1>1, NoneAssumption DEF CInv, Lasting, ReasonKnown, Faults
  <1>3. /\ checkpoint' \in [Conversations -> TurnChannels]
        /\ checkpoint'[conv] = ch
        /\ \A c \in Conversations :
               Kept(c)' = IF node = "end" /\ c = conv THEN ch.conversation ELSE Kept(c)
    BY <1>1, <1>2, WrittenCheckpoint
  <1>4. turn' = turn /\ conv' = conv /\ conv \in Conversations
    BY <1>1, TurnIsTyped DEF turn, conv
  <1>5. \A t \in 1 .. turn : turns'[t].conv = turns[t].conv /\ Outcome(t)' = Outcome(t)
    BY <1>1 DEF Outcome
  <1>6. KeptWell' /\ AnswersAreRemembered'
    <2>1. \A c \in Conversations : \/ Kept(c)' = Kept(c)
                                   \/ node = "end" /\ c = conv /\ Kept(c)' = ch.conversation
      BY <1>3
    <2> QED
      BY <1>1, <1>4, <1>5, <2>1, WrittenKept
  <1>7. TurnTyped' /\ ReasonKnown' /\ Recorded'
    BY <1>1, <1>3, <1>4 DEF CInv, Lasting, TurnTyped, ReasonKnown, Recorded, Outcome
  <1>8. Durable'
    BY <1>1, <1>2, <1>3, <1>4 DEF Durable
  <1>9. node \notin {"idle", "end"} => Kept(conv)' = Kept(conv)
    <2>1. Kept(conv)' = IF checkpoint'[conv].conversation = None THEN NewConversation
                        ELSE checkpoint'[conv].conversation
      BY <1>4 DEF Kept
    <2> QED
      BY <2>1, <1>2, <1>3, <1>4 DEF Kept, CInv, Lasting, Durable
  <1>10. OlderThanTurn'
    BY <1>1, <1>4, <1>9 DEF CInv, Lasting, OlderThanTurn, UpTo
  <1>11. Completion'
    <2>1. CASE node = "end"
      BY <1>1, <1>4, <2>1 DEF CInv, Lasting, Completion, GoodFor, Stored, UpTo
    <2> QED
      BY <1>1, <2>1 DEF Completion
  <1>12. Progressing'
    <2>1. TurnPrepared' /\ NothingWritten' /\ Decided' /\ WorkflowIsOwn' /\ ResultIsBack'
      BY <1>1, <1>4
      DEF CInv, Progressing, TurnPrepared, NothingWritten, Decided, WorkflowIsOwn,
          ResultIsBack, Known, Message, FinishedTask, EInv, Typed, SameRun, Progress,
          HasStaleOutput, HasWriter, HasCritic, Unchanged, Built
    <2>2. RunPrepared'
      BY <1>1, <1>4, <1>9
      DEF CInv, Progressing, RunPrepared, RightDraft, Editing, Finishing, EditorialNodes
    <2> QED
      BY <2>1, <2>2 DEF Progressing
  <1> QED
    BY <1>6, <1>7, <1>8, <1>10, <1>11, <1>12 DEF CInv, Lasting

\* A checkpoint that cannot be written ends the turn.
LEMMA CheckpointFailsCInv ==
    ASSUME CInv, CheckpointFails
    PROVE  CInv'
  <1>1. /\ node \notin {"idle", "failed"} /\ ~saved
        /\ node' = "failed" /\ reason' = "checkpoint"
        /\ UNCHANGED <<sub, ch, saved, checkpoint, artifacts, turns>>
    BY DEF CheckpointFails
  <1>2. turn' = turn /\ conv' = conv /\ \A c \in Conversations : Kept(c)' = Kept(c)
    BY <1>1 DEF turn, conv, Kept
  <1>3. \A t \in 1 .. turn : turns'[t].conv = turns[t].conv /\ Outcome(t)' = Outcome(t)
    BY <1>1 DEF Outcome
  <1>4. KeptWell' /\ AnswersAreRemembered'
    BY <1>1, <1>2, <1>3, WrittenKept
  <1>5. TurnTyped' /\ ReasonKnown'
    BY <1>1, <1>2 DEF CInv, Lasting, TurnTyped, ReasonKnown, Nodes, Causes, Faults
  <1>6. Recorded' /\ Durable'
    BY <1>1, <1>2 DEF CInv, Lasting, Recorded, Durable, Outcome
  <1>7. Progressing'
    BY <1>1
    DEF Progressing, TurnPrepared, NothingWritten, Decided, RunPrepared, WorkflowIsOwn,
        ResultIsBack, Choosing, Editing, Finishing, EditorialNodes
  <1> QED
    BY <1>1, <1>4, <1>5, <1>6, <1>7 DEF CInv, Lasting, OlderThanTurn, Completion

\* A new turn starts on the channels of the last checkpoint.
LEMMA ReceiveCInv ==
    ASSUME CInv, NEW c \in Conversations, ReceiveMessage(c)
    PROVE  CInv'
  <1> DEFINE record == [conv |-> c, outcome |-> "running"]
  <1>1. /\ node = "idle" /\ turn < MaxTurns /\ turns' = Append(turns, record)
        /\ ch' = checkpoint[c] /\ saved' = TRUE
        /\ node' = "validate_and_prepare_turn"
        /\ UNCHANGED <<reason, sub, checkpoint, artifacts>>
    BY DEF ReceiveMessage
  <1>2. turns \in Seq(TurnRecords) /\ turn \in Nat /\ record \in TurnRecords
    BY DEF CInv, Lasting, TurnTyped, TurnRecords, turn
  <1>3. /\ turns' \in Seq(TurnRecords) /\ turn' = turn + 1
        /\ turns'[turn + 1] = record
        /\ \A t \in 1 .. turn : turns'[t] = turns[t]
    BY <1>1, <1>2, AppendProperties DEF turn
  <1>4. conv' = c /\ turns'[turn + 1].outcome = "running"
        /\ \A t \in 1 .. turn : Outcome(t)' = Outcome(t)
    BY <1>3 DEF conv, Outcome
  <1>5. \A k \in Conversations : Kept(k)' = Kept(k)
    BY <1>1 DEF Kept
  <1>6. TurnTyped' /\ ReasonKnown'
    <2>1. checkpoint[c] \in TurnChannels
      BY DEF CInv, Lasting, TurnTyped
    <2> QED
      BY <1>1, <1>2, <1>3, <2>1, BoundAssumption
      DEF CInv, Lasting, TurnTyped, ReasonKnown, Nodes
  <1>7. Recorded'
    <2>1. \A a \in artifacts : a.task \in 1 .. turn /\ Outcome(a.task) # "failed"
      BY DEF CInv, Lasting, Recorded
    <2>2. \A a \in artifacts : /\ a.task \in 1 .. turn + 1 /\ a.task # turn + 1
                               /\ Outcome(a.task)' # "failed"
      BY <1>2, <1>4, <2>1 DEF Outcome
    <2>3. turn' > 0 /\ Outcome(turn)' = "running"
      BY <1>2, <1>3, <1>4 DEF Outcome
    <2>4. \A a \in artifacts' : a.task \in 1 .. turn' /\ Outcome(a.task)' # "failed"
      BY <1>1, <1>3, <2>2
    <2>5. \A a \in artifacts' : a.task # turn'
      BY <1>1, <1>3, <2>2
    <2> QED
      BY <2>3, <2>4, <2>5 DEF Recorded
  <1>8. Durable'
    BY <1>1, <1>4 DEF Durable
  <1>9. UpTo(turn, Kept(c)) /\ KeptWell
    BY DEF CInv, Lasting, KeptWell
  <1>10. KeptWell'
    <2> SUFFICES ASSUME NEW k \in Conversations
                 PROVE  (GoodFor(k, Kept(k)) /\ UpTo(turn, Kept(k)))'
      BY DEF KeptWell
    <2>1. GoodFor(k, Kept(k)) /\ UpTo(turn, Kept(k))
      BY <1>9 DEF KeptWell
    <2>2. GoodFor(k, Kept(k))'
      BY <1>1, <1>5, <2>1 DEF GoodFor, Stored
    <2>3. Kept(k) \in ConversationStates
      BY KeptIsTyped DEF CInv, Lasting
    <2>4. /\ \A i \in DOMAIN Kept(k).recent : Kept(k).recent[i].turn \in Nat
          /\ Kept(k).active # None => Kept(k).active.id \in Nat
      <3>1. /\ Kept(k).recent \in Seq(Messages)
            /\ Kept(k).active \in Tasks \cup {None}
        BY <2>3 DEF ConversationStates
      <3>2. \A i \in DOMAIN Kept(k).recent : Kept(k).recent[i] \in Messages
        BY <3>1
      <3> QED
        BY <3>1, <3>2, BoundAssumption DEF Messages, Tasks
    <2>5. UpTo(turn + 1, Kept(k))
      BY <1>2, <2>1, <2>4 DEF UpTo
    <2> QED
      BY <1>3, <1>5, <2>2, <2>5 DEF UpTo
  <1>11. OlderThanTurn'
    <2>1. Kept(conv)' = Kept(c)
      BY <1>1, <1>4 DEF Kept
    <2>2. turn' - 1 = turn
      BY <1>2, <1>3
    <2> QED
      BY <1>9, <2>1, <2>2 DEF OlderThanTurn, UpTo
  <1>12. AnswersAreRemembered'
    <2> SUFFICES ASSUME NEW t \in 1 .. turn + 1, Outcome(t)' = "answered"
                 PROVE  /\ Kept(turns[t].conv)'.recent # <<>>
                        /\ Kept(turns[t].conv)'.recent[Len(Kept(turns[t].conv)'.recent)].turn >= t
      BY <1>3 DEF AnswersAreRemembered
    <2>1. t \in 1 .. turn /\ Outcome(t) = "answered" /\ turns'[t] = turns[t]
      BY <1>2, <1>3, <1>4 DEF Outcome
    <2>2. Kept(turns[t].conv)' = Kept(turns[t].conv)
      BY <1>1, <2>1 DEF Kept
    <2> QED
      BY <2>1, <2>2 DEF CInv, Lasting, AnswersAreRemembered
  <1>13. Progressing'
    BY <1>1
    DEF Progressing, TurnPrepared, NothingWritten, Decided, RunPrepared, WorkflowIsOwn,
        ResultIsBack, Choosing, Editing, Finishing, EditorialNodes
  <1> QED
    BY <1>1, <1>6, <1>7, <1>8, <1>10, <1>11, <1>12, <1>13 DEF CInv, Lasting, Completion

-----------------------------------------------------------------------------
\* The nodes, one by one.  A node that works on a prepared turn and leaves its
\* conversation alone keeps the turn prepared.
LEMMA StillPrepared ==
    ASSUME CInv, NEW channels \in TurnChannels, NEW next,
           node \in Choosing \cup Editing \cup Finishing,
           node # "persist_editorial_artifacts", next # "persist_editorial_artifacts",
           channels.conversation = ch.conversation,
           channels.turnConversation = ch.turnConversation,
           channels.prompt \in {None, turn},
           channels.retrieved # None => /\ channels.retrieved.conv = conv
                                        /\ channels.retrieved \in artifacts
                                        /\ channels.searched
                                        /\ channels.steps > 0,
           Update(channels, next), UNCHANGED Stores
    PROVE  TurnPrepared'
  <1>1. /\ node' = next /\ ch' = channels /\ turn' = turn /\ conv' = conv
        /\ artifacts' = artifacts
    BY DEF Update, Goto, Stores, turn, conv
  <1>2. Known' = Known /\ Message("user")' = Message("user")
    BY <1>1 DEF Known, Message
  <1> QED
    BY <1>1, <1>2 DEF CInv, Progressing, TurnPrepared

\* The nodes between the first and the last are none of these.
LEMMA InTheTurn ==
    ASSUME node \in Choosing \cup Editing \cup Finishing
    PROVE  node \notin {"idle", "failed", "end", "validate_and_prepare_turn"}
  BY DEF Choosing, Editing, Finishing, EditorialNodes

\* The tool calls of a response of the coordinator.
LEMMA CallsAreTyped ==
    ASSUME CInv, NEW calls \in CallLists
    PROVE  calls \in Seq(EveryCall) /\ calls # <<>>
  <1>1. PICK n \in 1 .. MaxCalls : calls \in [1 .. n -> Calls]
    BY DEF CallLists
  <1>2. Calls \subseteq EveryCall
    BY DEF Calls, EveryCall, CInv, Lasting, TurnTyped
  <1>3. calls \in Seq(Calls) /\ Len(calls) = n /\ n > 0
    BY <1>1, BoundAssumption
  <1> QED
    BY <1>2, <1>3

\* The conversation with the message of the user.
LEMMA WithMessageIsTyped ==
    ASSUME CInv, node # "idle"
    PROVE  /\ WithMessage \in ConversationStates
           /\ WithMessage.recent = Append(Known.recent, Message("user"))
           /\ WithMessage.active = Known.active
  <1>1. Known \in ConversationStates
    <2>1. NewConversation \in ConversationStates
      BY DEF NewConversation, ConversationStates
    <2>2. ch.conversation \in ConversationStates \cup {None}
      BY DEF CInv, Lasting, TurnTyped, TurnChannels
    <2> QED
      BY <2>1, <2>2 DEF Known
  <1>2. Message("user") \in Messages
    BY TurnIsTyped DEF Message, Messages
  <1>3. Known.recent \in Seq(Messages) /\ Known.active \in Tasks \cup {None}
    BY <1>1 DEF ConversationStates
  <1>4. Append(Known.recent, Message("user")) \in Seq(Messages)
    BY <1>2, <1>3
  <1> QED
    BY <1>1, <1>4 DEF WithMessage, ConversationStates

\* validate_and_prepare_turn: the per-turn channels are reset.
LEMMA ValidateCInv ==
    ASSUME CInv, ValidateAndPrepareTurn
    PROVE  CInv'
  <1>1. node = "validate_and_prepare_turn" /\ UNCHANGED Stores
    BY DEF ValidateAndPrepareTurn
  <1>2. CASE Raise("clock")
    BY <1>1, <1>2, RaiseCInv DEF Causes, Faults
  <1>3. CASE Update(PreparedTurn, "coordinator_agent")
    <2>1. ch.conversation \in ConversationStates \cup {None}
      BY DEF CInv, Lasting, TurnTyped, TurnChannels
    <2>2. /\ PreparedTurn \in TurnChannels
          /\ PreparedTurn.conversation = ch.conversation
          /\ PreparedTurn.turnConversation = WithMessage
          /\ PreparedTurn.prompt = None /\ PreparedTurn.retrieved = None
          /\ PreparedTurn.writerOutput = None /\ PreparedTurn.writerRun = None
          /\ PreparedTurn.report = None /\ PreparedTurn.criticRun = None
          /\ PreparedTurn.draft = None /\ PreparedTurn.result = None
      BY <1>1, <2>1, NewThreadIsTyped, WithMessageIsTyped
      DEF PreparedTurn, NoChannels, TurnChannels
    <2>3. Lasting'
      BY <1>1, <1>3, <2>2, UpdateLasting DEF Choosing
    <2>4. /\ node' = "coordinator_agent" /\ ch' = PreparedTurn
          /\ turn' = turn /\ conv' = conv
      BY <1>1, <1>3 DEF Update, Goto, Stores, turn, conv
    <2>5. Known' = Known /\ Message("user")' = Message("user")
      BY <2>2, <2>4 DEF Known, Message
    <2>6. TurnPrepared'
      BY <1>1, <2>2, <2>4, <2>5, WithMessageIsTyped DEF TurnPrepared
    <2>7. NothingWritten'
      BY <2>2, <2>4 DEF NothingWritten
    <2>8. Decided' /\ RunPrepared' /\ WorkflowIsOwn' /\ ResultIsBack'
      BY <2>4 DEF Decided, RunPrepared, WorkflowIsOwn, ResultIsBack, Editing, Finishing,
                  EditorialNodes
    <2> QED
      BY <2>3, <2>6, <2>7, <2>8 DEF CInv, Progressing
  <1> QED
    BY <1>2, <1>3 DEF ValidateAndPrepareTurn

\* The coordinator asks for tools or decides, and its decision is checked.
LEMMA CoordinatorAgentCInv ==
    ASSUME CInv, CoordinatorAgent
    PROVE  CInv'
  <1>1. node = "coordinator_agent" /\ UNCHANGED Stores
    BY DEF CoordinatorAgent
  <1>2. /\ ch.turnConversation \in ConversationStates
        /\ ch.prompt \in {None, turn}
        /\ ch.retrieved # None => /\ ch.retrieved.conv = conv
                                  /\ ch.retrieved \in artifacts
                                  /\ ch.searched
                                  /\ ch.steps > 0
    BY <1>1 DEF CInv, Progressing, TurnPrepared, Choosing
  <1>3. ch.turnConversation # None
    BY <1>2, NoneAssumption
  <1>4. Prompted = turn /\ turn \in Ids
    BY <1>1, <1>2, TurnIsTyped DEF Prompted
  <1>5. ch \in TurnChannels
    BY DEF CInv, Lasting, TurnTyped
  <1>6. CASE Raise("coordinator")
    BY <1>1, <1>6, RaiseCInv DEF Causes, Faults
  <1>7. ASSUME NEW calls \in CallLists,
               Update([ch EXCEPT !.prompt = Prompted, !.calls = calls], "coordinator_tools")
        PROVE  CInv'
    <2> DEFINE channels == [ch EXCEPT !.prompt = Prompted, !.calls = calls]
    <2>1. calls \in Seq(EveryCall) /\ calls # <<>>
      BY CallsAreTyped
    <2>2. /\ channels \in TurnChannels
          /\ channels.conversation = ch.conversation
          /\ channels.turnConversation = ch.turnConversation
          /\ channels.prompt = turn /\ channels.calls = calls
          /\ channels.retrieved = ch.retrieved /\ channels.searched = ch.searched
          /\ channels.steps = ch.steps
          /\ channels.writerOutput = ch.writerOutput /\ channels.writerRun = ch.writerRun
          /\ channels.report = ch.report /\ channels.criticRun = ch.criticRun
          /\ channels.draft = ch.draft /\ channels.result = ch.result
      <3>1. Prompted \in Ids \cup {None} /\ Prompted = turn
        BY <1>4
      <3>2. channels \in TurnChannels
        <4>1. channels = [[ch EXCEPT !.prompt = Prompted] EXCEPT !.calls = calls]
          OBVIOUS
        <4> QED
          BY <1>5, <2>1, <3>1, <4>1, ChannelUpdates
      <3> QED
        BY <1>5, <3>1, <3>2 DEF TurnChannels
    <2> HIDE DEF channels
    <2>3. Lasting'
      BY <1>1, <1>7, <2>2, UpdateLasting DEF Choosing, channels
    <2>4. node' = "coordinator_tools" /\ ch' = channels
      BY <1>7 DEF Update, Goto, channels
    <2>5. TurnPrepared'
      BY <1>1, <1>2, <1>7, <2>2, StillPrepared DEF Choosing, channels
    <2>6. NothingWritten'
      BY <1>1, <2>2, <2>4 DEF CInv, Progressing, NothingWritten, Choosing
    <2>7. Decided' /\ RunPrepared' /\ WorkflowIsOwn' /\ ResultIsBack'
      BY <2>1, <2>2, <2>4 DEF Decided, RunPrepared, WorkflowIsOwn, ResultIsBack, Editing,
                              Finishing, EditorialNodes
    <2> QED
      BY <2>3, <2>5, <2>6, <2>7 DEF CInv, Progressing
  <1>8. ASSUME NEW route \in Routes, Rejection(route) # None, Raise(Rejection(route))
        PROVE  CInv'
    <2>1. Rejection(route) \in Rejections
      BY <1>8 DEF Rejection, Rejections
    <2>2. Rejection(route) \in Causes \ {"checkpoint"}
      BY <2>1 DEF Causes, Rejections
    <2> QED
      BY <1>1, <1>8, <2>2, RaiseCInv
  <1>9. ASSUME NEW route \in Routes, Rejection(route) = None,
               Update([ch EXCEPT !.decision = route, !.prompt = Prompted, !.calls = <<>>],
                      NextNode(route))
        PROVE  CInv'
    <2> DEFINE channels == [ch EXCEPT !.decision = route, !.prompt = Prompted,
                                      !.calls = <<>>]
    <2>1. /\ route = "revise_task" => ch.steps = 0
          /\ route = "show_retrieved_draft" => ch.retrieved # None
      BY <1>5, <1>9, NoneAssumption, BoundAssumption
      DEF Rejection, Rejections, TurnChannels
    <2>2. /\ channels \in TurnChannels
          /\ channels.conversation = ch.conversation
          /\ channels.turnConversation = ch.turnConversation
          /\ channels.prompt = turn /\ channels.decision = route
          /\ channels.retrieved = ch.retrieved /\ channels.searched = ch.searched
          /\ channels.steps = ch.steps
          /\ channels.writerOutput = ch.writerOutput /\ channels.writerRun = ch.writerRun
          /\ channels.report = ch.report /\ channels.criticRun = ch.criticRun
          /\ channels.draft = ch.draft /\ channels.result = ch.result
      <3>1. Prompted \in Ids \cup {None} /\ Prompted = turn
        BY <1>4
      <3>2. <<>> \in Seq(EveryCall)
        OBVIOUS
      <3>3. channels \in TurnChannels
        <4>1. channels = [[[ch EXCEPT !.decision = route] EXCEPT !.prompt = Prompted]
                             EXCEPT !.calls = <<>>]
          OBVIOUS
        <4>2. [[ch EXCEPT !.decision = route] EXCEPT !.prompt = Prompted] \in TurnChannels
          BY <1>5, <3>1, ChannelUpdates
        <4> QED
          BY <3>2, <4>1, <4>2, ChannelUpdates
      <3> QED
        BY <1>5, <3>1, <3>3 DEF TurnChannels
    <2> HIDE DEF channels
    <2>3. /\ NextNode(route) \in {"talker", "prepare_new_task", "prepare_revision",
                                  "finalize_turn"}
          /\ NextNode(route) = "talker" => route = "chat"
          /\ NextNode(route) = "prepare_new_task" => route = "start_writing_task"
          /\ NextNode(route) = "prepare_revision" => route = "revise_task"
          /\ NextNode(route) = "finalize_turn" => route = "show_retrieved_draft"
      BY DEF NextNode, Routes
    <2>4. Lasting'
      BY <1>1, <1>9, <2>2, <2>3, UpdateLasting DEF Choosing, channels
    <2>5. node' = NextNode(route) /\ ch' = channels
      BY <1>9 DEF Update, Goto, channels
    <2>6. TurnPrepared'
      <3>1. NextNode(route) # "persist_editorial_artifacts"
        BY <2>3
      <3> QED
        BY <1>1, <1>2, <1>9, <2>2, <3>1, StillPrepared DEF Choosing, channels
    <2>7. NothingWritten'
      BY <1>1, <2>2, <2>5 DEF CInv, Progressing, NothingWritten, Choosing
    <2>8. Decided'
      BY <2>1, <2>2, <2>3, <2>5 DEF Decided
    <2>9. RunPrepared' /\ WorkflowIsOwn' /\ ResultIsBack'
      BY <2>3, <2>5 DEF RunPrepared, WorkflowIsOwn, ResultIsBack, Editing, Finishing,
                        EditorialNodes
    <2> QED
      BY <2>4, <2>6, <2>7, <2>8, <2>9 DEF CInv, Progressing
  <1> QED
    BY <1>3, <1>6, <1>7, <1>8, <1>9 DEF CoordinatorAgent

\* Of finitely many positions one is the last.
LEMMA LastOfSet ==
    ASSUME NEW n \in Nat, NEW S \in SUBSET (1 .. n), S # {}
    PROVE  \E i \in S : \A k \in S : k <= i
  <1> DEFINE T == {m \in 0 .. n : n - m \in S}
  <1>1. T # {} /\ T \subseteq Nat
    <2>1. PICK i \in S : i \in 1 .. n
      OBVIOUS
    <2>2. n - i \in 0 .. n /\ n - (n - i) = i
      BY <2>1
    <2>3. n - i \in T
      BY <2>2
    <2>4. T \subseteq Nat
      OBVIOUS
    <2> HIDE DEF T
    <2> QED
      BY <2>3, <2>4
  <1>2. PICK m \in T : \A y \in T : ~(<<y, m>> \in OpToRel(<, Nat))
    BY <1>1, NatLessThanWellFounded, WFMin
  <1>3. \A y \in T : m <= y
    <2> SUFFICES ASSUME NEW y \in T, y < m PROVE FALSE
      BY <1>1
    <2>1. <<y, m>> \in Nat \X Nat /\ <<y, m>>[1] < <<y, m>>[2]
      BY <1>1
    <2>2. <<y, m>> \in OpToRel(<, Nat)
      BY <2>1, Zenon DEF OpToRel
    <2> QED
      BY <1>2, <2>2
  <1>4. ASSUME NEW k \in S PROVE k <= n - m
    <2>1. n - k \in T
      <3>1. n - k \in 0 .. n /\ n - (n - k) = k
        OBVIOUS
      <3> QED
        BY <3>1
    <2>2. m <= n - k
      BY <1>3, <2>1
    <2> QED
      BY <2>2
  <1> QED
    BY <1>4

\* get_draft hands over an artifact of the conversation, after a search.
LEMMA LastLoadLoads ==
    ASSUME CInv, \E i \in DOMAIN ch.calls : Loads(i)
    PROVE  RetrievedDraft \in Visible /\ SearchedBefore(Len(ch.calls) + 1)
  <1> DEFINE S == {i \in DOMAIN ch.calls : Loads(i)}
  <1>1. ch.calls \in Seq(EveryCall)
    BY DEF CInv, Lasting, TurnTyped, TurnChannels
  <1>2. Len(ch.calls) \in Nat /\ DOMAIN ch.calls = 1 .. Len(ch.calls)
    BY <1>1
  <1>3. S \in SUBSET (1 .. Len(ch.calls)) /\ S # {}
    BY <1>2
  <1>4. PICK i \in S : \A k \in S : k <= i
    BY <1>2, <1>3, LastOfSet
  <1>5. LastLoad \in DOMAIN ch.calls /\ Loads(LastLoad)
    BY <1>4 DEF LastLoad
  <1>6. SearchedBefore(LastLoad) /\ ch.calls[LastLoad].target \in Visible
    BY <1>5 DEF Loads
  <1>7. SearchedBefore(Len(ch.calls) + 1)
    BY <1>2, <1>5, <1>6 DEF SearchedBefore
  <1> QED
    BY <1>6, <1>7 DEF RetrievedDraft

\* coordinator_tools: a retrieved draft is of the conversation that asks.
LEMMA CoordinatorToolsCInv ==
    ASSUME CInv, CoordinatorTools
    PROVE  CInv'
  <1>1. node = "coordinator_tools" /\ UNCHANGED Stores
    BY DEF CoordinatorTools
  <1>2. /\ ch.prompt \in {None, turn}
        /\ ch.retrieved # None => /\ ch.retrieved.conv = conv
                                  /\ ch.retrieved \in artifacts
                                  /\ ch.searched
                                  /\ ch.steps > 0
    BY <1>1 DEF CInv, Progressing, TurnPrepared, Choosing
  <1>3. ch.calls # <<>>
    BY <1>1 DEF CInv, Progressing, Decided
  <1>4. ch \in TurnChannels /\ artifacts \subseteq Artifacts
    BY DEF CInv, Lasting, TurnTyped
  <1>5. CASE LimitReached
    <2>1. Raise("coordinator_limit")
      BY <1>3, <1>5 DEF CoordinatorTools
    <2> QED
      BY <1>1, <2>1, RaiseCInv DEF Causes, Rejections
  <1>6. CASE ~LimitReached
    <2> DEFINE searched == SearchedBefore(Len(ch.calls) + 1)
               retrieved == IF \E i \in DOMAIN ch.calls : Loads(i)
                            THEN RetrievedDraft ELSE ch.retrieved
               channels == [ch EXCEPT !.steps = NextRound, !.searched = searched,
                                      !.retrieved = retrieved, !.calls = <<>>]
    <2>1. Update(channels, "coordinator_agent")
      BY <1>3, <1>6 DEF CoordinatorTools
    <2>2. NextRound \in 0 .. MaxToolRounds /\ NextRound > 0
      BY <1>4, <1>6, BoundAssumption DEF LimitReached, NextRound, TurnChannels
    <2>3. searched \in BOOLEAN /\ (ch.searched => searched)
      BY DEF SearchedBefore
    <2>4. retrieved # None => /\ retrieved.conv = conv
                              /\ retrieved \in artifacts
                              /\ searched
      <3>1. CASE \E i \in DOMAIN ch.calls : Loads(i)
        BY <3>1, LastLoadLoads DEF Visible
      <3>2. CASE ~ \E i \in DOMAIN ch.calls : Loads(i)
        BY <1>2, <2>3, <3>2
      <3> QED
        BY <3>1, <3>2
    <2>5. retrieved \in Artifacts \cup {None} /\ <<>> \in Seq(EveryCall)
      BY <1>4, <2>4
    <2> HIDE DEF searched, retrieved
    <2>6. channels \in TurnChannels
      <3>1. channels = [[[[ch EXCEPT !.steps = NextRound] EXCEPT !.searched = searched]
                             EXCEPT !.retrieved = retrieved] EXCEPT !.calls = <<>>]
        OBVIOUS
      <3>2. [[ch EXCEPT !.steps = NextRound] EXCEPT !.searched = searched] \in TurnChannels
        BY <1>4, <2>2, <2>3, ChannelUpdates
      <3>3. [[[ch EXCEPT !.steps = NextRound] EXCEPT !.searched = searched]
                 EXCEPT !.retrieved = retrieved] \in TurnChannels
        BY <2>5, <3>2, ChannelUpdates
      <3> QED
        BY <2>5, <3>1, <3>3, ChannelUpdates
    <2>7. /\ channels.conversation = ch.conversation
          /\ channels.turnConversation = ch.turnConversation
          /\ channels.prompt = ch.prompt
          /\ channels.retrieved = retrieved /\ channels.searched = searched
          /\ channels.steps = NextRound
          /\ channels.writerOutput = ch.writerOutput /\ channels.writerRun = ch.writerRun
          /\ channels.report = ch.report /\ channels.criticRun = ch.criticRun
          /\ channels.draft = ch.draft /\ channels.result = ch.result
      BY <1>4 DEF TurnChannels
    <2> HIDE DEF channels
    <2>8. Lasting'
      BY <1>1, <2>1, <2>6, <2>7, UpdateLasting DEF Choosing
    <2>9. node' = "coordinator_agent" /\ ch' = channels
      BY <2>1 DEF Update, Goto
    <2>10. TurnPrepared'
      BY <1>1, <1>2, <2>1, <2>2, <2>4, <2>6, <2>7, StillPrepared DEF Choosing
    <2>11. NothingWritten'
      BY <1>1, <2>7, <2>9 DEF CInv, Progressing, NothingWritten, Choosing
    <2>12. Decided' /\ RunPrepared' /\ WorkflowIsOwn' /\ ResultIsBack'
      BY <2>9 DEF Decided, RunPrepared, WorkflowIsOwn, ResultIsBack, Editing, Finishing,
                  EditorialNodes
    <2> QED
      BY <2>8, <2>10, <2>11, <2>12 DEF CInv, Progressing
  <1> QED
    BY <1>5, <1>6

\* talker: an answer without a task.
LEMMA TalkerCInv ==
    ASSUME CInv, Talker
    PROVE  CInv'
  <1>1. node = "talker" /\ UNCHANGED Stores
    BY DEF Talker
  <1>2. CASE Raise("talker")
    BY <1>1, <1>2, RaiseCInv DEF Causes, Faults
  <1>3. CASE Update([ch EXCEPT !.talkerResponse = turn], "finalize_turn")
    <2> DEFINE channels == [ch EXCEPT !.talkerResponse = turn]
    <2>1. turn \in Ids /\ turn # None
      BY <1>1, TurnIsTyped, NoneAssumption
    <2>2. ch \in TurnChannels /\ ch.decision = "chat"
      BY <1>1 DEF CInv, Lasting, TurnTyped, Progressing, Decided
    <2>3. channels \in TurnChannels
      BY <2>1, <2>2, ChannelUpdates
    <2>4. /\ channels.conversation = ch.conversation
          /\ channels.turnConversation = ch.turnConversation
          /\ channels.prompt = ch.prompt /\ channels.decision = "chat"
          /\ channels.talkerResponse = turn
          /\ channels.retrieved = ch.retrieved /\ channels.searched = ch.searched
          /\ channels.steps = ch.steps
          /\ channels.writerOutput = ch.writerOutput /\ channels.writerRun = ch.writerRun
          /\ channels.report = ch.report /\ channels.criticRun = ch.criticRun
          /\ channels.draft = ch.draft /\ channels.result = ch.result
      BY <2>2 DEF TurnChannels
    <2>5. Update(channels, "finalize_turn")
      BY <1>3
    <2> HIDE DEF channels
    <2>6. Lasting'
      BY <1>1, <2>3, <2>4, <2>5, UpdateLasting DEF Choosing
    <2>7. node' = "finalize_turn" /\ ch' = channels
      BY <2>5 DEF Update, Goto
    <2>8. TurnPrepared'
      <3>1. TurnPrepared /\ node \in Choosing
        BY <1>1 DEF CInv, Progressing, Choosing
      <3> QED
        BY <1>1, <2>3, <2>4, <2>5, <3>1, StillPrepared DEF TurnPrepared
    <2>9. NothingWritten'
      BY <1>1, <2>4, <2>7 DEF CInv, Progressing, NothingWritten, Choosing
    <2>10. Decided' /\ RunPrepared' /\ WorkflowIsOwn' /\ ResultIsBack'
      BY <2>1, <2>4, <2>7 DEF Decided, RunPrepared, WorkflowIsOwn, ResultIsBack, Editing,
                              Finishing, EditorialNodes
    <2> QED
      BY <2>6, <2>8, <2>9, <2>10 DEF CInv, Progressing
  <1> QED
    BY <1>2, <1>3 DEF Talker

\* A run is prepared for the right draft.
LEMMA PreparedCInv ==
    ASSUME CInv, node \in {"prepare_new_task", "prepare_revision"}, UNCHANGED Stores,
           NEW task \in Tasks, NEW operation \in Operations, task.id = turn,
           operation = "active_revision" => /\ ch.steps = 0
                                            /\ Kept(conv).active # None
                                            /\ task.draft = Kept(conv).active.draft,
           operation = "historical_transformation" => /\ ch.retrieved # None
                                                      /\ task.draft = ch.retrieved.content,
           operation = "new_task" => ch.steps = 0 /\ task.draft = None,
           Update([ch EXCEPT !.task = task,
                             !.context = [operation |-> operation, task |-> task]],
                  "editorial_subgraph")
    PROVE  CInv'
  <1> DEFINE context == [operation |-> operation, task |-> task]
             channels == [ch EXCEPT !.task = task, !.context = context]
  <1>1. context \in Contexts /\ context.operation = operation /\ context.task = task
    BY DEF Contexts
  <1>2. ch \in TurnChannels /\ ch.decision \in {"start_writing_task", "revise_task"}
    BY DEF CInv, Lasting, TurnTyped, Progressing, Decided
  <1> HIDE DEF context
  <1>3. channels \in TurnChannels
    <2>1. channels = [[ch EXCEPT !.task = task] EXCEPT !.context = context]
      OBVIOUS
    <2>2. [ch EXCEPT !.task = task] \in TurnChannels
      BY <1>2, ChannelUpdates
    <2> QED
      BY <1>1, <2>1, <2>2, ChannelUpdates
  <1>4. /\ channels.conversation = ch.conversation
        /\ channels.turnConversation = ch.turnConversation
        /\ channels.prompt = ch.prompt /\ channels.decision = ch.decision
        /\ channels.task = task /\ channels.context = context
        /\ channels.retrieved = ch.retrieved /\ channels.searched = ch.searched
        /\ channels.steps = ch.steps
        /\ channels.writerOutput = ch.writerOutput /\ channels.writerRun = ch.writerRun
        /\ channels.report = ch.report /\ channels.criticRun = ch.criticRun
        /\ channels.draft = ch.draft /\ channels.result = ch.result
    BY <1>2 DEF TurnChannels
  <1>5. Update(channels, "editorial_subgraph")
    BY DEF context
  <1> HIDE DEF channels
  <1>6. Lasting'
    BY <1>3, <1>4, <1>5, UpdateLasting DEF Editing
  <1>7. node' = "editorial_subgraph" /\ ch' = channels /\ turn' = turn
    BY <1>5 DEF Update, Goto, Stores, turn
  <1>8. TurnPrepared'
    <2>1. TurnPrepared /\ node \in Choosing
      BY DEF CInv, Progressing, Choosing
    <2> QED
      BY <1>3, <1>4, <1>5, <2>1, StillPrepared DEF TurnPrepared
  <1>9. NothingWritten'
    BY <1>4, <1>7 DEF CInv, Progressing, NothingWritten, Choosing
  <1>10. Kept(conv)' = Kept(conv)
    BY DEF Kept, conv, turn, Stores
  <1>11. RightDraft'
    BY <1>1, <1>4, <1>7, <1>10 DEF RightDraft
  <1>12. RunPrepared'
    BY <1>1, <1>2, <1>4, <1>7, <1>11 DEF RunPrepared
  <1>13. Decided' /\ WorkflowIsOwn' /\ ResultIsBack'
    BY <1>7 DEF Decided, WorkflowIsOwn, ResultIsBack, Finishing, EditorialNodes
  <1> QED
    BY <1>6, <1>8, <1>9, <1>12, <1>13 DEF CInv, Progressing

\* prepare_new_task: no draft is taken over.
LEMMA PrepareNewTaskCInv ==
    ASSUME CInv, PrepareNewTask
    PROVE  CInv'
  <1>1. node = "prepare_new_task" /\ UNCHANGED Stores
    BY DEF PrepareNewTask
  <1>2. ch \in TurnChannels /\ turn \in Ids /\ artifacts \subseteq Artifacts
    BY <1>1, TurnIsTyped DEF CInv, Lasting, TurnTyped
  <1>3. CASE Raise("no_draft_loaded") \/ Raise("clock")
    BY <1>1, <1>3, RaiseCInv DEF Causes, Faults, Rejections
  <1>4. ASSUME ~(ch.steps > 0 /\ ch.retrieved = None), ~Raise("clock")
        PROVE  CInv'
    <2> DEFINE historical == ch.retrieved # None
               task == [id |-> turn, status |-> "created",
                        draft |-> IF historical THEN ch.retrieved.content ELSE None,
                        verdict |-> None]
               operation == IF historical THEN "historical_transformation" ELSE "new_task"
    <2>1. Update([ch EXCEPT !.task = task,
                            !.context = [operation |-> operation, task |-> task]],
                 "editorial_subgraph")
      BY <1>4 DEF PrepareNewTask
    <2>2. ch.steps \in Nat /\ ch.retrieved \in Artifacts \cup {None}
      BY <1>2, BoundAssumption DEF TurnChannels
    <2>3. (IF historical THEN ch.retrieved.content ELSE None) \in Texts \cup {None}
      BY <2>2 DEF Artifacts
    <2>4. task \in Tasks /\ task.id = turn
          /\ task.draft = IF historical THEN ch.retrieved.content ELSE None
      BY <1>2, <2>3 DEF Tasks, Statuses
    <2>5. /\ operation \in Operations
          /\ operation = "active_revision" => FALSE
          /\ operation = "historical_transformation" => historical
          /\ operation = "new_task" => ~historical /\ ch.steps = 0
      BY <1>4, <2>2 DEF Operations
    <2> HIDE DEF task, operation
    <2> QED
      BY <1>1, <2>1, <2>4, <2>5, PreparedCInv
  <1> QED
    BY <1>3, <1>4 DEF PrepareNewTask

\* Until a turn is complete it knows the conversation the checkpoint has.
LEMMA KnownIsKept ==
    ASSUME CInv, node \notin {"idle", "failed", "end"}
    PROVE  Known = Kept(conv)
  <1>1. reason # "checkpoint"
    BY NoneAssumption DEF CInv, Lasting, ReasonKnown, Faults
  <1> QED
    BY <1>1 DEF CInv, Lasting, Durable, Known, Kept

\* prepare_revision: of the active draft.
LEMMA PrepareRevisionCInv ==
    ASSUME CInv, PrepareRevision
    PROVE  CInv'
  <1> DEFINE active == ch.turnConversation.active
             task == [active EXCEPT !.id = turn]
  <1>1. node = "prepare_revision" /\ UNCHANGED Stores
    BY DEF PrepareRevision
  <1>2. CASE Raise("nothing_to_revise") \/ Raise("clock")
    BY <1>1, <1>2, RaiseCInv DEF Causes, Faults, Rejections
  <1>3. ASSUME Revisable(active),
               Update([ch EXCEPT !.task = task,
                                 !.context = [operation |-> "active_revision",
                                              task |-> task]],
                      "editorial_subgraph")
        PROVE  CInv'
    <2>1. /\ ch.turnConversation \in ConversationStates
          /\ active = Known.active
      BY <1>1 DEF CInv, Progressing, TurnPrepared, Choosing
    <2>2. active # None /\ active \in Tasks
      BY <1>3, <2>1 DEF Revisable, ConversationStates
    <2>3. task \in Tasks /\ task.id = turn /\ task.draft = active.draft
      BY <1>1, <2>2, TurnIsTyped DEF Tasks
    <2>4. active = Kept(conv).active /\ ch.steps = 0
      BY <1>1, <2>1, KnownIsKept DEF CInv, Progressing, Decided
    <2>5. "active_revision" \in Operations
      BY DEF Operations
    <2> HIDE DEF active, task
    <2> QED
      BY <1>1, <1>3, <2>2, <2>3, <2>4, <2>5, PreparedCInv
  <1> QED
    BY <1>2, <1>3 DEF PrepareRevision

\* The workflow starts on a run that was prepared properly.
LEMMA EnterCInv ==
    ASSUME CInv, EnterEditorial
    PROVE  CInv'
  <1>1. /\ node = "editorial_subgraph" /\ node' = "writer" /\ reason' = reason
        /\ UNCHANGED <<ch, saved, checkpoint, artifacts, turns>>
        /\ sub' = [context |-> ch.context, task |-> ch.task,
                   writerOutput |-> ch.writerOutput, writerRun |-> ch.writerRun,
                   report |-> ch.report, criticRun |-> ch.criticRun,
                   draft |-> ch.draft, result |-> ch.result]
    BY DEF EnterEditorial, Goto, Stores
  <1>2. /\ ch.context \in Contexts /\ ch.task = ch.context.task
        /\ ch.writerOutput = None /\ ch.writerRun = None
        /\ ch.report = None /\ ch.criticRun = None
        /\ ch.draft = None /\ ch.result = None
    BY <1>1 DEF CInv, Progressing, RunPrepared, NothingWritten, Editing
  <1>3. sub' \in Channels
    BY <1>1, <1>2 DEF Channels, Contexts
  <1>4. reason = None
    BY <1>1 DEF CInv, Lasting, ReasonKnown
  <1>5. EInv' /\ sub'.context = ch'.context
    BY <1>1, <1>2, <1>3, <1>4
    DEF EInv, Typed, SameRun, Progress, HasStaleOutput, EditorialNodes
  <1>6. turn' = turn /\ conv' = conv /\ Kept(conv)' = Kept(conv)
        /\ \A c \in Conversations : Kept(c)' = Kept(c)
    BY <1>1 DEF turn, conv, Kept
  <1>7. TurnTyped' /\ ReasonKnown' /\ Recorded' /\ Durable'
    BY <1>1, <1>4, <1>6, NoneAssumption
    DEF CInv, Lasting, TurnTyped, ReasonKnown, Recorded, Durable, Nodes, Editing,
        EditorialNodes, Outcome, Faults
  <1>8. KeptWell' /\ AnswersAreRemembered' /\ OlderThanTurn' /\ Completion'
    <2>1. \A t \in 1 .. turn : turns'[t].conv = turns[t].conv /\ Outcome(t)' = Outcome(t)
      BY <1>1 DEF Outcome
    <2>2. KeptWell' /\ AnswersAreRemembered'
      BY <1>1, <1>6, <2>1, WrittenKept
    <2> QED
      BY <1>1, <1>6, <2>2 DEF CInv, Lasting, OlderThanTurn, UpTo, Completion
  <1>9. TurnPrepared' /\ NothingWritten'
    <2>1. node \in Editing /\ Known' = Known /\ Message("user")' = Message("user")
      BY <1>1, <1>6 DEF Editing, Known, Message
    <2> QED
      BY <1>1, <1>6, <2>1 DEF CInv, Progressing, TurnPrepared, NothingWritten
  <1>10. RunPrepared'
    <2>1. RightDraft' /\ node \in Editing
      BY <1>1, <1>6 DEF CInv, Progressing, RunPrepared, RightDraft, Editing
    <2> QED
      BY <1>1, <1>6, <2>1 DEF CInv, Progressing, RunPrepared
  <1>11. Decided' /\ WorkflowIsOwn' /\ ResultIsBack'
    BY <1>1, <1>5 DEF Decided, WorkflowIsOwn, ResultIsBack, Finishing
  <1> QED
    BY <1>7, <1>8, <1>9, <1>10, <1>11 DEF CInv, Lasting, Progressing

\* A node of the workflow keeps the run it works on.
LEMMA SameContext ==
    ASSUME EInv, EditorialNext
    PROVE  sub'.context = sub.context /\ node \in EditorialNodes
  <1>1. sub \in Channels
    BY DEF EInv, Typed
  <1>2. CASE WriterNode
    BY <1>1, <1>2 DEF WriterNode, FailWith, EditorialNodes, Channels
  <1>3. CASE CriticNode
    BY <1>1, <1>3 DEF CriticNode, FailWith, EditorialNodes, Channels
  <1>4. CASE EditorNode
    BY <1>1, <1>4 DEF EditorNode, FailWith, EditorialNodes, Channels
  <1>5. ASSUME NEW from \in EditorialNodes, NEW draft, NEW revised,
               BuildResult(from, draft, revised)
        PROVE  sub'.context = sub.context /\ node \in EditorialNodes
    BY <1>1, <1>5 DEF BuildResult, FailWith, Channels
  <1> QED
    BY <1>2, <1>3, <1>4, <1>5
    DEF EditorialNext, BuildPassResult, BuildRevisedResult, EditorialNodes

\* A step of the editorial subgraph.
LEMMA EditorialCInv ==
    ASSUME CInv, EditorialStep
    PROVE  CInv'
  <1>1. EditorialNext /\ UNCHANGED <<ch, saved, checkpoint, artifacts, turns>>
    BY DEF EditorialStep, Stores
  <1>2. node \in EditorialNodes
    BY <1>1 DEF EditorialNext, WriterNode, CriticNode, EditorNode, BuildPassResult,
                BuildRevisedResult, BuildResult, EditorialNodes
  <1>3. EInv /\ sub.context = ch.context
    BY <1>2 DEF CInv, Progressing, WorkflowIsOwn
  <1>4. EInv' /\ sub'.context = ch'.context
    BY <1>1, <1>3, StepEInv, SameContext
  <1>5. \/ node' = "failed" /\ reason' \in AgentFailures
        \/ node' \in EditorialNodes /\ reason' = None
    BY <1>4 DEF EInv, Typed
  <1>6. /\ node' \in EditorialNodes \cup {"failed"}
        /\ reason' # "checkpoint" /\ reason # "checkpoint"
    BY <1>2, <1>5, NoneAssumption
    DEF AgentFailures, Faults, CInv, Lasting, ReasonKnown, EditorialNodes
  <1>7. turn' = turn /\ conv' = conv /\ Kept(conv)' = Kept(conv)
        /\ \A c \in Conversations : Kept(c)' = Kept(c)
    BY <1>1 DEF turn, conv, Kept
  <1>8. TurnTyped' /\ ReasonKnown'
    BY <1>1, <1>5, <1>7
    DEF CInv, Lasting, TurnTyped, ReasonKnown, Nodes, Editing, Causes, Faults,
        EditorialNodes
  <1>9. Recorded' /\ Durable'
    BY <1>1, <1>2, <1>6, <1>7
    DEF CInv, Lasting, Recorded, Durable, EditorialNodes, Outcome
  <1>10. KeptWell' /\ AnswersAreRemembered' /\ OlderThanTurn' /\ Completion'
    <2>1. \A t \in 1 .. turn : turns'[t].conv = turns[t].conv /\ Outcome(t)' = Outcome(t)
      BY <1>1 DEF Outcome
    <2>2. node # "idle" /\ node' # "end"
      BY <1>2, <1>6 DEF EditorialNodes
    <2>3. KeptWell' /\ AnswersAreRemembered'
      BY <1>1, <1>7, <2>1, <2>2, WrittenKept
    <2>4. UpTo(turn - 1, Kept(conv))
      BY <1>2 DEF CInv, Lasting, OlderThanTurn, EditorialNodes
    <2> QED
      BY <1>7, <2>2, <2>3, <2>4 DEF OlderThanTurn, UpTo, Completion
  <1>11. TurnPrepared' /\ NothingWritten'
    <2>1. node \in Editing /\ Known' = Known /\ Message("user")' = Message("user")
      BY <1>1, <1>2, <1>7 DEF Editing, Known, Message
    <2>2. node' # "persist_editorial_artifacts"
      BY <1>6 DEF EditorialNodes
    <2>3. node # "persist_editorial_artifacts"
      BY <1>2 DEF EditorialNodes
    <2> QED
      BY <1>1, <1>7, <2>1, <2>2, <2>3 DEF CInv, Progressing, TurnPrepared, NothingWritten
  <1>12. RunPrepared'
    <2>1. RunPrepared /\ node \in Editing
      BY <1>2 DEF CInv, Progressing, Editing
    <2>2. RightDraft'
      BY <1>1, <1>7, <2>1 DEF RunPrepared, RightDraft
    <2> QED
      BY <1>1, <1>7, <2>1, <2>2 DEF RunPrepared
  <1>13. Decided' /\ ResultIsBack' /\ WorkflowIsOwn'
    BY <1>4, <1>6 DEF Decided, ResultIsBack, WorkflowIsOwn, Finishing, EditorialNodes
  <1> QED
    BY <1>8, <1>9, <1>10, <1>11, <1>12, <1>13 DEF CInv, Lasting, Progressing

\* The result of the workflow comes back to the channels of its own turn.
LEMMA LeaveCInv ==
    ASSUME CInv, LeaveEditorial
    PROVE  CInv'
  <1> DEFINE channels == [ch EXCEPT !.writerOutput = sub.result.writer,
                                    !.report = sub.result.verdict,
                                    !.draft = sub.result.draft,
                                    !.result = sub.result,
                                    !.writerRun = sub.writerRun,
                                    !.criticRun = sub.criticRun]
  <1>1. node = "edited" /\ Update(channels, "finalize_task") /\ UNCHANGED Stores
    BY DEF LeaveEditorial
  <1>2. EInv /\ sub.context = ch.context /\ node \in Editing
    BY <1>1 DEF CInv, Progressing, WorkflowIsOwn, EditorialNodes, Editing
  <1>3. HasCritic /\ Built(sub.result)
    BY <1>1, <1>2 DEF EInv, Progress
  <1>4. /\ sub.result \in Results
        /\ sub.result.writer \in Texts /\ sub.result.draft \in Texts
        /\ sub.result.verdict \in Verdicts
    BY <1>3 DEF Built, Results
  <1>5. ValidResult(sub.result)
    <2>1. sub.result.revised \in BOOLEAN
      BY <1>4 DEF Results
    <2>2. CASE sub.report = "pass"
      <3>1. ~sub.result.revised
        BY <1>3, <2>1, <2>2 DEF Built
      <3> QED
        BY <1>3, <2>2, <3>1 DEF Built, ValidResult
    <2>3. CASE sub.report = "revise"
      <3>1. sub.result.revised
        BY <1>3, <2>1, <2>3 DEF Built
      <3>2. sub.result.verdict # "pass"
        BY <1>3, <2>3 DEF Built
      <3> QED
        BY <3>1, <3>2 DEF ValidResult
    <2> QED
      BY <1>3, <2>2, <2>3 DEF HasCritic, Verdicts
  <1>6. /\ ch.context \in Contexts /\ ch.task = ch.context.task /\ ch.task.id = turn
        /\ ch.decision \in {"start_writing_task", "revise_task"} /\ RightDraft
    BY <1>2 DEF CInv, Progressing, RunPrepared
  <1>7. sub.writerRun = turn /\ sub.criticRun = turn /\ turn \in Ids
    BY <1>1, <1>2, <1>3, <1>6, TurnIsTyped DEF HasCritic, HasWriter
  <1>8. ch \in TurnChannels
    BY DEF CInv, Lasting, TurnTyped
  <1>9. channels \in TurnChannels
    <2>1. channels = [[[[[[ch EXCEPT !.writerOutput = sub.result.writer]
                             EXCEPT !.report = sub.result.verdict]
                            EXCEPT !.draft = sub.result.draft]
                           EXCEPT !.result = sub.result]
                          EXCEPT !.writerRun = sub.writerRun]
                         EXCEPT !.criticRun = sub.criticRun]
      OBVIOUS
    <2> DEFINE one == [ch EXCEPT !.writerOutput = sub.result.writer]
               two == [one EXCEPT !.report = sub.result.verdict]
               three == [two EXCEPT !.draft = sub.result.draft]
               four == [three EXCEPT !.result = sub.result]
               five == [four EXCEPT !.writerRun = sub.writerRun]
    <2>2. one \in TurnChannels
      BY <1>4, <1>8, ChannelUpdates
    <2> HIDE DEF one
    <2>3. two \in TurnChannels
      BY <1>4, <2>2, ChannelUpdates
    <2> HIDE DEF two
    <2>4. three \in TurnChannels
      BY <1>4, <2>3, ChannelUpdates
    <2> HIDE DEF three
    <2>5. four \in TurnChannels
      BY <1>4, <2>4, ChannelUpdates
    <2> HIDE DEF four
    <2>6. five \in TurnChannels
      BY <1>7, <2>5, ChannelUpdates
    <2> HIDE DEF five
    <2>7. [five EXCEPT !.criticRun = sub.criticRun] \in TurnChannels
      BY <1>7, <2>6, ChannelUpdates
    <2> QED
      BY <2>1, <2>7 DEF one, two, three, four, five
  <1>10. /\ channels.conversation = ch.conversation
         /\ channels.turnConversation = ch.turnConversation
         /\ channels.prompt = ch.prompt /\ channels.decision = ch.decision
         /\ channels.task = ch.task /\ channels.context = ch.context
         /\ channels.retrieved = ch.retrieved /\ channels.searched = ch.searched
         /\ channels.steps = ch.steps
         /\ channels.writerRun = turn /\ channels.criticRun = turn
         /\ channels.result = sub.result
    BY <1>7, <1>8 DEF TurnChannels
  <1> HIDE DEF channels
  <1>11. Lasting'
    BY <1>1, <1>9, <1>10, UpdateLasting DEF Finishing
  <1>12. node' = "finalize_task" /\ ch' = channels /\ turn' = turn
    BY <1>1 DEF Update, Goto, Stores, turn
  <1>13. TurnPrepared'
    <2>1. TurnPrepared
      BY DEF CInv, Progressing
    <2> QED
      BY <1>1, <1>2, <1>9, <1>10, <2>1, StillPrepared DEF TurnPrepared
  <1>14. Kept(conv)' = Kept(conv)
    BY <1>1 DEF Kept, conv, turn, Stores
  <1>15. RunPrepared'
    <2>1. RightDraft'
      BY <1>6, <1>10, <1>12, <1>14 DEF RightDraft
    <2> QED
      BY <1>6, <1>10, <1>12, <2>1 DEF RunPrepared
  <1>16. ResultIsBack'
    BY <1>4, <1>5, <1>10, <1>12 DEF ResultIsBack
  <1>17. Decided' /\ NothingWritten' /\ WorkflowIsOwn'
    BY <1>12 DEF Decided, NothingWritten, WorkflowIsOwn, Choosing, Editing, EditorialNodes
  <1> QED
    BY <1>11, <1>13, <1>15, <1>16, <1>17 DEF CInv, Progressing

\* The finished task has the text the run ended with and a verdict.
LEMMA FinishedTaskIsTyped ==
    ASSUME CInv, node \in Finishing
    PROVE  /\ FinishedTask \in Tasks /\ FinishedTask.id = turn
           /\ FinishedTask.draft = ch.result.draft /\ ch.result.draft \in Texts
           /\ FinishedTask.verdict = ch.result.verdict /\ ch.result.verdict \in Verdicts
           /\ FinishedTask.status = IF ch.result.revised THEN "revised" ELSE "reviewed"
  <1>1. ch.task \in Tasks /\ ch.task.id = turn /\ ch.result \in Results
    BY DEF CInv, Progressing, RunPrepared, ResultIsBack, Contexts
  <1>2. ch.result.draft \in Texts /\ ch.result.verdict \in Verdicts
    BY <1>1 DEF Results
  <1> QED
    BY <1>1, <1>2 DEF FinishedTask, Tasks, Statuses

\* finalize_task: the result comes back and becomes the active task.
LEMMA FinalizeTaskCInv ==
    ASSUME CInv, FinalizeTask
    PROVE  CInv'
  <1> DEFINE mine == [ch.turnConversation EXCEPT !.active = FinishedTask]
             channels == [ch EXCEPT !.turnConversation = mine]
  <1>1. node = "finalize_task" /\ UNCHANGED Stores /\ node \in Finishing
    BY DEF FinalizeTask, Finishing
  <1>2. /\ ch.context \in Contexts /\ ch.task = ch.context.task /\ ch.task.id = turn
        /\ ch.decision \in {"start_writing_task", "revise_task"} /\ RightDraft
    BY <1>1 DEF CInv, Progressing, RunPrepared
  <1>3. /\ ch.writerRun = turn /\ ch.criticRun = turn
        /\ ch.result \in Results /\ ValidResult(ch.result)
    BY <1>1 DEF CInv, Progressing, ResultIsBack
  <1>4. IsOwnRun
    <2>1. ch.task \in Tasks
      BY <1>2 DEF Contexts
    <2> QED
      BY <1>2, <1>3, <2>1, NoneAssumption, NoneIsNothing DEF IsOwnRun, Contexts
  <1>5. CASE Raise("clock")
    BY <1>1, <1>5, RaiseCInv DEF Causes, Faults
  <1>6. CASE Update([ch EXCEPT !.turnConversation.active = FinishedTask],
                    "persist_editorial_artifacts")
    <2>1. ch \in TurnChannels /\ ch.turnConversation \in ConversationStates
      BY <1>1 DEF CInv, Lasting, TurnTyped, Progressing, TurnPrepared
    <2>2. FinishedTask \in Tasks
      BY <1>1, FinishedTaskIsTyped
    <2>3. /\ mine \in ConversationStates /\ mine.active = FinishedTask
          /\ mine.recent = ch.turnConversation.recent
      BY <2>1, <2>2 DEF ConversationStates
    <2>4. Update(channels, "persist_editorial_artifacts")
      BY <1>6
    <2> HIDE DEF mine
    <2>5. channels \in TurnChannels
      BY <2>1, <2>3, ChannelUpdates
    <2>6. /\ channels.conversation = ch.conversation
          /\ channels.turnConversation = mine
          /\ channels.prompt = ch.prompt /\ channels.decision = ch.decision
          /\ channels.task = ch.task /\ channels.context = ch.context
          /\ channels.retrieved = ch.retrieved /\ channels.searched = ch.searched
          /\ channels.steps = ch.steps
          /\ channels.writerRun = turn /\ channels.criticRun = turn
          /\ channels.result = ch.result
      BY <1>3, <2>1 DEF TurnChannels
    <2> HIDE DEF channels
    <2>7. Lasting'
      BY <1>1, <2>4, <2>5, <2>6, UpdateLasting DEF Finishing
    <2>8. /\ node' = "persist_editorial_artifacts" /\ ch' = channels
          /\ turn' = turn /\ conv' = conv /\ artifacts' = artifacts
      BY <1>1, <2>4 DEF Update, Goto, Stores, turn, conv
    <2>9. TurnPrepared'
      <3>1. Known' = Known /\ Message("user")' = Message("user")
        BY <2>6, <2>8 DEF Known, Message
      <3> QED
        BY <1>1, <2>3, <2>6, <2>8, <3>1 DEF CInv, Progressing, TurnPrepared
    <2>10. Kept(conv)' = Kept(conv)
      BY <1>1 DEF Kept, conv, turn, Stores
    <2>11. RunPrepared'
      <3>1. RightDraft'
        BY <1>2, <2>6, <2>8, <2>10 DEF RightDraft
      <3> QED
        BY <1>2, <2>6, <2>8, <3>1 DEF RunPrepared
    <2>12. FinishedTask' = FinishedTask
      BY <2>6, <2>8 DEF FinishedTask
    <2>13. ResultIsBack'
      BY <1>3, <2>3, <2>6, <2>8, <2>12 DEF ResultIsBack
    <2>14. Decided' /\ NothingWritten' /\ WorkflowIsOwn'
      BY <2>8 DEF Decided, NothingWritten, WorkflowIsOwn, Choosing, Editing,
                  EditorialNodes
    <2> QED
      BY <2>7, <2>9, <2>11, <2>13, <2>14 DEF CInv, Progressing
  <1> QED
    BY <1>4, <1>5, <1>6 DEF FinalizeTask

-----------------------------------------------------------------------------
\* The end of a turn.  The window: the answers follow the message.
LEMMA AnsweredWindow ==
    ASSUME NEW r \in Seq(Messages), NEW a \in Seq(Messages), NEW t \in Ids,
           NEW u \in Messages, u.turn = t, u.role = "user", Len(a) \in {1, 3},
           \A i \in 1 .. Len(a) : a[i].turn = t /\ a[i].role = "assistant",
           Ordered(r), Answered(r), Opened(r), \A i \in DOMAIN r : r[i].turn < t,
           NEW s, s = Append(r, u) \o a
    PROVE  ClosesWith(t, s)
  <1> DEFINE n == Len(r)
             m == Len(a)
  <1>1. n \in Nat /\ m \in Nat /\ m > 0 /\ DOMAIN r = 1 .. n
    <2>1. \A x \in {1, 3} : x \in Nat /\ x > 0
      OBVIOUS
    <2>2. m \in Nat /\ m > 0
      BY <2>1, Zenon
    <2>3. n \in Nat /\ DOMAIN r = 1 .. n
      OBVIOUS
    <2> QED
      BY <2>2, <2>3
  <1>2. /\ Append(r, u) \in Seq(Messages) /\ Len(Append(r, u)) = n + 1
        /\ \A i \in 1 .. n : Append(r, u)[i] = r[i]
        /\ Append(r, u)[n + 1] = u
    BY AppendProperties
  <1>3. /\ s \in Seq(Messages) /\ Len(s) = n + 1 + m
        /\ \A i \in 1 .. n : s[i] = r[i]
        /\ s[n + 1] = u
        /\ \A i \in (n + 2) .. (n + 1 + m) : s[i] = a[i - (n + 1)]
    <2>1. /\ s \in Seq(Messages) /\ Len(s) = Len(Append(r, u)) + Len(a)
          /\ \A i \in 1 .. Len(s) : s[i] = IF i <= Len(Append(r, u)) THEN Append(r, u)[i]
                                           ELSE a[i - Len(Append(r, u))]
      BY <1>2, ConcatProperties
    <2> QED
      BY <1>1, <1>2, <2>1
  <1>4. DOMAIN s = 1 .. n + 1 + m
    BY <1>3
  <1>5. t \in Nat /\ \A i \in 1 .. n : r[i].turn \in Nat
    <2>1. \A i \in 1 .. n : r[i] \in Messages
      BY <1>1
    <2> QED
      BY <2>1, BoundAssumption DEF Messages
  <1>6. \A i \in (n + 2) .. (n + 1 + m) : s[i].turn = t /\ s[i].role = "assistant"
    <2> SUFFICES ASSUME NEW i \in (n + 2) .. (n + 1 + m)
                 PROVE  s[i].turn = t /\ s[i].role = "assistant"
      OBVIOUS
    <2>1. i - (n + 1) \in 1 .. m
      BY <1>1
    <2> QED
      BY <1>3, <2>1
  <1> HIDE DEF n, m
  <1>7. \A i \in DOMAIN s : s[i].turn <= t /\ (i > n <=> s[i].turn = t)
    <2> SUFFICES ASSUME NEW i \in DOMAIN s
                 PROVE  s[i].turn <= t /\ (i > n <=> s[i].turn = t)
      OBVIOUS
    <2>1. i \in 1 .. n \/ i = n + 1 \/ i \in (n + 2) .. (n + 1 + m)
      BY <1>1, <1>4
    <2>2. CASE i \in 1 .. n
      BY <1>1, <1>3, <1>5, <2>2
    <2>3. CASE i = n + 1
      BY <1>1, <1>3, <1>5, <2>3
    <2>4. CASE i \in (n + 2) .. (n + 1 + m)
      <3>1. i > n
        BY <1>1, <2>4
      <3> QED
        BY <1>5, <1>6, <2>4, <3>1
    <2> QED
      BY <2>1, <2>2, <2>3, <2>4
  <1>8. Ordered(s)
    <2> SUFFICES ASSUME NEW i \in DOMAIN s, NEW k \in DOMAIN s, i < k
                 PROVE  s[i].turn <= s[k].turn
      BY DEF Ordered
    <2>1. CASE k <= n
      <3>1. i \in DOMAIN r /\ k \in DOMAIN r
        BY <1>1, <1>4, <2>1
      <3> QED
        BY <1>1, <1>3, <3>1 DEF Ordered
    <2>2. CASE k > n
      BY <1>7, <2>2
    <2>3. k \in 1 .. n + 1 + m
      BY <1>4
    <2>4. k <= n \/ k > n
      BY <1>1, <2>3
    <2> QED
      BY <2>1, <2>2, <2>4
  <1>9. s[n + 1 + m].turn = t /\ s[n + 1 + m].role = "assistant"
        /\ n + 1 + m \in DOMAIN s
    <2>1. n + 1 + m \in (n + 2) .. (n + 1 + m) /\ n + 1 + m \in 1 .. n + 1 + m
      BY <1>1
    <2> QED
      BY <1>4, <1>6, <2>1
  <1>10. Answered(s)
    <2> SUFFICES ASSUME NEW i \in 1 .. n + 1 + m, s[i].role = "user"
                 PROVE  \E j \in {1, 3} : IsExchange(s, i, j)
      BY <1>4 DEF Answered
    <2>1. CASE i <= n
      <3>1. i \in DOMAIN r /\ s[i] = r[i]
        BY <1>1, <1>3, <2>1
      <3>2. PICK j \in {1, 3} : IsExchange(r, i, j)
        BY <3>1 DEF Answered
      <3>3. /\ i + j <= n
            /\ \A k \in 1 .. n : r[k].turn = r[i].turn <=> k \in i .. i + j
            /\ \A k \in i + 1 .. i + j : r[k].role = "assistant"
        BY <1>1, <3>2 DEF IsExchange, n
      <3>4. \A k \in 1 .. n + 1 + m : s[k].turn = s[i].turn <=> k \in i .. i + j
        <4> SUFFICES ASSUME NEW k \in 1 .. n + 1 + m
                     PROVE  s[k].turn = s[i].turn <=> k \in i .. i + j
          OBVIOUS
        <4>1. CASE k <= n
          <5>1. k \in 1 .. n /\ s[k] = r[k]
            BY <1>1, <1>3, <4>1
          <5> QED
            BY <3>1, <3>3, <5>1
        <4>2. CASE k > n
          <5>1. k \in DOMAIN s /\ i \in DOMAIN s /\ ~(i > n)
            BY <1>1, <1>4, <2>1
          <5>3. s[k].turn = t /\ s[i].turn # t
            BY <1>7, <4>2, <5>1
          <5>2. k \notin i .. i + j
            BY <1>1, <3>3, <4>2
          <5> QED
            BY <5>3, <5>2
        <4>3. k <= n \/ k > n
          BY <1>1
        <4> QED
          BY <4>1, <4>2, <4>3
      <3>5. \A k \in i + 1 .. i + j : s[k].role = "assistant"
        <4> SUFFICES ASSUME NEW k \in i + 1 .. i + j
                     PROVE  s[k].role = "assistant"
          OBVIOUS
        <4>1. k \in 1 .. n
          BY <1>1, <3>3
        <4> QED
          BY <1>3, <3>3, <4>1
      <3>6. i + j <= Len(s)
        BY <1>1, <1>3, <3>3
      <3> QED
        BY <1>4, <3>4, <3>5, <3>6 DEF IsExchange
    <2>2. CASE i > n
      <3>1. i = n + 1
        <4>1. i \notin (n + 2) .. (n + 1 + m)
          BY <1>6
        <4> QED
          BY <1>1, <2>2, <4>1
      <3>2. \A k \in DOMAIN s : s[k].turn = s[n + 1].turn <=> k \in n + 1 .. n + 1 + m
        <4>1. n + 1 \in DOMAIN s /\ n + 1 > n
          BY <1>1, <1>4
        <4>2. s[n + 1].turn = t
          BY <1>7, <4>1
        <4>3. \A k \in DOMAIN s : k > n <=> k \in n + 1 .. n + 1 + m
          BY <1>1, <1>4
        <4> QED
          BY <1>7, <4>2, <4>3
      <3>3. \A k \in n + 1 + 1 .. n + 1 + m : s[k].role = "assistant"
        <4>1. n + 1 + 1 = n + 2
          BY <1>1
        <4> QED
          BY <1>6, <4>1
      <3>4. IsExchange(s, n + 1, m)
        BY <1>1, <1>3, <3>2, <3>3 DEF IsExchange
      <3> QED
        BY <3>1, <3>4 DEF m
    <2> QED
      BY <1>1, <2>1, <2>2
  <1>12. Opened(s)
    <2> SUFFICES ASSUME NEW i \in 2 .. n + 1 + m, s[i].turn # s[i - 1].turn
                 PROVE  s[i].role = "user"
      BY <1>3 DEF Opened
    <2>1. CASE i <= n
      <3>1. i \in 2 .. Len(r) /\ i \in 1 .. n /\ i - 1 \in 1 .. n
        BY <1>1, <2>1 DEF n
      <3>2. s[i] = r[i] /\ s[i - 1] = r[i - 1]
        BY <1>3, <3>1
      <3> QED
        BY <3>1, <3>2 DEF Opened
    <2>2. CASE i = n + 1
      BY <1>3, <2>2
    <2>3. CASE i > n + 1
      <3>1. /\ i \in DOMAIN s /\ i - 1 \in DOMAIN s
            /\ i > n /\ i - 1 > n
        BY <1>1, <1>4, <2>3
      <3> QED
        BY <1>7, <3>1
    <2>4. i <= n \/ i = n + 1 \/ i > n + 1
      BY <1>1
    <2> QED
      BY <2>1, <2>2, <2>3, <2>4
  <1>11. Len(s) > 0 /\ s[Len(s)].turn = t /\ s[Len(s)].role = "assistant"
    BY <1>1, <1>3, <1>9
  <1> QED
    BY <1>3, <1>7, <1>8, <1>10, <1>11, <1>12 DEF ClosesWith

\* What is cut off is the beginning.
LEMMA CutWindow ==
    ASSUME NEW n \in Nat \ {0}, NEW t, NEW s, ClosesWith(t, s), NEW w, w = LastOf(s, n)
    PROVE  ClosesWith(t, w) /\ Len(w) <= n
  <1>1. /\ s \in Seq(Messages) /\ Len(s) > 0
        /\ s[Len(s)].turn = t /\ s[Len(s)].role = "assistant"
        /\ \A i \in DOMAIN s : s[i].turn <= t
        /\ Ordered(s) /\ Answered(s) /\ Opened(s)
    BY DEF ClosesWith
  <1>2. CASE Len(s) <= n
    BY <1>2, <1>1 DEF LastOf, ClosesWith
  <1>3. CASE Len(s) > n
    <2> DEFINE d == Len(s) - n
    <2>1. Len(s) \in Nat /\ d \in Nat /\ d > 0 /\ Len(s) = d + n /\ DOMAIN s = 1 .. Len(s)
      BY <1>3, <1>1
    <2>2. w = SubSeq(s, d + 1, Len(s))
      BY <1>3 DEF LastOf
    <2>3. /\ w \in Seq(Messages) /\ Len(w) = n
          /\ \A i \in 1 .. n : w[i] = s[d + i]
      <3>1. \A i \in d + 1 .. Len(s) : s[i] \in Messages
        BY <1>1, <2>1
      <3>2. /\ SubSeq(s, d + 1, Len(s)) \in Seq(Messages)
            /\ Len(SubSeq(s, d + 1, Len(s))) = Len(s) - (d + 1) + 1
            /\ \A i \in 1 .. Len(s) - (d + 1) + 1 :
                   SubSeq(s, d + 1, Len(s))[i] = s[d + 1 + i - 1]
        BY <1>1, <2>1, <3>1
      <3>3. Len(s) - (d + 1) + 1 = n /\ \A i \in 1 .. n : d + 1 + i - 1 = d + i
        BY <2>1
      <3> QED
        BY <2>2, <3>2, <3>3
    <2> HIDE DEF d
    <2>4. DOMAIN w = 1 .. n /\ \A i \in 1 .. n : d + i \in DOMAIN s /\ w[i] = s[d + i]
      BY <2>1, <2>3
    <2>5. Ordered(w)
      <3> SUFFICES ASSUME NEW i \in 1 .. n, NEW k \in 1 .. n, i < k
                   PROVE  w[i].turn <= w[k].turn
        BY <2>4 DEF Ordered
      <3>1. d + i < d + k
        BY <2>1
      <3> QED
        BY <1>1, <2>4, <3>1 DEF Ordered
    <2>6. Answered(w)
      <3> SUFFICES ASSUME NEW i \in 1 .. n, w[i].role = "user"
                   PROVE  \E j \in {1, 3} : IsExchange(w, i, j)
        BY <2>4 DEF Answered
      <3>1. PICK j \in {1, 3} : IsExchange(s, d + i, j)
        BY <1>1, <2>4 DEF Answered
      <3>2. /\ (d + i) + j <= d + n
            /\ \A k \in DOMAIN s : s[k].turn = s[d + i].turn <=> k \in d + i .. (d + i) + j
            /\ \A k \in (d + i) + 1 .. (d + i) + j : s[k].role = "assistant"
        BY <2>1, <3>1 DEF IsExchange
      <3>3. i + j <= n
        BY <2>1, <3>2
      <3>4. \A k \in 1 .. n : w[k].turn = w[i].turn <=> k \in i .. i + j
        <4> SUFFICES ASSUME NEW k \in 1 .. n
                     PROVE  w[k].turn = w[i].turn <=> k \in i .. i + j
          OBVIOUS
        <4>1. d + k \in d + i .. (d + i) + j <=> k \in i .. i + j
          BY <2>1
        <4> QED
          BY <2>4, <3>2, <4>1
      <3>5. \A k \in i + 1 .. i + j : w[k].role = "assistant"
        <4> SUFFICES ASSUME NEW k \in i + 1 .. i + j
                     PROVE  w[k].role = "assistant"
          OBVIOUS
        <4>1. k \in 1 .. n /\ d + k \in (d + i) + 1 .. (d + i) + j
          BY <2>1, <3>3
        <4> QED
          BY <2>4, <3>2, <4>1
      <3> QED
        BY <2>3, <2>4, <3>3, <3>4, <3>5 DEF IsExchange
    <2>10. Opened(w)
      <3> SUFFICES ASSUME NEW i \in 2 .. n, w[i].turn # w[i - 1].turn
                   PROVE  w[i].role = "user"
        BY <2>3 DEF Opened
      <3>1. /\ i \in 1 .. n /\ i - 1 \in 1 .. n
            /\ d + i \in 2 .. Len(s) /\ d + (i - 1) = (d + i) - 1
        BY <2>1
      <3>2. w[i] = s[d + i] /\ w[i - 1] = s[(d + i) - 1]
        BY <2>4, <3>1
      <3> QED
        BY <1>1, <3>1, <3>2 DEF Opened
    <2>7. w[Len(w)] = s[Len(s)] /\ Len(w) > 0 /\ Len(w) <= n
      BY <2>1, <2>3
    <2>8. w[Len(w)].turn = t /\ w[Len(w)].role = "assistant"
      BY <1>1, <2>7
    <2>9. \A i \in DOMAIN w : w[i].turn <= t
      BY <1>1, <2>4
    <2> QED
      BY <2>3, <2>5, <2>6, <2>7, <2>8, <2>9, <2>10 DEF ClosesWith
  <1> QED
    BY <1>2, <1>3

\* The messages of an answer are of the turn that runs.
LEMMA AnswersAreTyped ==
    ASSUME CInv, node # "idle"
    PROVE  /\ Answers \in Seq(Messages) /\ Len(Answers) \in {1, 3}
           /\ \A i \in 1 .. Len(Answers) :
                  Answers[i].turn = turn /\ Answers[i].role = "assistant"
  <1> DEFINE answer == Message("assistant")
  <1>1. answer \in Messages /\ answer.turn = turn /\ answer.role = "assistant"
    BY TurnIsTyped DEF Message, Messages
  <1> HIDE DEF answer
  <1>2. CASE Answers = <<answer>>
    BY <1>1, <1>2
  <1>3. CASE Answers = <<answer, answer, answer>>
    <2>1. Answers \in Seq(Messages) /\ Len(Answers) = 3
      BY <1>1, <1>3
    <2>2. \A i \in 1 .. 3 : i = 1 \/ i = 2 \/ i = 3
      OBVIOUS
    <2>3. \A i \in 1 .. 3 : Answers[i] = answer
      BY <1>3, <2>2
    <2> QED
      BY <1>1, <2>1, <2>3
  <1> QED
    BY <1>2, <1>3 DEF Answers, answer

\* The conversation a complete turn hands over is good, if its active task is.
LEMMA CompletedIsGood ==
    ASSUME CInv, node \in {"finalize_turn", "persist_editorial_artifacts"},
           ActiveTask \in Tasks \cup {None}
    PROVE  LET done == Completed.conversation IN
           /\ Completed \in TurnChannels
           /\ Completed.prompt = None /\ Completed.retrieved = None
           /\ Completed.assistant # None
           /\ done \in ConversationStates /\ done.active = ActiveTask
           /\ WithinWindow(done.recent) /\ Ordered(done.recent)
           /\ Answered(done.recent) /\ Opened(done.recent) /\ EndsWithAnswer(done.recent)
           /\ \A i \in DOMAIN done.recent : done.recent[i].turn <= turn
           /\ done.recent # <<>> /\ done.recent[Len(done.recent)].turn = turn
  <1> DEFINE s == ch.turnConversation.recent \o Answers
             w == LastOf(s, MaxRecentMessages)
             done == [active |-> ActiveTask, recent |-> w]
             r == Known.recent
             u == Message("user")
  <1>1. /\ ch.turnConversation.recent = Append(r, u)
        /\ Known = Kept(conv) /\ conv \in Conversations /\ turn \in Ids /\ turn \in Nat
    BY KnownIsKept, TurnIsTyped DEF CInv, Progressing, TurnPrepared, Choosing, Finishing
  <1>2. u \in Messages /\ u.turn = turn /\ u.role = "user"
    BY <1>1 DEF Message, Messages
  <1>3. r \in Seq(Messages) /\ Ordered(r) /\ Answered(r) /\ Opened(r)
    <2>1. Kept(conv) \in ConversationStates /\ GoodFor(conv, Kept(conv))
      BY <1>1, KeptIsTyped DEF CInv, Lasting, KeptWell
    <2> QED
      BY <1>1, <2>1 DEF GoodFor, ConversationStates
  <1>4. \A i \in DOMAIN r : r[i].turn < turn
    <2>1. \A i \in DOMAIN r : r[i].turn <= turn - 1
      BY <1>1 DEF CInv, Lasting, OlderThanTurn, UpTo
    <2>2. \A i \in DOMAIN r : r[i].turn \in Nat
      <3>1. \A i \in DOMAIN r : r[i] \in Messages
        BY <1>3
      <3> QED
        BY <3>1, BoundAssumption DEF Messages
    <2> QED
      BY <1>1, <2>1, <2>2
  <1>5. /\ Answers \in Seq(Messages) /\ Len(Answers) \in {1, 3}
        /\ \A i \in 1 .. Len(Answers) :
               Answers[i].turn = turn /\ Answers[i].role = "assistant"
    BY AnswersAreTyped
  <1>6. s = Append(r, u) \o Answers
    BY <1>1
  <1> HIDE DEF s, r, u
  <1>7. ClosesWith(turn, s)
    BY <1>1, <1>2, <1>3, <1>4, <1>5, <1>6, AnsweredWindow
  <1>8. ClosesWith(turn, w) /\ Len(w) <= MaxRecentMessages
    BY <1>7, BoundAssumption, CutWindow
  <1> HIDE DEF w
  <1>9. done \in ConversationStates /\ done.active = ActiveTask /\ done.recent = w
    BY <1>8 DEF ConversationStates, ClosesWith
  <1> HIDE DEF done
  <1>10. /\ Completed = [[NoChannels EXCEPT !.conversation = done] EXCEPT !.assistant = turn]
    BY DEF Completed, done, w, s
  <1>11. [NoChannels EXCEPT !.conversation = done] \in TurnChannels
    BY <1>9, NewThreadIsTyped, ChannelUpdates
  <1>12. Completed \in TurnChannels
    BY <1>1, <1>10, <1>11, ChannelUpdates
  <1>13. /\ Completed.conversation = done /\ Completed.prompt = None
         /\ Completed.retrieved = None /\ Completed.assistant = turn
    BY <1>10 DEF NoChannels
  <1>15. turn # None
    BY <1>1, NoneAssumption
  <1>14. w # <<>>
    BY <1>8 DEF ClosesWith
  <1> QED
    BY <1>8, <1>9, <1>12, <1>13, <1>14, <1>15 DEF WithinWindow, EndsWithAnswer, ClosesWith

\* The completed state of a turn: its window, its answer, its active task.
LEMMA CompleteCInv ==
    ASSUME CInv, node \in {"finalize_turn", "persist_editorial_artifacts"},
           Update(Completed, "end"), UNCHANGED <<checkpoint, turns>>,
           artifacts \subseteq artifacts', artifacts' \subseteq Artifacts,
           \A a \in artifacts' : a \in artifacts \/ a.task = turn,
           ActiveTask \in Tasks \cup {None},
           ActiveTask # None => /\ ActiveTask.id <= turn
                                /\ Revisable(ActiveTask)
                                /\ \E a \in artifacts' :
                                       /\ a.conv = conv
                                       /\ a.content = ActiveTask.draft
                                       /\ ActiveTask.status = "reviewed"
                                              => a.task = ActiveTask.id /\ a.producer = "writer"
                                       /\ ActiveTask.status = "revised"
                                              => a.task = ActiveTask.id /\ a.producer = "editor"
    PROVE  CInv'
  <1> DEFINE done == Completed.conversation
  <1>1. /\ Completed \in TurnChannels
        /\ Completed.prompt = None /\ Completed.retrieved = None
        /\ Completed.assistant # None
        /\ done \in ConversationStates /\ done.active = ActiveTask
        /\ WithinWindow(done.recent) /\ Ordered(done.recent)
        /\ Answered(done.recent) /\ Opened(done.recent) /\ EndsWithAnswer(done.recent)
        /\ \A i \in DOMAIN done.recent : done.recent[i].turn <= turn
        /\ done.recent # <<>> /\ done.recent[Len(done.recent)].turn = turn
    BY CompletedIsGood
  <1>2. /\ node' = "end" /\ reason' = reason /\ ch' = Completed /\ saved' = FALSE
        /\ turn' = turn /\ conv' = conv
        /\ \A c \in Conversations : Kept(c)' = Kept(c)
    BY DEF Update, Goto, turn, conv, Kept
  <1>3. reason = None /\ turn \in 1 .. turn
    BY TurnIsTyped DEF CInv, Lasting, ReasonKnown
  <1> HIDE DEF done
  <1>4. TurnTyped' /\ ReasonKnown'
    BY <1>1, <1>2, <1>3 DEF CInv, Lasting, TurnTyped, ReasonKnown, Nodes
  <1>5. Recorded' /\ Durable'
    <2>1. turn > 0 /\ Outcome(turn) = "running"
      BY DEF CInv, Lasting, Recorded
    <2>2. \A a \in artifacts' : a.task \in 1 .. turn /\ Outcome(a.task) # "failed"
      BY <1>3, <2>1 DEF CInv, Lasting, Recorded
    <2> QED
      BY <1>2, <2>1, <2>2 DEF Recorded, Durable, Outcome
  <1>6. KeptWell'
    <2> SUFFICES ASSUME NEW c \in Conversations
                 PROVE  (GoodFor(c, Kept(c)) /\ UpTo(turn, Kept(c)))'
      BY DEF KeptWell
    <2>1. GoodFor(c, Kept(c)) /\ UpTo(turn, Kept(c))
      BY DEF CInv, Lasting, KeptWell
    <2>2. Kept(c).active # None => Stored(c, Kept(c).active)'
      BY <1>2, <2>1 DEF GoodFor, Stored
    <2> QED
      BY <1>2, <2>1, <2>2 DEF GoodFor, UpTo
  <1>7. Completion'
    <2>1. ch'.conversation = done
      BY <1>2 DEF done
    <2>2. ch'.conversation.active # None => Stored(conv, ch.conversation.active)'
      BY <1>1, <1>2, <2>1 DEF Stored
    <2>3. GoodFor(conv, ch.conversation)'
      BY <1>1, <1>2, <2>1, <2>2
      DEF GoodFor, WithinWindow, Ordered, Answered, Opened, IsExchange, EndsWithAnswer,
          Revisable
    <2>4. UpTo(turn, ch.conversation)'
      BY <1>1, <1>2, <2>1 DEF UpTo
    <2> QED
      BY <1>1, <1>2, <2>1, <2>3, <2>4 DEF Completion
  <1>8. AnswersAreRemembered'
    BY <1>2 DEF CInv, Lasting, AnswersAreRemembered, Outcome, Kept, turn
  <1>9. Progressing'
    BY <1>2
    DEF Progressing, TurnPrepared, NothingWritten, Decided, RunPrepared, WorkflowIsOwn,
        ResultIsBack, Choosing, Editing, Finishing, EditorialNodes
  <1> QED
    BY <1>2, <1>4, <1>5, <1>6, <1>7, <1>8, <1>9 DEF CInv, Lasting, OlderThanTurn

\* finalize_turn: of a turn without an editorial run, or on to its artifacts.
LEMMA FinalizeTurnCInv ==
    ASSUME CInv, FinalizeTurn
    PROVE  CInv'
  <1>1. node = "finalize_turn" /\ UNCHANGED Stores
    BY DEF FinalizeTurn
  <1>2. \/ ch.decision = "chat" /\ ch.talkerResponse # None
        \/ ch.decision = "show_retrieved_draft" /\ ch.retrieved # None
    BY <1>1 DEF CInv, Progressing, Decided
  <1>3. HasAnswer
    BY <1>2 DEF HasAnswer
  <1>4. CASE Raise("clock")
    BY <1>1, <1>4, RaiseCInv DEF Causes, Faults
  <1>5. CASE Update(Completed, "end")
    <2>1. /\ ch.turnConversation.active = Known.active
          /\ ch.turnConversation \in ConversationStates
          /\ ch.retrieved # None => ch.retrieved.conv = conv /\ ch.retrieved \in artifacts
      BY <1>1 DEF CInv, Progressing, TurnPrepared, Choosing
    <2>2. conv \in Conversations /\ turn \in Ids /\ turn \in Nat /\ artifacts \subseteq Artifacts
      BY <1>1, TurnIsTyped DEF CInv, Lasting, TurnTyped
    <2>3. UNCHANGED <<checkpoint, artifacts, turns>>
      BY <1>1 DEF Stores
    <2>4. CASE ch.decision = "show_retrieved_draft"
      <3> DEFINE shown == [id |-> turn, status |-> "retrieved",
                           draft |-> ch.retrieved.content, verdict |-> None]
      <3>1. ActiveTask = shown
        BY <2>4 DEF ActiveTask
      <3>2. ch.retrieved # None /\ ch.retrieved \in Artifacts
        BY <1>2, <2>1, <2>2, <2>4
      <3>3. shown.draft \in Texts
        BY <3>2 DEF Artifacts
      <3>4. shown \in Tasks
        BY <2>2, <3>3 DEF Tasks, Statuses
      <3>5. Revisable(shown)
        BY <3>3, <3>4, NoneAssumption DEF Revisable
      <3>6. ActiveTask \in Tasks \cup {None} /\ ActiveTask.id <= turn /\ Revisable(ActiveTask)
        BY <2>2, <3>1, <3>4, <3>5
      <3>7. \E a \in artifacts' :
                /\ a.conv = conv
                /\ a.content = ActiveTask.draft
                /\ ActiveTask.status = "reviewed" => a.task = ActiveTask.id /\ a.producer = "writer"
                /\ ActiveTask.status = "revised" => a.task = ActiveTask.id /\ a.producer = "editor"
        BY <2>1, <2>3, <3>1, <3>2
      <3> QED
        BY <1>1, <1>5, <2>2, <2>3, <3>6, <3>7, CompleteCInv
    <2>5. CASE ch.decision # "show_retrieved_draft"
      <3>1. ActiveTask = Kept(conv).active
        BY <1>1, <2>1, <2>5, KnownIsKept DEF ActiveTask
      <3>2. GoodFor(conv, Kept(conv)) /\ UpTo(turn, Kept(conv))
        BY <2>2 DEF CInv, Lasting, KeptWell
      <3>3. ActiveTask \in Tasks \cup {None}
        BY <2>2, <3>1, KeptIsTyped DEF CInv, Lasting, ConversationStates
      <3>4. ActiveTask # None => ActiveTask.id <= turn /\ Revisable(ActiveTask)
        BY <3>1, <3>2 DEF GoodFor, UpTo
      <3>5. ActiveTask # None =>
              \E a \in artifacts' :
                /\ a.conv = conv
                /\ a.content = ActiveTask.draft
                /\ ActiveTask.status = "reviewed" => a.task = ActiveTask.id /\ a.producer = "writer"
                /\ ActiveTask.status = "revised" => a.task = ActiveTask.id /\ a.producer = "editor"
        BY <2>3, <3>1, <3>2 DEF GoodFor, Stored
      <3> QED
        BY <1>1, <1>5, <2>2, <2>3, <3>3, <3>4, <3>5, CompleteCInv
    <2> QED
      BY <2>4, <2>5
  <1> QED
    BY <1>3, <1>4, <1>5 DEF FinalizeTurn

\* The artifacts are committed with the end of the turn.
LEMMA PersistCInv ==
    ASSUME CInv, PersistEditorialArtifacts
    PROVE  CInv'
  <1>1. node = "persist_editorial_artifacts" /\ UNCHANGED <<checkpoint, turns>>
        /\ node \in Finishing
    BY DEF PersistEditorialArtifacts, Finishing
  <1>2. /\ ch.result \in Results /\ ValidResult(ch.result)
        /\ ch.turnConversation.active = FinishedTask
        /\ ch.task.id = turn
        /\ ch.decision \in {"start_writing_task", "revise_task"}
    BY <1>1 DEF CInv, Progressing, RunPrepared, ResultIsBack
  <1>3. HasAnswer
    BY <1>2, NoneIsNothing DEF HasAnswer
  <1>4. CASE UNCHANGED artifacts /\ (Raise("clock") \/ Raise("artifact_store"))
    BY <1>1, <1>4, RaiseCInv DEF Causes, Faults, Stores
  <1>5. CASE Ledger!Save(RunOutputs) /\ Update(Completed, "end")
    <2>1. artifacts' = artifacts \cup RunOutputs
      BY <1>5 DEF Ledger!Save
    <2>2. conv \in Conversations /\ turn \in Ids /\ turn \in Nat /\ artifacts \subseteq Artifacts
      BY <1>1, TurnIsTyped DEF CInv, Lasting, TurnTyped
    <2>3. ch.result.writer \in Texts /\ ch.result.draft \in Texts /\ ch.result.revised \in BOOLEAN
          /\ ch.result.verdict \in Verdicts
      BY <1>2 DEF Results
    <2> DEFINE written == Artifact("writer", ch.result.writer)
               edited == Artifact("editor", ch.result.draft)
    <2>4. /\ written \in Artifacts /\ written.task = turn /\ written.conv = conv
          /\ written.producer = "writer" /\ written.content = ch.result.writer
          /\ edited \in Artifacts /\ edited.task = turn /\ edited.conv = conv
          /\ edited.producer = "editor" /\ edited.content = ch.result.draft
      BY <1>2, <2>2, <2>3 DEF Artifact, Artifacts
    <2>5. RunOutputs = {written} \cup IF ch.result.revised THEN {edited} ELSE {}
      BY DEF RunOutputs
    <2> HIDE DEF written, edited
    <2>6. /\ artifacts \subseteq artifacts' /\ artifacts' \subseteq Artifacts
          /\ \A a \in artifacts' : a \in artifacts \/ a.task = turn
          /\ written \in artifacts'
          /\ ch.result.revised => edited \in artifacts'
      BY <2>1, <2>2, <2>4, <2>5
    <2>7. ActiveTask = FinishedTask
      BY <1>2 DEF ActiveTask
    <2>8. /\ FinishedTask \in Tasks /\ FinishedTask.id = turn
          /\ FinishedTask.draft = ch.result.draft
          /\ FinishedTask.verdict = ch.result.verdict
          /\ FinishedTask.status = IF ch.result.revised THEN "revised" ELSE "reviewed"
      BY <1>1, FinishedTaskIsTyped
    <2>9. Revisable(FinishedTask)
      BY <2>3, <2>8, NoneAssumption, NoneIsNothing DEF Revisable
    <2>10. \E a \in artifacts' :
              /\ a.conv = conv
              /\ a.content = FinishedTask.draft
              /\ FinishedTask.status = "reviewed"
                     => a.task = FinishedTask.id /\ a.producer = "writer"
              /\ FinishedTask.status = "revised"
                     => a.task = FinishedTask.id /\ a.producer = "editor"
      <3>1. CASE ch.result.revised
        BY <2>4, <2>6, <2>8, <3>1
      <3>2. CASE ~ch.result.revised
        <4>1. ch.result.draft = ch.result.writer
          BY <1>2, <3>2 DEF ValidResult
        <4> QED
          BY <2>4, <2>6, <2>8, <3>2, <4>1
      <3> QED
        BY <3>1, <3>2
    <2> HIDE DEF FinishedTask
    <2>11. FinishedTask.id <= turn
      BY <2>2, <2>8
    <2>12. /\ ActiveTask \in Tasks \cup {None}
           /\ ActiveTask.id <= turn /\ Revisable(ActiveTask)
      BY <2>7, <2>8, <2>9, <2>11
    <2>13. \E a \in artifacts' :
              /\ a.conv = conv
              /\ a.content = ActiveTask.draft
              /\ ActiveTask.status = "reviewed" => a.task = ActiveTask.id /\ a.producer = "writer"
              /\ ActiveTask.status = "revised" => a.task = ActiveTask.id /\ a.producer = "editor"
      BY <2>7, <2>10
    <2>14. /\ artifacts \subseteq artifacts' /\ artifacts' \subseteq Artifacts
           /\ \A a \in artifacts' : a \in artifacts \/ a.task = turn
      BY <2>6
    <2> QED
      BY <1>1, <1>5, <2>12, <2>13, <2>14, CompleteCInv DEF Finishing
  <1> QED
    BY <1>3, <1>4, <1>5 DEF PersistEditorialArtifacts

-----------------------------------------------------------------------------
\* Every step keeps the invariant.
LEMMA StepCInv == CInv /\ [Next]_vars => CInv'
  <1> SUFFICES ASSUME CInv, [Next]_vars PROVE CInv'
    OBVIOUS
  <1>1. CASE RunNode
    BY <1>1, ValidateCInv, CoordinatorAgentCInv, CoordinatorToolsCInv, TalkerCInv,
       PrepareNewTaskCInv, PrepareRevisionCInv, EnterCInv, EditorialCInv, LeaveCInv,
       FinalizeTaskCInv, PersistCInv, FinalizeTurnCInv
    DEF RunNode
  <1>2. CASE UNCHANGED vars
    <2>1. /\ UNCHANGED <<node, reason, sub, ch, saved, checkpoint, artifacts, turns>>
          /\ turn' = turn /\ conv' = conv
      BY <1>2 DEF vars, turn, conv
    <2>2. Lasting'
      <3>1. TurnTyped' /\ ReasonKnown' /\ Recorded' /\ Durable'
        BY <2>1 DEF CInv, Lasting, TurnTyped, ReasonKnown, Recorded, Durable, Outcome
      <3>2. KeptWell' /\ AnswersAreRemembered'
        <4>1. \A c \in Conversations : Kept(c)' = Kept(c)
          BY <2>1 DEF Kept
        <4> QED
          BY <2>1, <4>1, KeptStays
      <3>3. OlderThanTurn'
        BY <2>1 DEF CInv, Lasting, OlderThanTurn, UpTo, Kept
      <3>4. Completion'
        BY <2>1 DEF CInv, Lasting, Completion, GoodFor, Stored, UpTo
      <3> QED
        BY <3>1, <3>2, <3>3, <3>4 DEF Lasting
    <2>3. Progressing'
      BY <2>1
      DEF CInv, Progressing, TurnPrepared, NothingWritten, Decided, RunPrepared, RightDraft,
          WorkflowIsOwn, ResultIsBack, Known, Message, FinishedTask, Kept,
          EInv, Typed, SameRun, Progress, HasStaleOutput, HasWriter, HasCritic,
          Unchanged, Built
    <2> QED
      BY <2>2, <2>3 DEF CInv
  <1> QED
    BY <1>1, <1>2, ReceiveCInv, AnswerCInv, FailCInv, SaveCInv, CheckpointFailsCInv,
       CrashCInv
    DEF Next, Step

\* The invariant holds in every behaviour of the conversation graph.
THEOREM ConversationInductive == Spec => []CInv
  BY InitCInv, StepCInv, PTL DEF Spec

\* The channels, the checkpoints and the artifacts keep their types, the
\* coordinator's rounds and the windows their limits.
THEOREM ConversationTypes == Spec => []TypeOK
  <1>1. CInv => TypeOK
    <2> SUFFICES ASSUME CInv PROVE TypeOK
      OBVIOUS
    <2>1. /\ node \in Nodes /\ saved \in BOOLEAN /\ artifacts \subseteq Artifacts
          /\ ch \in TurnChannels /\ checkpoint \in [Conversations -> TurnChannels]
      BY DEF CInv, Lasting, TurnTyped
    <2>2. reason \in {None} \cup Faults \cup Rejections
      BY DEF CInv, Lasting, ReasonKnown, Causes
    <2>3. ASSUME NEW c \in Conversations, checkpoint[c].conversation # None
          PROVE  /\ checkpoint[c].conversation \in ConversationStates
                 /\ Len(checkpoint[c].conversation.recent) <= MaxRecentMessages
      <3>1. Kept(c) = checkpoint[c].conversation
        BY <2>3 DEF Kept
      <3> QED
        BY <3>1, KeptIsTyped DEF CInv, Lasting, KeptWell, GoodFor, WithinWindow
    <2>4. /\ ch.decision \in Routes \cup {None} /\ ch.steps \in 0 .. MaxToolRounds
          /\ ch.retrieved \in Artifacts \cup {None}
          /\ ch.task \in Tasks \cup {None} /\ ch.result \in Results \cup {None}
      BY <2>1 DEF TurnChannels
    <2> QED
      BY <2>1, <2>2, <2>3, <2>4
      DEF TypeOK, Nodes, Choosing, Editing, Finishing, EditorialNodes
  <1> QED
    BY <1>1, ConversationInductive, PTL

\* Nothing an earlier turn left in the checkpoint makes a turn fail.
THEOREM Leftovers == Spec => []NoLeftovers
  <1>1. CInv => NoLeftovers
    BY CausesAreNoInconsistencies, NoneIsNothing DEF CInv, Lasting, ReasonKnown, NoLeftovers
  <1> QED
    BY <1>1, ConversationInductive, PTL

\* The prompt, the tool rounds and the loaded draft are of the turn that runs,
\* and the draft is of its conversation.
THEOREM OwnRetrieval == Spec => []TurnUsesItsOwnRetrieval
  <1>1. CInv => TurnUsesItsOwnRetrieval
    <2> SUFFICES ASSUME CInv, node \notin {"idle", "failed", "validate_and_prepare_turn"}
                 PROVE  /\ ch.prompt \in {None, turn}
                        /\ ch.retrieved # None => /\ ch.retrieved.conv = conv
                                                  /\ ch.retrieved \in artifacts
                                                  /\ ch.searched
                                                  /\ ch.steps > 0
      BY DEF TurnUsesItsOwnRetrieval
    <2>1. CASE node = "end"
      BY <2>1 DEF CInv, Lasting, Completion
    <2>2. CASE node # "end"
      <3>1. node \in Choosing \cup Editing \cup Finishing
        BY <2>2 DEF CInv, Lasting, TurnTyped, Nodes
      <3> QED
        BY <3>1 DEF CInv, Progressing, TurnPrepared
    <2> QED
      BY <2>1, <2>2
  <1> QED
    BY <1>1, ConversationInductive, PTL

\* A revision works on the active draft of the conversation and no retrieval
\* came before it, a transformation on the draft that was loaded, a new task on
\* none (conversation.py:198-206).
THEOREM RightDrafts == Spec => []RunsWorkOnTheRightDraft
  <1>1. CInv => RunsWorkOnTheRightDraft
    <2> SUFFICES ASSUME CInv, node \in EditorialNodes \cup {"finalize_task"}
                 PROVE  LET run == ch.context IN
                        /\ run.operation = "active_revision" =>
                               /\ ch.steps = 0
                               /\ run.task.draft = Kept(conv).active.draft
                               /\ run.task.id # Kept(conv).active.id
                        /\ run.operation = "historical_transformation" =>
                               run.task.draft = ch.retrieved.content
                        /\ run.operation = "new_task" => ch.steps = 0 /\ run.task.draft = None
      BY DEF RunsWorkOnTheRightDraft
    <2>1. /\ RightDraft /\ ch.task = ch.context.task /\ ch.task.id = turn
          /\ node \notin {"idle", "failed", "end"}
      BY DEF CInv, Progressing, RunPrepared, Editing, Finishing, EditorialNodes
    <2>2. UpTo(turn - 1, Kept(conv))
      BY <2>1 DEF CInv, Lasting, OlderThanTurn
    <2>3. turn \in Nat /\ Kept(conv) \in ConversationStates
      BY <2>1, TurnIsTyped, KeptIsTyped DEF CInv, Lasting
    <2>4. Kept(conv).active # None => Kept(conv).active.id # turn
      <3> SUFFICES ASSUME Kept(conv).active # None PROVE Kept(conv).active.id # turn
        OBVIOUS
      <3>1. Kept(conv).active.id \in Nat /\ Kept(conv).active.id <= turn - 1
        BY <2>2, <2>3, BoundAssumption DEF UpTo, ConversationStates, Tasks
      <3> QED
        BY <2>3, <3>1
    <2> QED
      BY <2>1, <2>4 DEF RightDraft
  <1> QED
    BY <1>1, ConversationInductive, PTL

\* What the user works on is in the corpus.
THEOREM ActiveDrafts == Spec => []ActiveDraftIsStored
  <1>1. CInv => ActiveDraftIsStored
    BY DEF CInv, Lasting, KeptWell, GoodFor, Stored, ActiveDraftIsStored
  <1> QED
    BY <1>1, ConversationInductive, PTL

\* An active task can always be revised (README.md:198-200).
THEOREM ActiveTasks == Spec => []ActiveTaskIsRevisable
  <1>1. CInv => ActiveTaskIsRevisable
    BY DEF CInv, Lasting, KeptWell, GoodFor, ActiveTaskIsRevisable
  <1> QED
    BY <1>1, ConversationInductive, PTL

\* An answer was durable before it was given.
THEOREM AnswersRemembered == Spec => []AnswersAreRemembered
  <1>1. CInv => AnswersAreRemembered
    BY DEF CInv, Lasting
  <1> QED
    BY <1>1, ConversationInductive, PTL

\* The window holds whole exchanges in their order: a user's message with all
\* the answers of its turn, and only the first may have lost its beginning.
THEOREM Windows == Spec => []WindowIsOrdered
  <1>1. CInv => WindowIsOrdered
    <2> SUFFICES ASSUME CInv, NEW c \in Conversations
                 PROVE  LET recent == Kept(c).recent IN
                        /\ recent # <<>> => recent[Len(recent)].role = "assistant"
                        /\ \A i, k \in DOMAIN recent : i < k => recent[i].turn <= recent[k].turn
                        /\ \A i \in DOMAIN recent :
                               recent[i].role = "user" =>
                                   \E n \in {1, 3} : IsExchange(recent, i, n)
                        /\ \A i \in 2 .. Len(recent) :
                               recent[i].turn # recent[i - 1].turn => recent[i].role = "user"
      BY DEF WindowIsOrdered
    <2>1. /\ Ordered(Kept(c).recent) /\ Answered(Kept(c).recent)
          /\ Opened(Kept(c).recent) /\ EndsWithAnswer(Kept(c).recent)
      BY DEF CInv, Lasting, KeptWell, GoodFor
    <2> QED
      BY <2>1, Zenon DEF Ordered, Answered, Opened, EndsWithAnswer
  <1> QED
    BY <1>1, ConversationInductive, PTL

\* A turn that failed has no artifacts (README.md:390-391).
THEOREM FailedRuns == Spec => []FailedRunsLeaveNoArtifacts
  <1>1. CInv => FailedRunsLeaveNoArtifacts
    BY DEF CInv, Lasting, Recorded, FailedRunsLeaveNoArtifacts
  <1> QED
    BY <1>1, ConversationInductive, PTL

\* The workflow's results are canonical inside a conversation too, where each
\* run starts from what the turns before it left.
THEOREM CanonicalInConversation == Spec => []ResultIsCanonical
  <1>1. CInv => ResultIsCanonical
    <2>1. CInv /\ node = "edited" => EInv
      BY DEF CInv, Progressing, WorkflowIsOwn, EditorialNodes
    <2> QED
      BY <2>1, BuiltIsCanonical DEF ResultIsCanonical
  <1> QED
    BY <1>1, ConversationInductive, PTL

\* A conversation only changes when a turn of it is complete, all at once.
THEOREM ChangesAtCompletion == Spec => ConversationChangesAtCompletion
  <1>1. CInv /\ [Next]_vars =>
            [\A c \in Conversations :
                 checkpoint'[c].conversation # checkpoint[c].conversation =>
                     node = "end" /\ c = conv]_vars
    <2> SUFFICES ASSUME CInv, [Next]_vars, NEW c \in Conversations,
                        checkpoint'[c].conversation # checkpoint[c].conversation
                 PROVE  node = "end" /\ c = conv
      OBVIOUS
    <2>1. \/ SaveCheckpoint
          \/ FailTurn /\ checkpoint' = [checkpoint EXCEPT ![conv] = ch]
             /\ reason # "checkpoint"
          \/ checkpoint' = checkpoint
      BY DEF Next, Step, RunNode, ReceiveMessage, ValidateAndPrepareTurn, CoordinatorAgent,
             CoordinatorTools, Talker, PrepareNewTask, PrepareRevision, EnterEditorial,
             EditorialStep, LeaveEditorial, FinalizeTask, PersistEditorialArtifacts,
             FinalizeTurn, AnswerTurn, FailTurn, CheckpointFails, Crash, Stores, vars
    <2>2. CASE SaveCheckpoint
      <3>1. /\ node \notin {"idle", "failed"}
            /\ checkpoint' = [checkpoint EXCEPT ![conv] = ch]
        BY <2>2 DEF SaveCheckpoint
      <3>2. reason # "checkpoint"
        BY <3>1, NoneAssumption DEF CInv, Lasting, ReasonKnown, Faults
      <3> QED
        BY <3>1, <3>2, WrittenCheckpoint
    <2>3. CASE FailTurn /\ checkpoint' = [checkpoint EXCEPT ![conv] = ch]
               /\ reason # "checkpoint"
      <3>1. node # "idle"
        BY <2>3 DEF FailTurn
      <3> QED
        BY <2>3, <3>1, WrittenCheckpoint
    <2>4. CASE checkpoint' = checkpoint
      BY <2>4
    <2> QED
      BY <2>1, <2>2, <2>3, <2>4
  <1> QED
    BY <1>1, ConversationInductive, PTL DEF Spec, ConversationChangesAtCompletion
=============================================================================
