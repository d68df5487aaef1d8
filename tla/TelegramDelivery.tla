-------------------------- MODULE TelegramDelivery ---------------------------
(***************************************************************************)
(* What becomes of an update: start(), handle_text(), _process_turn() and  *)
(* _send_messages() of src/src/editorial_team/interfaces/telegram.py, from *)
(* the submission to the queue to the last chunk of the answer.            *)
(*                                                                         *)
(* Updates are handled one after the other (concurrent_updates(False));    *)
(* the runtime queue takes, refuses and settles a job as SerialExecutor    *)
(* says.  The service answers with one message or with three, durable by   *)
(* then (AnswersAreRemembered of ConversationGraph), or raises.  A call    *)
(* of the bot that fails may have reached the chat.                        *)
(***************************************************************************)
EXTENDS TextChunks

CONSTANTS
    MaxUpdates,   \* bound: updates received
    Texts         \* contents a message of an answer may have

\* A Message is stripped (domain/conversation.py:40).
IsTrimmed(content) == content # <<>> /\ Head(content) = Letter /\ Last(content) = Letter

ASSUME DeliveryAssumption ==
    /\ MaxUpdates \in Nat
    /\ \A content \in Texts : content \in Seq(Characters) /\ IsTrimmed(content)

VARIABLES
    fates,     \* what became of each update
    durable,   \* messages of the answer to each, in the checkpoint
    at,        \* where the update in hand is
    message,   \* the message of its answer that is being sent ...
    text,      \* ... its content ...
    chunks,    \* ... its chunks ...
    sent,      \* ... and how many of them have been sent
    chat       \* history: what the user got, in its order

vars == <<fates, durable, at, message, text, chunks, sent, chat>>

update == Len(fates)

AnswerSizes == {1, 3}
Fates == {"pending", "ignored", "greeted", "refused", "silent", "completed", "failed", "crashed"}

TypeOK ==
    /\ fates \in Seq(Fates)
    /\ durable \in Seq({0} \cup AnswerSizes) /\ Len(durable) = update
    /\ at \in {"idle", "start", "submitted", "service", "apology", "busy", "chunking", "sending",
               "handoff"}
    /\ message \in 0 .. Max(AnswerSizes)
    /\ text \in Texts \cup {<<>>}

Init ==
    /\ fates = <<>> /\ durable = <<>>
    /\ at = "idle"
    /\ message = 0 /\ text = <<>> /\ chunks = <<>> /\ sent = 0
    /\ chat = <<>>

-----------------------------------------------------------------------------
(* The handler.                                                            *)

Sending == <<message, text, chunks, sent>>

\* The handler returns or raises.
End(fate) ==
    /\ fates' = [fates EXCEPT ![update] = fate]
    /\ at' = "idle"
    /\ message' = 0 /\ text' = <<>> /\ chunks' = <<>> /\ sent' = 0

\* A text or the /start command; _supported_chat() and the checks before it
\* decide at once.
ReceiveUpdate ==
    /\ at = "idle"
    /\ update < MaxUpdates
    /\ \/ fates' = Append(fates, "ignored") /\ at' = "idle"
       \/ fates' = Append(fates, "pending") /\ at' \in {"start", "submitted"}
    /\ durable' = Append(durable, 0)
    /\ UNCHANGED <<Sending, chat>>

\* submit() takes the job, finds no room, or finds the queue closed or not
\* started; the last is not caught.
Submit ==
    /\ at = "submitted"
    /\ \/ at' \in {"service", "busy"} /\ UNCHANGED <<fates, Sending>>
       \/ End("silent")
    /\ UNCHANGED <<durable, chat>>

Notice(kind) == [update |-> update, kind |-> kind]
Reply == [update |-> update, kind |-> "answer", message |-> message,
          part |-> sent + 1, last |-> sent + 1 = Len(chunks)]

\* A call of the bot returns, or raises though the chat may have got it.
Call(reply) == chat' = Append(chat, reply)
CallFails(reply) == chat' \in {chat, Append(chat, reply)} /\ End("failed")

\* start() answers without a turn.
SendOnboarding ==
    /\ at = "start"
    /\ \/ Call(Notice("onboarding")) /\ End("greeted")
       \/ CallFails(Notice("onboarding"))
    /\ UNCHANGED durable

SendBusy ==
    /\ at = "busy"
    /\ \/ Call(Notice("busy")) /\ End("refused")
       \/ CallFails(Notice("busy"))
    /\ UNCHANGED durable

\* The content of a message is looked at when it is its turn.
BeginMessage(n) ==
    /\ at' = "chunking"
    /\ message' = n
    /\ text' \in Texts
    /\ chunks' = <<>> /\ sent' = 0
    /\ UNCHANGED fates

\* process_message(), in a thread.
ServiceAnswers ==
    /\ at = "service"
    /\ \E size \in AnswerSizes : durable' = [durable EXCEPT ![update] = size]
    /\ BeginMessage(1)
    /\ UNCHANGED chat

ServiceFails ==
    /\ at = "service"
    /\ at' = "apology"
    /\ UNCHANGED <<fates, durable, Sending, chat>>

SendApology ==
    /\ at = "apology"
    /\ \/ Call(Notice("error")) /\ End("completed")
       \/ CallFails(Notice("error"))
    /\ UNCHANGED durable

-----------------------------------------------------------------------------
(* _send_messages()                                                        *)

Chunk ==
    /\ at = "chunking"
    /\ IF ChunkText(text) = NoChunks THEN End("failed")
       ELSE /\ chunks' = ChunkText(text)
            /\ at' = "sending"
            /\ UNCHANGED <<fates, message, text, sent>>
    /\ UNCHANGED <<durable, chat>>

SendChunkRetried ==  \* mutant: a chunk whose call failed is sent once more
    /\ at = "sending" /\ sent < Len(chunks)
    /\ \/ Call(Reply) \/ chat' = chat \o <<Reply, Reply>>
    /\ sent' = sent + 1
    /\ UNCHANGED <<fates, durable, at, message, text, chunks>>

SendChunkOrApologize ==  \* mutant: the handler of process_message() is around delivery, too
    /\ at = "sending" /\ sent < Len(chunks)
    /\ \/ /\ Call(Reply)
          /\ sent' = sent + 1
          /\ UNCHANGED <<fates, at, message, text, chunks>>
       \/ /\ chat' \in {chat, Append(chat, Reply)}
          /\ at' = "apology"
          /\ UNCHANGED <<fates, Sending>>
    /\ UNCHANGED durable

SendChunk ==
    /\ at = "sending" /\ sent < Len(chunks)
    /\ \/ /\ Call(Reply)
          /\ sent' = sent + 1
          /\ UNCHANGED <<fates, at, message, text, chunks>>
       \/ CallFails(Reply)
    /\ UNCHANGED durable

\* The last message ends the job.
EndMessage ==
    /\ at = "sending" /\ sent = Len(chunks)
    /\ IF message < durable[update]
       THEN at' = "handoff" /\ UNCHANGED <<fates, Sending>>
       ELSE End("completed")
    /\ UNCHANGED <<durable, chat>>

\* send_chat_action() and the pause before another message.
HandOff ==
    /\ at = "handoff"
    /\ BeginMessage(message + 1) \/ End("failed")
    /\ UNCHANGED <<durable, chat>>

-----------------------------------------------------------------------------
\* The process ends, and what was in memory with it: also between the
\* checkpoint of an answer and its delivery.
Crash ==
    /\ at # "idle"
    /\ End("crashed")
    /\ \/ UNCHANGED durable
       \/ /\ at = "service"
          /\ \E size \in AnswerSizes : durable' = [durable EXCEPT ![update] = size]
    /\ UNCHANGED chat

Next ==
    \/ ReceiveUpdate \/ SendOnboarding \/ Submit \/ SendBusy
    \/ ServiceAnswers \/ ServiceFails \/ SendApology
    \/ Chunk \/ SendChunk \/ EndMessage \/ HandOff
    \/ Crash

Spec == Init /\ [][Next]_vars

-----------------------------------------------------------------------------
\* Where the chat has the replies to update u.
Got(u) == {i \in DOMAIN chat : chat[i].update = u}
GotAll(u) ==
    \E i \in Got(u) : /\ \A k \in Got(u) : k <= i
                      /\ chat[i].kind = "answer" /\ chat[i].message = durable[u] /\ chat[i].last

\* "Split plain text without loss" (telegram.py:81), into messages that
\* Telegram takes.
SplitsWithoutLoss == at = "sending" => AreChunksOf(chunks, text)

\* An answer that is durable is lost to the user only by a failing call, a
\* crash, or as many blanks in a row as a chunk is long: there chunk_text()
\* raises after the turn is complete, and nobody is told (telegram.py:293-307).
OrdinaryTextsAreSent ==
    [][at = "chunking" /\ IsOrdinary(text) => fates'[update] # "failed"]_vars

\* One reply after another, nothing missing between them.
Begins(reply) == reply.kind = "answer" => reply.message = 1 /\ reply.part = 1
Follows(reply, next) ==
    IF next.update > reply.update THEN Begins(next)
    ELSE /\ next.update = reply.update
         /\ reply.kind = "answer" /\ next.kind = "answer"
         /\ IF reply.last THEN next.message = reply.message + 1 /\ next.part = 1
            ELSE next.message = reply.message /\ next.part = reply.part + 1

\* The chat has the updates in their order, and of each the messages and
\* their chunks in their order, without a gap and none twice; only the last
\* message it has of an update may lack its end.
AnswersArriveInOrder ==
    /\ chat # <<>> => Begins(Head(chat))
    /\ \A i \in 1 .. Len(chat) - 1 : Follows(chat[i], chat[i + 1])

\* The job tells what the user got: a completed one is a whole answer that
\* the conversation remembers or one apology and no trace in the
\* conversation; nothing else does, and half an answer is never followed by
\* a notice (telegram.py:282-315).
FateIsHonest(u) ==
    /\ fates[u] = "completed" =>
           IF durable[u] = 0 THEN \E i \in Got(u) : Got(u) = {i} /\ chat[i].kind = "error"
           ELSE GotAll(u)
    /\ fates[u] \in {"ignored", "silent"} => Got(u) = {}
    /\ (\E i \in Got(u) : chat[i].kind = "answer") <=> durable[u] > 0 /\ Got(u) # {}
FatesAreHonest == \A u \in 1 .. update : FateIsHonest(u)
=============================================================================
