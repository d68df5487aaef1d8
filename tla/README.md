# Verification of editorial-team

TLA+ models of the concurrent, transactional and stateful parts of the editorial
team (`src/`), TLC configurations that check them on small instances, and proofs
checked by TLAPS for every value of the constants. Paths below are relative to
`src/src/editorial_team/` unless they start with `src/`.

## 1. The system

A Telegram bot in which four language-model agents (Coordinator, Writer, Critic,
Editor) and a Talker serve one user message at a time. A message becomes a job of
a bounded in-process queue; the job runs a LangGraph workflow whose state is
checkpointed in SQLite; completed editorial runs save immutable artifacts in a
second SQLite database, which later messages search. A heartbeat looks at the
queue from time to time and alerts a maintainer through a third database and the
bot.

```
 Telegram update --submit()--> Runtime queue --one job at a time--> process_message()
        ^                        ^    |                                   |
        |                        |    '--stats()--> collector             v
   answers, alerts               |                     |         conversation graph
        ^                   run_once() <---------------'           |            |
        |                        ^                          editorial       checkpoint
   notifier <--evaluate, store---'                          workflow          (SQLite)
                                 |                                 |
                       scheduler (loop, trigger_now())        artifact store (SQLite)
```

### Inventory

| Component | State it keeps | Operations | What is hard about it | What makes it correct |
|---|---|---|---|---|
| Runtime queue (`runtime/queue.py`) | asyncio queue, `_accepting`, `_closed`, worker task, counters, one future per job | `start`, `submit`, `close`, the worker loop, cancellation of a submitter | interleaving of coroutines at every await; the sentinel; the unfinished count; an operation that raises a `BaseException`; full queue | serial, FIFO, every call gets one final answer, `close()` drains and ends |
| Conversation graph (`graphs/conversation.py`) | channels of a turn, durable conversation (window, active task), checkpoint | twelve nodes, three routers, tool rounds | channels a failed or crashed turn leaves in the checkpoint; the commit of artifacts before the checkpoint of the turn; any agent answer at any point | leftovers never disturb a turn, durable state only changes when a turn completes, the active draft is in the corpus |
| Editorial workflow (`graphs/editorial.py`) | its copy of the channels | Writer, Critic, Editor, two result builders | outputs matched to runs by identifiers; a transformation that returns its input | canonical results; consistency checks never fire |
| Conversation service (`conversation/service.py`) | none | `process_message`, `close` | what is durable when the answer is given | an answer is never forgotten |
| Checkpointing (`graphs/checkpointing.py`) | the checkpoint database | open, set up, close | failure at each step, while the store is open already | nothing ready for use is left open |
| Composition (`app/composition.py`) | the two open databases | `build_live_application_from_env`, `build_conversation_service`, `close_resources` | handlers of `Exception` and of `BaseException`, a `close()` that raises inside one | a failed composition gives back what it opened; databases stay open as long as a turn may use them |
| Retrieval evaluation (`evaluation/retrieval_*.py`) | a report | one case searched with and without reranking, scored, compared | scores at the boundaries of k, sentences deduced from four rankings | scores are those of the search they are reported for; findings are true |
| Generation evaluation (`evaluation/generation_*.py`) | rows, the file of judged scores | cases answered and judged with and without reranking, compared | a cache shared by conditions and evaluations, an abort while it is written, the sign of a difference | equal evidence has equal scores; what is called improved is |
| Artifact store (`artifacts/store.py`) | tables `artifacts`, `artifact_chunks` | `save_run`, lookups, search | statements of two processes, failures, locks, replays | whole runs, immutable, idempotent |
| Retrieval (`artifacts/tools.py`, `retrieval.py`, `fusion.py`, `lexical.py`, ...) | none | `search_corpus`, `get_draft`, ranking | scoping to the conversation; order of results | only drafts of the conversation |
| Chunking (`artifacts/chunking.py`, `chunk_text` in `interfaces/telegram.py`) | none | pure functions | boundaries, overlap | nothing lost, exact offsets |
| Telegram adapter (`interfaces/telegram.py`) | lifecycle | `start`, `handle_text`, delivery in chunks, `start_runtime`, `close_runtime` | order of shutdown, partial delivery, a crash between a durable answer and its delivery | a shutdown drains and ends; answers arrive in order, without gaps, once |
| Heartbeat (`operations/*`, `interfaces/admin.py`) | loop task, lock, baseline, result database | loop, `trigger_now`, `run_once`, evaluation, notification, mark | loop against triggers against shutdown; windows of counters; failures between storing, sending and marking | no overlap, alerts justified, `notification_sent` truthful |
| Agents, providers, formatting, tracing | none of interest | model calls, text, logging | outside of model checking | - |

`PROJECT.json` lists every component with its status and every hazard with the
line where it bites.

## 2. Modules

| Module | Models | Checked by | Proved in |
|---|---|---|---|
| `SerialExecutor` | what the queue promises its callers | - | - |
| `RuntimeQueue` | `runtime/queue.py`, await by await | `queue`, `queue_hang` | `RuntimeQueueProofs` |
| `EditorialGraph` | `graphs/editorial.py`, node by node | `conversation` | `EditorialGraphProofs` |
| `ConversationGraph` (extends `EditorialGraph`) | `graphs/conversation.py` around it, `process_message()`, checkpoints, crashes | `conversation`, `conversation_chats` | `ConversationGraphProofs` |
| `ArtifactLedger` | what `save_run()` promises | - | - |
| `ArtifactStore` | `save_run()`, statement by statement, in several processes | `store` | `ArtifactStoreProofs` |
| `Composition` | `app/composition.py`, `initialize()` of the store, `graphs/checkpointing.py`, `close_resources()` | `heartbeat` | `HeartbeatProofs` |
| `Heartbeat` (extends `Composition`, over an instance of `SerialExecutor`) | `operations/*`, submission and lifecycle of `interfaces/telegram.py` | `heartbeat`, `heartbeat_trigger` | `HeartbeatProofs` |
| `TextChunks` | `chunk_text()` of `interfaces/telegram.py` | `delivery` | `TelegramDeliveryProofs` |
| `TelegramDelivery` (extends `TextChunks`) | `start()`, `handle_text()`, `_process_turn()`, `_send_messages()` of `interfaces/telegram.py` | `delivery` | `TelegramDeliveryProofs` |
| `Chunker` | `artifacts/chunking.py`, which divides drafts for the search | `chunker` | `ChunkerProofs` |
| `CorpusSearch` | `artifacts/retrieval.py`, `fusion.py`, the ranking of `lexical.py`, the selection of `store.py` | `search`, `search_window` | `CorpusSearchProofs` |
| `RetrievalEvaluation` (extends `CorpusSearch`) | `evaluation/retrieval_runner.py`, `retrieval_metrics.py`, for one case | `search` | `CorpusSearchProofs` |
| `GenerationEvaluation` | `evaluation/generation_runner.py`, `generation_cache.py` | `generation` | - |

`MC*` modules instantiate constants for TLC. The operators whose comment begins
with `mutant:` are wrong variants of the definition that follows them; each
stands for a plausible bug, and the property it is paired with in `PROJECT.json`
fails when the variant takes the definition's place. They are not part of any
specification.

Two abstractions connect the modules. `RuntimeQueue` implements `SerialExecutor`
(checked with liveness in `queue`, its safety proved for all parameters), and
`Heartbeat` uses `SerialExecutor` in place of the queue. `ArtifactStore`
implements `ArtifactLedger` (checked and proved), and `ConversationGraph` uses the
ledger's `Save` and `Conflicts` as what its persist node sees of the store.

### RuntimeQueue

One action per stretch of code between awaits. `accepting`, `closed`, `worker`,
`queue`, `completed`, `failed` are the attributes of the same names; `unfinished`
is the count asyncio keeps for `join()`; `task[w]` and `current[w]` are the worker
task(s) `start()` may create, of which the model offers several, so that "one
worker" is a theorem and not an assumption; `result[j]` is the future of `submit()`;
`closer[c]` the position of each `close()` call. `accepted` and `started` are history.
`Fatal` is the set of jobs whose operation may raise a `BaseException` that
`_execute()` does not catch (`queue.py:298`); seen by `SerialExecutor`, such a job may run
for ever, so the refinement holds for any `Fatal`. `last_success_at` and the trace
events are left out, as are the cancellation of `close()` itself and the refusals of an
invalid source, correlation id or operation (`queue.py:251-260`), which change nothing.

### EditorialGraph and ConversationGraph

A state is "node `node` is about to run on the channels". Texts and identifiers are
members of small sets: the code only compares them. Every answer an agent may give
is a disjunct, a malformed answer is the agent's failure. The identifiers made in a
turn are the turn's number. `ch` holds the channels in memory, `checkpoint[c]` the
last ones written, `saved` tells whether the last node's are. LangGraph is external
code: it writes the checkpoint of a finished node in the background
(`SaveCheckpoint`), may fail to (`CheckpointFails`), waits for it before `invoke()`
returns, and starts the next `invoke()` at the entry node on the last checkpoint,
which is why half-finished turns matter. `Update` is how LangGraph takes over what a node
returns; `Raise` is a node, or one of the helpers it calls (`conversation.py:641-677`), that raises.
`Crash` ends the process anywhere.
The composition with a retriever is modelled (`app/composition.py:154-168`); without
one the tool rounds do not exist.

### ArtifactStore

`rows` and `chunked` are the committed tables, `tx` the view of the one transaction
that SQLite's write lock (`BEGIN IMMEDIATE`) admits, `call[w]` the `save_run()` call
of each process. Statements may fail, the lock may time out, a process may stop,
also between the commit and the moment it hears of it.

### Heartbeat

`caller` is what the loop and each `trigger_now()` call are doing, `lock` the FIFO
`_run_lock`: one that finds it free takes it at once, and since `run_once()` does not suspend
before its submission (`scheduler.py:82-86`, `runner.py:47-51`), a caller goes in one step from asking
for the lock to the submitted heartbeat. `trigger_now()` needs a scheduler, that is, a composition that
is complete (`composed = "live"`). `runs` are the heartbeats begun with the snapshot each took and the stage it
reached, `counted` and `baseline` the counters of Telegram jobs and the collector's
copy, `stored`, `sent` and `delivered` the database rows, those marked, and what the
maintainer got. `app` follows `start_runtime()` and `close_runtime()`. The admin agent
may answer anything; the policy check decides. The clock may lag behind the last
success, which makes a snapshot invalid after the baseline has moved. A failed send
may have reached the maintainer, a failed mark may have been committed.

### Composition

`composed` is the step of the composition that comes next; each step succeeds, or raises an
Exception or another BaseException, and the failure action of the step does what the handlers
around it do. `open` are the databases whose connection is open, `unclosed` those whose `close()`
was called and raised. `Heartbeat` runs it before anything else and closes the service with
`CloseResources` at the end, so that a database is related to the turns that use it
(`DatabasesOutliveTurns`).

### TextChunks and TelegramDelivery

A text is a sequence of letters, spaces and newlines; `Chunked` is the loop of `chunk_text()`
as a recursive function of a round of it (what was cut, what is left), and `AreChunksOf` is
the reference it is compared with. `TelegramDelivery` follows one update after the other:
`at` is where the handler is, `durable` how many messages of the answer the checkpoint
has, `chat` what the user got. Any call of the bot may raise, and a call that raises may
have reached the chat; the process may end anywhere. The queue appears by its three
replies and the service by an answer of one message, of three, or an exception. The names
of conversations and the topic arguments of a call are left out.

### Chunker

A draft is a sequence of symbols: a word, a mark that ends a sentence, a heading line,
white space at the end of a line, and a paragraph break; a span is a pair of offsets.
The regular expressions are modelled by where they match in such sequences. The
specification chooses a draft, groups it into units (paragraphs joined with their
headings, oversized ones divided), and packs one chunk per step. Token counts are numbers of words
and marks, as `_token_count()` has it. Termination is part of
`ChunksRespectLimits`: there are never more chunks than units. A chunk repeats no more than the
overlap of the one before it, unless what it repeats is one of `PiecesTwice` (see observations):
with an overlap of zero, which `__init__()` admits, a heading slice may be joined with such a
piece and the piece come again. The bounds of the run do not show that case; the attempt to prove
the property for all limits did.

### CorpusSearch

Embeddings and BM25 appear as the two weak orders in which they may put the chunks:
any pair of them is a behaviour, as are equal scores. Time is counted in half seconds and
compared the way the text is (`AsText`), artifacts are saved between searches, and the
order in which Python walks a set is any order. Every sort key is the tuple the code
builds. The cache of vectors is left out (its entries are functions of the chunk), as are
the bodies of the snippets.

### GenerationEvaluation

Cases are numbered in their order; what is retrieved for a case is any function of the case
and the condition. An answer and a score are anything the models may say; a key of the cache
holds what is judged and not the condition, so that equal evidence has equal scores. An
evaluation may abort anywhere, also while the file of the cache is written, which makes it
empty for the next one. The finding of its run is about the comparison alone: it depends
neither on the cache nor on the aborts, which say what a report may be made from.

### RetrievalEvaluation

One case is a request with its golden chunks, searched twice in the store as it is at that
moment. Scores are fractions, the logarithms of nDCG whole numbers that fall as they do;
the sentences of the report are the names in `Analysis`, and `FindingsMatchRankings` says of each
what it asserts of the four rankings, except for one sentence that is not always true (section 5). Means over several cases, and the
writing of the report, are left out.

## 3. Runs

| Run | Question | States | Answer |
|---|---|---|---|
| `queue` | Do the counts stay exact, does `close()` drain, and return unless the worker has died, and does the queue implement the serial executor, whatever start, submit, cancel and close calls race and whatever operations raise? | 50,928 | yes |
| `queue_hang` | Does `close()` do what its docstring says when an operation ends the worker? | - | no: finding 1 |
| `conversation` | Can a failure or crash at any step of three turns of a conversation disturb later turns, lose an answer, leave the active draft outside of the corpus, or make the result of an editorial run non-canonical, such as a transformation that passes unchanged? | 520,314 | no |
| `conversation_chats` | Do conversations or several tool calls in one answer leak into each other, with checkpoints written late? Does every turn end? | 715,793 | no; yes |
| `store` | Is `save_run()` atomic, idempotent and truthful under concurrent, failing, stopping processes? | 3,864 | yes |
| `delivery` | Are texts split without loss? Do answers arrive in order, without gaps and once, and does the fate of a job tell what the user got, whatever fails? | 716,362 | yes |
| `heartbeat` | Does a failed composition leave a database open beyond the named cases, or a turn outlive the databases? Do heartbeats overlap, report wrongly, mark what was not sent, or outlive the shutdown? Does the shutdown end? | 619,716 | no; yes |
| `heartbeat_trigger` | Is no heartbeat executed once the loop's end has let the scheduler's `close()` return? | - | no: finding 2 |
| `chunker` | Do the chunks of every short draft cover it, keep the limits, and leave whole every paragraph that fits? | 281,906 | yes |
| `search` | Do results stay in scope, respect both rankings and the limit, and not depend on accidental orders? Are the scores and findings of the evaluation those of its searches? | 82,810 | yes |
| `search_window` | Are the time bounds of a search inclusive and exact? | - | no: finding 3 |
| `generation` | Are the cases the report calls improved by reranking those that it improves? | - | no: finding 4 |

The type invariants are in none of the runs: they are proved (section 4), that of
`EditorialGraph` on its own, from every prepared run. So are `SerialExecution`, `FIFOOrder`, `OutcomesAreFinal`, `DeathIsFinal`,
`WholeRunsOnly` and `OnlyAgentsFail` proved and in no run: the first five are about what the checked
refinements say as well, and TLC has confirmed all of them before they were proved.

### Bounds, and why they are enough

* `queue`: three jobs and two slots give an empty, a full and an overfull queue, a
  job in hand behind which others wait, and both sources; two workers show that the
  second is never created; two `close()` calls race; two jobs may end the worker and one
  cannot, so a worker dies with and without others behind it, or never.
* `conversation`: three turns are one that leaves something behind, one that fails or
  crashes on it, and one that must not notice. Two tool rounds reach the limit; two
  texts tell an unchanged draft from a changed one; the window of five messages holds an
  exchange of three answers behind one of one, and is smaller than such turns write, so it is cut
  in the middle of the first (that of three in `conversation_chats` within one exchange). `conversation_chats` has two tool
  calls in one answer and a second conversation, with two turns, one tool round and one text.
  `Background = FALSE` in `conversation` leaves out late checkpoints, which
  `conversation_chats` has. Symmetry is used only where no liveness is checked.
* `store`: for one task the Writer's output alone in two contents and with the
  Editor's in two, for another task one run: a replay, a contradiction in content, in
  producers, and an unrelated run. Two processes contend for the lock; a third would
  only wait with them.
* `heartbeat`: two failing turns reach the threshold of two; three heartbeats of the
  loop and one trigger are two windows after the first, and one that waits while
  another runs; `MaxRuns` bounds the loop (guard `Room`). `Capacity = 2` is the
  smallest capacity for which the queue never fills (see observations).
* `delivery`: texts of eight characters with a limit of three reach splits after a paragraph,
  after a line and at the limit, the second try for a blank chunk, a chunk that stays
  blank, and three or four chunks. A text begins with two letters, which stand for
  the name of the agent (`conversation/formatting.py:8-11`), and is stripped
  (`domain/conversation.py:40`). Two updates are what an order of answers needs.
* `chunker`: with a target of two tokens, a maximum of three and an overlap of one, eight
  symbols reach an oversized paragraph of three sentences, a sentence that must be sliced,
  headings before paragraphs, and overlaps that are taken and refused.
* `search`: three chunks of the asking conversation and one of another, so that depths of
  two cut both rankings and the candidates; half of the artifacts lie on or next to a
  bound of the time window. The cases of the evaluation have no golden chunk, one, and two in
  scope beside one that is not, for k from one to three, with a preference for recent chunks and
  without.

`CHECK_DEADLOCK FALSE` stands where the system may stop: nobody has to submit,
every turn or update was received, the application is closed, the draft is chunked. `store` and
`search` check for deadlock.

### Fairness

Only what the event loop, LangGraph and the agents owe: a ready coroutine runs, an
operation or a model call returns or raises, a checkpoint is written or fails. Weak
fairness suffices, because nothing that is ready becomes unready by itself. Nobody
has to send a message, trigger a heartbeat, cancel or close: these actions have no
fairness, and neither have failures and crashes.

## 4. Proofs

Checked by `tlapm` without gaps; assumptions are the named ASSUMEs of the
modules (a positive capacity, finitely many jobs, workers, turns and triggers, finite artifacts, the sentinel and the
`No...` values are none of the jobs or workers; None is nothing else; every run
given to the store has passed `_validate_run()`).

**RuntimeQueueProofs** proves `TypeOK`, `SerialExecution`, `FIFOOrder`,
`UnfinishedIsExact`, `EveryStartedJobCounted`, `CloseDrained` and `NoSubmitterStranded`, for
any `Fatal`.
None of these is inductive alone. `IInv` adds:

* `OneTask`: `start()` creates one task in the life of the queue, as `worker` is only
  NoWorker before `start()` (`Unstarted`: then nothing was accepted and no task
  exists) or once the queue is closed;
* `Count`: the unfinished count is the queue's length plus the job in hand; so what
  `join()` waits for is an empty queue and an idle worker;
* `Sentinel`: the queue holds the accepted jobs not yet started, or the sentinel
  alone - because one closing call (`OneCloser`) puts it after `join()` (`Joining`)
  into a queue that takes nothing any more;
* `Held`, `Tracked`, `Ended`: whose job is where, and that the worker ends only when
  all is drained.

Its second part adds that the queue never exceeds its capacity and that
what is queued was accepted, and proves `OutcomesAreFinal`, `DeathIsFinal`, and that
every step is a step of `SerialExecutor` or a stutter, also the one that ends the worker
(`ImplementsSafely`; liveness of the refinement is checked by TLC only).

**EditorialGraphProofs** proves `EditorialTypeOK`, `ResultIsCanonical` and
`OnlyAgentsFail` for all texts and identifiers. The invariant says for each node
which channels are filled, and that their identifiers are the run's own.

**ArtifactStoreProofs** proves `TypeOK`, `WholeRunsOnly`, `ChunksMatchArtifacts`,
`RepliesAreTruthful` and the refinement `ImplementsLedger` for all processes and runs.
The invariant describes the open transaction: it sees the committed rows and part of
its own run; a row it has passed is the only one of its task and producer; what was
stored for the task has the producers of the run. At the commit these leave two
cases: nothing stored for the task, or exactly this run. Without the comparison of
producers the second fails, which is what the code's check at `store.py:122-136` is
for (and the `SkipProducers` mutant shows).

**ConversationGraphProofs** proves the type invariant and all eight invariants of the
conversation runs for any texts, conversations, limits and numbers of turns. That the window
holds whole exchanges (`WindowIsOrdered`) is preserved because the messages of a turn join it together
(`AnsweredWindow`) and a cut takes the beginning (`CutWindow`); that they are of no earlier turn, and all
else, needs `CInv`, which is

* `Lasting`, which relates a conversation to the store and to what was answered: a turn
  that is in progress or was answered has its number, kind and reason (`TurnTyped`,
  `ReasonKnown`), each artifact was saved by an earlier or the present turn (`Recorded`,
  `OlderThanTurn`), the active draft of every checkpoint that may be resumed is stored
  (`Durable`, `KeptWell`), a completion is in it (`Completion`);
* `Progressing`, which says for each node what the channels hold when it is reached:
  those a turn prepares (`TurnPrepared`), no result before it is made (`NothingWritten`), the
  decision of the Coordinator (`Decided`), a run prepared from it (`RunPrepared`), a
  workflow that works on the channels of this turn (`WorkflowIsOwn`), a result that fits the
  run (`ResultIsBack`). What an earlier turn left in the checkpoint is in none of them: this is
  where it is shown to be out of reach.

The nodes of `EditorialGraph` occur as steps of the larger machine; the lemma that their result
is canonical is the one of `EditorialGraphProofs`.

**HeartbeatProofs** proves the type invariant and all the safety properties of the
heartbeat run, those of `Composition` among them. `HInv` follows the lock and the lifecycle:
`Composed` and `Lifecycle` (what is open at which step, and what may still run then), `Held`,
`Locked` and `Asleep` (the caller that holds the lock is the one whose heartbeat runs), hence
`OneByOne`, and no caller waits at a free lock (`MayRun`, `WaitsForLock`); `Counted` and `Windows` (each heartbeat's snapshot counts from where the one
before it stopped); `Staged` (what is stored, sent and delivered at each stage of a
heartbeat); `HasRoom` (one job waits at most). `KeepsToTheExecutor` adds that the heartbeat
model uses the queue only by steps of `SerialExecutor`, so that what it assumes of
the queue is what `RuntimeQueueProofs` proves of it.

**TelegramDeliveryProofs** proves `SplitsWithoutLoss` for every text that `chunk_text()`
splits, of any length, that it splits every text without a stretch of blanks as long as the
limit, and the type invariant, the order of the answers and the honesty of the fates for any
number of updates. The library's induction theorems are out of the provers' reach; the module
states induction with the set of the numbers for which something holds (`NatSets`), and shows with
it that the equation of the recursive function `Chunked` has one solution, that every round
keeps the text, and that flattening appends. `DInv` says what the handler has in
hand (`InHand`, `Addressed`, `Delivering`), and that nothing was sent for what has no answer
(`Unanswered`).

**CorpusSearchProofs** proves the scope of a search, that it is deterministic and that it keeps
the order both branches agree on, for any artifacts, scores, depths and requests; and of the
evaluation that its scores are sound and those of the searches they are reported for, and that
what a report says is what its rankings show (`FindingsMatch`): a branch is reported ahead exactly when
its first golden chunk comes before the other's (`AheadIs`). Where it says that no stage recovered one, only
that the fused ranking and the results have none is proved, and that a branch that had one was cut off
by a full fused ranking (`NothingIsLost`): the sentence says more than is true (section 5). Most of it is about orders: the
tuples the code sorts by are total and strict orders because the identifier of the chunk comes
last (`OrderIsTotal`, `DenseOrder`, `FusedOrder`, `FinalOrder`), what `sorted()` returns is the
only arrangement such an order allows (`SortedIsArranged`, `ArrangedOnce`), and cutting it off
keeps whatever precedes what is kept (`TopKeepsOrder`). The recursive functions `Denominator` and
`Gains` satisfy their equations (`RecursionHasSolution`, once for both). From the former the
reciprocals of the fusion are exact and fall strictly with the rank (`ReciprocalsFall`): this is
why two rankings that agree cannot be overruled. From the latter some positions are worth no more
than as many from the beginning (`FirstsAreBest`), hence nDCG is at most one; and no more than as
many that come no later (`EarlierIsWorthMore`), hence a score that reranking has raised means
that it has raised a golden chunk or found one more (`WorthMoreIsRaised`). Without reranking and a
preference for recent chunks the final order is the fused one (`NothingMoves`), so that nothing is
said to be promoted. `SInv` says that behind each remembered search, and each row of a report, are
its full rankings over the store it saw, and that the scores, findings and status of a report
are made from them. Assumed are scores and times that are numbers, requests that passed
`__post_init__()`, k up to 10, which `top_k` is, finitely many golden chunks, and discounts that are
positive and fall.

**ChunkerProofs** proves `NothingIsLost`, `ChunksRespectLimits` and `ParagraphsStayWhole` for drafts
of any length and all limits that `__init__()` admits. A `Chain` is a sequence of spans, each with a
token and at most `MaxTokens` of them, that follow one another with nothing but blanks between them;
only a piece that comes twice may begin before its predecessor ends. The slices of a sentence are a
chain (`SlicesAre`, by the arithmetic of their batches), so are the pieces of an oversized paragraph
(`PiecesAre`), the paragraphs (`ParagraphsAre`), what they are expanded to (`ExpandIs`), and what is left
when headings are joined with the next unit (`GroupIs`), hence the units (`UnitsAre`); none of
them has a part of a paragraph that fits (`Intact`). The recursive functions of the model are shown
to have solutions that obey their equations, and each loop is followed by induction over the set of
the rounds for which its invariant holds (`NatSets`). `PInv`, the invariant of `_pack()`, says that the
chunks made so far cover the units up to the end of the last one, keep the limits, and that the next
one begins behind the first unit of the last and repeats no more than the overlap (`Packed`). There is
no invariant of the positions alone: that a chunk has a token, or divides no paragraph, needs the
chain it was made of.

Only model-checked is liveness (`ClosesUnlessDead`, `EveryTurnEnds`, `ShutdownEnds`, and the fair part of
`ImplementsExecutor`), which is out of
TLAPS's reach. The runs that show a finding prove nothing beyond their counterexamples.

## 5. Findings and observations

1. **`close()` of the queue can hang** (`queue.py:298`, run `queue_hang`). An operation
   that raises a `BaseException` other than an `Exception` (a `CancelledError` of
   something it awaits) ends the worker. `start()` does not replace it, `submit()` still
   accepts, the accepted jobs never run, and `close()` waits in `join()` for ever, while
   its docstring (`queue.py:227`) promises to "drain accepted jobs, and terminate the
   worker".
2. **`close()` of the scheduler only awaits its loop** (`scheduler.py:98`, run
   `heartbeat_trigger`). A heartbeat of `trigger_now()` that the queue has accepted, or that waits
   for the lock behind the loop's, is still there when the loop has ended and `close()` returns;
   in the run's trace the worker begins it afterwards, while the queue closes. The docstring
   (`scheduler.py:91`) says "await any in-flight heartbeat". Nothing in the application
   calls `trigger_now()` today, and `NothingAfterShutdown` shows that the queue's own
   drain contains the effect.

3. **Time bounds of a search are compared as text** (`store.py:220`, run
   `search_window`). `timestamp_to_json()` (`contracts/common.py:48`) leaves out a fraction
   that is zero, and "." sorts before "Z": a chunk of half a second after a whole second
   is found by a search up to that second, and missed by one that starts at it, where
   `src/README.md:443-444` promises inclusive filters.

4. **The comparison of the generation evaluation has the wrong sign**
   (`evaluation/generation_runner.py:226`, run `generation`). `_comparison()` subtracts the
   scores with reranking from those without it, and calls a positive difference improved. The
   report prints these cases under "Reranking comparison", and `src/README.md:711-712` takes
   them for what reranking does ("It improved `gen-009`, worsened `gen-004`, `gen-012`, and
   `gen-020`"); in the committed results it is the other way round.

Other behaviour worth knowing, which no run states as a property:

* `_split_oversized()` (`chunking.py:116-119`) does not cut at the boundary before the last
  sentence of a paragraph, so an oversized paragraph of two sentences is sliced by tokens
  at once, while `src/README.md:460-462` names slicing as the final fallback. The model has
  it as the code does;
* an oversized paragraph that ends in a sentence end and white space has its last piece
  twice, so a chunk may begin with all of that piece again, whatever the overlap; a chunk may lie within the one before it (the overlap, when the next unit does
  not fit beside it); of two headings in a row only the first is
  joined with what follows, so the other may end a chunk;
* when the checkpoint of a completed turn cannot be written, or the process ends just
  before, the artifacts of that run stay in the store and the conversation does not
  know them (they can be searched; a repeated message makes a new task);
* a turn whose agents fail is answered with an apology and counts as a completed job
  of the queue; only a delivery failure counts as failed, so `REPEATED_FAILURES` alerts
  are about delivery;
* the collector moves its baseline when it takes a snapshot: if that heartbeat is then
  refused, fails, or has an invalid snapshot, its window is reported by nobody;
* with sequential updates and serialized heartbeats at most one job waits
  (`QueueStaysShort`): for a capacity above one the busy answer is unreachable, and
  so is `QUEUE_PRESSURE` at the default ratio of 0.8; `WORKER_STOPPED` is, too, because a
  heartbeat that could report it needs the worker;
* a second `close()` of the queue returns at once, while the first still drains;
* a stretch of blanks as long as the limit (4096) inside a text makes `chunk_text()` raise
  (`telegram.py:80-117`), though the text could be split; the turn is durable by then and
  nobody is told. `OrdinaryTextsAreSent` is about all other texts;
* a failing call of the bot while an answer is delivered is logged and ends the job: the user
  keeps the chunks he has, the conversation remembers all of them (`FatesAreHonest`). It is
  the same when the process ends between the checkpoint and the delivery;
* `submit()` of a closed or not started queue raises an error that `handle_text()` does not
  catch: the update is answered by silence. The busy and the error notice are sent without
  the topic arguments (`telegram.py:257, 284`), so in a forum topic they appear elsewhere;
* python-telegram-bot shuts its bot down before it calls `post_shutdown`, so an alert that
  is due while `close_runtime()` drains the queue may not be deliverable any more (external
  code, not modelled);
* what a failed composition may leave open (`FailedCompositionReleases` names the cases): a
  checkpoint connection when setting its mode or timeout fails (`checkpointing.py:50-58`),
  the store when the checkpointer does not close (`composition.py:169-172`), and databases
  when something other than an Exception is raised while the store is initialized, the saver
  is set up, or the adapter is created. The process ends after each of them;
* the report of the evaluation says "No retrieval stage recovered a relevant chunk."
  (`retrieval_runner.py:202-203`) when neither the fused ranking nor the results have one, though
  the dense or the BM25 ranking may have had one that the fused depth cut off; next to it, the same
  list then says that this branch ranked the best relevant evidence above the other. TLC finds
  such a report within the bounds of `search` when the sentence is stated of all four rankings;
  `FindingsMatchRankings` admits exactly this case;
* the report of the evaluation may say that reranking promoted or demoted a chunk when
  only `prefer_recent` moved it (`FindingsMatchRankings` admits that case by name).

## 6. What is not modelled, and the plan

Not modelled, and not planned: model providers, prompts, parsing of answers
(`agents/*`, `gemini.py`, `models.py`, `registry.py`): text behind narrow protocols,
whose results are nondeterministic here; tracing; formatting and validation without
state; the means and the text of the evaluation reports; embeddings and BM25 scores. The
judge's prompts and the resolution of cases to chunks are text as well.

The order of the plan, with what is done:

1. `RuntimeQueue` and `SerialExecutor` - done, proved;
2. `EditorialGraph`, `ConversationGraph` - done, proved;
3. `ArtifactStore`, `ArtifactLedger` - done, proved;
4. `Heartbeat` with the lifecycle - done, proved;
5. `Chunker` - done, proved;
6. `CorpusSearch` with the time bounds - done, proved;
7. `TextChunks` and `TelegramDelivery` - done, proved;
8. `Composition`, within the life of the process - done, proved;
9. `RetrievalEvaluation`, `GenerationEvaluation` - done, the former proved;
10. what is left: the safety properties of all runs are proved; further modules, and the parts of the
    components that are only partly modelled, would come next.
