# LangChainGo in TLA+

A verification project for the parts of LangChainGo that have behaviour worth
verifying: its worker pool, the agent loop with the functions agent in it,
conversation memories over their stores, the streamed chats of three providers
(openai, anthropic, ollama with its context cache), the handler that forwards an
agent's final answer, the chains that combine documents, the recursive text
splitter, and the loading of documents into a Bedrock knowledge base. Each
module is translated from the Go source; `PROJECT.json` (`"map"`) gives the
lines of every definition, (`"hazards"`) what is hard to test and which property
is about it.

Contents: [1 The system](#1-the-system) ·
[2 The modules](#2-the-modules) ·
[3 The runs](#3-the-runs) ·
[4 What the code does otherwise than it says](#4-what-the-code-does-otherwise-than-it-says) ·
[5 The proofs](#5-the-proofs) ·
[6 What is not modelled](#6-what-is-not-modelled) ·
[7 The plan](#7-the-plan)

To run: `tlc -config MCApply.cfg MCApply`, and likewise for every run below;
`tlapm ApplyProofs.tla`, and likewise `AgentExecutorProofs`,
`CombiningChainsProofs`, `ConversationProofs`, `KnowledgeBaseProofs`,
`ChatProofs`, `FinalStreamProofs` and `TextSplitterProofs`.

## 1 The system

LangChainGo is a library: its "processes" are the goroutines of a few functions
and the goroutines of whoever calls it. Nearly everything is a *chain*
(`chains.Chain`), a function from a map of values to a map of values, entered by
`chains.Call`; around that are models (`llms.Model`), memories
(`schema.Memory`), agents and their tools, callbacks, and the pieces of
retrieval (loaders, splitters, embeddings, vector stores).

| Component | State it keeps | Operations | What makes it correct |
|---|---|---|---|
| `chains.Call` (`chains/chains.go`) | none; the memory's | load the memory, ChainStart, the chain, ChainEnd or ChainError, save the memory | one bracket of callbacks per call; the memory holds the calls that succeeded |
| `chains.Apply` (`chains/chains.go`) | two buffered channels, the slice of results, a wait group | one chain on many inputs, by a pool of workers | results in the order of the inputs; errors and cancellation reported; no goroutine left behind |
| combining chains (`stuff`, `refine`, `map_reduce`, `map_rerank`), `Constitutional` | the response so far | many prompts, one answer | the answer has drawn on every document in order; the best score wins; revisions are used |
| `SequentialChain` | the known values | one chain after the other | a chain accepted at construction gets its inputs when called |
| agents' `Executor` | iteration, intermediate steps | plan, act, observe, until a finish or the limit | every action is answered before the next plan; every call ends; steps returned are complete |
| conversation memories | the chat history, behind an interface | SaveContext, LoadMemoryVariables | what is loaded is the end of the conversation and within the limit; acknowledged turns stay |
| chat history stores (slice, sqlite3, mongo, AlloyDB, Cloud SQL, zep) | the messages of a session | AddMessage, Messages, SetMessages, Clear | SetMessages replaces, in one step or not |
| `llms/openai` streaming | response body, unbuffered channel, message being assembled | scan, send, receive, assemble, stream to the caller | the answer is what was streamed; nothing lost but by cancellation; no goroutine left behind |
| `llms/anthropic` messages | the same, and content blocks addressed by index | as above; fold the blocks into a choice; replay the choice in the next request | the whole message or an error; the next request has the assistant say what it said |
| `llms/ollama` chat | pulled model, lines of the answer | pull, read, stream to the caller, ask the cache | an answer is whole or none |
| `llms/ollama` `ContextCache` | entries with age, last access and a count, under a read-write lock | Get, Put, Clear, Stats | the capacity holds, hits are counted, what was used least recently goes |
| other providers | clients of HTTP APIs | one request per call, some streamed | as above |
| `llms/cache` | entries of a storage it is given | get, put | an answer found is the answer to these messages and options |
| `AgentFinalStreamHandler` (`callbacks`) | a window of text, two flags, a channel; the package's list of keywords | told of every chunk; read by a goroutine | the final answer is forwarded, all of it; the model's stream is not blocked |
| other handlers (`callbacks`) | none | told of every step | see `HandlerProtocol` |
| the functions agent (`agents`) | none; the steps it is given | steps to messages, tool calls to actions | the model is told of its own turns as they were |
| `textsplitter` | none | split a text into chunks | size, overlap, order, nothing lost |
| Bedrock knowledge bases (`vectorstores`) | a bucket, an index, an ingestion job, all of them services | upload by goroutines under a semaphore, ingest in batches, roll back, start and watch a job | what is said to be loaded is there; what failed is cleared; every call returns |
| `embeddings`, other `vectorstores`, `documentloaders`, `tools`, `prompts`, `outputparser` | none, or a database's | I/O, formatting, parsing | mostly those of the service behind them |

How they interact. A caller calls `chains.Call`, which asks the chain's memory
for values, tells the handler in the chain, and calls the chain. An `Executor`
*is* a chain, so an agent's question goes through the same bracket; it calls the
agent's `Plan` (which calls an LLM) and the tools, and tells the same handler of
actions and of the finish. A combining chain calls other chains through `Call`
or, when it maps, through `Apply`, whose workers call `Call` concurrently on one
chain with one memory. A memory writes to a store it knows only by interface. A
streamed model call has a goroutine of its own (openai, anthropic), connected to
the caller by a channel; the chunks it shows reach the final-stream handler from
inside the model's call. Ollama's calls share a cache their options name.
Concurrent `AddDocuments` share a bucket, in which a document's name is its key.

What is hard in it:

- *interleavings*: `Apply`'s workers, collector and closer; a streaming reader
  and its receiver; callers sharing one memory, one cache (which is written to
  under its read lock) or one bucket (whose names anybody may overwrite or
  delete);
- *unbuffered channels*: a streaming reader whose caller returned, a model whose
  final-stream handler nobody reads;
- *cancellation* at any moment, with Go's `select` free to take any ready branch;
- *partial failure*: a turn is two writes; a set of messages is a delete and an
  insert; a document is two objects, and a batch before the one that failed is
  ingested; a chain that failed has still told its handler of things; a stream
  breaks off anywhere;
- *an interface whose implementations differ*: `SetMessages` sets, sets in two
  steps, or does nothing, and the token memory's loop ends or not accordingly;
- *loops that must end*: plans that cannot be parsed, trimming, popping, asking
  for a job that failed;
- *what is put together again*: deltas by the index of their block, chunks that
  cut a keyword, steps grouped into the responses they came from;
- *values passed by value*: assembling a message, revising a response.

## 2 The modules

A definition of the form "Mutant: ..." is a faulty variant of the definition
that follows it. No specification uses one: each is a bug one property of the
runs has been seen to catch.

### Apply, ApplyPromise

`Apply` is `chains.Apply` statement by statement: the caller sends the jobs
(`SendJob`, `CloseJobs`), each worker selects between the context and a job
(`StopOnCancel`, `TakeJob`, `StopOnClosed`), runs the chain (`RunChain`) and
sends its result (`SendResult`), the closer waits for the workers
(`CloseResults`), the caller selects between the context and a result
(`CollectCancel`, `CollectResult`, `CollectZero`, `ReturnResults`). Where two
branches of a `select` are ready both actions are enabled. `CollectZero` is the
receive from the closed channel, which is ready too and which the code does not
tell from a result. The channels have their real capacity, the number of inputs
(`HasRoom`). A result map is written as the number of the input it is for; `Nil`
is the nil map.

`ApplyPromise` is what a caller sees: the chain runs at most once on each input,
and there is one answer: all results, or an input's error, or the context's
error; and, after a cancellation only, a nil error with some results missing.
`Apply` implements it, with `answer` and `slice` computed from `caller`, `ret`
and `results`. `CombiningChains` builds on it.

### AgentExecutor, HandlerProtocol

`AgentExecutor` is `chains.Call` on an `agents.Executor`, call after call over
one memory. `pc` is the next step of the call; `Begin`, `LoadFails`, `Start`,
`CheckInputs` precede `Executor.Call`; `PlanUnparsable`, `PlanFails`,
`PlanFinish`, `PlanActions`, `Announce`, `Observe`, `ToolFails`,
`NextIteration`, `NotFinished` are `Executor.Call`, `doIteration` and
`doAction`; `TellError`, `CheckOutputs`, `TellEnd`, `SaveNothing`, `SaveUser`,
`SaveAnswer`, `SaveFails` finish `chains.Call`. The agent is the environment:
any plan the package's agents return, several actions included. Tools are found
as `getNameToTool` finds them, up to case, the last of a name. What is abstract:
an observation is the tool that gave it and the action it is for.

`HandlerProtocol` is what handler and caller are promised: ChainStart; the
actions in the order planned; at most one AgentFinish; one ChainEnd or
ChainError; and which of these go with which error. It is written without any
of the executor's state.

### FunctionsAgent

`FunctionsAgent` EXTENDS `AgentExecutor` and puts the functions agent where that
has its environment: `PlanToolCalls` and `PlanLegacyCall` are `ParseOutput` on a
response with tool calls or with the legacy function call, `ScratchPad` is
`constructScratchPad`, the messages by which the next request tells the model of
the steps. All the other actions are the executor's own (`Execute`). `responses`
is what the model said, a history variable: the scratch pad has to tell it back.
`EveryCallAnswered` says that the steps it is made from answer every call of
every response; whether it tells them back as they were is another question
(`TurnsAsTheyWere`, section 4).

### ConversationMemory

`SaveContext` of the buffer, window and token memories, one action per call of
the store: `AddUserMessage`, `OutputInvalid`, `AddAIMessage`, then `Cut`
(window) or `Count`, `Read` (token) and the setting of the messages, which is
where the stores differ: `SetSlice`, `SetTransaction` (sqlite3 with Overwrite),
`SetNothing` (sqlite3 without, and zep), `SetClears` and `SetInserts` (mongo, and
AlloyDB and Cloud SQL, here "postgres", whose Clear and inserts are calls of
their own), `SetTransactionEmpty` and `SetTransactionNested` (sqlite3 with no
message to insert, or inside a transaction left open), `SetInsertsNothing`
(mongo's `InsertMany` of no document is an error). Each configuration says which
memory, store and options are used, who shares the session, and whether calls
fail and the process crashes.

A call that fails may have had none of its effect (`FailsWithoutEffect`), or more:

| Action | Store | What is left |
|---|---|---|
| `FailsHavingInserted` | mongo, postgres, zep | the message is in, its answer was lost |
| `TransactionFails` | sqlite3 | the transaction, failed at its `DELETE`, `INSERT` or `COMMIT`, stays open, with what ran of it |
| `FailsRolledBack` | sqlite3 | SQLite rolled the open transaction back by itself |
| `ClearFails` | mongo, postgres | some of mongo's documents deleted, all of postgres' rows |
| `InsertFails` | mongo, postgres | the first of mongo's documents inserted, all of postgres' batch or none |

`store` is what a reader on the connection sees and `durable` what survives it;
they differ on the slice, which is never durable, and within an open transaction.
A crash may come between any two calls. `log` is all that was ever inserted, and
`torn` how much of it had been said when messages were last lost in another way
than by a set that ended whole: by a set that failed half-way, a rollback, or a
crash that found a transaction open, a session cleared, or the slice. What the
memory must keep is stated of what was said since (`Rest`), since the code keeps
no more; that it does lose messages is section 4's.

`Messages` is what a store returns: the first `limit` of sqlite3's, and of zep's a
system message with what it extracted from the session (`Summary`) before the
others. zep is taken to return all the messages with it, and its summary to be
there from the start or never. A turn's messages cost the tokens the constant
`Size` gives. sqlite3 is taken to have one connection, and to return messages of
the same second in the order they were inserted, which its `ORDER BY created`
leaves to it; mongo to delete and insert its documents in that order.

### OpenAIStream

The goroutine that scans the body (`ScanLine`, `ScanEnds`, `ScanFails`,
`StopOnDone`), the caller (`CreateChat`, `Receive`, `UpdateToolCalls`,
`StreamingFunc`, `ReceiveError`, `Answer`) and a cancellation at any moment. The
channel is unbuffered: `Receive` is the rendezvous. A stream is a row of lines and
what comes after them: the end, a broken connection, or nothing. A line is one
the scanner skips, the end marker, a payload without choices, or a delta, and a
delta may have text, a function call and any number of parts of tool calls at
once: `Combine` adds its text and its reason to finish, `UpdateToolCalls` goes
through its parts, one at a step, and `StreamingFunc` is given one chunk for all
of it (`Chunk`), that of the tool calls if there are any, else of the function
call, else the text. Text is identified by the line that carries it, and a part
of a tool call by its line and its place there, so that the answer and what was
shown can be compared with the stream; the call a part is meant for is known to
the stream only, as the client reads no index.

An end of the body before `[DONE]` is what the code takes it for, the end of the
stream: `WholeUnlessCancelled` is about all the lines that came. Reasoning content
and its own streaming function, which do with the reasoning what the others do
with the text, are left out.

### AnthropicMessages

One `GenerateContent` by the messages API and the request after it. The reading
goroutine has one action per kind of event (`Ignored`, `ContentBlockStart`,
`ContentBlockDelta`, `SignatureDelta`, `ContentBlockStop`, `MessageDelta`,
`MessageStop`), the streaming function and the ends of the body (`StreamingFunc`,
`ScanEnds`, `ScanFails`); the caller has `Request`, `Decode` (when not streamed),
`ReceiveMessage`, `ReceiveError`, `ReceiveEnds`, `Process`, `ProcessEmpty`.
`NextRequest` is a tool loop's next turn: `AssistantMessage` makes a message of
the choice, `HandleAIMessage` the content of the request. A reply is a row of
blocks, each with its parts, and the events that carry them; `cut` and `end` say
how far they get. Every part carries the number of its block, so that an answer
can be compared with what the service meant. What the service is relied on for is
an assumption of the module (`RepliesAreReplies`): the events come block by block
and part by part (`EventsInOrder`); nothing but the beginning of a block may be
missing, and `message_stop` comes when everything was told (`EventsComplete`).

### ContextCache, OllamaChat

`ContextCache` is the cache alone. `Put` and `Clear` hold the write lock and are
one step each. `Get` holds the read lock and writes to the entry it found, so it
is one step per access of the entry: `GetFound` reads the clock, `Touch` sets the
last access and reads the count, `Count` writes it back. Two readers of one
entry interleave in every way; the lock only keeps `Put` and `Clear` out
(`Unlocked`). A map is gone through in any order (`EvictExpiredOrOldest`).
`OllamaChat` EXTENDS it with the clients' calls: `Refuse`, `Request`, `ReadLine`,
`ReadFails`, `ReadEnds` are the chat, `Miss`, `Find`, `TouchEntry`, `Hit`, `Store`
what is done with the cache once the answer is there.

### FinalStream

The handler and its package's list of keywords (`NewHandler`, `NewOther`), the
model's goroutine that hands it chunks (`NextChunk`, `HandleStreamingFunc`,
`SendOnEgress`, `StreamEnds`) and the goroutine of `ReadFromEgress` (`Callback`).
Text is a row of glyphs and a chunk any piece of it; what several agent calls say
is one text, since the handler's flags are never reset. The channel is
unbuffered: `SendOnEgress` is the rendezvous, possible only while the reader
receives.

### KnowledgeBase

`addDocuments` of several calls over one bucket and one index. Per document a
goroutine (`worker`), which takes the semaphore or sees the context end
(`Acquire`) and writes or deletes the document and then its metadata (`Put`,
`Delete`); per call the joins (`UploadsEnd`, `RemovalsEnd`), the batches
(`IngestBatch`, `IngestFails`, `IngestEnds`), the job (`StartIngestionJob`,
`CheckIngestionJobStatus`). S3 and Bedrock are external: a request succeeds, or
fails before or after it took effect; a job completes, fails or runs on
(`JobEnds`). An object remembers which call wrote it, and `lost` what another
call deleted since. The names within one call are distinct, and a name has metadata
or not in all calls, which `AddNamedDocuments` leaves to its callers.

### CombiningChains

`StuffDocuments`, `RefineDocuments`, `MapReduceDocuments` (reducing with one of
the former), `MapRerankDocuments` and `Constitutional`. What `Apply` does in
the middle of the two that map is what `ApplyPromise` says, holes after a
cancellation included: the actions of `ApplyPromise` are used as they are
(`ApplyRuns`). The prompts sent are logged with the texts and the response they
were made with; a response is the number of its prompt. The one clash of names
that changes prompts is kept: a value given under the document variable's name
replaces the document in `refine` (`shadow`), and not in the others.

### TextSplitter

`RecursiveCharacter.SplitText` and `mergeSplits`. A text is a row of atoms, the
stretches that no separator divides; a split or a chunk is an interval of
atoms, with lengths from the offsets. `stack` holds the calls of `splitText`;
`GoodSplit`, `StartMerge`, `KeepWhole`, `Descend`, `Ascend` are its loop, and
`AddSplit`, `EmitFull`, `Pop`, `AddPopped`, `EndMerge` are `mergeSplits`.
Separators are white space, so that trimming a chunk removes whole atoms and
separators; the length function counts characters. `KeepSeparator` is left out.

## 3 The runs

Every run checks all of its states; "states" are the distinct ones. Deadlock is
checked except where noted; the terminated state of a sequential module is an
explicit stuttering action, so a deadlock would be a step the code cannot take.

| Run | States | Shows |
|---|---|---|
| `apply` (MCApply.cfg) | 4347 | No worker ever finds the results channel full or closed; every goroutine ends; `Apply` implements `ApplyPromise`: no input run twice, results at their index, a nil error without a cancellation only with all of them. |
| `agent` (MCAgent.cfg) | 26861 | At each plan the agent sees every action it was told to be done answered, once and in order; returned steps are complete; the memory has the answers of exactly the calls that returned nil; the handler sees `HandlerProtocol`; every call returns. |
| `combining_chains` (MCCombiningChains.cfg) | 8432 | An answer has drawn on every document in order, whatever fails or is cancelled; nothing is reduced before all is mapped; the reranked answer has the best score; critique and revision follow each other. |
| `memory` (MCMemory.cfg) | 34764 | Whatever call fails half-way and whenever the process crashes: between saves what is loaded is what was said, in order, and of what was said since messages were last lost it is all or the end; the token memory keeps as much of that as fits, the window memory the acknowledged turns of its window; a durable buffer memory keeps every acknowledged turn; each save ends. |
| `openai_stream` (MCOpenAIStream.cfg) | 9579 | The answer has the text and the tool calls of the deltas the streaming function was called for, and that was given them, but for text beside a call; calls that come in turn have their own arguments; it is whole unless cancelled; the call returns, and its goroutine ends, unless the server hangs and nobody cancels. |
| `anthropic` (MCAnthropic.cfg) | 19006 | A nil error comes with the whole message, wherever the stream is cut; what was shown is what is answered; the next request replays the turn block by block and never an empty one; the call returns and its goroutine ends. |
| `ollama` (MCOllama.cfg) | 3529976 | The capacity holds; statistics count every hit, and never more; what is evicted was used least recently, and goes alone; an answer is whole or empty. |
| `final_stream` (MCFinalStream.cfg) | 366924 | What is forwarded is the end of the text, from a keyword on; no keyword is missed, however it is cut into chunks, while nobody else replaces the list; once somebody reads, the stream ends and all of it is forwarded. |
| `knowledge_base` (MCKnowledgeBase.cfg) | 488086 | What is said to be loaded is in the bucket, with its metadata, and searchable after a nil error, unless another call took it out; a rollback leaves nothing of its call where it succeeded; every call returns after its goroutines. |
| `splitter` (MCTextSplitter.cfg) | 108277 | Chunks exceed the size by a separator at most, and none ends where the next split would have fitted; overlap, order, coverage; the splitter ends. |
| `anthropic_signature`, `functions_turns` | | Section 4. |

Invariants that a run does not list (`NoInputTwice`, `NoMisplacedResult`,
`CompleteUnlessCancelled` of `Apply`, `EveryIterationTeaches` of `AgentExecutor`,
`EveryCallAnswered` of `FunctionsAgent`, `TotalIsLength` of `TextSplitter`, the
`TypeOK`s) are steps towards those it does, or proved
(section 5); they hold on the same instances.

Bounds, and why they suffice.

- *apply*: 3 inputs, 2 workers. One worker has to take a second job while the
  other is anywhere, and the results have to overtake one another; two workers
  and three inputs are the least for both. Failures and cancellations may come
  at any step. The theorems of section 5 remove the bound.
- *agent*: limits of 0 and 2 iterations (none; one with another after it), 2
  actions per plan, 2 calls (the second over the memory the first left), three
  names, two of which are one up to case and one unknown. Every combination of
  options. The theorems remove the bound.
- *combining_chains*: up to 3 documents: first, middle and last, so that a
  response or index one step behind shows. Scores -1, 0, 1 and one that is not a
  number give ties and every order. The theorems remove the bound.
- *memory*: 4 turns, of which the second alone exceeds the token limit, so that
  the loop empties the history and starts anew; windows of one turn and, on mongo,
  of two, so that a set that was cut short meets messages to keep. Two callers for
  the buffer memory. Each configuration is one the constructors can make; sqlite3's
  select limit is above what the turns insert, except in `MCMemoryLimit.cfg`.
  Trimming memories have one caller: with two, one may set what it read before the
  other inserted, which nothing in the repository rules out.
- *openai_stream*: six streams of up to seven lines: a text; text and three tool
  calls in turn, two of them in one delta, with and without text beside them; two
  calls whose arguments alternate; arguments before any call; function calls, with
  text or a tool call beside them, and lines after the end marker. Each is cut
  after every number of lines and then ended, broken or hanging.
- *anthropic*: replies of up to four blocks of up to two parts: signed thinking
  before text and two tool calls (several indices and kinds), redacted thinking,
  compaction, empty text, a tool input cut short, a block of an unknown kind, a
  refusal, nothing, and a stream whose first block never starts. Streamed or not,
  cut after any event.
- *ollama*: two clients, which are interchangeable (symmetry; the run has safety
  properties only, and no fairness), over two entries and three keys, so that one
  of two has to go; two of four contexts differ in an image, which the key leaves
  out. Four calls let two clients race on an entry and a third and fourth look at
  what is left of it. The clock passes an entry's time to live once.
- *final_stream*: all texts of five glyphs over "FA: x" that may hold a keyword of
  the package's; keywords are cut to two and three glyphs, one the end of another,
  in two lists; chunks of up to three glyphs, hence keywords in one chunk, across
  two and across three; one other handler, made at any moment.
- *knowledge_base*: two calls of two documents, one of them under the same name
  in both and with metadata: one call finishes while the other fails. One upload
  at a time, so that one always waits; batches of one document, so that one
  fails after one was accepted; two tries for a job.
- *splitter*: 4 atoms of up to 2 characters, blank ones included; two or three
  separators, so that the recursion is up to three deep; sizes and overlaps
  below, at and above the lengths that occur, an overlap above the size among
  them.

Fairness, and why the code justifies it. In `Apply`, weak fairness of the
caller, of each worker and of the closer: Go runs every goroutine that can run,
and a chain is assumed to return. In `AgentExecutor`, of the call: model and
tools answer or fail. In `ConversationMemory`, of each caller's save, not of
its beginning, of failures or of crashes (deadlock is not checked there: the
turns are bounded and nobody has to save). In `OpenAIStream` and
`AnthropicMessages`, of the reader and of the caller, not of the cancellation;
a server may hang. In `FinalStream`, of the model's stream and of the callback:
nobody has to make handlers or to read. In `KnowledgeBase`, of each call, whose
goroutines can always move since S3 and Bedrock answer or fail; an ingestion job
need not end. In `TextSplitter`, of the only thread. `CombiningChains`,
`OllamaChat` and `FunctionsAgent` state no liveness and no fairness.

Why liveness is not vacuous: in each module the property fails when a step is
changed as its "Mutant" says: a worker that spins, a goroutine that does not
look at the context or goes on after an error, a set whose error is ignored, a
pop that pops nothing, a reader that receives once, a job asked for until it is
complete.

## 4 What the code does otherwise than it says

Two runs end in a counterexample; each checks one property that states what a
comment of the repository says (quoted in `"findings"`).

- `anthropic_signature` (MCAnthropicSignature.cfg, `SignedThinkingReplayed`): the
  deltas that carry the signature of a thinking block are dropped. A message that
  was streamed is replayed with its thinking unsigned, which the comment on the
  replay says the API does not accept.
- `functions_turns` (MCFunctionsAgent.cfg, `TurnsAsTheyWere`): steps count as
  calls of one response when their logs are equal, but a log holds the tool and
  its arguments. Two different calls of one response are told back to the model
  as two turns, two equal calls of two responses as one.

Ten further configurations end in a counterexample in the same way
(`tlc -config MCApplyCancel.cfg MCApply`, and so on). What MCOpenAIMixed.cfg and
MCOpenAIInterleaved.cfg check is what a user of the streamed chat would expect; no
text of the repository says it.

| Configuration | Violates | What happens |
|---|---|---|
| MCApplyCancel.cfg (MCApply) | `NilErrorMeansComplete` | After a cancellation the workers stop and the results channel is closed; the collector's `select` has two ready branches and may receive zero results from the closed channel until it has "all". Apply returns nil results and no error; the test of the cancelled context expects an error (`chains/chains_test.go:117-118`). What depends on it is not misled: `ReduceNeedsEveryResult` and `AnswersFromEveryDocument` hold, a nil result has no output key. |
| MCConstitutional.cfg (MCCombiningChains) | `RevisedResponseReturned` | The revised response is assigned to a parameter; the chain returns the response it had before. |
| MCMemoryNoOverwrite.cfg (MCConversationMemory) | `TrimShrinks` | Over sqlite3 as its constructor makes it, or zep, the token memory sets messages that are never set, and loops for ever. |
| MCMemoryEmptySet.cfg (MCConversationMemory) | `NoTransactionLeftOpen` | Setting no messages on sqlite3 is a syntax error after `BEGIN` and `DELETE`; the transaction stays open. |
| MCMemoryLost.cfg (MCConversationMemory) | `NothingLost` | A set that fails half-way loses the conversation, against "SetMessages replaces existing messages in the store" (`memory/mongo/mongo_chat_history.go:117`). On mongo and postgres Clear has run and the insert fails, perhaps after the first documents; on sqlite3 no failure inside the transaction is rolled back, so that what follows is written into it, read from it, and gone with the connection. |
| MCMemoryLimit.cfg (MCConversationMemory) | `TrimKeepsNewest` | sqlite3's `Messages` returns the oldest messages up to its limit, not all; a trimming memory sets these and loses the newest. |
| MCOpenAIFunction.cfg (MCOpenAIStream) | `FunctionCallReturned` | A streamed function call is assembled on a copy and lost; the answer dereferences nil. |
| MCOpenAIMixed.cfg (MCOpenAIStream) | `TextIsStreamed` | The chunk of a delta with text and tool calls is that of the calls: its text is in the answer and was never given to the streaming function. |
| MCOpenAIInterleaved.cfg (MCOpenAIStream) | `OwnArguments` | Arguments go to the call opened last, as the index they carry is not read: a server that alternates between its calls has them mixed. |
| MCFinalStreamFilter.cfg (MCFinalStream) | `KeywordNotForwarded` | A keyword that ends in a chunk it did not begin in is not in that chunk, so its end is forwarded with the answer (a colon excepted). |

What the models show without a text that says otherwise:

- *chains*: a failing reduce chain with `ReturnIntermediateSteps` writes into a
  nil map (`CombineFails`). `mergeSplits` leaves a separator out of its sum when
  one split is left over, so that a chunk may exceed its size by one separator
  (`ChunksFit` has the exact bound).
- *ollama*: `stream` never asks for the scanner's error, so that a body that
  breaks off, a cancelled context and a line that is too long end a call with a
  nil error, an empty answer and an entry in the cache (`ReadEnds`); a pull that
  is cut short passes for one that was done. The cache is asked when the answer
  is there, so it saves nothing. Its key leaves images out. At capacity `Put`
  evicts even if the key is there already, and an expired entry is neither
  returned nor removed by `Get`. Two readers at once lose a hit and may set the
  last access back, which is why `HitsCounted` and `EvictsTheLeastRecent` are
  exact only for entries no two of them had at once (`raced`).
- *anthropic*: `ErrEmptyResponse` is not told to the handler (`ProcessEmpty`); a
  turn of empty text is replayed as the explanation of a refusal; a block of an
  unknown kind fails the whole message.
- *functions agent*: an action's input is replayed as the call's arguments even
  where it was taken out of its `__arg1`, and then is not JSON; a legacy call
  has no ID.
- *final stream*: several agent calls are one text, and from the second answer on
  everything is forwarded; a handler made elsewhere changes the keywords of those
  there are, but not their windows. A colon after the keyword is cut off as the
  keyword's own even where the keyword ends in a space, so that an answer that
  begins with a colon loses it (`NoKeywordEndsInSpace`, which the proof that no
  keyword is missed needs and the default keywords satisfy).
- *knowledge base*: an upload that fails leaves the others' objects in the bucket;
  a rollback under a cancelled context deletes nothing; it deletes by name, what
  another call stored under it included (`lost`); batches accepted before one
  failed stay searchable until a job; a job that failed is asked for as one that
  runs.

## 5 The proofs

For all values of the constants that the `ASSUME`s allow: any number of inputs
and any `maxWorkers` (negative included), with or without failures and
cancellation; any tools, names and iteration limits, any number of actions and
calls; any number of documents or principles and any integer scores; any number
of callers, turns and message sizes of a memory; any number of clients, keys and
entries of a cache; any streams a server may send, and any replies of the
messages service with their events, cut anywhere; any calls and documents of a
knowledge base, any batch size,
concurrency and retries; any texts, keywords and cuts into chunks; texts of any
length with any separators, chunk size and overlap. Where a property holds only
in some configurations, the theorem names the condition. The other hypotheses are
the modules' own `ASSUME`s, among them what a stream or a reply is
(`StreamsAreStreams`, `RepliesAreReplies`); TLC evaluates each on the instances.

| Theorem | Establishes |
|---|---|
| `ApplyProofs!Invariance` | `Spec => []IInv` |
| `TypeCorrect`, `ResultsInPlace`, `Complete`, `SendsNeverBlock` | `TypeOK`, `NoMisplacedResult`, `CompleteUnlessCancelled`, `SendNeverBlocks` of every run of Apply |
| `Refinement` | Apply implements `ApplyPromise` |
| `AgentExecutorProofs!Invariance` | `Spec => []IInv` |
| `TypeCorrect`, `AgentSees`, `Teaches`, `ReturnedComplete`, `MemoryMatches` | `TypeOK`, the three invariants of the run `agent`, and `EveryIterationTeaches` |
| `Refinement` | `AgentExecutor` implements `HandlerProtocol` |
| `FunctionsAgentIsAnAgent` | `AgentSpec => Spec`: the executor with the functions agent in it is one of AgentExecutor's, and the theorems above are about it too |
| `AgentInvariance`, `NoCallLeftOpen` | `AgentSpec => []AgentIInv`, and from it `EveryCallAnswered` of FunctionsAgent |
| `CombiningChainsProofs!Invariance` | `Spec => []IInv` |
| `TypeCorrect`, `EveryDocument`, `ReduceAfterMap`, `BestScore`, `Revisions` | `TypeOK` and the four invariants of the run `combining_chains` |
| `ConversationProofs!Invariant` | `Spec => []IInv` |
| `TypeCorrect`, `AckedTurnsKept` | `TypeOK` and `AckedTurnsSurvive`, in every configuration and with any number of callers |
| `PromptIsTheTail`, `RecentTurnsKept` | `LoadsTheTail` and `RecentTurnsSurvive` under `Alone` and `ReadsAll`, whatever fails and crashes |
| `MostIsKept` | `KeepsWhatFits` under `Alone` and `ReadsAll`, on every store but zep, whatever fails and crashes |
| `MessagesInvariant` | `MessagesSpec => []MessagesIInv`, of AnthropicMessages |
| `WholeAnswer`, `AnswerShown`, `TurnReplayed` | `WholeOrError`, `StreamedIsAnswered`, `ReplayKeepsTheTurn`: the three invariants of the run `anthropic` |
| `KnowledgeBaseProofs!Invariant` | `Spec => []IInv` |
| `TypeCorrect`, `DocumentsAdded`, `Rollback` | `TypeOK` and the two invariants of the run `knowledge_base` |
| `ChatProofs!Invariant` | `Spec => []IInv` |
| `TypeCorrect`, `CapacityKept`, `HitsAreHits`, `WholeOrNothing` | `TypeOK` and the three invariants of the run `ollama` |
| `EvictionIsLeastRecent` | the action property `EvictsTheLeastRecent` |
| `StreamInvariant` | `StreamSpec => []StreamIInv`, of OpenAIStream |
| `StreamTypeCorrect`, `WholeStream` | `StreamTypeOK` and `WholeUnlessCancelled` |
| `AnswersInTurn` | `AnswersWhatItStreamed`, whatever the deltas mix |
| `FinalStreamProofs!Invariant` | `Spec => []IInv` |
| `TypeCorrect`, `OnlyTheAnswer` | `TypeOK` and `ForwardsTheRest` |
| `NoKeywordMissed` | `KeywordHeard`, if no keyword ends in a space |
| `TextSplitterProofs!Invariant` | `Spec => []IInv` |
| `TypeCorrect`, `TotalCorrect` | `TypeOK` and `TotalIsLength` |
| `ChunkSizeKept`, `OverlapKept`, `OrderKept`, `WholeText` | the invariants of the run `splitter` but `NoNeedlessCut` |

*Apply.* `NoMisplacedResult` and the others are not inductive: that a result
stored is in place depends on the results in the channel, and that the channel
has room on where every input is. `IInv` accounts for the inputs: the jobs
waiting are the next ones in order (`JobsInOrder`); a worker holds a job iff it
is not selecting (`WorkerInv`); results in the channel carry their own input's
index and outcome (`ResultsInv`); an input not yet taken has no outcome
(`OutcomeInv`); as long as no zero result was received, each input taken is
with a worker, in the channel or stored (`StoredInv`), and the numbers of these
add up (`CountInv`). From `CountInv`, a worker that holds a result leaves room
for it in the channel. From `StoredInv` and `CountInv`, a collector that has
counted to the number of inputs has stored them all. A zero result needs a
closed channel, hence finished workers, hence a cancellation if inputs are
left (`ZeroOnlyWhenCancelled`), which is why the promise allows holes only then.

*AgentExecutor.* `PlaceInv` says what is in hand at each `pc`; `BracketInv`
ties the handler's events to `pc`; `NumberInv` numbers the actions announced
and those still to do; `StepsInv` says that the steps answer exactly the
actions announced, but the one in hand; `ReturnedInv` and `MemoryInv` keep this
for what was returned and saved. `AgentSeesEveryAction` needs `NumberInv`, since
at `pc = "act"` an action is announced by its number; the refinement needs
`BracketInv`, since the protocol decides by the last event what may follow.
With the functions agent, `AgentIInv` adds `CallsInv`, that what is to be done are
the actions planned last and the steps answer all those before, each by the tool
it named, and `ResponsesInv`, that a response calls what was planned.

*CombiningChains.* The properties speak of a finished call, so `IInv` says what
is in hand before it: which kinds of chain may be at each `pc` (`PlaceInv`);
while Apply runs, a result is there only of a run that returned it (`ApplyInv`),
a consequence of `ApplyPromise`'s actions alone; what is combined is all the
documents, in order, and in `map_reduce` each of them mapped (`TextsInv`); the
response is that of the last prompt, the one at a document's own number in
`refine` (`CombineInv`), or in `Constitutional` the one the last critique was
about (`CritiqueInv`). That the first of the ranked answers is the best follows
from the order alone (`FirstIsBest`), since sorting is not stable.

*ConversationMemory.* Every message is inserted in the log once, and a caller's
turn is nobody else's (`TurnsInv`); from this, what is acknowledged is in the log
in order. `BufferInv`: a durable store under a buffer memory *is* the log, which
gives `AckedTurnsKept` for any callers and crashes. What a trimming memory
stores, what it holds in hand to store and what a crash may bring back was said in
the order it is in (`Sorted`, by turn and role, which is the log's order where one
caller saves, and `Among`), and it agrees with the log from both ends backwards, as
far as `torn` (`Agrees`): these three are `Recalled`. A set that fails half-way
leaves something `Recalled` from the new `torn` on, which is the log's end, hence
whatever it left. `Enough` says that the store reaches back far enough, to `torn`,
by a whole window, or as far as the limit allows. `StoresGood` is both, of the
store and of what is in hand, and is kept by an insert, by what is lost and by what
is replaced, which are the three things any store's action does. How far behind the
end the messages of a turn can be is bounded by the turns since (`AgeInv`), so that
the last window of turns is within the window of messages.

These need conditions, which the code leaves to its user: one caller of a trimming
memory (`Alone`; two set what they read before the other inserted) and a select
limit not below what is stored (`ReadsAll`; MCMemoryLimit.cfg shows it to be
necessary). The configurations of the run `memory` satisfy both. Nothing is asked
of failures and crashes.

That the token memory keeps as much as fits is a statement about the past: each
end of the log longer than what is stored was found too long when it was cut, and
has only grown since (`Enough`). For that a trim may take one message only, from a
store that was just counted: at `read` the store is above the limit, and what is in
hand at `set` is its tail. A turn still being saved is not acknowledged, and one
that is was found to fit (`Fits`). `Tokens` is the number of elements of a set of
token places, so that it grows with its sequence without an induction. zep sets
nothing and is excluded.

*AnthropicMessages.* The response is a function of the events read, stated block
by block: each block told of is there, in its place, with the parts told so far and
no others (`BlockInv`); the stops and the message's own fields likewise
(`StopInv`). This is inductive by the order of the events: the block that a start
opens is the next one, because the stop of the one before it was told
(`OpenedInv`), and the part that a delta brings is the next of its block. At
`message_stop` everything has been told, so the message handed over is whole
(`LastInv`), which gives `WholeOrError`. What was shown is the deltas of text and
thinking up to the event in hand (`ShownInv`, `StreamedInv`), hence a beginning of
what the message says, in the order of its positions; that such an order exists
for any finite set of them is `OrderExists`. The replay goes block by block over
the choice, which has the message's (`AnswerInv`). That the service sends its
events in order is assumed; a stream cut, broken, failing or cancelled anywhere is
not excluded.

*KnowledgeBase.* The properties speak of a call that has ended, so `IInv` says
what a goroutine has done by where it is: past its body, the body is in the
bucket or in `lost`; done, so is the metadata (`UploadInv`); and as an object that leaves the
bucket is in `lost`, this outlasts the join (`LoadedInv`). A removal likewise leaves no object of this call behind it
(`RemoveInv`), which stays so because nobody writes for a call whose uploads have
ended. A completed job has found what was there (`JobInv`).

*OllamaChat.* `CacheInv` is about the cache, and the calls' steps preserve it
because they use it by its operations only. An entry's count is at most its
hits; that is not inductive, since a `Get` writes what it read earlier plus one:
`ReadInv` says that what it is to write is at most one above the hits, and that
for a reader that is alone nothing it read has changed, neither the count nor
the last access. Hence `LastAccessed` is the last access (`UsedInv`), and
evicting the entry with the least of them is evicting the least recently used
(`EvictsTheLeastRecent`, an action property). `WithinCapacity` counts entries
before and after an eviction. `ChatInv` ties what a call has gathered, shown and
made its answer to the lines read; a whole answer is there only after the last.

*OpenAIStream.* What the caller received is the deltas up to a line (`TakenInv`),
and where the goroutine is fixes which line (`PlaceInv`); the channel is closed
before the end of the stream only for a context that has ended or an error that
was sent (`ClosedInv`), which gives `WholeUnlessCancelled`. The answer's text is
the text of the deltas received (`TextInv`), each was given as its chunk
(`GivenInv`), and its calls have no parts but those dealt with (`PartInv`,
`TakenPartsInv`). That each call ends up with its own arguments is claimed of
streams whose calls come in turn (`CallsInTurn`, a condition within the property),
since `updateToolCalls` gives arguments to the call opened last: where they come in
turn, that is the call they are for (`CallsInv`). Of other streams the rest of the
property holds all the same.

*FinalStream.* Whatever the handler holds is a stretch of the text (`Piece`): the
chunk in hand (`ChunkInv`), the window, which is all that was handled or as long
as the longest keyword (`WindowInv`), and what is on its way (`WayInv`), which is
therefore a suffix of what was handled. That a keyword cut into chunks is found
follows from the window's length: one that ends in the chunk lies within window
and chunk together (`EndIsFound`). `HeardInv` says that before printing no
keyword has ended, and that printing began with nothing but spaces between a
keyword and what is on its way; `AfterKeyword` keeps the weaker bound that is
left when others replace the list. The lemmas on `FilterFinalString`, `TrimLeft`
and `Window` say what they cut off.

*TextSplitter.* A row of splits is an interval, so `IInv` speaks of intervals:
the calls of `splitText` on the stack adjoin (`StackInv`); the good splits end
where the call's separator is, and none is big (`GoodInv`); the interval in hand
is within them and at most a separator too long (`MergeInv`), and `total` is its
length (`TotalIsLength`), without which neither size nor overlap follows. The
chunks lie behind what is in hand, the last one overlaps it within the limit
(`OrderInv`, `OverlapInv`), and every atom behind it is blank or in a chunk
(`CoverInv`); when the outermost call returns, that is the whole text.

Model-checked only, because no proof has been written yet: `MessagesTypeOK` of
`AnthropicMessages` (what of it the invariant needs is `TypeInv`); `NoInputTwice`
(but as part of what `ApplyPromise` says); and `NoNeedlessCut` of the run
`splitter`. Because the provers cannot: all liveness (`NothingLeaks`,
`CallReturns`, `CallEnds`, `SaveReturns`, `StreamsToTheEnd`, `AddReturns`,
`Finishes`), since it rests on fairness and enabledness, which TLAPS does not
reason about here. What a fold computes for every input would need an induction
over data that the provers cannot instantiate: `Stats` is reasoned about entry by
entry (`HitsOf`), not as the sum it returns.

Where the code does otherwise than it says (`TrimShrinks`, `TrimKeepsNewest`,
`NoTransactionLeftOpen`, `NothingLost`, `KeywordNotForwarded` and the others of section 4),
there is a counterexample and nothing to prove.

## 6 What is not modelled

The other providers' adapters, the other vector stores, document loaders, tools
and HTTP helpers: requests to services, with no state of their own. Prompts,
output parsers, schemas and JSON codecs: formatting and parsing without state.
The chains for APIs, SQL, mathematics and retrieval: straight lines of prompts
around the chains that are modelled. The markdown splitter: a renderer of a
parsed document. The developer tools and the recording of HTTP exchanges for
tests: not part of the library's behaviour.

`SequentialChain`: its construction knows the outputs of all earlier chains and
accepts a later one that needs them, the call passes on the outputs of the last
one only; a deterministic loop, for which a test does as well.

Within modelled components:

- *Apply, chains*: keys of input and output maps, but for the ambiguities that
  fail a save or change a prompt; callback handlers, beyond what they are told.
- *memory*: the stores' connections and columns; `Clear`; two callers of a
  trimming memory; data races on the in-memory history, whose appends are not
  synchronised (`memory/chat.go:30`) and whose array a trim moves under whoever
  loaded it (`memory/token_buffer.go:73`).
- *anthropic*: the legacy completions, whose goroutine may outlive the call;
  building a request, and its failures on messages that cannot be sent; options
  and cache control.
- *ollama*: embeddings, the generate API, options, the tokens `Stats` averages.
- *final stream*: `DefaultKeywords` is read and replaced as if atomically; the
  reader's channel is never closed.
- *knowledge base*: searching and filters; the reasons a data source is refused;
  the client token, which covers contents but neither names nor metadata, so that
  Bedrock may take a changed document for one it has.
- *other providers*: the refreshing of ernie's token and bedrock's streams, which
  have goroutines of their own.
- `llms/cache`: two calls that miss at once both ask the model.

`"components"` in `PROJECT.json` has all of them with the reason.

## 7 The plan

Done, in this order, the most important behaviour first: the pool every mapping
chain runs on (`Apply`) with its promise and its proofs; the agent loop within
`chains.Call` with its protocol and proofs; memories over stores; the streamed
chats; the splitter; the chains composed over `ApplyPromise`, with their proofs;
what stands around these: the final-stream handler, the functions agent inside
the executor, ollama's cache under its chat; the loading of a knowledge base.

Then the proofs for the memories, the knowledge base, the cache and the chat
over it, the final-stream handler and the splitter; those for the streamed
chats of openai and anthropic, and for what a token memory keeps; and that the
executor with the functions agent in it is one of `AgentExecutor`'s. Every safety
property of a passing run but `NoNeedlessCut` of the splitter has a theorem.

Next, to prove: `NoNeedlessCut`, for which the invariant has to remember where a
merge last emitted, and what it then held.

Next, to model: `SequentialChain`; the goroutines of bedrock's streams and of
anthropic's legacy completions; the slice behind the in-memory history, shared
between callers, and `Clear`.
