# AstraCoreAI: models, checks and proofs

AstraCoreAI is a chat and agent server: one FastAPI process (or several behind
a load balancer) with a SQL database, optional Redis, APScheduler for scheduled
tasks, MCP tool servers and LLM providers. Its hard part is not any single
computation. It is that a conversation lives in several places at once (a row, an
object in memory, a queue per client, a transcript, two copies of its history)
and that requests, background tasks, timers and restarts change these places in
turns, with an `await` between almost any two of them. This directory models
those places and turns in TLA+, checks them with TLC on small instances, and
proves the central invariants with TLAPS for instances of any size.

All paths below are under `src/src/astracore/` unless they start with `docs/`.

- [1 Inventory](#1-inventory)
- [2 Modules](#2-modules)
- [3 Runs](#3-runs)
- [4 Disagreements between code and docs](#4-disagreements-between-code-and-docs)
- [5 Fairness](#5-fairness)
- [6 Proofs](#6-proofs)
- [7 Plan](#7-plan)
- [8 Not modelled](#8-not-modelled)

## 1 Inventory

The process is one asyncio event loop. What a coroutine does between two
awaits is atomic; anything else may run while it awaits. Nothing in the code
locks a conversation, a run or a task, so every await is a place where another
request may slip in. That is the concurrency the models are about.

| Component | State it keeps | Operations | Talks to |
|---|---|---|---|
| **Chat runs** (`modules/chat/api.py`, `application/run_executor.py`, `infrastructure/chat/run_registry.py`, `shared/domain/hitl.py`) | a `ChatRunRow` per run; `RunRegistry._local` (an `ActiveRun` with task, state, subscriber queues, open questions); per-request locals | create, execute, stream, ask and answer, cancel, delete | the chat pipeline, the database, Redis, the browser (SSE) |
| **Redis fan-out** (`run_registry.py`) | a snapshot key per run (6 h), event and control channels | persist, publish, subscribe, answer and cancel from another process | other server processes |
| **Conversation history** (`application/history.py`, `compactor.py`, `infrastructure/memory/hybrid.py`, `transcript_store.py`) | run rows, append-only transcript, short-term row, Redis copy, `_redis_disabled` | load, replay, compact, save, delete and rebuild, wipe | pipeline, chat API, Redis |
| **Tool loop** (`pipeline.py`, `tool_loop.py`, `tool_executor.py`, `tool_scheduler.py`, `llm_round.py`, `modules/tools/application/partition.py`) | messages of the turn, token budget, event queue of a batch, files read | rounds, partitions of parallel and serial calls, gates, closing round | LLM adapters, tools, hooks, chat runs (questions) |
| **Parallel agents** (`infrastructure/tools/parallel_agent.py`) | a tool loop, session and budget per sub-agent, one queue they share | fan out, forward events, join, cut | tool loop |
| **LLM adapters** (`infrastructure/llm/`, `session_context.py`, `prompt_builder.py`, `attachment_loader.py`) | nothing between calls; within one, buffers of half-received blocks and calls | history to request in three dialects, cache marks, sampling options, chunks to events | providers, tool loop, history |
| **Tool adapters** (`infrastructure/tools/mcp.py`, `composite.py`, `native.py`) | connection, lock and tool list per MCP server, a routing table, the functions of the program | start, connect, retry, stop, register, route, call | MCP servers, tool loop |
| **File and shell tools** (`mcp_servers/`, `read_tracked.py`) | files, and the paths a turn has read | read by pages, write, edit, edit in batches, move, delete, search, run a command | the file system |
| **Policy engine, circuit breaker** (`shared/policy/`) | state, failure count, opening time | check, success, failure, retry | LLM and tool calls |
| **Workflow** (`infrastructure/workflow/native.py`) | task states per workflow, results | execute by layers, pause, approve, resume, cancel | agents |
| **Attachments** (`modules/attachments/`) | a row per attachment and a file per content | upload, read, delete | chat runs, conversations |
| **Long-term memory** (`modules/memory/`, `infrastructure/memory/store.py`, `vector.py`) | rows, vector index, proposals, project binding | create, patch, delete, extract, merge, compact, promote, review, recall | pipeline, handlers, vector store |
| **Scheduled tasks** (`modules/scheduling/`) | task rows, APScheduler's persistent job store, `_RUNNING_TASKS`, a semaphore | create, update, pause, resume, delete, run now; fire, count, finish; start up | chat runs, conversations |
| **Conversations** (`modules/chat/conversations_api.py`) | a metadata row | list, rename, pin, delete | chat runs, history, memory, attachments |
| **Retrieval, skills, settings, projects, users, auth, speech, SDK, built-in tools, observability** | at most one row per request or none between requests | lookups, input and output | the rest |

What makes each of the stateful ones correct, and what is hard about it:

* **Chat runs.** A run settles in the database exactly as it settled in memory;
  no client is told of an end the database does not hold; a client that joined
  in time is released and, after "done", shows the whole text, whatever its
  bounded queue dropped; a tool gets the answer to its own question; a settled
  run never runs again and its text never shrinks. Hard: cancel, timeout,
  answer and normal end race for the same row and the same `Future`; a client
  joins between any two of the three steps of an end; a second cancellation
  cuts the handler of the first; a restart leaves rows that say "running".
* **Conversation history.** Every turn hands the model all that earlier turns
  said (in full or summarised) unless it was deleted; the copies agree when
  nobody is writing; the transcript is never behind the copies. Hard: the
  save is shielded and survives the cancellation of its turn, copies are
  written one after the other, an empty copy and a lost copy look alike.
* **Scheduled tasks.** An active task has its job and no other task has one; a
  task does not overlap itself; its firings share a conversation and are
  counted; a date is kept across a restart. Hard: the job is changed two awaits
  after the commit, firings work on a row they read minutes ago, the job store
  survives crashes that the requests do not.
* **Tool loop.** Every call gets exactly one result, in the order of the calls;
  calls that get in each other's way keep their order; the user sees every
  result the model is given; budgets bound the loop; a turn ends and leaves no
  task, sub-agent or question behind, however it ends. Hard: parallel tools
  share one event queue whose consumer counts ends, a stop cuts a batch at any
  await, a tool may run sub-agents that have tasks and a queue of their own.
* **Fan-out.** A process that does not own a run sees its end and is heard when
  it cancels it; nothing is answered or started twice. Hard: the snapshot and
  the channels are written by tasks nobody awaits, in any order, and a channel
  forgets what nobody is subscribed to.
* **LLM adapters.** The calls a provider made come out of its chunks, each with
  its arguments; every request pairs calls with results and repeats the
  provider's own blocks as they were; the cached prefix stays. Hard: chunks of
  several calls mix and may lack index, id or name, arguments break, histories
  are filtered between turns.
* **Long-term memory.** What was told is kept until somebody removes it or a
  summary that is stored leaves it out, what a locked memory says is the user's, what was forgotten does not come back. Hard: every
  operation reads, asks a model and writes, the others do the same meanwhile,
  and the vector index follows the rows or does not.
* **Tool adapters.** A call reaches who is shown to serve it and gets its own
  answer; a stop leaves nothing. Hard: servers hang and fail while they are
  connected, called and stopped; hooks change a call between its gates.
* **File and shell tools.** An edit replaces what it names and nothing else.
  Hard: a batch is checked on one text and made on another; commands change
  files beside the tools.
* **Breaker, workflow, attachments.** The breaker shelters the provider and
  closes again; tasks run once, after their dependencies; rows and files agree.
  Hard: late answers, pauses in a failing layer, bytes shared by conversations.

## 2 Modules

| Module | Models | Uses |
|---|---|---|
| `ChatRun` | background runs of one conversation in one process | |
| `RunLedger` | what the table `chat_runs` promises, whoever writes it | |
| `ChatRun_proofs` | theorems about `ChatRun`: its tasks, its rows, what clients are told, and that it implements `RunLedger` | `ChatRun` |
| `RunFanout` | one run seen from another process, through Redis | |
| `RunFanout_proofs` | theorems about `RunFanout` | `RunFanout` |
| `SessionHistory` | the four copies of a conversation | |
| `SessionHistory_proofs` | theorems about `SessionHistory` | `SessionHistory` |
| `ToolLoop` | one streamed turn: rounds, batches, tool tasks, sub-agents | |
| `ToolLoop_proofs` | theorems about `ToolLoop` | `ToolLoop` |
| `LLMDialogue` | a conversation in a provider's dialect: requests, chunks, replays | |
| `ToolServers` | the way of a tool call: gates, routing, MCP servers | |
| `FileTools` | the file and shell tools and what they do to files | |
| `MemoryEngine` | the memories of one user and one conversation | |
| `Attachments` | attachments and the conversations they belong to | |
| `CircuitBreaker` | concurrent requests with retries at one breaker | |
| `CircuitBreaker_proofs` | theorems about `CircuitBreaker` | `CircuitBreaker` |
| `Workflow` | one workflow of dependent tasks and its runs | |
| `Scheduling` | task rows, jobs and firings | |
| `Scheduling_proofs` | theorems about `Scheduling` | `Scheduling` |
| `Context` | what a turn works with, side by side | `MemoryEngine`, `LLMDialogue`, `Attachments`, `FileTools` |
| `Context_proofs` | theorems about `MemoryEngine`, `Attachments` and `FileTools` in `Context` | `Context` |
| `Services` | what work is handed to, side by side | `CircuitBreaker`, `ToolServers`, `Workflow` |
| `Services_proofs` | theorems about `ToolServers`, `Workflow` and the breaker in `Services` | `Services`, `CircuitBreaker_proofs` |
| `MC*` | symmetry sets, replies, scenes, and properties that belong together | the module they are named after |

`Context` and `Services` put components that share no state into one
specification: the variable `part` says whose behaviour it is, the variables of the others
stay as they begin, and the constant `Parts` selects components. What it proves of
one component holds of it alone, as a step of another leaves its variables as they are
(`StepsOfParts`). A component with
a constant `Scenes` is configured by its variable `scene` (`setup`, `plan`, `talk`,
`stock`, `desk` where it is instantiated), which never changes: one run covers many
configurations, each small.

Everywhere, one action is what the code does between two awaits. A database
write takes effect in one step and its caller goes on in a later one. Control
points (`pc`, `cpc`, `spc`, `kpc`, `fpc`, `rpc`, ...) are the awaits at which a
coroutine is suspended, and they are named after what comes next.

### ChatRun

The background task of run `r` (`_run_chat_in_background` around
`execute_run_loop`) moves `start -> prepare -> stream (<-> ask) -> save -> write
-> meta -> finished`. `Fail` leads to `fail -> failed -> errored`, a delivered
`CancelledError` to `halt -> halted -> stopped`, a second one inside a handler
to `cut`. At `start` the task was created and the event loop has not run it yet; one
that is cancelled there ends `unstarted`: the error is thrown into a coroutine that has not
reached its `try` (`api.py:535`), so neither its handler nor the `finally` that pops
the run (`:570`) is executed, and the run stays registered, marked as cancelled, until the
process ends. The canceller alone writes and announces its end. The handlers of `api.py` are small machines of their own: a create
request reads the running row, settles a stale one, inserts its own and
registers it; a stream reads the row, looks into the registry, sends the first
snapshot, then either subscribes, ends, or marks the row as interrupted; a cancel
request marks the task, writes the row, and announces. `Answer`,
`DeleteSession`, `DeleteMessage` and `EraseAnswer` are single steps. `Restart`
keeps the rows and nothing else.

| State | Code |
|---|---|
| `row` | `ChatRunRow.status`, `assistant_content`, and why `error` is set |
| `local`, `status`, `question`, `answer` | `RunRegistry._local`, `ActiveRun.state["status"]`, `pending_question` and the `Future` in `_hitl_futures` |
| `text` | `accumulated_content`, which the state sink mirrors in `ActiveRun.state` |
| `cancelled` | live tasks with a `CancelledError` still to be delivered |
| `stored` | the row `update_run_row` returned to the task |
| `queue`, `view` | a subscriber's bounded `asyncio.Queue`; what its browser shows |

Abstractions: a text is the number of its deltas; thinking and tool events are
left out, as they go through the same queue and change no state modelled here;
database operations do not fail; there is one conversation and no Redis; a
queue of the code holds 200 events, here 2, so that overflow happens.

`RunLedger` is the abstract specification: a row is inserted once as running,
settles, may settle otherwise, never runs again, keeps its text unless a user
erased it, and does not come back once deleted. `LedgerSpec` says that
`ChatRun` implements it with the rows as they stand.

### RunFanout

One run, its owner process and one other process with at most two clients at a
time (a stream, a cancel request, an answer, a request for a new run), or the
death of the owner.

| State | Code |
|---|---|
| `row`, `task`, `entry`, `question` | the run's `ChatRunRow`, its task, `ActiveRun.state`, the open `Future` |
| `ear` | `_listen_for_hitl` and `_listen_for_cancel`: not yet subscribed, subscribed, gone |
| `air` | Redis commands sent with `create_task` and awaited by nobody: they land in any order |
| `snap`, `off` | the snapshot key; processes whose `_redis_disabled` is set |
| `stream`, `cancel`, `answer`, `create` | the handlers of `api.py` at the other process, at the await they are suspended at |

The task moves `talking (<-> asking) -> saving -> stored -> over`, cancelled through
`halting -> halted`. A cancellation during `saving` may cut it, be swallowed by
`_save_session_safe` (`pipeline.py:683`; it goes on and the run becomes "done"), or come while
the commit of "done" is under way, which lands before the handler writes (`landing`). `Preempt`
is the cancellation before the first step, which only a request at the owner is fast
enough for: the task is `unstarted`, its run stays registered with its listeners on.

What follows from the code and is excluded by name, not hidden: a stream that
read a running row and subscribed after the last event never ends; an answer
that comes too late is told "ok"; a request for a new run that comes while the
first snapshot is in the air makes a twin; the older text of a remote cancel may
overwrite the owner's fuller one.

### SessionHistory

A turn is `load_history` (Redis, then row, then replay of the transcript),
`maybe_compact`, the rounds of the tool loop, and `_save_session_safe`: append
to the transcript, write Redis, write the row. A save is a machine of its own,
because `asyncio.shield` lets it go on when its turn is cancelled. Deletions
remove a run row or empty it and rebuild the copies from the rows; a session
wipe removes the copies. Redis may fail (the process then gives it up for
good), its value may expire, appends and writes may fail, saves may be cut,
processes may restart.

A message is an id, a kind and the set of things it says (`<<t, "user">>`,
`<<t, "answer">>`); a summary says all that the messages it replaced said. So
"nothing is lost" is a statement about sets. `scene.overlapping` tells whether
requests may overlap; with FALSE each waits for the last, which is how one user
with one browser uses a conversation. The other fields of a scene bound the
rounds, failures, stops, cut saves and restarts. Compaction replaces the oldest
60 % (at least two) once the token estimate is exceeded; the estimate is a free
choice. The history variable `disturbed` records that two writers overlapped or
that a save failed or was cut.

### Scheduling

A request is `commit -> refresh -> job change`, the three awaits of
`task_service.py`. A firing is `begin -> lookup -> wait -> resolve -> insert ->
run -> stats -> write -> finish`, the awaits of `runner._fire`. APScheduler is
external and modelled from how it is configured: a due job is handed to the
loop and, if it has a date, leaves the store; one instance per job; a date
later than the grace time is missed; the store survives. A trigger is a date
or `Repeat` (cron, interval). `Start` is the lifespan hook that registers every
active task again. Users may watch or cancel the run of a firing, or delete its
conversation.

Abstractions: the run of a firing is one step between two awaits (its inside is
ChatRun's task without a registry entry); tasks start without a conversation;
a batch deletion is several deletions; `error_count` is left out, as nothing
reads it. History variables record what properties exclude: requests that
crossed (`raced`), jobs left by a crash (`torn`), firings that overlapped.

### ToolLoop

A turn is `llm -> tools -> llm ... -> done`, with `closing` if the loop ended
without text. Every end is a value of `pc`: `done`, `failed`, `budget` (the
message of the round that exceeded the token budget is dropped), `cancelled`.
Each call of a batch has a task, at `gates`, `confirm` (waiting for the user's
approval), `exec` or `ask` (a tool that asks), then `over`; a stop turns the live
ones into `cut`.

| State | Code |
|---|---|
| `msgs`, `round`, `used` | the messages `_run_loop` adds to the session, `iterations`, the token counts of `TurnBudget` |
| `batch`, `phase` | the tasks `run_streaming` created for the batch, and where each one is in `ToolExecutor` |
| `queue`, `done`, `results` | the batch's `asyncio.Queue`, `done_count`, `results_by_idx` |
| `readFiles` | `_read_files` of `ReadTrackedToolAdapter` |
| `question` | questions open through `hitl_callback` |
| `agent`, `spoken`, `inner` | the sub-agents of `spawn_agents`, what each has put, and their queue |
| `shown`, `agentShown` | what `execute_run_loop` has passed on to the browser |

Both queues are unbounded and a `put` into one never suspends, so a task puts its
result and its end in the step that ends its last await, and the consumer
starts the next batch (or the next request) in the step in which it takes the
last end.

Abstractions: calls have a kind (`lookup`, `reference` with a path, `read`,
`edit`, `ask`, `confirm`, `spawn`), a path and whether their arguments are
broken; a round costs one token; hooks that answer in a tool's or the model's
place, policies and bad arguments are one refusal, or one reply (the gates
themselves are in `ToolServers`); the inside of a sub-agent, which is a tool
loop with its own session and budget, is the events it forwards. Registration
follows the product's registry: whatever asks the user, writes, or spawns is
registered as unsafe. Only the streamed loop is modelled; the rounds of the
blocking variant are in `LLMDialogue`.

### LLMDialogue

Several turns of a conversation with one provider. A turn converts the session
into a request (`Send`), takes the answer chunk by chunk (`Arrive`, one action per
kind of chunk) or at once, executes the calls and goes round again; at its end
`prepare_for_save` says what the next turn begins with. A turn may be cut, and a
provider may refuse before the first chunk and be asked again.

| State | Code |
|---|---|
| `msgs`, `reminder` | `SessionState.messages`; `active_skill` of `SessionContext` |
| `request` | what `_convert_messages`, `_to_responses_input`, `prompt_cache.py`, `prompt_builder.py` and the sampling options make of them |
| `reply`, `at` | the provider's blocks and how many chunks of each have arrived (external) |
| `buf`, `index`, `blocks`, `calls` | `block_buffers` / `tool_call_buffer`, `tool_call_index_map`, `completed_blocks`, events sent on |

Four dialects: Anthropic with and without replay of the provider's blocks, Chat
Completions, Responses. A text, a file and the arguments of a call are known by
where they come from (turn, round, block), so "the request repeats what was
answered" and "each call has its result" are statements about ids. Arguments are
`full`, `empty`, `bent` (repaired by the code) or `broken`. A provider that mixes
chunks of several calls does so in one of three styles: with an index, with an
id or name that comes late, with ids only.

Constants that matter by their relation only are small: marks every 3 blocks
instead of 15, a reach of 5 instead of 20, 3 recent turns as in the code.
What the code does and no property calls wrong: the Responses dialect turns
broken arguments into `{}` without an error; the blocking Chat Completions path
parses arguments without a guard, so they fail the turn; a provider with late
ids can change the order of calls; a round of ten or more parallel calls puts
the old cache mark out of reach (`CacheReused` says so in its premise); the
marker of a skill is written even if the limit was reached before `load_skill`
ran, and is an empty message when the model said nothing with it.

### ToolServers

The way of a call: `before_tool` hooks, policy, routing by the composite adapter,
then a function of the program or an MCP server behind its lock. Beside it run
the connection tasks of the servers, `start`, `stop` and late registrations.

| State | Code |
|---|---|
| `phase`, `attempt`, `ready`, `stopping` | `_run_server` of each server and its two events |
| `clients`, `defs`, `serverOf` | `_clients`, `_definitions`, `_tool_server_map` |
| `chain`, `routing`, `user` | `CompositeToolAdapter._adapters` and `_routing`, the user's `NativeToolAdapter` |
| `queue`, `inClient` | the `asyncio.Lock` of a server with its waiters; calls inside the client |
| `call` | where each call is and what its caller got |

External: the servers (they may hang, fail, list a tool whose schema cannot be
parsed, never answer) and fastmcp's client, of which the comment on the locks
says that two calls at once may mix their answers. A scene tells product (the
application's factory or the SDK), hooks and whitelist. `InUse` keeps one thing
out: nobody registers tools with a client that is being closed (a name that was
routed to the MCP adapter and is registered in the user's afterwards would then be
shown and not found).

Seen and left as they are: of two servers with one tool name the first one's
definition is shown and the last to connect serves; an unreadable schema in the
middle of a list leaves the tools before it on offer without a client, once more for each
retry; the SDK forgets an adapter whose start timed out without stopping it; a
call that timed out is reported as aborted though the server may go on with it; a
server that breaks after it connected is not connected again.

### FileTools

Two paths of one allowed directory. A handler of the file server has no await
and is one step; a shell command writes, creates and removes beside them and
may be killed. `disk` is a sequence of characters per file, where an end of line of
two bytes and a byte that is no UTF-8 are characters of their own, so that
reading and writing back is modelled by what it does (`Text`). `readFiles` is
`_read_files` of `ReadTrackedToolAdapter`, one set per turn; `cursor` is a client that
reads one file page by page; `before` and `answer` are the disk before the last
call and what its caller was told.

Left as they are, with a claim of section 4 where a line says otherwise: an edit
rewrites ends of lines and bad bytes of the whole file; a batch is checked
against the first text and made on the changing one; `batch_edit_file` passes by the
check that a file was read; a read of a missing file counts as a read; a search sorts
after it stopped counting; the exit code of a command is text; the children of a
killed shell go on; a move over an existing file says nothing.

### MemoryEngine

The memories of one user and one conversation, worked on by two operations at
once, each of them one of create, patch, delete, extract and save, merge,
automatic compaction, promotion (direct or as a proposal), review of a
proposal, recall, deletion of the conversation, binding and unbinding of a
project. Every operation runs from await to await and may be cut at any of
them.

| State | Code |
|---|---|
| `rows`, `index` | `MemoryRow`, and the documents of the vector store with what recall and deletions read of them: the status, and whether they name the conversation |
| `promos`, `project`, `bound` | `MemoryPromotionRow` by source, the project and the conversation's binding |
| `op` | for each operation: where it is, the rows it read (`seen`), what is left to do (`todo`) |
| `told`, `gone`, `shed` | history: facts stored, removed on purpose, overwritten from an old reading or left out of a summary |

The content of a memory is the set of facts it says; a text brings one fact. The
model's answers are free. A summary says any part of its sources (`Summaries`): the
model sees the first 6000 characters of them only (`engine.py:970`), and without an answer
`_fallback_summary` keeps the first three of each type in 1200 characters
(`:1120`); the sources are deleted all the same. What it leaves out goes to `shed`. An extraction
brings one candidate. A locked memory that already says what the candidate says is merged
with it like any other (`:877`); against one that says something else the candidate is
rejected. Facts lost to a write from an old reading are in `shed`, too: the code has no
version check, so a promotion that archives its source writes the text it read over
an edit made meanwhile. A second deletion of a project finds none and deletes
nothing (`store.py:107`). Further: direct promotion (`session_only=False`) has no caller in the
application; a durable memory that names a conversation is deleted with it; an approved
project memory gets no project (`unowned`) if the binding is gone; two reviews at
once may make two copies; the SDK's shielded extraction may store a memory after
`clear_session`.

### Attachments

Three attachment ids, two contents, two conversations, and four requests at once:
upload (file, then row), delete (row and the question who else has the
bytes, then the file), a chat run (row, look up, load the bytes, save) and the
deletion of a conversation (memories, then all rows in one transaction, then
the files). `rows`, `files`, `conv`, `session`, `cached`, `memory`, `runs` are the
tables, directory and copies they write; `keys` the files a deletion still has to
unlink; `raced` and `live` record the two races that properties except. A crash
may come between any two steps.

### CircuitBreaker

`PolicyEngine.apply_retry_policy` around a `CircuitBreaker`: each caller makes
requests of up to `MaxRetries` attempts; `check`, `record_success` and `record_failure`
are single steps, the call of the provider lies between them. Time is counted
in ticks since the breaker opened, and no further than `Recovery`. The provider
is healthy or not and changes at will. `streak` and `quiet` are history: how many answers
in a row failed, and how long ago the last did; properties compare the breaker
with them. The repository constructs no breaker itself; it is offered to users of the library.

### Workflow

One workflow of three tasks under three calls of `execute_workflow` and
`resume_workflow`. `Kahn` takes the tasks layer by layer as `_topo_layers` does; a
layer's tasks run at once and the run goes on when all have ended (`LayerDone`),
stops after a failure, a pause or a cancellation. `held` records the layer under way
when the workflow was paused.

Left as they are: a cancelled run stays "running" and can then not be resumed;
an approval before the pause completes the task and then raises; an unknown
dependency makes the workflow fail; the SDK's workflow client cannot pause.

## 3 Runs

Every passing run finishes without a state constraint: the bounds are constants in
guards. `CHECK_DEADLOCK FALSE` is set throughout, because the systems do stop:
requests are finite in number and a server nobody calls does nothing. Where
several small statements are about one thing, an MC module joins them under one name.

| Run | Properties | What it shows | Bounds |
|---|---|---|---|
| `chat_run_create` | `TypeOK`, `RegistryTracksTasks`, `LedgerSpec` | two create requests race for a run, a client watches, the run is cancelled at any await, before its first step too, the process restarts once: the registry follows the tasks, and every write to `chat_runs` is one the ledger allows | 1 run, 2 deltas, 2 create requests, 1 cancel request, queue 2, 1 restart |
| `chat_run_clients` | `ListenersTold`, `ToldTheTruth` (`AnnouncedOnlyIfStored`, `DoneViewComplete`), `NoZombieQuestion`, `AnswerMatchesQuestion`, `OutputKept` | a client joins a run at any moment, its queue overflows, two cancel requests race with answers and timeouts, messages are deleted | 1 run, 2 deltas, 2 questions, 2 cancel requests, queue 2 |
| `chat_run_live` | `EverythingEnds` (`RunSettles`, `QuestionEnds`, `ListenersEnd`) | runs settle, questions end, clients that joined in time are released | 1 run, 1 delta, 1 question, 1 cancel request |
| `run_fanout` | `NothingTwice` (`NoTwin`, `AnsweredOnce`), `RowFirst` (`TypeOK`, `ToldIsStored`, `NotWiped`), `CancelHeard`, `NothingStuck` (`StreamEnds`, `Recovers`) | two clients of another process at once, while Redis commands land in any order, one fails, the snapshot expires or the owner dies | 7 pairs of clients, 1 piece of text, 2 questions, 1 failure |
| `history` | `KeepsHistory`, `CopiesConsistent` (`TypeOK`, `CopiesAgree`), `DeletionsHold`, `TranscriptFirst` | three scenes: three turns with tools, a skill, a stop and deletions, one request after the other; two turns with a failing Redis and a restart; two turns at once with a fault, a stop, a cut save and a restart | 3 turns, 1 tool round, 2 deletions, one of each disturbance |
| `scheduling_rows` | `JobsMatchRows`, `RegistryExact`, `RowsConsistent` (`TypeOK`, `OneConversation`, `StatsExact`) | two requests of any kind, two firings, a deleted conversation | 1 task, 2 slots, one date |
| `scheduling_live` | `FiringEnds`, `DatesAreKept` | two firings compete for one slot, users watch and stop runs, the process crashes and starts | 1 task, 2 firings, clock 0..2, grace 0, 1 crash |
| `tool_loop` | `ConflictsHarmless` (`ConflictsInOrder`, `EditsFollowReads`), `ResultsComplete` (`TypeOK`, `ResultsMatchCalls`, `ResultsShownFirst`, `AgentsReported`), `NothingLeft` (`OneQuestion`, `NothingLeftRunning`), `BudgetsHold`, `LoopEnds` | every reply of `MCReplies`, in any order over two rounds; tools that succeed, fail, time out or ask; two sub-agents; a stop at any await | 2 rounds, limits {0, 2}, budgets {0, 1}, 2 sub-agents with 1 event each |
| `context` | `RoundsExact`, `NothingForgotten`, `CacheReused` (dialogue), `MemoryKept`, `MemoryForgets` (memory), `StoreClean` (attachments), `FilesExact` (files) | what a turn works with, see below | 2 memory operations, 6 rows; 3 turns, 5 rounds; 3 attachments, 4 requests; 2 files, 6 characters |
| `services` | `StatesTrue`, `TasksInOrder`, `Sheltered`, `OwnAnswer`, `ShownIsFound`, `WorkEnds` | what work is handed to, see below | 2 servers, 3 tools, 2 calls, 2 attempts; 2 callers, threshold, recovery and retries 2; 3 tasks, 3 runs |
| `history_deleted` | `DeletedStaysDeleted` (violated) | section 4 | 2 turns, 1 deletion |
| `scheduling_overlap` | `NoOverlappingRuns` (violated) | section 4 | 2 run-now requests |

The properties of the two joint runs:

| Property | Parts | Says |
|---|---|---|
| `RoundsExact` | `CallsRebuilt`, `CallsAnswered`, `ReplayExact`, types | the calls a provider made come out of its chunks, each has its result in the next request, and with thinking every round is sent back as it was answered |
| `NothingForgotten` | `NothingForgotten`, `SkillReminded`, `ParamsAllowed` | no user message, file or loaded skill is missing later, and no request has parameters the provider refuses |
| `CacheReused` | `PrefixKept`, `CacheReused`, `MarksWithinBudget` | the requests of a turn grow at their end only and find what the last one cached |
| `MemoryKept` | `NothingErased`, `DecidedOnce`, `LockedKept` | a fact is lost only if somebody removed it, wrote from an old reading, or stored a summary without it; a proposal is decided once; what a locked memory says is the user's |
| `MemoryForgets` | `Forgotten`, `NoGhostsRecalled`, `NoReturn` | what was to be forgotten is gone, does not come back and is quoted in no later context |
| `StoreClean` | `LostOnlyByRace`, `PromptComplete`, `NoOrphanFiles`, `RemnantsOfLiveRunsOnly` | rows and files agree but for one race, runs get their bytes, a deleted conversation is gone |
| `FilesExact` | `EditsExact`, `AllOrNothing`, `PagesCover`, types | an edit replaces what it names and nothing else or changes nothing; pages make up the file |
| `StatesTrue` | `TripsOnStreak`, `CompletedMeansDone`, `RunningIsRun`, `CyclesFound`, types | breaker and workflow say of themselves what is so |
| `Sheltered` | | the provider is not called while its last answers failed and the last is less than the recovery time ago |
| `TasksInOrder` | `DependenciesFirst`, `FinishedNotRerun`, `PauseHolds` | tasks run once, after all they depend on, and not after a pause |
| `OwnAnswer` | `OwnAnswer`, `LockWithTheLiving` | a call gets its own answer; a lock is held by a call that lives |
| `ShownIsFound` | `ShownIsFound`, `ConnectedIsOffered`, `StopIsFinal`, `BlockedNeverRuns` | what is shown can be called, a stop is final, what a policy forbids does not run |
| `WorkEnds` | `Recovers`, `CallsEnd`, `LifecycleEnds`, `RunsEnd` | calls, starts, stops and workflow runs end; the breaker closes for good once the provider is well for good |

Why the bounds are enough to be interesting. In `chat_run_clients` a queue of
two with two deltas, two question events and the two events of an end must drop
something; two cancel requests are needed for a handler that is cut; two
questions are needed for an answer to reach the wrong one. In
`chat_run_create` one request may find the row the other has inserted and not registered
yet, or the one a restart left, and the cancel request meets the task at every await. Two live
runs at once (both requests found no row) would need a second row, which with a
canceller is too much for one run; the theorems of section 6 hold for any number. `run_fanout` pairs the clients whose handlers touch the same
key or row; two questions let an answer come after the next question was asked.
`history` needs three turns: the first is compacted, the second saves the summary,
the third must still be told. In `scheduling_rows` two requests cross in every
order of their three steps, and two firings may overlap. In `tool_loop` the
replies hold every pair that matters (two safe calls, two on one path, safe beside
unsafe, read before edit, edit alone, an approval before a question,
`spawn_agents` before another call), a limit of two is the smallest at which tools
run and at which the last round may still call them, a budget of one ends the
second round, and two sub-agents are what it takes for one to end before the other.

In `context` the database starts full enough that one more memory compacts it
(threshold 1, of which 1 is kept), with one memory locked and used often enough to be
promoted, one that names its session but no conversation, and one that outlives the session, or with
a bound project and a proposal that waits; two operations meet at every pair of awaits. Dialogues of three turns let the first
turn's file, skill and thoughts be old when they are sent again, and a scene with five rounds is long
enough for a mark to fall out of reach. Two attachments share their bytes within one
conversation, across two, or not at all, with a third uploaded meanwhile. The texts of a batch of edits are
all of up to three characters, so that places overlap, meet and move. In
`services` one of two servers lists a tool of the other again, two calls are
what a lock is for, and three tasks make chains, forks, joins and every cycle.

Each property has a mutant of the code that violates it under the same
configuration: the operators whose comment starts with "Mutant:" sit before
the definition they replace.

Properties whose wording one may want to argue about:

* `ListenersTold` excepts clients that subscribed after the run was popped
  (`late`) and handlers cut by a second cancellation. Both exceptions are real
  behaviours of the code; the first is `FailureReachesListeners` of section 4.
* `OutputKept` says that a run that finished or stopped has all its text in its
  row even when the canceller wrote after the task. It holds because
  `CancelText` never stores an empty text over a stored one, and because the
  cancel request takes the text in the same step in which it cancels the task.
* `AnnouncedOnlyIfStored` holds for cancel requests only because the write comes
  first; the mutant that swaps the two breaks it.
* `NoTwin` names the races in which a second run does start beside a living
  one: all of them need a snapshot that is missing or a run being cancelled.
* `RegistryTracksTasks` has one exception, the entry of a task that was cancelled before
  its first step. It does no more harm than a status: the row is settled by the canceller, and
  the entry says "cancelled". A stream of such a run is released by the canceller's event, unless
  the row was deleted before (`ListenersEnd` excepts that case).
* `CancelHeard` begins where the owner takes the cancellation, and speaks of replies that
  are still being produced. What was published while the listener was not subscribed is lost;
  nothing in the code resends it. A reply that is complete may be recorded as done after
  the cancellation was heard: the save swallows it, or the commit was under way.
* `KeepsHistory` and `DeletionsHold` are about undisturbed conversations. With
  overlapping writers the last one wins and both fail; the code has no lock
  there and promises none. `CopiesConsistent` is undisturbed in its second half only:
  that no tool call reaches a copy holds always. `TranscriptFirst` never asks for quiet.
* `OneQuestion` rests on two facts far apart: whoever asks is registered as
  unsafe and so runs alone in its batch, and the context of sub-agents has no
  `hitl_callback`. `ActiveRun` has room for one question.
* `NothingLeftRunning` covers a stop in the middle of `spawn_agents`: the task
  of the tool is cut, cuts its sub-agents, waits for them, and only then lets
  the consumer go on.
* `JobsMatchRows` excludes tasks on which two requests crossed: `pause` and
  `resume` whose job changes come in the other order than their commits leave
  an active task without a job until the next restart, or a paused one with a
  job (whose firing `Lookup` then skips).
* `NothingErased` names the ways a fact may go: it was removed (`gone`), overwritten
  from an old reading, or left out of a summary whose sources were then dropped (`shed`).
  What it rules out is a fact that leaves in any other way, say with sources that are
  dropped before their summary is stored, or by an operation that was cut between two writes.
* `LostOnlyByRace` excepts bytes that are uploaded while they are being deleted:
  the deletion counts references before the upload's row is there and unlinks
  the file that row will name.

## 4 Disagreements between code and docs

Runs that are expected to fail, each with the sentence it refutes. The details
are in `PROJECT.json` under `findings`.

* **A deleted last message comes back** (`history_deleted`). When a deletion
  leaves no message, the rebuilt list is empty, `load_history` takes it for a
  lost one and replays the transcript, from which nothing is deleted.
  `api.py:442` says the model no longer sees deleted messages.
* **A task overlaps itself** (`scheduling_overlap`). `_RUNNING_TASKS` is checked
  two database reads before it is set; `runner.py:29` says it prevents
  overlapping runs.

Further statements are defined in the modules, with a configuration each that
TLC refutes; they are not among the regular runs. A configuration whose name ends in
`Claims` holds several of them, one counterexample each: start it with `-continue`.

| Statement | Configuration | Where it is said | What happens |
|---|---|---|---|
| `FailureReachesListeners` | `ChatRunClaims.cfg` | `docs/AstraCoreAI设计文档.md:349` | a stream that looked its run up subscribes after the run failed and was popped; nothing enters that queue, and its client waits for ever |
| `RequestsWellFormed` | `ToolLoopClosing.cfg` | `docs/工具循环踩坑记录.md:13`, `:20` | the last round still offers tools; if it calls some and says nothing, the closing request holds calls without results |
| `ErrorOnlyIfRunFailed` | `ChatRunClaims.cfg` | `docs/前端设计方案.md:440` | a stream that read "running" before the run finished writes "interrupted" over its "done" row |
| `RecordedOnce` | `HistoryRecorded.cfg` | `transcript_store.py:45` | messages rebuilt after a deletion have new ids and are recorded again |
| `ProcessesAgree` | `HistoryProcesses.cfg` | `hybrid.py:20` | a process that gave up Redis writes the row only; the others read what Redis held |
| `InterruptedTextSaved` | `HistoryInterrupted.cfg` | `llm_round.py:176` | the text is carried back "so that the caller saves the session with it"; the exception leaves `_run_loop` before `add_message` |
| `FinishedHasFired` | `SchedulingClaims.cfg` | `task_service.py:341` | `_fire` decides by the trigger it read before the run, though the task may have been given another |
| `PausedHasNoNext` | `SchedulingClaims.cfg` | `docs/astra/2026-06-18-scheduled-tasks.md:42` | an update of a paused task sets `next_run_at` |
| `MissedIsMarked` | `SchedulingMissed.cfg` | same file, `:179` | a date missed while the process was down leaves its task active without a job |
| `WatchedRunGoesOn` | `SchedulingWatched.cfg` | `docs/前端设计方案.md:440` | opening a scheduled run marks it as interrupted |
| `CancelReallyCancels` | `SchedulingCancelled.cfg` | `docs/前端设计方案.md:421` | cancelling a scheduled run does not stop it; its end overwrites "cancelled" |
| `OneProbe` | `CircuitBreakerProbe.cfg` | `circuit_breaker.py:6`, `:59` | half-open lets every caller through until one of them fails or succeeds |
| `FirstServes` | `ToolServersClaims.cfg` | `composite.py:25` | a name that was routed when the composite was built stays where it was, though an adapter listed before has it since |
| `AfterHookHeard` | `ToolServersClaims.cfg` | `hooks.py:3` | what an `after_tool` hook makes of a result does not reach the model |
| `FinishedNotRerun` | `WorkflowOverlap.cfg` | `native.py:12` | a second call while a run is under way runs tasks again |
| `ResultsHandedOver` | `WorkflowApproved.cfg` | `workflow_system.md:121` | an approved task is completed without a result, and those that depend on it are handed none |
| `TemperatureHeard` | `LLMClaims.cfg` | `pipeline.py:351` | the tool loop sends the adapter's default, not the temperature that was asked for |
| `ScanTold` | `LLMClaims.cfg` | `docs/astra/2026-06-24-attachments-feature.md:129` | the Responses dialect leaves out a PDF without text and says nothing |
| `RefusedAlone` | `LLMClaims.cfg` | same line | with Chat Completions such a PDF fails every later turn of its conversation too |
| `FileWhileReferenced` | `AttachmentsClaims.cfg` | `tests/attachments/test_api.py:98` | bytes uploaded while they are being deleted lose their file |
| `HistoryDeleted` | `AttachmentsClaims.cfg` | `conversations_api.py:210` | the Redis copy of a deleted conversation stays |
| `BatchAsListed` | `FilesClaims.cfg` | `filesystem_server.py:253`, `:259` | an edit of a batch replaces text that an earlier one put there, or at another place than was checked |
| `RestKept` | `FilesClaims.cfg` | `filesystem_server.py:212` | an edit rewrites ends of lines and bytes that are no UTF-8 in the rest of the file |
| `OnlyPlace` | `FilesClaims.cfg` | `filesystem_server.py:221` | places that overlap are counted once, and one of them is replaced |
| `EditsKnown` | `FilesClaims.cfg` | `read_tracked.py:1` | a batch edits a file that no turn has read |
| `NewestShown` | `FilesClaims.cfg` | `filesystem_server.py:474` | a search stops counting before it sorts: the newest file may be missing |
| `FailureIsError` | `FilesClaims.cfg` | `shell_server.py:176` | a command that fails is told as a result |
| `KilledIsQuiet` | `FilesClaims.cfg` | `shell_server.py:186` | after a timeout the children of the killed shell go on writing |

## 5 Fairness

* `ChatRun`: weak fairness of each task, create request, stream and cancel
  request. The event loop resumes every coroutine whose await has completed;
  database writes complete; the provider's stream ends (its client has a
  timeout); a question times out after `inline_question_timeout`; a browser
  reads its stream or goes away. Users owe nothing: answering, cancelling,
  opening and deleting are unfair.
* `RunFanout`: weak fairness of `Work` (tasks and handlers go on, a command that
  is on its way lands or fails, a snapshot expires) and of a request for a new
  run, which a user repeats. Nobody has to stream, answer or cancel, and nothing
  has to fail.
* `Scheduling`: weak fairness of requests, firings, the scheduler, the start
  after a crash and the clock; strong fairness of `Acquire`, since
  `asyncio.Semaphore` serves its waiters in the order they came and a slot may
  be taken and given back many times before one waiter has it.
* `ToolLoop`: weak fairness of the loop, of each tool's task and of the end of
  each sub-agent. The provider's stream ends or fails, a tool returns or is cut
  by `asyncio.timeout`, a question is answered or times out, a sub-agent's loop
  is limited to 15 rounds (`spawn_agents` itself has no timeout). Nobody has to
  stop a turn, and nobody has to speak.
* `ToolServers`: weak fairness of what a timer bounds, and of nothing else: a call
  times out, `start` gives up waiting, `stop` goes on. No server has to
  answer or connect, so `CallsEnd` and `LifecycleEnds` hold with servers that hang.
* `CircuitBreaker`: weak fairness of the clock and of each caller's next step,
  strong fairness of `Succeed`: with a healthy provider a user may cancel any
  call, but not every one for ever.
* `Workflow`: weak fairness of each run's next step; executors return or raise.

## 6 Proofs

`ChatRun_proofs` proves, for every number of runs, requests, deltas, questions,
restarts and every queue capacity of at least two (`ConstantsAssumption`):

| Theorem | Statement |
|---|---|
| `TypesAlwaysHold` | `Spec => []TypeOK`; no queue outgrows its capacity |
| `TaskInvHolds` | the inductive invariant below |
| `RegistryIsExact` | `Spec => []RegistryTracksTasks` |
| `QuestionsAreLive` | `Spec => []NoZombieQuestion` |
| `AnswersBelong` | `Spec => []AnswerMatchesQuestion` |

`RegistryTracksTasks` is not inductive alone. A create request that registers
a run adds it to `local` and starts its task; that keeps "registered exactly
while the task lives" only if the task was not alive or over before, i.e. only
if the id is new. `FreshRuns` says so: an id not yet handed out has no row and
no task, and each id between allocation and registration belongs to one request.
`NoZombieQuestion` in turn needs the registry (a question asked by a task that
was popped would stay), `AnswersFit` says that an answer waiting in a `Future`
names the open question, and `AnswerMatchesQuestion` follows from it when the
answer is taken. Their conjunction with `TypeOK` is

    TaskInv == TypeOK /\ FreshRuns /\ RegistryTracksTasks /\ CancelsMarked
               /\ NoZombieQuestion /\ AnswersFit /\ AnswerMatchesQuestion

`CancelsMarked` (a run whose task is being cancelled shows the status "cancelled") is
what makes the entry of a task cancelled before its first step one that says so.

`TypeOK` is inductive by itself and is proved first, variable group by variable
group (`RowsStep`, `RegistryStep`, ...), with one lemma per kind of step saying
what it leaves alone (`TaskFrame`, `CreateFrame`, ...).

Its second and third part go on to the rows and to the clients, under the same
assumption:

| Theorem | Statement |
|---|---|
| `RowsInvHolds` | the inductive invariant of the rows, below |
| `OutputIsKept` | `Spec => []OutputKept`: a row that is done or cancelled has all the text its run had when its end was decided |
| `ImplementsLedger` | `Spec => LedgerSpec`: every step is a step of `RunLedger` or leaves the table alone |
| `ListenersAreTold` | `Spec => []ListenersTold` |
| `ClientsInvHolds` | the inductive invariant of what clients are told, below |
| `ClientsToldTheTruth` | `Spec => []ToldTheTruth` |

A row has four kinds of writers: its task, cancel requests, streams that repair
and users who delete. `OutputKept` looks at the row when all is over, so the
invariant follows the text on its way there. `RowsFresh`: a row is inserted once, before
its task starts. `RowsBelow`: no row is ahead of the text of its task. `RowsKept`: a row
is done, or its task past its last write, only if it shows the whole text,
unless it was erased or deleted. `CancelsFit`: the text a cancel request carries
from its first await to its write is final, since `cancel()` was called in the same step as
the text was taken. `RowsInv` is their conjunction with `TaskInv`. Given it,
each step changes the table in one of five ways (`RowCases`), each of which
`RunLedger` allows.

Clients are told of an end by the last event of a queue, which pushes the oldest
out when the queue is full. `EndsHeld` says that whoever is about to announce an
end, or has one in its queue or in the row it read, follows a row that has one;
`DoneShown` says that "done" in a queue is the last event, and the one before it
(or what the client shows already) is the whole text. This is where the capacity
of two comes in: `Announce` pushes a snapshot and "done", and a queue of one would lose the
text.

`RunFanout_proofs` proves, for any clients that may come together, pieces of text,
questions and failed commands (`FanoutAssumption`):

| Theorem | Statement |
|---|---|
| `FanoutInvHolds` | the inductive invariant `FanoutInv`, below |
| `NothingHappensTwice` | `Spec => []NothingTwice`: `NoTwin`, `AnsweredOnce` |
| `RowComesFirst` | `Spec => RowFirst`: types, `ToldIsStored`, and the action property `NotWiped` |
| `CancellationsAreHeard` | `Spec => CancelHeard`, an action property |

Commands land in any order, so nothing can be said of the snapshot but bounds: no copy
of the text, in Redis, on its way there or in the hands of a cancel request, is ahead of
the run's own (`TextsBehind`). That is what makes a late write harmless: the task stores at
least what any of them held. `EndsStored` follows an end on its way (`EndKnown`): the task
past its last write, an event in the air, in a box, a row that was read, a client that
was told; each implies that the row is over. `HeardStops` says that a listener begins with the
task, and that a cancellation heard while the task talked or asked has taken it to
its handler: neither the save that swallows one nor the commit that outruns one is still ahead. `TwinExcused` carries a reason of `NoTwin` from where it arises to
the second run: as long as the first run talks or asks, a row that is over and a request that
is about to insert have a lasting reason (Redis failed, a cancellation, a stream that settled
the row) or found no snapshot in this very round. It needs `CancelledByRequest`, since a
snapshot that says "cancelled" is the one way to take a live run for dead that is not
a missing snapshot, and `StreamFresh`, since `told` is set anew only once.

`Scheduling_proofs` proves, for any tasks, users' limits, slots, dates, requests
and firings (finite sets, and at least one task: `SchedulingAssumption`):

| Theorem | Statement |
|---|---|
| `FiringsExactHolds` | the inductive invariant `FiringsExact`, below |
| `RegistryIsExact` | `Spec => []RegistryExact` |
| `RowsAreConsistent` | `Spec => []RowsConsistent`: types, `StatsExact` and `OneConversation` |
| `JobsFollowRows` | `Spec => []JobsMatchRows` |

`StatsExact` counts firings that ended; but a firing reads `run_count` and writes it back
two awaits later. `CountsExact` adds that what it has read is still what the
row says, which holds while no two firings of the task overlap: `RegistryExact` says
that the mark in `_RUNNING_TASKS` stands for the one at work. `OneConversation` needs
`ConversationHeld`: as long as a firing is between resolving its conversation
and writing it, the conversations of the task are in what it holds, otherwise in the row.
`FiringsExact` is the conjunction of these with the types, `InsertsOnce`
and places a firing has passed (`MarksFollow`).

`JobsMatchRows` speaks of tasks no request is about to change. `JobsInv` adds what is so
while one is: it is the only one between its commit and its job (two make the task `raced`), and
what it carries is still what the row says (`Stands`), but that a firing may have
finished the task meanwhile. So the job it sets at the end is the one the row asks
for. Its proof needs `InsertsOnce`, since a second insert would commit unseen.

`ToolLoop_proofs` proves, for any replies of the model (each a finite list of calls),
limits, budgets, modes, sub-agents and events (`ToolLoopAssumption`):

| Theorem | Statement |
|---|---|
| `LoopInvHolds` | the inductive invariant `LoopInv`, below |
| `ResultsAreComplete` | `Spec => []ResultsComplete`: types, `ResultsMatchCalls`, `ResultsShownFirst`, `AgentsReported` |
| `ConflictsAreHarmless` | `Spec => []ConflictsHarmless`: `ConflictsInOrder`, `EditsFollowReads` |
| `NothingIsLeft` | `Spec => []NothingLeft`: `OneQuestion`, `NothingLeftRunning` |
| `BudgetsAlwaysHold` | `Spec => []BudgetsHold` |

`LoopInv` has thirteen parts, each with a lemma for the initial state and one for the step:

| Part | Says | Needed for |
|---|---|---|
| `TypeInv`, `RoundInv` | the kinds of messages and events; a round is two messages and one token | all |
| `IdleInv`, `BatchInv` | where tasks can be; the calls before the batch are over and taken, those after it untouched | `ConflictsInOrder`, `NothingLeftRunning` |
| `QueueInv` | `done_count` is the number of ends taken; each end waits once, behind its result, and its call is over | the last end is the last: nothing of the batch is left in the queue |
| `ShownInv`, `SessionInv` | results shown belong to calls that are over; rounds before are answered | `ResultsMatchCalls`, `ResultsShownFirst` |
| `QuestionInv` | whoever asks is alone in its batch | `OneQuestion` |
| `AgentsInv`, `InnerInv`, `OutboxInv`, `ReportInv` | the end of a sub-agent is the last thing it puts into the inner queue, which the tool forwards into the outer one, behind all else of it and before the tool's own result | `AgentsReported` |
| `ReadInv` | a file in `_read_files` was read by a call whose result is in the session, in the round, or in an end that still waits | `EditsFollowReads`: an edit is alone, so nothing waits |

That `partition_tool_calls` makes batches without conflicts, and that an unsafe
call is alone in its batch, are lemmas about `Batch` for every list of calls
(`BatchParts`, `UnsafeAlone`); `FollowingParts` says that the next batch begins behind the last.

`SessionHistory_proofs` proves, for any number of turns, deletions, processes, rounds and
failures (`HistoryAssumption`; `NoCopyAssumption` says that the value for "no copy" is not
a list of messages):

| Theorem | Statement |
|---|---|
| `TypesAlwaysHold` | `Spec => []TypeOK`: ids are handed out before they are used, no tool call or result is in a copy |
| `LogInvHolds` | the inductive invariant of the transcript, `LogInv` |
| `TranscriptComesFirst` | `Spec => []TranscriptFirst` |
| `HistoryInvHolds` | `LogInv`, and `QuietInv` as long as the history is undisturbed |
| `CopiesStayConsistent` | `Spec => []CopiesConsistent` |
| `DeletedStaysAway` | `Spec => []DeletionsHold` |
| `HistoryIsKept` | `Spec => []KeepsHistory` |

`TranscriptFirst` holds whatever overlaps, fails, expires or restarts, so `LogInv` may not
assume an order of writers. Its parts:

| Part | Says | Needed for |
|---|---|---|
| `MessagesKept` | an id names one message, wherever copies of it are, and tool calls say nothing | an append skips the ids it knows: what it skips must say what the transcript says |
| `PlainCopies` | copies, and lists on their way to one, hold no tool call or result | `TypeOK` |
| `LoggedFirst` | what any list but a turn's own session says of a covered turn is in the transcript | `TranscriptFirst`, since lists move from copies to sessions and back |
| `SaysItsOwn`, `LoggedOnceSaved`, `VisibleIsOver` | a session holds what its turn said; past its append so does the transcript; a row is shown once its turn is over | a deletion rebuilds the copies from rows, not from messages |

`QuietInv` is about conversations in which requests come one after the other and nothing
fails. `OneAtATime` and `InStep` turn "undisturbed" into facts about who is at work and where;
`CopiesInStep` follows the Redis value between the two writes of a save. `PartsInv` accounts for
all that is said anywhere: it is shown by a row, or deleted, or its run goes on. That is
why a rebuild from the rows (`Rebuilding`) neither loses a turn nor brings a deleted one
back. `NothingBack` keeps deleted parts out of copies, sessions at work and saves until a replay;
`SavesWhole` and `NothingLost` carry what a turn said from its session through the transcript
and both copies to the next one, whichever of them that one begins from. The induction
over a session's length that `prepare_for_save`, replay and append need is
in `FlatAtNext` and `FlatteningExists`: the elements of a `FlattenSeq` are those of its blocks,
by the least length at which that could fail.

`CircuitBreaker_proofs` proves, for any callers and every positive threshold,
recovery time and number of attempts (`BreakerAssumption`):

| Theorem | Statement |
|---|---|
| `BreakerInvariant` | the inductive invariant below |
| `ClosedOnStreak` | `Spec => []TripsOnStreak`: closed exactly while fewer than `Threshold` answers in a row have failed |
| `ProviderIsSheltered` | `Spec => Sheltered`: no call while the last answers failed and the last is less than `Recovery` ago |

`TripsOnStreak` compares the state of the breaker with what the provider
really answered. It is inductive only with `CountsTrue`: the failure count is
the streak, an open breaker has been open as long as the provider has not
failed, and a half-open one let a request through only after `Recovery`. With
`AttemptsLeft` (a caller that may attempt has attempts left), which keeps the
types, they make up

    Inv == TypeOK /\ TripsOnStreak /\ CountsTrue /\ AttemptsLeft

`Sheltered` is an action property and follows from `Inv` before the step.

`Services_proofs` proves, for any callers, tools, servers, calls, retries, tasks, runs and
scenes (`ServicesAssumption`: a scene's fields have their types, and there are
finitely many tasks):

| Theorem | Statement |
|---|---|
| `ServicesInvariant` | the inductive invariant below |
| `AnswersAreOwn` | `ServicesSpec => []OwnAnswer`: own answers, and the lock of a server with the living |
| `ShownToolsAreFound` | `ServicesSpec => []ShownIsFound`: shown is found, listed is shown, `stop()` is final, blocked never runs |
| `StatesAreTrue` | `ServicesSpec => []StatesTrue`, if `"overlap" \notin Parts` |
| `TasksStartInOrder` | `ServicesSpec => TasksInOrder`, an action property, if `"overlap" \notin Parts` |
| `ServicesAreSheltered` | `ServicesSpec => Sheltered` |

The hypothesis of two of them is what the run has as well: the part `"overlap"` has scenes in
which a second caller does not wait for the run before, and for these the claim
`FinishedNotRerun` of section 4 says the opposite.

    ServicesInv == part \in Parts /\ Inv /\ ServersInv /\ (part # "overlap" => WorkflowInv)

where `Inv` is the breaker's. `ServersInv` has two halves. `AdapterInv` follows the three maps of
an adapter: `Defined` says that a definition has a server and a connected server all it
lists defined, `AppTools` that the application's routes to its built-in tools stay,
`ChainInUse` which chain of adapters is looked through, by how far `start` got. That is
what a routed name needs to be found. `CallsInv` is about the locks (`LockHeld`): the queue
of a server holds each call at it once, the one inside the client is its first, and nobody
else is; so whoever takes an answer sent the request, and a call that is cut at any
await gives up its place. A lemma about removal from a list without
repetitions carries it.

`WorkflowInv` says of a run under way (`LayersPassed`) that all layers before its own are
completed or skipped, and so is what it neither does nor has to do of its own, unless something
failed or paused. `PauseInForce` keeps a run in the layer the pause came in. Two lemmas are
about `Kahn` for every finite set of tasks: its layers grow until they stand still
(`KahnGrows`), and they leave tasks over exactly if some tasks depend on each other in a
circle; the induction they need is over numbers and done by the least counterexample
(`LeastOf`). They turn "no cycle was found" into "the last layer is the end", which is what
`StatesTrue` says of a completed workflow.

`Context_proofs` proves, for any operations, thresholds, memories and proposals to begin with
(`MemoryAssumption`), any uploads, contents, conversations and requests
(`AttachmentsAssumption`: two requests do not upload under one id, an id that is being
uploaded has no row, a run names attachments that were uploaded), and any finite set of paths,
turns, files, texts to search and texts to put in their place (`FilesAssumption`: no file to
begin with is longer than `MaxLen`; a batch is of two edits, as it is in every run):

| Theorem | Statement |
|---|---|
| `ContextInvariant` | the inductive invariant `ContextInv == MemoryInv /\ StoreInv /\ FilesInv` |
| `MemoryIsKept` | `ContextSpec => MemoryKept`: `NothingErased`, `DecidedOnce`, and the action property `LockedKept` |
| `MemoryIsForgotten` | `ContextSpec => MemoryForgets`: `Forgotten`, `NoGhostsRecalled`, and the action property `NoReturn` |
| `StoreIsClean` | `ContextSpec => []StoreClean`: `LostOnlyByRace`, `PromptComplete`, `NoOrphanFiles`, `RemnantsOfLiveRunsOnly` |
| `FilesAreExact` | `ContextSpec => []FilesExact`: `EditsExact`, `AllOrNothing`, `PagesCover` |

`NothingErased` is about facts, which move: a compaction stores a summary and then drops its
sources, with other operations between. `MemoryInv` therefore says of each operation, at
each await, what is so of what it has read (`OpOK`):

| Part | Says | Needed for |
|---|---|---|
| `OnPath`, `Works` | where an operation of its kind can be, and that it works on what it has read | all |
| `Known` | ids are never given twice, and whose a memory is never changes | a stale reading can be written back, but not to another's memory: `Forgotten`, `NoReturn` |
| `Compacts` | once its summary is stored, each fact of the sources is in a memory newer than all of them, or somebody removed it there, or the summary left it out | `NothingErased`: sources are dropped one by one; and, as none was locked when it was read, `LockedKept` |
| `Clears` | what of the conversation or the project is still to be deleted is what the steps to come select; of a project that is gone, nothing | `Forgotten` |
| `Recalls` | what was deleted before a recall is in nothing it holds | `NoGhostsRecalled` |
| `Decided` | copies of a proposal are no more than the reviews that are done with it | `DecidedOnce` |

Forty actions of any operation against six parts of any other would be a large table. `Progress`
cuts it down: it states once what every step does to rows, ids and facts (ids are new,
owners stay, a fact that leaves a memory was removed, shed, or is in one that is no older,
and a project goes with the memories that are its own), and
`NoDecision` that only a review makes copies. Each action has a lemma that it
makes `Progress` and leaves its own operation right (`StepTaken`); that the other
operations stay right under `Progress` is one lemma (`OpStays`).

`StoreInv` follows the bytes of an upload and the files of a deletion between their awaits:

| Part | Says | Needed for |
|---|---|---|
| `OnTheWay`, `UploadsFresh` | an upload that is not over has no row, and its file is there or was deleted meanwhile | `LostOnlyByRace` when the row comes |
| `UnlinkedIsFree` | a file about to be unlinked is referred to again only by an upload at the same time | `LostOnlyByRace` when the file goes |
| `FilesHaveCause` | without a crash, a file has a row, an upload or a deletion under way | `NoOrphanFiles` |
| `WantedStays`, `WantedFound` | rows nobody asked to delete are as they were, and a run has found them | `PromptComplete` |
| `RunsRecorded`, `AboutToGo`, `GoneForGood` | a run is in its table until its conversation goes; one that goes undisturbed has no run and no memory left, and gets none | `RemnantsOfLiveRunsOnly` |

`FilesInv` is short, its steps are about texts:

| Part | Says | Needed for |
|---|---|---|
| `Reading` | what a page-by-page reader of a file that stayed as it was has got is the lines before its next one | `PagesCover` at the last page |
| `DiskHolds` | files are texts of at most `MaxLen` characters; `order` names each of them once | a change is noticed by the reader, types |
| `AnswerHolds` | the last answer and the disk before and after agree: `EditsExact`, `AllOrNothing`, `PagesCover` | itself |

An edit cuts a text and puts another in (`Splice`), and a splice is known character by
character (`IsSplice`). `EitherFirst` says that two splices at places that do not meet make
the same text in either order. `TwoLand` is the heart of `EditsExact`: the second edit of a batch
searches a text that the first has changed; as no character of what was put in is in what
is searched and neither is empty, the place found is before or behind the first
edit, so it is a place of the text before. A gap that the first edit closes would be such a
place, too, and is why empty new strings are left out (`BatchAsListed` of section 4 shows what then
happens). The rest is about lists: the `k`-th of some numbers (`NthIs`),
what of a list is in a set, in its order and as often as before (`AmongIs`), and that the lines of a page
and those before it are the lines up to its end. A batch of any length would need an induction
over its edits.

Model-checked only: everything in `LLMDialogue` (`RoundsExact`, `NothingForgotten`,
`CacheReused`). Its properties compare what recursive functions
compute from lists (a history turned into a request and back, chunks put together),
which is induction over data. Liveness under
fairness (`EverythingEnds`, `LoopEnds`, `FiringEnds`, `DatesAreKept`, `WorkEnds` and the
others of section 5) and ENABLED are beyond the prover too.

Each inductive invariant was first an invariant of a run: of the
configurations of section 3, with all of them together for `ServicesInv` (182,051 states),
`MemoryInv` (520,669), `StoreInv` (8,734) and `FilesInv` (55,217), and for `LoopInv` also of one with three rounds. A few
statements changed on the way. `TypeOK` of `ToolLoop` bounded `done` by the number of
slots; the proof bounds it by the batch, which says more. The assumption on replies says
that their calls are a list, as the code's are, which TLC's values are in any case.
`HistoryAssumption` says that a deletion is not a turn, which TLC's model values take for granted.
`MemoryAssumption` and `AttachmentsAssumption` state what TLC's starts and scenes have, that
a memory to begin with is no copy of a proposal, and that uploads are new. In `FileTools`
a text with several edits at once is now made by one edit after the other from the last
place to the first, and a batch by a function of how many of its edits are made, instead of
by the folds of the community modules, of which the prover knows nothing; the runs find the
same states.

## 7 Plan

Written and checked: `ChatRun`, `RunLedger`, `RunFanout`, `SessionHistory`,
`Scheduling`, `ToolLoop`, `LLMDialogue`, `ToolServers`, `FileTools`, `MemoryEngine`,
`Attachments`, `CircuitBreaker`, `Workflow`. Proved: all safety properties the runs
check of all of them but `LLMDialogue`, and that `ChatRun` refines
`RunLedger`. What would come next:

| Step | Subject | Content |
|---|---|---|
| 1 | `LLMDialogue` | the parts of `RoundsExact` that are about one step: a call and its result |
| 2 | `MemoryEngine` | the profile in the system prompt, which reads what the other operations write |

Runs stay at a dozen: components that share no state are checked in one run, and
violated statements move to the table of section 4.

## 8 Not modelled

* Retrieval is a ranking over a vector database.
* Skills, settings, projects, users, authentication and speech read or write
  one row per request; what projects do to memories is in `MemoryEngine`.
* The client SDK, but for tools and workflows, and the configuration assemble
  the other components and forward calls to them.
* Creating, renaming and listing conversations, and the title and counters a run
  writes into the conversation's row (`run_executor.py:62-112`).
* Of the tools: web, time and skills; listings and file information, which are
  pure readings; trees of directories; the allowed-directory and command checks;
  the layout and truncation of answers. A file is read page by page in one behaviour at a time.
* Of the tool adapters: parsing of schemas, coercion of arguments, and
  `register_tool` of the MCP adapter, which always raises.
* Of the LLM adapters: structured output, token counting, and one code path that
  nothing calls (`_stream_normal`); redacted thinking, which the Anthropic stream does not
  collect (`anthropic.py:536-559`), and chunks that give different ids under one
  index (`openai.py:779-789`).
* Of the tool loop: an exception that leaves `_drive_one` (`tool_scheduler.py:105`), whose call
  would then put no end.
* Of the memory: the profile in the system prompt, ranking of memories, more
  than one user or conversation. Foreign keys are not enforced by the default database and not modelled.
* Tracing, hooks that only record, and evaluation never feed back.
* The scheduling of tools in the blocking variant of the tool loop (`ToolScheduler.run`).
* Several processes for anything but runs and histories: attachments,
  schedules and memories are modelled in one.
* Database failures in `ChatRun` and `Scheduling`: commits are assumed to succeed.
