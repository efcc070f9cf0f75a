# Formal models of the deep-agent stream backend

TLA+ models, TLC configurations and TLAPS proofs for the stream backend
(`src/stream-backend`): how a run of an agent is created, scheduled on Celery
workers or in the API process, resumed, cancelled and ended; how the states of
its thread and its events are stored; how the events reach those who follow
them; and which agent it runs. The code is the reference; documents are cited
only where they promise something the code can be held to.

Parse with `tlasany M.tla`, check with `tlc -config X.cfg M`, prove with
`tlapm M.tla`.

## 1. The system

| Component | State | Operations | Interacts with |
|---|---|---|---|
| Run service, `app/service.py` | per-process lock per thread, in-process tasks | `run.start`, streaming start, `resume`, `input.respond`, `cancel` | store, event log, Celery, runner |
| Celery client, `worker/client.py` | none | enqueue, liveness probe of a task | Celery broker, result backend, workers |
| Worker, `worker/tasks.py`, `celery_app.py` | shutdown flag, active tasks | execute a message, mark the run, retry, shut down | store, event log, runner |
| Research runner, `app/research_runtime.py` | copy of the run record, tables of messages, agent caches | `run`, `resume`, cancel poll, final snapshot, mirror of the agent's events | agent library, store, event log, assistants |
| Fixture runner, `app/deep_agent.py` | none beyond the record | scripted `run` with two subagents, `resume` | store, event log |
| PostgreSQL store, `app/store_postgres.py` | tables for threads, history, runs, snapshots, events; lock per process | whole-record upserts, `save_thread_state`, `append_event`, `list_events` | several processes at once |
| In-memory store, `app/store.py` | the same, in one process | the same | one process |
| Publishing repository, `app/event_bus.py` | none | persists an event, then publishes it | store, broker |
| In-memory broker, `app/event_bus.py` | numbered history (1000), subscriber queues (1000) | publish, list, subscribe, unsubscribe | streams |
| RabbitMQ broker, `app/event_bus.py` | producer, declared streams, consumers | publish with one retry, subscribe from an offset | RabbitMQ |
| Streams, `app/streaming.py` | subscriptions, run handles | iterate events, wait for the next event | broker |
| HTTP/WebSocket API, `app/main.py` | cursors and tables of open connections | run, thread and stream endpoints | all of the above |
| Projections, `app/projections.py`, `protocol.py` | none | pure functions of events and states | API, runners |
| Assistants, `app/assistant*.py` | folders or tables of configurations, scratch folders | CRUD, skills, build an agent | research runner |
| Web client, `ui/src` | React state | merge streamed messages, hydrate runs | API |

What makes it hard:

* **Whole-record writes of stale copies.** API requests, the worker's task body
  and the runner each read or carry a copy of the run record, and later upsert
  every column. Assistants are written the same way. Nothing compares versions.
* **Locks of one process.** `thread_locks`, the store's lock and the setup lock
  exclude tasks of the same process only, while the deployment may run several
  API replicas and workers.
* **Atomic until the next await.** With the in-memory store whole handlers are
  atomic; with PostgreSQL each store operation lets everybody else run.
* **Early acknowledgement.** A worker that dies loses its task; only a client's
  resume brings the run back, guided by a probe that may answer wrongly.
* **Two event logs.** The store numbers events 1, 2, ...; the broker numbers
  them again and keeps only some of them. Followers read the broker.
* **Cursors and waiting.** Streams, joins, waits and WebSockets subscribe, leave
  and come back with a cursor while events are published.
* **Tables beside the log.** Deltas do not name their message: runner and
  connections remember what is under way, and forget it when they end.

What makes the parts correct: a run ends once and its end is announced after
the record shows it; success is backed by a final state; a run is executed by
one task at a time; a created run ends; the logs have no gaps and a reader by
cursor misses nothing; a stream is complete and ends; no committed state of a
thread is lost; text keeps its message; a run's agent is not an outdated one.
Which of these hold, under which assumptions, is the subject of the runs below.
`PROJECT.json` lists the hazards line by line.

## 2. Modules

| Module | Content |
|---|---|
| `RunContract` | abstract: the statuses of runs and the announcement of their ends |
| `CeleryRuns` | detailed: service, worker and runner over a shared store, for the runs of one thread |
| `InProcessRuns` | service and both runners as tasks of the API process, over either store |
| `EventLog` | abstract: a gapless append-only log and the numbers its appenders are told |
| `EventFeed` | abstract: what those who follow the events of a thread by number are given |
| `PostgresEvents` | detailed: `append_event` and `list_events` of several processes |
| `ThreadStates` | one thread in PostgreSQL: row, history, metadata, run snapshots |
| `LiveEvents` | in-memory broker, publishing repository, streams, WebSockets, joins and waits |
| `RabbitEvents` | RabbitMQ broker: producer, retries, consumers |
| `MessageStreams` | from the agent's messages to the frames a client is sent |
| `Assistants` | one assistant, its files, and the agents built from it |
| `CeleryRuns_proofs`, `InProcessRuns_proofs`, `PostgresEvents_proofs`, `ThreadStates_proofs`, `LiveEvents_proofs`, `RabbitEvents_proofs`, `MessageStreams_proofs`, `Assistants_proofs` | theorems for all parameters |
| `MC...` | model values, symmetry and sets of parties for TLC |

How they compose: `CeleryRuns` and `InProcessRuns` are the two backends of the
run service; both see the store as a table of records. `PostgresEvents`
implements the log that the run models append to and `ThreadStates` the history
they write. `LiveEvents` and `RabbitEvents` are the two brokers that events are
published to. All three implement `EventFeed`, the promise to whoever follows
events by number (the in-memory broker until its history is full); it is what
`MessageStreams` relies on, which takes the events of a thread from either broker
as a log that every connection reads in order and without gaps. `Assistants`
gives the agent a research run needs before its first event.

### CeleryRuns

*State.* `rec` is the table `stream_runs` (status, cancel flag, task id,
reschedule count); `latest` and `finals` are what the state history says of
each run; `announced` the runs with a terminal lifecycle event; `queue` the
Celery queue, whose messages carry the record as it was when they were sent;
`ended` what a result backend recorded; `req` and `work` the local states of
API requests and worker slots, including their copies of the record.

*Actions.* Every read of the store, every write, every enqueue and every
terminal event is a step, because each is an `await` during which other
processes go on. `StartRunning, StartPending, StartCreate` are `_run_start`;
`StreamBegin` is the generator of `POST /runs/stream`; `StartGuard, StartSave,
StartEnqueue` are `start_run_task`; `Resume...` is `resume_run`; `Respond...`
is `_input_respond`; `Cancel...` is `cancel_run`; `Take, UpdateRead,
UpdateSave, Close` are `execute_run_direct`, `update_run_status` and the Celery
task; `Begin, SaveInitialState, ObserveCancel, StreamEnds, SaveFinalSnapshot,
SaveOutcome, TellOutcome` are the runner. `TaskActiveAnswers` is the set of
answers `is_task_active` may give.

*Faults* are switched on by the constant `Faults`: `worker_crash`, `api_crash`,
`shutdown` (tasks cancelled at an await), `enqueue` (the Celery broker refuses),
`abandon` (a streaming start is never scheduled), `unavailable` (the agent
cannot be built), `failure` (the agent fails), `transient` (Celery retries),
`store` (saving or announcing the outcome fails), `backend_down`.

*Left out.* The runner is strict (`research` mode: no fallback to the fixture
runner). The status `timeout` is never assigned by the code. `list_runs`
returns the newest run; any run of that status stands for it. The inspection
of the workers is one step. Run snapshots, inputs and events other than the
terminal ones are not modelled; nor is the deletion of a thread.
`recover_stale_runs` is never called. The queue is unordered, since several
workers and prefetching give no order.

### InProcessRuns

*State.* The records, the newest state of each run, answers, snapshots and
events as above; `attached` is `run_tasks`; `task` the asyncio tasks with their
children; `holder` is the coroutine that has the event loop and has not
suspended. With the in-memory store a coroutine keeps it until it sleeps, waits
for the agent, or ends; with PostgreSQL it gives it up after every operation.

*Actions.* One per store operation and suspension, as in `CeleryRuns`, for
`_run_start`, `start_run_task`, `resume_run`, `_input_respond`, `cancel_run`
and `_on_task_done`; `CommitPlan`, `Plan`, the `Subagent...` steps and
`GatherResults` for the fixture runner; the same runner steps as in `CeleryRuns`; and the fallback of
`AutoResearchRunner` (`AgentUnavailable`). `CancelDelivered` is the
`CancelledError` raised where a task and its children wait.

*Left out.* A step of the fixture's script stands for its many events. Preparing
a research run and building its agent are taken as suspending.

*Undisturbed.* With the fault `broken` (the agent fails in a way no handler
expects), and in the strict research mode when the agent cannot be built, a task
ends without the end of its run in the record. Such a run stays running; and a
resume that comes before `_on_task_done` starts a second task, whose entry
`_on_task_done` then removes, so that even with the in-memory store the run can
be executed twice. `Undisturbed` is the process in which neither happens and
whose store does not suspend; the properties that need it say so.

### PostgresEvents

*State.* `table` is `stream_events` of one thread (number to appender), `call`
the local state of each task in `append_event`, `told` the numbers it returned;
`seen` and `cursor` belong to readers by `since`. `base` and `calls` are not in
the code: what MAX(seq) was when the lock was taken, and a bound.

*Actions.* The pool runs in autocommit mode, so `Select` and `Insert...` are
separate transactions. `TakeLock` is the asyncio lock of the process.
`ConnectionLost` may or may not have carried out the insert; `Crash` stops all
tasks of a process. `ListEvents` reads any prefix above the cursor, which
covers `LIMIT 10000`; `since=None` is cursor 0. The log is followed until its
thread is deleted, after which the numbers start again.

### ThreadStates

*State.* The rows of one thread in `stream_threads`, `stream_thread_history`,
`stream_runs` and `stream_run_snapshots`; `lock` says which open transaction has
written which of the two rows of the thread; `repo` is the asyncio lock of each
process; `actor` the local state of each request or run.

*Actions.* One per statement: `ensure_thread` (two inserts that may find the row
taken), `save_thread_state` (ensure, `SELECT ... FOR UPDATE`, update of history
and row, commit), `update_thread_metadata`, `delete_thread`, `save_run`,
`save_run_snapshot`, and the reads between them. Statements see what is
committed when they start; a cycle of waiting transactions is broken by aborting
one; a connection may break at any statement, with the commit carried out or
not.

*Left out.* Timestamps and events. `ensure_thread` may return a record that it
did not store when another process deleted the row; the callers use it as read.

### LiveEvents

*State.* One run in one process: how far it has emitted (`runner`), the status
of its record, how many events are stored and published; for each follower its
place, cursor and queue; for a WebSocket also its subscription, what is left of
its replay, and the cursor that both loops move. The broker numbers events from
0. Publishing and subscribing contain no suspension point (their lock is never
contended), so each is one step. `Publish` stops at the first full queue: the
subscribers are a set, so any subset of the others may have been served.

*Left out.* Heartbeats change nothing. The filters by mode, channel and
namespace select events and move no cursor (`MessageStreams` has the run and
mode filters). A WebSocket client has one subscription at a time. Events of
other runs on the thread are like the run's own non-terminal ones.
`cancel_run`'s `interrupted` event is not included: the last event is the
terminal one. The numbers of the store are never read back.

### RabbitEvents

*State.* The stream on the server, messages under way, open producers; the
broker's producer, its set of declared streams and its lock; the local states of
appenders and readers. The server and the client library are external, modelled
from how `event_bus.py` uses them: a message is stored once or lost, a sender
that times out does not know which, and a consumer may be given the chunk around
its offset from the start.

*Actions.* `_ensure_producer` and `_ensure_stream` with the wait for the lock,
`send_wait` and its outcomes, `_reset_producer`, the second attempt, `subscribe`
and `close` of a subscription, the callback `on_message` that waits for room, and
`iter_events`, which drops what is not above its cursor.

*Left out.* Payloads, their truncation and the retention of the stream.
`_reset_producer` closes the old producer in the step that drops it. Copies of
an event in the stream are allowed: the second attempt promises "at least once".

### MessageStreams

*State.* The log of a thread; of the agent its model calls and tools; the
runner's `active_messages`; for each connection the cursor and the tables of
`legacy_sse_frame`; for each client what it follows and the frames it has.

*Actions.* `_mirror_agent_event` by kind of event, the begin and end of a run, a
resume by another worker (with new tables), `Connect`, `Deliver` and `Break` of a
connection, whose client comes back with the id of its last frame.

*Left out.* A namespace makes one model call at a time, so the node is not part
of the key. The empty `content-block-start`, and `values` and `updates`, which
give a frame each and touch no table. `_stream_text_message` of the fixture
runner emits the same sequence.

### Assistants

*State.* The stored definition and skill files; per process the scratch folder,
the time it was written for, the cached agent, who has the event loop and who
holds `_setup_lock`; per actor its place and what it has read.

*Actions.* One per statement of the synchronous stores, which other processes
interleave with and tasks of the same process do not; `SkillGet`, `SnapshotGet`
and the steps behind them are get-then-upsert; `Built` is the end of
`build_agent` after the await of the MCP tools.

*Left out.* Drafts, catalogues and connections. Memory files are handled like
skills. A file that is read while it is written, and files that a scratch folder
keeps from earlier definitions.

## 3. Runs

| Run | Question | Bounds |
|---|---|---|
| `celery_faults` | `TypeOK`, `SuccessHasFinalState` with everything that can happen | 2 requests on 2 replicas, 2 workers, 1 reschedule, all operations and faults |
| `celery_contract` | do starts implement `RunContract`? | the same, starts and streaming starts, with crashes, failed enqueues, failing runs and a result backend |
| `celery_fair` | `RunningNamesTask`, `EveryRunEnds`, `EndsAreAnnounced` | 3 requests on 1 replica, 1 worker, starts and resumes, failing agents |
| `inprocess_memory` | is a run driven by one task, backed, announced, final, and does it end? | 3 requests of any kind, in-memory store, fixture and auto mode, failing and unavailable agents, abandoned streams |
| `inprocess_postgres` | is a success backed if every operation suspends or fails? | 2 requests, both stores, all modes and faults |
| `postgres_events` | does the table implement `EventLog` and `EventFeed`, when does an append give up? | 3 appenders in 2 processes, 1 reader, 2 attempts, 4 calls |
| `threads` | are states and metadata lost, are snapshots exact? | 3 actors of any kind in 2 processes, history limit 6, lost connections |
| `rabbit` | `TypeOK`, order of what was told, no connection left behind | 2 appenders of 2 events, 1 reader, 2 producers, late and failing sends |
| `rabbit_fair` | does the stream implement `EventFeed`, and do all get on? | 1 appender, 2 readers, queues of 1, 2 producers, refusals and leaving clients |
| `live_events` | `CompleteUpToLimit`, `EventFeed` up to the limit, `StreamsEnd`, `JoinReturns` | a stream with a join and a wait, or with a WebSocket; 4 events, limits of 2 |
| `messages` | does text keep its message, its order, its number? | 2 namespaces, 1 client, 6 events, 2 runs, 1 lost connection |
| `assistants` | are agents current, skills complete, edits kept? | 3 actors of any kind in 2 processes, both stores |

*Why the bounds are enough.* Each request is served once and may create at most
one run and one task, so two requests give every pair of operations racing on
one run and three give a start with two others (a start, its cancel and a resume
is what `_on_task_done` needs to meet a newer task). Two workers or processes
are what a race needs, a third actor is what may come in between. With two
attempts an append succeeds at once, after one failure, or gives up. Four events
against limits of two overflow both the history and the queues; a queue of one
makes a consumer wait at every event. In `messages` six events hold a message of
one namespace inside one of the other, a call that is given up and begun again
around a break, or the end of one run and a message of the next. `SnapshotIsOwn` is
said of histories up to the limit, which is 200 in the code and 6 in `threads`. `Together` in `LiveEvents` keeps WebSockets and waiting
requests in different behaviours: followers meet only at a full queue, which
either set reaches.

*Symmetry* is used only in runs without liveness. `CHECK_DEADLOCK FALSE` is set
everywhere: when all requests are served, or all calls made, the modelled system
is at rest.

*Fairness.* `CeleryRuns!FairSpec` assumes that an accepted request goes on and
that a worker slot goes on and takes what is queued: asyncio and Celery schedule
what is ready, and an agent's event stream is assumed to end (it has a recursion
limit). `InProcessRuns!FairSpec` assumes the same of requests, tasks and done
callbacks of the event loop. `LiveEvents!FairSpec` assumes the run goes on and
the server serves open requests, a wait timing out when nothing arrives.
`RabbitEvents!FairSpec` assumes that the server answers (weak), and that a task
which waits for the broker's lock gets it in the end (strong: `asyncio.Lock`
serves in the order of arrival, while others take and release it). Clients need
not call or come back and faults need not happen, except that a refused reader of
`RabbitEvents` tries again. No liveness is claimed for the other modules.

### What holds

* A record says success only if the run's history has a final state, in spite of
  everything in the list of faults (also proved).
* On Celery, as long as runs are only started, a run is created, runs, ends once,
  and its end is announced only after the record shows it (also proved). With resumes,
  cancellations or a failing store a run that ended can change its status again.
* On one replica without cancellation, a running record names its task (also
  proved, with every fault but a refused outcome whose task is retried); every
  created run ends and every end is announced, with starts, resumes and failing
  agents. The latter needs what the run leaves out to stay out: a worker crash, a
  failed enqueue with a result backend, an abandoned streaming start, or a resume
  whose message still carries `cancel_requested` leaves a run active for ever
  unless somebody resumes or cancels it.
* In one process with the in-memory store, as long as no task dies without
  recording the end of its run (`Undisturbed`), the service does keep what Celery
  does not: one active run per thread, one live task per run, a table of tasks
  that matches them, announced ends that only a late cancel touches (also
  proved). With a store whose operations suspend these are not kept (see below),
  but a success is still backed in research mode (also proved).
* The event log in PostgreSQL is gapless, a reader by cursor is given each event
  once, in order and without a gap, and an append gives up only under real
  contention (also proved).
* The states of a thread that nobody deletes are never lost, in spite of
  concurrent first writes, aborted transactions and lost connections, and the
  snapshot of a run holds its own messages. Metadata stick among writers of one
  process. (All proved.)
* A stream is complete as long as no limit is exceeded (also proved), and ends; so
  is the subscription of a WebSocket, and `applied_through_seq` promises nothing that
  was not sent. A join returns in any case because it reads the record after
  every timeout. A stream opened with the terminal event as its `Last-Event-ID`
  stays open with heartbeats.
* With RabbitMQ, what was told is in the stream in order, at least once; a reader
  is given every offset once and in order, no producer is left open (also proved),
  and neither appends nor streams get stuck (checked).
* A text piece is sent once, in order, and under its message, unless the client
  came back behind the message's start; the text of a `content-block-finish` is
  that of its own call. (All proved.)
* An agent is never built from, or reused for, a definition older than its run's
  question, and the skills it names have files; in one process no edit is undone.
  (All proved; the first two as long as the assistant is not deleted meanwhile.)

### What the code does not keep

Met while modelling, each with the sentence it contradicts. The models contain
the behaviour; the properties above state what is left.

* *Two active runs.* `_run_start` looks for an active run with two reads
  (`service.py:364`, `:366`) under a lock of its process. On Celery a worker marks
  the first run running between the two, and a second run is created;
  `docs/architecture/state-machines.md:78` says it "always rejects a second active
  run".
* *A cancel request is erased* by a copy of the record that was read or enqueued
  before it (`service.py:214`, `research_runtime.py:653`, `tasks.py:178`), against
  `docs/use-cases/04-cancel-run.md:96`.
* *A run is executed twice.* `_schedule_block_reason` "guards against double
  execution" (`service.py:162`), but a resume of a run without a task id does not
  ask it (`service.py:419`); in process, with PostgreSQL, `_on_task_done`
  (`service.py:256`) removes the entry of a newer task.
* *A running record without a task.* The id is saved before the enqueue so that
  no save wipes it (`service.py:203`, `:489`), but a resume that read the record
  before that completes the run from its final checkpoint and wipes it
  (`service.py:477`). The task under way then writes its outcome over this; if
  the store refuses the outcome and Celery retries the task, the record is marked
  running again without an id, and a later resume cannot ask whether the task
  lives. One replica, a start, a resume and the two faults suffice; with one of
  the faults it cannot happen (proved).
* *A failure without a terminal event.* An agent that cannot be built raises
  outside the runner's `try` (`research_runtime.py:696`), and
  `worker/tasks.py:182-187` records an `error` that no stream takes for an end;
  `state-machines.md:50` says `failed` is emitted.
* *Events beyond the broker's history are not replayed* although the store has
  them (`event_bus.py:741`), against `docs/use-cases/02-watch-run-stream.md:74`.
* *`POST /runs/wait` may wait for ever*: `wait_for_next_event` returns the number
  of the event it took, and `list_events` looks only behind it (`main.py:918`,
  `:905`); if it was the terminal one nobody looks at it
  (`rest-endpoints.md:423`: "loop until terminal or disconnect"). `JoinReturns`
  names this exception.
* *A subagent's `completed` ends the stream* of a fixture run:
  `RunStreamFilter.is_terminal` ignores the namespace (`deep_agent.py:646`),
  against `docs/use-cases/02-watch-run-stream.md:30`.
* *A run that ended can be interrupted*: `cancel_run` does not look at the status.
  `state-machines.md` also calls an interrupted run resumable, while `resume_run`
  returns at once for every run that is not active.
* *A thread deleted during a run comes back* in parts (`docs/use-cases/07` says
  "No guard exists"), and `HeadIsNewest`, `NoStateLost` and `SnapshotIsOwn` then
  fail. Metadata updates of two processes lose one.
* *`GET .../checkpoints` returns empty lists* (`main.py:986-990`), against
  `docs/use-cases/06-browse-history.md:69`.
* *A client that comes back behind a `message-start`* gets the rest of the message
  under a new id, and the end of a tool call without its name, because the tables
  end with the connection. This includes a client that had no piece of the
  message yet, only a frame of another namespace.
* *Assistants.* Across processes, get-then-upsert loses edits and brings deleted
  assistants back, and two creates both succeed. The configuration recorded with
  a run is the one at its end (`rest-endpoints.md:764`). Because that recording
  stamps `updated_at`, every run renews the time of the definition, and cached
  agents and folders are not reused (`assistant_store_postgres.py:280` says they
  are).
* *RabbitMQ.* `subscribe` without a producer raises `RuntimeError` where
  `ARCHITECTURE.md:105` promises `EventBrokerUnavailable`; a client that leaves
  while `consumer.subscribe` is awaited leaves its consumer behind
  (`ARCHITECTURE.md:106`); a terminal event that could not be published twice
  leaves streams open.
* *Reschedules.* The count is in a record that stale copies overwrite, so their
  total may exceed the limit.

## 4. Proofs

TLAPS proves the following for every value of the constants that satisfies
`ConstantsAssumption` of the module; the only further hypotheses are the two
that are named below. Together the theorems state every invariant, every step
property and every refinement that the runs check; liveness is left to TLC.

Some of the assumptions on constants are there for the proofs: the value that
stands for "none" (`NoTask`, `Nothing`, `Nobody`) is no member of the set it is
added to, 0 is no timestamp of an actor, and in `LiveEvents` a request is of one
kind. In the code these values are of different types or made by `uuid4`, and
each endpoint is its own handler. `HistoryLimit <= QueueLimit` is so in the code
(1000 each).

**`CeleryRuns_proofs`.** `TypeCorrect` needs more than `TypeOK`: that a request
between its first and last step names a run (`RequestNamesRun`) and a busy
worker holds a message (`WorkerHasMessage`), or else a write could miss the
table. `SuccessIsBacked` is proved from `SuccessInv`. The record may be
overwritten by any copy, so the invariant has to speak of every place where a
record with status success can be: the records themselves, the copies in
requests (`CopiesBacked`), the workers' copies and the outcomes they are about
to write (`WorkersBacked`); and a newest state with an empty `next` is a final
state of the run (`EmptyIsFinal`), which is what `resume_run` relies on.
`finals` only grows. The steps are grouped by component and each group changes
few of the conjuncts.

`TaskInv` holds without any hypothesis: a task id is held by one message or one
worker, and only after the request that lent it has returned (`HeldInv`); whoever
names a run names one that was created, and what schedules a task carries its id
(`CopyInv`). On it rest the two theorems with a hypothesis:

* `StartedRunsKeepContract` shows that each step is one of `RunContract` or a
  stutter, if clients only start runs and the faults `shutdown`, `transient` and
  `store` do not occur (`RunsAreStarted`). `ContractInv` says why: a run is
  carried by its request, then by its message, then by one worker, one at a time,
  and each writes a status over the one that must precede it. With resumes, with
  cancels, or with one of the three faults, the contract is broken (section 3).
* `RunningRunsAreNamed` needs one replica, no `cancel`, and not both `store` and
  `transient` (`CopiesStayNamed`). A stale resume may take the id out of a record,
  but only when it completes the run from a final state (`StaleCompletion`); then
  nobody but the task of the run's own start works for it (`OwnTaskOnly`), and
  that one has saved its final state and never marks the run running again
  (`LastTask`). The proof failed without the last hypothesis, and TLC showed the
  behaviour that section 3 lists under "a running record without a task".

**`InProcessRuns_proofs`.** `TypeInv` holds in every store. `StrictInv` is the
part of `SuccessIsBacked` for research mode, with every store and fault: as on
Celery, an empty `next` and every success that is about to be written has its
answer in the history. The rest is said of an undisturbed process and proved
from `LoopInv`. Its heart is who has the event loop: a request that is not
waiting has it (`HoldsLoop`), so what it has read is still so (`RequestsKnow`);
a task announces in the turn in which it records (`TellHolds`). A live task is
the attached driver of an active run or was cancelled (`LiveDrives`,
`EndedIsRecorded`), so there is no second one (`OneDriver`), and a run with an
empty `next` that is still active has its task (`EmptyHasTask`), which is why
`resume_run` may not complete it. `OneActive` follows from what `_run_start`
knows. These conjuncts need each other: attachment excludes the second driver,
and only the driver may end the run. `StartsExclude`, `ExecutesOnce`,
`TableIsTrue`, `SuccessHasAnswer`, `EndsAreTold` and the step property `EndsStay`
follow.

**`PostgresEvents_proofs`.** The invariant `LogInv` has as its heart
`SeqIsNext`: a number that was read is at most one above the newest row, because
rows are never removed; so a free number is the next one, and an insert is an
append. `ToldIsOwn` and `ReturnIsOwn` give the implementation of `EventLog`,
`CursorInLog` gives `ReadersMissNothing`, and `ConflictsArePaid` counts one
stored event for each conflict, which gives `ContentionBounded`.
`ImplementsEventLog` shows that each step is `Put`, `Tell` or a stutter, and
`ImplementsEventFeed` that it is `Publish`, `Give` or a stutter: a row that is
stored comes behind all that were visible, by `SeqIsNext` again.

**`ThreadStates_proofs`.** `LockInv` says who holds the locks of the two rows and
of the process: whoever saves a state holds the thread's row from its first
statement on, and whoever inserts the thread finds it absent to the end. In one
process that gives `MetadataIsRead` and `MetadataStays`. For a thread that nobody
deletes, `HeadInv` says that the row shows the head of the history and that a
transaction which has read the history still has all of it when it commits, which
gives `RowIsHead` and `HistoryGrows`. `SnapshotShowsRun` needs to know what the
history is made of (`HistoryInv`: no checkpoint twice, each state is one its
author had to save, the initial state of a run before its final one, the parent
of the initial one is what the run began with), what actors have in hand
(`ReadInv`), and what the projection then yields (`SnapshotInv`). The projection
cuts off as many messages as the parent of the run's first state has, so `Begins`
has to say that this parent's messages are what the run began with.

**`LiveEvents_proofs`.** `TypeCorrect` is proved from `TypeInv`, which counts for
each place of the runner what is stored and published. `NothingMissedUpToLimit`
is proved from `LiveInv`. While the broker keeps every event, the queue of an
open follower holds the numbers behind its cursor and nothing else (`Rest`); it
is then shorter than the history, hence never full, so a publish reaches every
subscriber. A stream was given what is between the cursor it first came with and
the one it has (`StreamInv`). What a socket was sent or will be by its replay has
no hole and reaches either of its two cursors (`SocketInv`). `StreamsAreFed` shows
that until then every step is one of `EventFeed`: the head of a queue is the next
number behind the cursor, and a stream names a number only before it was given
any.

**`RabbitEvents_proofs`.** `TypeInv` is `TypeOK` and that an appender that is not
idle has an event. `ProducerInv` gives `OneConnection`: whoever connects does so
while there is no producer (`ConnectsWithout`, from the lock), and the producer a
task works with was opened before (`KnownProducer`), so a reset either drops the
one open connection or finds a newer one. `OrderInv` gives `PublishedInOrder`: a
message is under way only if it was sent (`SentIsUnderWay`), never ahead of its
appender (`NotAhead`), and told events are in the log behind their predecessors
(`ToldIsInLog`, `ToldComesFirst`); a late copy does no harm because an earlier
copy is there. `ReadInv` gives `ReadersMissNothing`: the queue of an open
subscription continues at most one above the cursor (`QueueIsNext`), and nothing
is awaited or was given that is not in the log (`InTheLog`). So a step gives one
reader the next event or none (`Further`), which makes `ImplementsEventFeed`:
delivery is `Give`, a message the server stores is `Publish`.

**`MessageStreams_proofs`.** `FramesAreNamed` follows from three facts. A delta of
the log has its start before it, in its run and namespace, and no other start or
finish there lies between (`EntryOK`; `AgentInv` says the same of calls under
way). A connection that was given a start and no later start or finish of that
namespace has the message in its table (`TablesOK`); a filter that lets the delta
pass lets the start pass too. A client comes back with a number that is no older
than the last time (`LastSeen`), so a frame once excused stays excused.
`FinishRepeatsText` needs `TextInv`: what the runner has collected for a namespace
whose call is under way is, piece by piece, the text of the deltas of that
namespace since its newest start (`TextOK`), and a finish writes just that
(`TellsAll`). The property counts deltas instead of joining texts, so that each
step adds one to a count and one piece to a sequence and no induction is needed.
`TextIsSentOnce` rests on `SentOK`: the frames a client was sent have growing
numbers and every delta it follows up to the last of them has its frame
(`FramesSent`); between that one and the cursor of the connection there is none it
follows. So nothing is lost when the client comes back with the number of its last
frame, although the connection had read further.

**`Assistants_proofs`.** `LockInv` says who is between two statements of its event
loop and who is inside `_setup_lock`. A stored timestamp never comes back
(`StampInv`), nor does an mtime of a scratch folder (`TimeInv`); hence an agent
that is kept for an mtime that is still valid is made from what is stored now
(`KeepInv`). What a run has read was stored after it asked (`ReadInv`, over the
history `past`). That gives `RunsGetCurrentAgent`. As long as nobody deletes the
assistant, files only come, and a definition names no skill before its file is
there (`SkillsInv`), which gives `AgentsHaveTheirSkills`. In one process nobody
comes between reading the definition and writing it back (`EditsInv`), which
gives `NoEditIsLost`.

*Only model-checked.* All liveness properties (`EveryRunEnds`, `EndsAreAnnounced`,
`RunsEnd`, `StreamsEnd`, `JoinReturns`, `AppendsEnd`, `StreamsCatchUp`) need
fairness and `ENABLED`. The inductive invariants were themselves checked with TLC
on the instances of the runs, or on smaller ones, before they were proved.

## 5. Plan

1. `RunContract`, `CeleryRuns`: runs on Celery workers. *Done, proved.*
2. `EventLog`, `EventFeed`, `PostgresEvents`: the event log. *Done, proved.*
3. `LiveEvents`: broker and followers. *Done, proved.*
4. `InProcessRuns`. *Done, proved.*
5. `ThreadStates`. *Done, proved.*
6. `RabbitEvents`. *Done, proved.*
7. `MessageStreams`, `Assistants`. *Done, proved.*

## 6. Not modelled

The registry of run handles in `StreamSubscriptionManager` is never driven by the
application. Matching of channels and namespaces, the views of todos and
subagents, and the web client's merge of streamed and persisted transcripts are
pure functions of what the models deliver. Model catalogue, settings, rendering,
prompts and tools of the agent, build and deployment files are I/O and data, and
keep no state the properties above speak about. `recover_stale_runs`, `purge.py`
and the revocation of Celery tasks are not called by the running system.
