# A verification of the CodePilot agent server

TLA+ models of the C++ agent server (`src/backend/agent-server`), of its start
(`src/apps/agent-server`) and of its two terminal clients, checked by TLC on small
instances; the safety of each, terminal clients included, is proved with TLAPS for every
number of tasks, workers, connections, workspaces, experts and clients and every pattern
of faults. Paths below are relative to `src/backend/agent-server` unless they start with
`src/` or `docs/`.

## 1. The system

| Component | State it keeps | Operations | Talks to | Module |
|---|---|---|---|---|
| Task handlers (`api/controllers/TaskController.cpp`) | none | create, continue, cancel, delete, list | orchestrator, database, gateway | `TaskLifecycle`, `ConversationStore` |
| `AgentOrchestrator` (`domain/agent`) | `activeTasks_`, `cancelFlags_`, `taskThreads_` under `mutex_` | startTask, cancelTask, finalizeTask; one detached thread per task | database (under its mutex), gateway, agent loop | `TaskLifecycle` |
| `AgentLoop`, `RouteEngine` (`domain/agent`) | history and budgets of one run | expert chain, execution of commands | LLM client, tool system, permissions | `ExpertChain` |
| `PermissionManager` (`domain/security`) | `requests_`, `waiters_`, `nextId_` | create, wait, resolve, expire | agent loop, HTTP handlers | `PermissionGate` |
| `ToolSystem`, `PermissionPolicyEngine`, `Debugger` | overrides, call history, statistics, breakpoints, sessions | callTool, callToolWithPermission, pauses | tools, agent loop, HTTP handlers | `ToolCalls` |
| `WorkspaceManager`, `ProcessRunner` | runtimes by id, one `executionMutex` each | lookup, move, run, time out | tools, workspace handlers, operating system | `WorkspaceRuntimes` |
| `BuiltinShell`, file handlers | the files of a workspace | read, write, patch, move, list, save | disk | `WorkspaceFiles` |
| `EventBus`, `SSEGateway`, stream handler (`api/HttpServer.cpp`) | subscriptions; per connection: replay buffer, done flag, frames | push, stream | database, browser | `SseStream` |
| Database (`facade/DataAccessFacade.cpp`, `infrastructure/storage`) | SQLite rows | one mutex around every call | everybody | `ConversationStore` and others |
| Bootstrap, `MigrationRunner`, `TaskRecovery` | schema, records of migrations | start, upgrade, reset, recover | database | `Startup` |
| `AgentConfiguration`, expert handlers | experts, their text, its file | edit, import, save, reload | disk, agent loop | `ExpertStore` |
| `LlmClientFacade`, provider handlers | table of providers, clients, two files | configure, reload, chat, cancel | disk, network | `LlmProviders` |
| CLI and console (`src/apps`) | active global, workspace, session; a listener thread | commands, follow a task, stop | HTTP | `Terminals` |
| Web page (`src/frontend`) | what it has seen | REST, EventSource | HTTP | in `SseStream` |

Threads: cpp-httplib's request pool; one detached worker per task; one detached thread
per event stream, plus the request thread that empties its deque; a listener thread per
terminal. They meet in the orchestrator's table, in the database (one mutex, so a call is
atomic and a handler is a sequence of calls), in the permission tables, in the tool system
and the debugger, on the runtimes' mutexes, in the provider table, and on the bus.

What is hard, in order of weight:

1. **Who decides a task.** The worker, the cancel handler and crash recovery may all
   decide the same task; the verdict lives in memory, in the row, in the event log and
   in the final message. Any write may fail, the process may die between any two.
2. **Consent.** An approval travels over two tables and a condition variable while the
   deadline, a cancel and another answer race it; around it, policy, overrides and
   options are read at different moments of one call.
3. **The event stream.** Replay from the database, a buffer, a live listener in another
   thread, reconnection with `Last-Event-ID`, and a heartbeat that ends the stream from
   the row's status.
4. **Handlers that are several calls.** Rows, configuration files and the experts' text
   are read, changed and written back in steps that nothing holds together.
5. **Starts.** Seven migrations are applied again at every start over whatever the last
   process left, and a reset deletes the file when they fail.
6. **Locks held for long.** A runtime's mutex is waited for with the manager's lock held;
   the provider table is locked for a whole request to a model.
7. Budgets and routing of the expert chain; threads of a terminal that is shut down
   while it waits.

`PROJECT.json` lists the hazards at their lines, with the properties that watch each.

## 2. Modules

| Module | Models |
|---|---|
| `TaskOutcome` | abstract: a task is submitted, decided once, announced once |
| `TaskLifecycle` | handlers, orchestrator, worker, rows and events, faults, death, recovery; implements `TaskOutcome` |
| `PermissionGate` | `PermissionManager`, the Ask branch of `AgentLoop`, the permission handlers |
| `SseStream` | push, bus, connection thread, HTTP thread, EventSource |
| `ExpertChain` | `AgentLoop::runExpertChain`, `RouteEngine`, the plan as the routes see it |
| `ExpertStore` | `AgentConfiguration` and the expert handlers |
| `ToolCalls` | policy, risk level, cancel, history, debugger and statistics of a tool call |
| `WorkspaceRuntimes` | `WorkspaceManager`, runtimes, `ProcessRunner`, the workspace handlers |
| `WorkspaceFiles` | `BuiltinShell`'s file tools, `WorkspaceFileController` |
| `ConversationLedger` | abstract: one growing sequence of questions and answers per session |
| `ConversationStore` | the rows of workspaces, sessions, globals, tasks, messages, archives and the handlers that write them; implements `ConversationLedger` |
| `Startup` | `run_agent_server`: tables, migrations, reset, recovery, service, death |
| `LlmProviders` | `ConfigController`'s provider handlers, `LlmClientFacade`, chats and their cancel |
| `Terminals` | the CLI and the console of the server, with the listener threads |
| `*Proofs` | the theorems of section 6; `TaskProofs` holds those of `TaskLifecycle` and `Terminals`, `CallProofs` holds those of `PermissionGate` and `ToolCalls`, `ExpertProofs` those of `ExpertChain` and `ExpertStore`, `WorkspaceProofs` those of `WorkspaceRuntimes` and `WorkspaceFiles`, whose names differ for that (`TerminalSpec`, `GateSpec`, `ChainSpec`, `FilesSpec`) |
| `MC*` | constants and symmetry sets for TLC |

The state machines are separate because the code's parts share little, and each leaves
the others' part open at the point where they meet:

* the gate and the stream need of the life cycle only the cancel flag, the moment the row
  becomes terminal, and that the terminal event is the last of its log. The last is
  `NothingAfterTerminalEvent`, proved of `TaskLifecycle`; the others may happen at any time;
* `ExpertChain` is the inside of `WorkerReturns`, `ToolCalls` the inside of one of its
  commands, `PermissionGate` the inside of the wait in `ToolCalls`, whose answer is free
  there; `WorkspaceRuntimes` is below the tool, `WorkspaceFiles` what a file tool does when
  it runs alone, which is what `RunsInPlace` says it does;
* `ConversationStore` is the rows around a task whose verdict `TaskLifecycle` decides;
  there a task only ends or is cancelled;
* `Startup` ends where `TaskLifecycle` and all others begin, and its recovery, statement
  by statement, is the one action `Recover` of `TaskLifecycle` and of `SseStream`;
* `ExpertStore` and `LlmProviders` change the tables that a chain reads;
* `Terminals` sees the rows through answers that may be late or lost.

### TaskLifecycle

`db`, `log`, `answer`, `archived` are the database: `tasks.status`, the rows of
`task_events` in sequence order, the final assistant message, and whether
`global_context` was written. `active`, `sent`, `flag` are `activeTasks_[t].status`,
`terminalEventSent` and the shared cancel flag. `ctl`, `worker`, `deleting` are program
positions; `canceller` is the task whose `cancelTask` holds `mutex_`.

A step ends where another thread can run: at a database call or where `mutex_` is
released. `finalizeTask` is therefore one action per section (`ClaimVerdict` or
`AcknowledgeCancel`, `StoreAnswer`, `PushDialog`, `EmitTerminalEvent` or
`EmitCancelled`, `Archive`, `Cleanup`). `cancelTask` holds `mutex_` across its database
write but the worker polls its flag without it, so it is `CancelBegin` and then
`CancelPersist` or `CancelPersistFails`. `DeleteCheck` and `DeleteCascade` are two
database calls. The cascade is a list of `DELETE`s whose results nobody reads; the
model lets the events or the row survive.

`Faults[t]` says which things may go wrong for a task: status writes return FALSE, event
and archive writes throw, message writes throw and are caught, deletes do nothing, the
orchestrator is not ready. An exception in `finalizeTask` ends the process
(`FinalWriteThrows`): `runTaskThread` calls it outside its try block. `Crash` is any
other death. `Recover` is the start of the next process.

Left out: ids, texts, plans, session rows, `continueTask`'s context building (its rows
are in `ConversationStore`), the pause and resume functions, which nothing calls.

### PermissionGate

A request has an id, from `nextId_`, and a ticket, the number of its `createRequest` call;
the difference matters because the increment is not atomic (`ReadId`, `StoreId`).
`requests` and `waiters` are the two tables, `heard` the `resolved`/`approved` pair of a
waiter, `consent` what the answering user was told, `outcome` what became of the tool
call. Each critical section is one action; `StopWaiting` leaves the wait on an answer, on
the flag or on the deadline at any time. Two requests may draw one id, in the run and in
the proofs alike, and then the second entry replaces the first, and one approval serves
both (section 5). `ConsentToRun` says what is left of the gate's promise: a tool runs only
on an approval given under its id, which is its own approval when nobody else drew the id
(`Unshared`); `StatusTellsOutcome` speaks of such requests only. `PushFails` lets the
event writes between the steps throw, which `AgentLoop` catches as a failed tool call.

### SseStream

One task. A saved event is its sequence number, 0 a volatile one (chunk, permission
event), -1 the `stream_end` frame. `conn[k]` is a `ClientConnection` with its thread's
position and the HTTP side's deque; `link[k]` the socket; `got`, `lastId`, `told` the
page, which opens its next connection in a free slot while the threads of the last may
still run. `SaveEvent` and `Publish` are the two steps of `push`; `Heard` is the listener,
atomic with the publication because the bus mutex is held and a listener only appends
or writes to a deque. `Sortings` is what `std::sort` may return: the comparator is no
strict weak order once volatile events mix with saved ones of the same second, and only
insertion sort, which libstdc++ uses up to 16 elements, keeps the order of arrival then.

Left out: frame layout, pings as frames (a ping is what makes a broken socket noticed),
the never-used direct connections of `broadcastFrame`, several pages at once (they share
nothing but the publisher).

### ExpertChain

One worker. `at` is its place in the two loops; `expert`, `switches`, `rounds`, `fresh`,
`attempts` are `currentExpert`, `expertSwitches`, `roundsLeft`, `firstRoundInExpert`,
`llmAttempts`. A reply is the set of tags `MessageBus::parse` finds; `done` is a done
tag with content, `blank` one without. `history` is the set of those who wrote into
`sessionHistory`, which is all that isolation, the executor's guard and the retry after
a review depend on; `plan` is the set of the states of its steps, which is all the
routes look at. The configuration is taken to stand still during a chain, which the
code does not ensure: it keeps pointers into a table that the start of another task
reloads (a hazard without a property: a read of freed memory has no outcome to model).
What the model replies, which calls fail, whether the last provider vanishes and when
the flag goes up are open.

Left out: prompts and their placeholders, `ctx.summary`, the use of the global context,
tool results, `runFromSnapshot` (only the dead resume code calls it).

### ExpertStore

`experts` and `raw` are `experts_` and `rawJson_`, `file` the text on disk, which is
whole or torn: `saveToFile` takes its text under the mutex and opens, which empties, and
writes the file after releasing it, so a save is `snap`, an `open` and a `write` with
anything between. A handler is a sequence of store calls (`stage`, `read`): the tool handler
reads, changes and stores the list, the positions handler works on the file itself and
reconfigures. `ChainStart` is the reload at the start of every chain, `Restart` the next
process. `overlap`, `half` and `unsaved` record that requests met, that an import threw
half way, and that the last change was not saved; only properties read them.

Left out: prompts, routes beyond their number, validation and preview.

### ToolCalls

The worker's labels follow the code: `policy`, `check`, `level` (override, floor,
options), `wait`, `poll`, `begin`, `count`, the pause before (`break`, `session`, `reset`,
`ready`, `paused`), `run`, the pause after, `finish`, `return`. HTTP threads reload the
configuration (`Reload`), switch the debugger (`Arm`; `Disarm` and `ClearSessions` are
the two halves of `setEnabled(false)`), cancel, continue, skip and edit (`DebugRequest`).
`session` is the debug session the worker holds, which `sessions_` need not lead to any
more. `failedOnce` and `skips` only record.

Left out: the patterns by which `RiskDetector` finds a level (the level of a command is
an input), `modifyResult`, what a tool does. A request names a registered tool
(`TOOL_NOT_FOUND` ends a call like any refusal), and edited arguments have no member
`__skip__`, which `callTool` takes for a skip (`ToolSystem.cpp:241`).

### WorkspaceRuntimes

`mapped` is `runtimes_`, `runtimes` every runtime ever made (a `shared_ptr` keeps those in
use), `readers` and `writer` the manager's `shared_mutex`, `holder` each
`executionMutex`. `Find`/`Found` is the lookup under the shared lock, `Create` the second
check under the exclusive one, `LockRuntime` the wait for a runtime's mutex with the
manager's lock held. A child is running, detached (it closed its output and goes on) or
exited; the deadline kills a running one of a limited call. `Vanish` takes a directory
away. `paths` and `deletions` record what a row has been.

Left out: command lines, outputs, the Windows runner.

### WorkspaceFiles

`tree` maps seven paths to nothing, a directory or a file, a file being a sequence of
lines of one length. A tool truncates and then writes (`tool` is the call between the two
steps), and an editor page (`editor`) opens, edits, truncates and writes with no lock and
no version. Listing and patching are functions checked against reference definitions in
every reachable tree; encodings are what a byte order mark and the validity of the text
make of a file.

Left out: text search, JSON of arguments, permissions and links.

### ConversationStore

The sets and functions of the state are the tables; each action is one locked call of
`DataAccessFacade` or one transaction. `request[t]` is where the `createTask` or
`continueTask` that makes `t` is between its calls (parent, session, global, insert,
mark, start), `opening[s]` the workspace that `createSession` looked up, `deleting` the
`deleteTask`s past their check. The worker stores the answer and archives the parts of
its result one insert at a time, as `finalizeTask` does. `Talk(s)` is what a reader of
the session sees, the value the refinement of `ConversationLedger` maps to.
`MaxUpsets` bounds deletions, moves and cancellations.

Left out: titles and other plain fields, tool call, log and file change rows.

### Startup

A schema is a set of pairs of table and column. `disk` is the database in the file,
`shadow` one that was unlinked while it was open, `tx` what the open transaction sees;
`phase` and `attempt` are the place in `run_agent_server`, `position` and `step` that in
`createAllTables` and `migrate`, `stale` the tasks `recoverInterruptedTasks` has found and
not reached, least id first. `StatementFails`, `Kill` and
four outside changes (a lost index, an altered column, a renamed record, a taken event
id) are the upsets. Tables are created in three groups; `RenameRecord` takes versions 1
and 6; an open file can be unlinked, as on Linux, or its removal fails, as on Windows, and
nobody looks (an upset too). An old database has the columns of its migrations, and its
`permission_requests` has `resolved_at` or not (`ResolvedAt`): the repositories create it
with, the baseline without, and no migration adds it. All statements of the recovery are
prepared before the first task, so it throws without the column, stale tasks or not.

### LlmProviders

`llmFile` and `localFile` are the two files, `table` the facade's `configs_`,
`clients_`, default and `initialized_`, `lock` its mutex. A handler reads both files,
opens and closes each (a file between the two is empty or cut short), then loads:
`BeginLoad` takes the mutex and reads llm.json, `EndLoad` reads the keys and builds the
clients. A facade that never came up is left alone by most requests (`SkipLoad`); a new
document or provider starts it (`WantInit`), unless it is up by the time the mutex is free
(`SkipInit`). A chat of the agent loop and a stream of a direct answer (`runDirectAnswer`)
ask `isAvailable`, take the mutex, register and post; what comes back comes whole
(`Respond`) or in pieces (`SendPiece`, `TakePiece`), and a stream has its `text` from the
pieces, so one that breaks off after some is taken for the answer (`BreaksOff`). A cancel
sets the flag and shuts the registered socket; one whose row cannot be saved lowers the
flag again (`LowerFlag`). A write may fail at its opening, which the handler reports, or
after it, which it does not (`CutShort`); a crash leaves the files
as they are at that moment, an entry may be incomplete or of the wrong type. The limit in
`timeout_seconds` is one for connecting and for each read (`TimeOut`), and for a provider
of `Untimed` it is none: nobody checks that it is positive or of use.
`alone`, `before`, `changed`, `skew` only record: `skew` that a write or a load failed, or
was left out, since the last complete load began. The first files are whole, or missing,
or cut short as a crash leaves them, and name one of their providers as default
(`ConstantsAssumption`): hand-edited files that do not are outside.

Left out: payloads; the other documents `ConfigController` serves; and, of a stream met by a
facade that is not up or by the mock, that their text is handed out as a piece of an answer.

### Terminals

`kind` says which of the two clients runs. `term` is the thread that reads lines with the
ids it remembers, `listener` `streamThread_`, `cancel` its flag, `main` the server's main
thread, which stops the console. A command is one or two requests; an answer may not
come, and a request whose client gave up may be served later (`late`). Other clients
change the same rows. `crashed` is a thread object joined twice or overwritten. A stream is
asked for (`Connects`: the server looks for the task and refuses a deleted one) and then
replayed by a thread of the server (`Replays`); the task may be deleted in between.
`notices` counts what the user is told of the listener's end.

Left out: printing other than that (the CLI's debug lines on stderr too), argument parsing
beyond which request results, what a task does.

## 3. Runs

| Run | Instance | Shows |
|---|---|---|
| `task` | task 1 with every fault and one business event, task 2 with neither, one death, fair | `VerdictsAgree`, the refinement of `TaskOutcome`; the task whose writes succeed is decided and its cancel announced (`TasksEnd`) |
| `gate` | 2 workers of which 1 may be cancelled, 2 callers, 2 requests which may share an id, failing event writes, fair | consent, status, first answer counts, every ask ends |
| `stream` | 2 overlapping connections, 2 events + 1 of recovery, 1 volatile, 1 fault, fair | order, no gap, no duplicate, no unjustified end (`DeliveredInOrder`); everything arrives, the page is told (`PageIsServed`), threads are released |
| `chain` | 4 experts, 12 replies, 5 stages, 1 to 3 rounds, fair | isolation, reviews, retries, cancel, and the variant by which every chain ends |
| `experts` | 2 experts, 1 tool, 1 model, 2 clients, 3 requests, 2 documents | text and memory agree, a save that met no other reaches the file, a torn text and an edit lose nothing else |
| `tools` | 1 chain, 3 calls, 2 tools, 2 configurations, 2 policies, 2 breakpoints, fair | the risk floor, orders of user and administrator, history against statistics, pauses end; no deadlock |
| `runtimes` | 1 workspace and the empty id, 2 directories (one may vanish), 2 chains with 1 command, 1 request, fair | tools run alone and in place, and nobody waits for ever |
| `files` | 7 paths, 1 editor, 2 tool calls, 2 patches, 3 kinds of file | listing, patch and encodings are exact; no file is lost, a save is a save |
| `conversation` | 1 workspace and a strange id, 2 sessions, 2 tasks, 2 globals, 2 upsets | the refinement of `ConversationLedger`, rows that name each other agree, nothing is born under something gone |
| `llm` | 2 pairs of first files, one that loads and one that does not; 2 providers, 1 of them with no time limit, 2 keys each, 7 requests of which 2 are made by 2 handlers, 1 chat or stream, 1 upset, fair | files, runtime and answers agree again, what a request is answered for is saved and in force, a chat keeps its provider and obeys its cancel, a silent service does not keep the mutex |
| `startup` | 2 tasks, 1 session, a database of migration 1 or none, 2 upsets, 1 event, fair | with and without `resolved_at`: only a whole schema and a recovered history are served, only the reset loses rows, every start ends, be it on an empty file |
| `terminals` | 2 workspaces, 3 globals, 2 sessions, 3 tasks, 3 commands, 1 other request, 1 lost answer, fair | remembered ids are refused or dropped, the listener tells its end once, prompt and shutdown come back |

A property that ties several parts of the state together is a conjunction of named parts,
each with its own comment in the module; the type invariant is one of them, or follows
from a theorem of section 6.

Deadlock is checked in `tools`. The other systems may come to rest: no more requests,
deadlines or faults within the bounds. Symmetry is used in `experts` (clients) and
`conversation` (sessions, tasks), which check no liveness.

Bounds. Tasks do not interact except through `mutex_` and a death, so two show every
interleaving of one with another, and one with and one without faults shows that a failing
task takes no other with it; the theorems lift these bounds and that on deaths. One
business event is enough to be ordered against the terminal one. Two workers and two
callers give every race between two answers; one worker that is cancelled and one that is
not, every race between the two where they share an id. Two saved events, with recovery's
third, give replay, buffer and live sending one event each. `SmallSort` is 16 and the
bounds keep buffers below it. The graph of `chain` has a loop through a review, an
isolated and a sharing expert, a route to nobody and a plan no rule matches; two rounds
let a call fail and succeed in one visit, three let it fail after a success, five stages
reach the summarizer after a rejection. The theorems lift all of these bounds. Two clients
in `experts` are what it takes to read a store or a file between two steps of another, and
three requests let a third see what two have left. `WarnAfter` is the code's 3, and three
calls are the fewest that can be suspect. In `runtimes` two chains contend for one runtime
while a request moves or deletes it, which also needs the second directory. Seven paths
give a directory in a directory, an ignored one, and a place to move each to. Two upsets
in `conversation` are a deletion between two calls of a handler and one more behind it. In
`llm` two handlers overlap in every order, while the chat runs. `startup` needs the second
upset for what a failed start, or a kill within recovery, leaves to the next one; version
1 is the oldest database that all later migrations change. Three commands make a client
remember something, lose it to another client and use it.

## 4. Fairness

Weak fairness of each thread's next step, and of the start after a death: the threads
are runnable, hold no lock across a wait that does not end, and every blocking call has a
deadline (120 s for a permission, SQLite's busy timeout, the 3 s heartbeat, the time
limits of HTTP clients). Never assumed: that a user answers or cancels, that a worker
saves another event, that a child of a tool ends, that a model replies, that anything
fails.

* `task`: every thread's step and `Recover`. `WorkerReturns` is fair because the agent
  loop is bounded by its budgets, which `EveryStepIsPaid` shows. `mutex_` is not fair, so
  `TasksEnd` is stated under `CancelsEnd`: nobody repeats for ever a cancel that cannot
  be written.
* `gate`: workers and callers. `stream`: the publication that follows a save, each
  connection and HTTP thread, and EventSource's reconnection, which is its specification.
* `chain`: the worker goes on, since a model call has a timeout and a permission a deadline.
* `tools`: workers, the second half of switching the debugger off, and, for `PauseEnds`
  alone, that a user goes on from a pause he is shown.
* `runtimes`: chains and requests. A tool whose child is detached, or whose call has no
  positive timeout, may keep everybody waiting; `NobodyWaitsForever` says that only it can.
* `llm`: handlers, chats and cancels. That the time limit passes is one of the steps of a
  chat and of a test, and only while no piece is on its way: httplib's limit is one for
  connecting and for each read, not for the request. `MutexIsReleased` therefore
  excludes a service that sends on for ever without an end (`Receiving`), and a provider
  without a limit (`Unlimited`): `timeout_seconds` is stored as it comes
  (`ConfigController.cpp:396`) and may be zero, negative or huge. In all these cases a chat
  whose socket a cancel has shut still ends. `startup`: the
  next statement of a start. `terminals`: both clients' start, their threads, the server's
  return and the main thread's stop; the reader is given lines. `ShutdownEnds` excludes a
  stream that holds its worker for ever: that of a task that does not end, and that of one
  deleted between the server's look and the replay.
* `experts`, `files` and `conversation` have safety and action properties only: their
  handlers are finite sequences of calls that no wait interrupts.

## 5. Where the code does not do what it says, or surprises

The models have all of these; the properties are stated for what the code does keep, and
their comments and guards name the exception.

Tasks and permissions:

* `docs/全API参照表.md:142` promises that deleting a task removes its events. A worker
  that is still finalizing writes new ones for the deleted task.
* `AgentOrchestrator.cpp:375` says that a cancelled task gets no writes from a losing
  worker. A cancel that is rolled back because its status write failed, after the worker
  saw the flag, ends as "cancelled" with answer and archive.
* `docs/工具系统接口参考.md:376` says that an approval wakes the waiter, which returns
  true. An approval before the waiter is in its table, or between the deadline and the
  expiry, is acknowledged and lost (`PermissionManager.cpp:77-86`, `134-143`).
* Two threads inside `generateId` (`PermissionManager.cpp:58-60`) can give two requests
  one id: both load `nextId_`, both insert, and the second entry and waiter replace the
  first. The user is shown the second request alone; his approval wakes the workers that
  found the second waiter, and if both did, both tools run, the first one unasked.
  `PermissionManager.h:74` says that true means the user agreed. The model has it, and a
  store that comes late and takes the counter back; `ConsentToRun` holds per id, not per
  request.
* A cancelled task's request stays pending for ever, and `approveFirst` may pick it.
* No code writes the status `waiting_permission`. If the `std::thread` constructor throws,
  `activeTasks_` keeps an entry without a worker (`AgentOrchestrator.cpp:159`).
* Deleting a global under a running task makes `saveGlobalContext` throw outside any try
  block (`ArchiveThrows` of `ConversationStore`): the process ends.
* `resolveGlobalId` falls back to a cached default id that may be gone.

Stream:

* `AgentOrchestrator.cpp:317` says that `stream_end` cannot precede business data. The
  heartbeat ends the stream as soon as the row is terminal (`SSEGateway.cpp:648-653`).
* `SSEGateway.cpp:575` drains the buffer in sequence order; the comparator of line 587 is
  no strict weak order with more than 16 elements of mixed kind.
* `EventBus.cpp:112` publishes with its mutex held: a listener must not publish.

Chain and tools:

* An ask tag pauses the task until the user replies, says `PromptBuilder.cpp:89`. A reply
  that only asks is confirmed by the loop in the user's name (`AgentLoop.cpp:763`).
* `AgentLoop.cpp:221` says that the rounds are initialised on every normal entry. They
  are only when the expert is isolated or the first: an expert that shares the history
  inherits what its predecessor left (`Granted`).
* `AgentLoop.cpp:854` says that a rejected review is fed back and the expert gets one
  round. An isolated expert is entered anew: the review is cleared with the history and
  all its rounds return (`Kept`, `Enter`); hence the exception in `RetryKnowsWhy`.
* `Debugger.h:85` promises a pause before the next tool after a single step; none comes.
  A worker that enters a pause while the debugger is being switched off stays in it
  (`Debugger.cpp:15-17`); hence `armed` in `PauseEnds`.

Experts and providers:

* `AgentConfiguration.h:62` calls `patchExpert` a partial update. It writes every expert
  anew, and the others lose their `double_check` in the text (the one-sided last line of
  `RawMatchesMemory`).
* Of two overlapping provider requests one is lost; what agrees again afterwards is the
  runtime with the files. A torn `llm.local.json` is written back as text by an update
  without a key. After a failed second write, runtime and files differ until the next load.
* `isInitialized` is read without the mutex: of two requests that meet on a facade that
  never came up, the second may be answered with success and not be loaded, since `init`
  does nothing for it or is not called (`SkipInit`, `SkipLoad`), although the comment at
  `ConfigController.cpp:197` wants a reload in every case; hence `skew` in
  `RuntimeMatchesFiles`.
* On a facade that never came up, changed or deleted providers and new keys are answered with
  success and wait in the files for the next start (`ConfigController.cpp:494`, `539`, `762`);
  hence the last line of `RequestsApply`.
* `writeConfigFile` does not look at its stream after the write (`ConfigController.cpp:51-53`):
  a disk that is full leaves an empty or half a file and the request goes on to its 200.
  Such a request is not `alone`.
* `chatStream` tells its caller nothing: a stream that times out or breaks off after some text
  is a finished answer (`got` is "part"), a facade that is not up answers with the words
  "LlmClientFacade not initialized" (`LlmClientFacade.cpp:325`).
* An entry of a wrong type makes `reloadConfig` fail with the new definitions and the old
  clients in place; at the next start the facade stays down.
* The mutex is held for the whole request to a model, although the header calls the table
  read-only without a lock. A cancel between polling and connecting waits for the reply.
* When a table changes between `isAvailable` and `chat`, the mock's text is a successful
  answer. The runtime keeps a deleted provider as default when the new default is empty.

Workspaces and files:

* A detached child, or a timeout that is not positive, holds a runtime's mutex for ever
  and, with a PATCH waiting for it, the manager's lock.
* `WorkspaceRuntime.h:24` promises serial execution. After a deletion and a new lookup a
  second runtime of the same id runs beside the first; a running chain brings a deleted
  runtime back, and moves one back that was moved (`AgentLoop.cpp:457`). Of two PATCHes
  that meet, the earlier path may stay. A `createWorkspace` whose insert failed answers
  success with a runtime of the empty id.
* `apply_patch` drops blank lines, cannot append at the end, and succeeds when nothing
  matched; `cd` does not change where later paths lead; `file.write` never looks at its
  stream; a search skips every absolute path that contains an ignored name; copying a
  directory below itself does not end by itself. A save has no version check, and a file
  with a byte order mark and invalid text loses bytes.

Conversations:

* Deleting a session or workspace leaves what it held and succeeds for a missing row.
  `updateSession` stores any workspace id.

Start:

* `src/scripts/test-backend-sqlite-migration.ps1:390-430` wants a file with a migration that
  fails (scenario 6) or that is no database (7) left as it is, and exit code 5. The start
  deletes such a file and serves an empty one (`AppBootstrap.cpp:211-225`), whose comment
  calls the history something the user can rebuild; code 5 is left for a second failure.
  `HistoryKept` therefore says that the reset is the one step that loses history, and
  `StartEnds` takes serving after it for an end.
* The baseline's `permission_requests` has no `resolved_at` (`MigrationRunner.cpp:314-323`),
  no migration adds it, and the recovery prepares a statement that writes it
  (`TaskRecovery.cpp:155-158`): on a database of that schema the start deletes the file
  and, as `init` returns at once the second time, ends with code 5.
* `std::filesystem::remove` of the reset may fail, which nobody looks at.
* When only the recovery failed, the reset deletes the file, the second `init` returns at
  once because the facade is initialised, and the server serves the unlinked file
  (`AppBootstrap.cpp:212`); hence the exception in `ServesTheFile`.
* An older build run on an upgraded file leaves tasks without their questions.

Terminals:

* `/session create` of the CLI is always refused, since the server asks for a workspace
  (`SessionController.cpp`); a CLI started on an empty server can create no task. A console
  in `ws_default` cannot create sessions either.
* The console's `/workspace update` of the permissions alone is refused; `/workspace use`
  keeps the former session when the new workspace has none; `/global use` of the CLI adopts
  a workspace that may be gone, and deleting `g_default` leaves it active.
* "任务已取消" is printed for a finished task too. At the end of input both clients spin on
  empty lines. A lost reply to `/task create` leaves a task unwatched, and a retry makes a
  second one. A shutdown during `/task create` or `/quit` may end the process
  (`CrashNeedsShutdown`).
* The console shows the status of a refused stream without a look at its cancel flag
  (`InternalConsole.cpp:957-966`), and the end of the stream a second time; hence
  `RefusalIsShown` in `CancelledIsSilent`.
* A task deleted between the check of `HttpServer.cpp:204` and the replay of its events
  leaves a stream that pings for ever: the heartbeat ends one of a terminal row, not of a
  missing one (`SSEGateway.cpp:648-653`). A shutdown waits for it, as it waits for every
  running task a stream is open for: the console that could close the stream is stopped
  only after `run` has returned (`HttpServer.cpp:687`).

## 6. Proofs

From the assumptions `TaskAssumption`, `FaultAssumption`, `BoundAssumption` of
`TaskLifecycle` (a name that is no task, known faults, bounds in Nat):

* `OwnershipIsInvariant`: `Spec => []IndInv`. The safety properties are not inductive:
  that a late worker does not announce a second verdict depends on who still owns the
  decision. `IndInv` says it. `OwnershipInv`: in `running`/`finalize` the table entry is
  undecided or cancelled, and the row agrees with the entry; past the claim both say the
  result. `PhaseInv`: only one of create handler, worker and stopped server is there.
  `UntoldInv`: whoever may still push has no terminal event before him. The proof works
  on one task at a time (`TaskInv`), with a frame lemma for the tasks a step does not
  touch, one lemma per handler, and `RecoverKeepsInv`/`DeathKeepsInv` for the steps that
  touch all.
* `TypeCorrect`, `OneTerminalEvent`, `EventsFollowVerdicts`, `AnswersFollowVerdicts`,
  `WorkersAreTold`, `RunningRowsAreOwned` follow from it, the last with one more small
  invariant; together they are `OneStory`, the property `VerdictsAgree` of the run.
  `VerdictsAreFinal` is the action property from the same invariant.
* `LifecycleImplementsOutcome`: every step under the invariant is a step of
  `TaskOutcome` or a stutter.

From `BoundAssumption` of `PermissionGate`, for every number of workers, callers and
requests and whatever ids are shared: `GateTypes`, `NothingRunsUnasked` (`ConsentToRun`),
`StatusIsTrue` (`StatusTellsOutcome`), `OneAnswerPerRequest` (`FirstAnswerCounts`). There
are two invariants. `Sound` needs nothing of the ids: what is filed under an id belongs to
a request that drew it, the waiter a worker took was filed under its id, and a yes that
was heard was given under it; a worker touches nothing filed elsewhere (`OnlyOwn`). `Serial`
is about a request that is alone under its id (`Unshared`): it ties entry, waiter, worker
and handlers together (`Own`) through every half-done step of an answer. A request that
draws an id makes others shared and never unshared, so `Serial` is kept without a word
about how ids are made.

From `ChainAssumption` of `ExpertChain`, for every configuration, graph of routes and
set of replies: `ChainInvariant`, and from it `ChainTypes`, `IsolationIsKept`,
`DoubleCheckIsMade`, `RetryIsInformed` (together `SoundWork`, the property `WorkIsSound`),
`CancelIsFinal` and `ChainsAreBounded`. The last is the variant of the two loops: each
step raises the stages, or lowers the rounds, or moves on within the round. It needs that
a call is made, and work is reviewed, only while rounds are left (`RoundsLeft`), since a
rejection sets the rounds to one; that a reply with done or fail is never followed by
another round (`OneEnd`); and that a retry keeps its round and its review until it is
routed (`OnRetry`).

From `StoreAssumption` of `ExpertStore`, for every set of experts, tools, models, clients
and documents: `TypeCorrect`, `TextMatchesMemory`, `TornTextIsHarmless`,
`TopLevelSurvives`, the last two together `OthersSurvive`. The invariant adds to the types
that the text in memory lists the experts (`Agrees`) unless it is torn or an import threw;
one lemma says what `Put`, the store of an edited expert, does to it, and each edit is
shown to be a `Put`. `ChangesAreSaved` needs a second invariant, `OneAtATime`: without an
overlap at most one handler is past its first step, and what it still has to do to the
file says how far file and memory may differ. The proof found that `Write` of the model
left its two cases open to each other (a `CASE` with overlapping guards is any of
them); it is an `IF` now, and the run says the same as before.

From `BoundAssumption` and `SortAssumption` of `SseStream`, for any number of
connections, events, breaks and restarts: `SentOnce`, `EndsAreTrue`, and
`InOrderUnlessSorted`, the property `DeliveredInOrder`. A connection's queue is a run of
the log (`Sound`: what it was sent, and what of it waits in the buffer, is without
repetition and from `Last-Event-ID` on), the page's place is one that a connection's queue
can continue (`OrderInv`), and a volatile event in between changes nothing of it. The order
depends on the sort of the buffer: the comparator is no strict weak order, so beyond
`SmallSort` elements the order is lost with nobody's fault. `InOrderUnlessSorted` says so
as a condition on the run (`SmallBuffers`), which the code does not see to: a task may
publish any number of events while a connection replays.

From the assumptions of `ToolCalls`, for any number of tasks that share tools, history,
statistics, configuration and debugger: `Floor` (the property `FloorHolds`), `Obedience`
(`OrdersAreObeyed`) and `Books`. `WorkerOk` says of each position of a worker what it has
seen and cleared so far (`Cleared`), that a session it holds is its own, and that an
answer left in a session is one to this pause. `Books` (`BooksAreTrue`) adds
the balance `SumsUp`: what the history has counted of a tool's commands is what the
statistics have, the skips and the calls under way. The sum is a fold over a set, whose
existence (`FoldExists`) and change with one summand (`FoldGrows`) are shown of a smallest
set that would be wrong; a step then either books nothing and moves no call in or out
(`SameCalls`), or is the entry of a call (`CountBalances`), or its end in the statistics
or as a skip (`EndBalances`). It needs the tasks and the commands to be finitely many
(`FiniteAssumption`), which they are in any run of the program.

From the assumptions of `WorkspaceRuntimes`: `Reliance`, `AtHomeAlways`, and `InPlace`,
the property `RunsInPlace`. The invariant says who holds what: a thread at one of the
positions under the manager's lock is its only writer or one of its readers (`Held`), a
tool that runs has its runtime's mutex, so whoever moves the runtime waits; tools of one
workspace that started between the same two deletions have the same runtime
(`SameRuntime`), and its directory was the workspace's at some time (`AtHome`).

From the assumptions of `WorkspaceFiles`, for any set of paths closed under parents, any
tree to begin with, any contents and patches, and any number of editors: `NoFileIsLost`
(the property `FilesSurvive`), `SavesAreTrue` (`SavedIsSaved`) and `Exactness`
(`EditsAreExact`). `FilesInv`, the invariant of `FilesInvariance`, says that what exists
lies in a directory, hence, by the last ancestor that is none, in directories all the
way up (`DirectoriesAbove`); that the file a tool has truncated is there while it writes
(no other tool comes between, and no editor removes a file); that a page saving alone has an
empty file before it (`SaveOk`, which the truncation gives and every other writer takes
away); and that a page nobody edited shows what was read (`ReadOk`). Copies and moves of
directories rest on lemmas about prefixes: `RebasedBack`, a path carried from `s` to `d`
and back is itself, and `RebasedFront`, its parent is carried along.

What the recursive functions compute is proved without an induction theorem: where two
readings of a recursion could differ, take the least place where they do (`LeastNumber`).
`IterationExists` and `IterationIsOne` say that a loop has one result, `WithoutConcat` and
`WithoutTwice` how dropping lines goes with splicing them, `PatchedKeepsRest` and
`ListingShows` what a patch of any length and a listing of any depth do. For that
`ApplyPatch`, `Without` and `Listing` are functions on the numbers up to a length, and
three assumptions are stated: names and texts have a set of their own (`Names`, `Texts`),
contents and patches are sequences of lines (`LinesAssumption`), and the workspace is a
tree when the server starts (`TreesAssumption`), which is what a file system is.

From the assumptions of `ConversationStore`, for any number of workspaces, sessions,
globals and tasks and whatever is deleted, moved or cancelled: `RowsAlwaysAgree`
(`RowsAgree`), `StoreKeepsLedger` (`LedgerSpec`, the refinement) and `AlwaysBornAtHome`
(`BornAtHome`). What is inductive: a session's n messages have the numbers 1 to n, each one
of them (`Numbers`), so MAX + 1 is n + 1 and the message with it comes last in what readers
get (`TalkGrows`, with a count of the rows below a number for ORDER BY); a task has no row
and no message before its request is through (`RequestOk`); the parts archived are those no
longer to do, under one global (`ArchiveOk`). `AskedIs` and `AnsweredIs` say what the two
transactions that write a message do, and serve all three theorems. Two assumptions were
added for the proofs and hold by the way ids are made: `IdsAssumption`, ids of different
kinds differ (`generateId` puts the kind in front), and `NoneAssumption`, the absent row is
no row.

From `ConstantsAssumption` of `LlmProviders`, for any number of providers, keys, requests
under way at once, chats, failed writes and crashes: `RuntimeFollows` (the property
`RuntimeFollowsFiles`), `ChatsAreTrue` (`ChatIsTrue`) and `RequestsAreApplied`
(`RequestsApply`). The invariant has one part for each of them. `RuntimeFits`: when nobody
has written and not yet loaded (`Settled`), a facade in the middle of a load lists the
document there is, and one that is not is what a start would make of the files; what
makes it inductive is that every write is followed by the writer's own load. `ChatFits`:
a chat that runs has the mutex, so the table is the one it registered with, and one that
has only asked has seen a provider available or been told of a change. `AloneFits`: a
request that met no other has found the files as they were (`before`) and, at each of its
steps, has them where it wants them (`WantedDocument`, `WantedKeys`), and starts the facade,
if it is a new document or provider, rather than meet one somebody else has started. So what
it is answered for is saved, and in force unless the facade was down. The proof of
`RuntimeFits` failed on the model as it was: `init` was one step with the reading of
`initialized_`, and two requests that meet on a facade that is down were left out. The
model has both steps now, and the run starts from such a facade too. `MinIsMember` (the
least of a set of providers is one of them) rests on the well-foundedness of < on Nat.

From the assumptions of `Startup`, for any finite set of tasks, any sessions, any of the
old versions, and any number of kills, failed statements and changes from outside:
`PreparedIsWhole` (the property `ServesPrepared`), `RecoveryHolds` (`RecoveryIsWhole`) and
`HistoryHolds` (`HistoryIsSafe`). The three hold for one reason, which is a relation of
two databases and not a predicate of one: `Becomes(db, n)` says that n is good (`Good`:
typed, finite, every interrupted task with its end, no task with two, and messages either
not kept yet, `Fresh`, or whole, `Asked`), has the history of db (`Extends`), has every
migration db had (`Migrated`), and is unharmed where db was. Each write of the program is
shown to be such a step (`SchemaGrows`, `Records`, `BatchKeeps`, `RowsWritten`), so a
transaction is one however many statements it has, and may be dropped at any of them. That
migrations accept their own result is `OwnIsTaken`: rows of a database without numbers get
different ranks (`RanksDiffer`, by the cardinality of what comes before a row), rows with
numbers keep them (`RankedEvents`), and only an event somebody else put in (`OwnEvents`)
makes the unique index refuse. `SpecInv` adds to this how far the start has come:
`Connected` (which connection is open in which phase, and that the reset has a reason: a
failed statement, an outside change, or no column `resolved_at`), `Progressed`,
`InMigration` and `InTransaction`. `Ready`, what the migrations lead to, is the whole
schema but for that column; that it is there once the recovery has begun is a conjunct of
`Progressed`. The constants differ from the code in one point: a task id is a number, in
the order in which SQLite sorts the ids (`TasksAssumption`).

From the assumptions of `Terminals`, for any rows to begin with, any number of commands,
of requests of other clients and of lost answers: `TerminalIds` (the property
`IdsAreTrue`) and `TerminalListener` (`ListenerIsTrue`). `FirstRowsAssumption` only gives
the rows their type. The invariant `TerminalInv` has two parts, and a step of the program
disturbs one of them. `ClientOk`: every id remembered is one the server gave, none of them
one this client was told is deleted, and what it was told of is deleted still. The last
holds because rows only become `Later` ones: whatever `Serve` makes of a request
(`Served`), ids are not taken back and what is gone stays gone, so neither another client
nor a request served after its client has given up can revive one. What the code relies
on, and the proof too, is that a command acts on an answer that was heard (`Heard`): only
the three lists of the CLI take silence for one. `ThreadsOk`: `joining` of the line reader
means that there is a listener unless the main thread has begun to stop the console
(`JoinOk`), and a listener still to be read to its end has said no more than its position
allows (`ListenerOk`), nothing before its stream is open. A step of one told to stop is
shown to be `Quietly`: no more than it had begun to say, or the console's refusal. That a
command of the console always finds a workspace for `bind` and `restore` (`PlaceOk`) needs
`createSession`'s refusal of a session without one.

Model-checked only: liveness, everywhere. Fairness and ENABLED are outside the prover.

## 7. Not modelled, and what is left to do

Not modelled, because it does not run or does not decide anything: `pauseTask`,
`resumeTask` and `runFromSnapshot`, which nothing reaches; `TaskQueue`, `TaskState`, the
legacy `Agent` and services, which the running server does not use; `broadcastFrame`;
`modifyResult`. Not modelled, because it is text: `MessageBus` parsing (a reply is its set
of tags), prompts, `RiskDetector`'s patterns (a level is an input), rendering in the web
page, JSON. Not modelled, because a property of it would be about undefined behaviour: the
pointers into `experts_` that a chain keeps across a reload. Vendored code, samples and
scripts are not this program's logic; what the migration script expects of it is in
section 5.

Worth doing next:

1. `Startup` and `TaskLifecycle` in one module, with `Startup`'s recovery in place of
   `Recover`.
