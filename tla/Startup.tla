------------------------------ MODULE Startup ------------------------------
(* The start of the server: run_agent_server reads its configuration, opens    *)
(* the database, lets the repositories create their tables, reconciles seven   *)
(* migrations with the schema, interrupts the tasks an earlier process left    *)
(* behind, and only then serves.  When the database cannot be prepared it is   *)
(* deleted and the attempt repeated once.  The process may be killed at any    *)
(* statement; a transaction it had not committed is gone then.                 *)
(*                                                                             *)
(* A schema is a set of pairs <<table, column>>; the pair with "*" is the      *)
(* table itself, and an index is a pair <<table, name of the index>>.          *)
EXTENDS Integers, FiniteSets, FiniteSetsExt

CONSTANTS Tasks,       \* task ids: numbers, in the order SQLite sorts the ids
          Sessions,    \* session ids
          None,        \* no session
          OldVersions, \* the versions whose databases may be found
          MaxUpsets,   \* bound on kills, failing statements and outside changes
          MaxEvents    \* bound on the progress events of a task

ASSUME TasksAssumption == Tasks \subseteq Nat \ {0} /\ IsFiniteSet(Tasks)
ASSUME OldVersionsAssumption == OldVersions \subseteq 0..5
ASSUME NoneAssumption == None \notin Sessions
ASSUME BoundsAssumption == MaxUpsets \in Nat /\ MaxEvents \in Nat

VARIABLES
  disk,        \* the database in the file at database_path
  shadow,      \* one that was unlinked while it was open, Empty if none is
  tx,          \* what the open transaction sees
  phase,       \* where run_agent_server is
  attempt,     \* 1, or 2 after the reset
  handle,      \* the facade's connection: "none", "file" or "unlinked"
  initialized, \* DataAccessFacade::initialized_
  position,    \* the next group of tables, or the next migration
  step,        \* the next step of that migration
  stale,       \* the tasks the recovery has found and not yet interrupted
  foreign,     \* what somebody else changed in the file
  failed,      \* the phases in which a statement failed in this start
  upsets

vars == <<disk, shadow, tx, phase, attempt, handle, initialized, position,
          step, stale, foreign, failed, upsets>>

Versions == 1..7
TerminalTypes == {"task_completed", "task_failed"}
Recoverable == {"created", "running", "waiting_permission"}
Statuses == Recoverable \cup {"completed", "interrupted"}

-----------------------------------------------------------------------------
(* What the repositories create before the migrations run.                    *)

Whole(t, columns) == {<<t, "*">>} \cup ({t} \X columns)

GlobalsTable == Whole("globals", {"workspace_id"})

GlobalContextTable == Whole("global_context", {})

SessionsTable ==
  Whole("sessions", {"alias", "workspace_id", "summary", "summary_updated_at",
                     "last_active_at"})

WorkspacesTable ==
  Whole("workspaces", {"description", "last_opened_at", "permissions_config"})

TasksTable == Whole("tasks", {"session_id", "global_id"})

EventsTable == Whole("task_events", {})

ToolCallsTable == Whole("tool_calls", {})

PermissionsTable == Whole("permission_requests", {"resolved_at"})

FileChangesTable == Whole("file_changes", {})

LogsTable == Whole("execution_logs", {})

ContextsAndHealth == {<<"task_contexts", "*">>, <<"system_health", "*">>}

\* In the order of createAllTables.  Each table is a write of its own; a start cut
\* off within one of the three groups is repaired like one cut off between two.
Groups == 1..3

RepositoryTables ==
  <<GlobalsTable \cup GlobalContextTable \cup SessionsTable \cup WorkspacesTable,
    TasksTable \cup EventsTable \cup ToolCallsTable \cup PermissionsTable,
    FileChangesTable \cup LogsTable \cup ContextsAndHealth>>

\* initTable adds these to a table that was there before without them.
LateColumns ==
  {<<"globals", "workspace_id">>, <<"sessions", "alias">>, <<"tasks", "session_id">>,
   <<"tasks", "global_id">>}

\* CREATE TABLE IF NOT EXISTS and addSqliteColumnIfMissing.
Created(schema, table) ==
  schema \cup {p \in table : <<p[1], "*">> \notin schema \/ p \in LateColumns}

-----------------------------------------------------------------------------
(* The migrations.  Each is a set of checked columns and, after them, at most  *)
(* one batch of statements.                                                    *)

Names ==
  <<"baseline", "workspace_enhance", "messages", "session_workspace_binding",
    "workspace_session_task_indexes", "persistent_session_messages", "task_event_sequence">>

Columns ==
  <<{},
    {<<"workspaces", "description">>, <<"workspaces", "last_opened_at">>,
     <<"sessions", "workspace_id">>, <<"sessions", "summary">>,
     <<"sessions", "summary_updated_at">>, <<"tasks", "user_message_id">>,
     <<"tasks", "assistant_message_id">>},
    {},
    {<<"workspaces", "permissions_config">>, <<"sessions", "last_active_at">>},
    {},
    {<<"messages", "message_type">>, <<"messages", "sequence_no">>,
     <<"messages", "source_event_id">>},
    {<<"task_events", "sequence_no">>}>>

Batched == {1, 3, 5, 6, 7}

Baseline(db) ==
  LET tables == {"globals", "global_context", "sessions", "workspaces", "tasks",
                 "task_events", "tool_calls", "permission_requests", "file_changes",
                 "execution_logs", "task_contexts", "system_health"}
  IN  [db EXCEPT !.schema = @ \cup (tables \X {"*"})]

MessagesDraft(db) ==
  LET tables == {"messages", "message_context_files", "message_attachments"}
  IN  [db EXCEPT !.schema = @ \cup (tables \X {"*"})
           \cup {<<"messages", "idx_messages_session">>, <<"messages", "idx_messages_task">>}]

LookupIndexes(db) ==
  [db EXCEPT !.schema = @ \cup
     {<<"sessions", "idx_sessions_workspace_id">>, <<"tasks", "idx_tasks_session_id">>,
      <<"tasks", "idx_tasks_workspace_id">>}]

\* Ids, numbered so that no two rows have the same.
QuestionId(t) == 3 * t
AnswerId(t) == 3 * t + 1
MigratedId(t) == 3 * t + 2
EventId(t, n) == 2 * ((MaxEvents + 4) * t + n)

Before(a, b) == a.at < b.at \/ (a.at = b.at /\ a.id <= b.id)

\* sequence_no := rank, for the rows that have none.
Rank(rows, column, r) == Cardinality({e \in rows : e[column] = r[column] /\ Before(e, r)})

Numbering(rows, column, r) ==
  IF r.seq # 0 THEN r ELSE [r EXCEPT !.seq = Rank(rows, column, r)]

Ranked(rows, column) == {Numbering(rows, column, r) : r \in rows}

UniqueIn(rows, column) ==
  \A a, b \in rows : a[column] = b[column] /\ a.seq = b.seq => a = b

Questions(db, t) == {m \in db.messages : m.task = t /\ m.role = "user"}

MessageIndexes ==
  {"idx_messages_session_sequence", "idx_messages_task_id", "idx_messages_source_event_id",
   "idx_messages_task_assistant_final"}

\* The goal of a task that has no question of its own becomes one.  (With the
\* unique index in place INSERT OR IGNORE would drop all but one of the rows
\* numbered 0; only a build older than the index could leave such tasks behind.)
MissingQuestions(db) ==
  {[id |-> MigratedId(t), session |-> db.tasks[t].session, task |-> t, role |-> "user",
    at |-> db.tasks[t].at, seq |-> 0] :
     t \in {u \in DOMAIN db.tasks : db.tasks[u].session # None /\ Questions(db, u) = {}}}

WithQuestions(db) == [db EXCEPT !.messages = @ \cup MissingQuestions(db)]

Earliest(rows) == CHOOSE m \in rows : \A o \in rows : Before(m, o)

WithPointers(db) ==
  [db EXCEPT !.tasks = [t \in DOMAIN @ |->
     IF @[t].question = 0 /\ Questions(db, t) # {}
     THEN [@[t] EXCEPT !.question = Earliest(Questions(db, t)).id] ELSE @[t]]]

Conversation(db) ==
  LET asked == WithPointers(WithQuestions(db))
  IN  [asked EXCEPT !.messages = Ranked(@, "session"),
                    !.schema = @ \cup ({"messages"} \X MessageIndexes)]

\* Mutant of EventOrder: events that have a number are numbered anew.
EventsRenumbered(db) ==
  [db EXCEPT !.events = Ranked({[e EXCEPT !.seq = 0] : e \in @}, "task"),
             !.schema = @ \cup {<<"task_events", "idx_task_events_task_sequence">>}]

EventOrder(db) ==
  [db EXCEPT !.events = Ranked(@, "task"),
             !.schema = @ \cup {<<"task_events", "idx_task_events_task_sequence">>}]

\* What the batch of a migration makes of the database, and whether SQLite
\* refuses it.
Batch(v, db) ==
  CASE v = 1 -> Baseline(db) [] v = 3 -> MessagesDraft(db) [] v = 5 -> LookupIndexes(db)
    [] v = 6 -> Conversation(db) [] v = 7 -> EventOrder(db)

Refused(v, db) ==
  \/ v = 6 /\ ~UniqueIn(Conversation(db).messages, "session")
  \/ v = 7 /\ ~UniqueIn(EventOrder(db).events, "task")

-----------------------------------------------------------------------------

Empty == [schema |-> {}, bad |-> {}, recorded |-> [v \in Versions |-> "absent"],
          tasks |-> <<>>, messages |-> {}, events |-> {}, asks |-> {}]

\* The baseline's permission_requests has no such column, that of the repository
\* has one, and no migration adds it to a table that is there.
ResolvedAt == <<"permission_requests", "resolved_at">>

\* A database an earlier version wrote: migrations 1 to v, before messages were
\* kept and before events had numbers.  Version 0 is older than the migrations.
\* Which of the two made its permission_requests nobody knows.
OldSchema(v, closable) ==
  Baseline(Empty).schema
    \cup (IF v >= 3 THEN MessagesDraft(Empty).schema ELSE {})
    \cup (IF v >= 5 THEN LookupIndexes(Empty).schema ELSE {})
    \cup {<<"tasks", "session_id">>}
    \cup (IF v >= 1 THEN {<<"tasks", "global_id">>} ELSE {})
    \cup (IF closable THEN {ResolvedAt} ELSE {})
    \cup UNION {Columns[u] : u \in 1..v}

OldRow ==
  {r \in [session : Sessions \cup {None}, status : {"waiting_permission", "completed"}, at : 1..2,
          question : {0}] : r.session = None => r.at = 1}

\* The events of old tasks: one of progress each and, for some, a verdict of the
\* same second.  A verdict may be older than the status that goes with it.
OldEvents(tasks, ended) ==
  {[id |-> EventId(t, 0), task |-> t, type |-> "progress", at |-> 1, seq |-> 0] : t \in tasks}
  \cup {[id |-> EventId(t, 1), task |-> t, type |-> "task_failed", at |-> 1, seq |-> 0] : t \in ended}

OldDatabase(v, closable, rows, early) ==
  [schema |-> OldSchema(v, closable), bad |-> {},
   recorded |-> [u \in Versions |-> IF u <= v THEN Names[u] ELSE "absent"],
   tasks |-> rows, messages |-> {},
   events |-> OldEvents(DOMAIN rows, {t \in DOMAIN rows : rows[t].status = "completed" \/ t \in early}),
   asks |-> {t \in DOMAIN rows : rows[t].status = "waiting_permission"}]

OldDatabases ==
  {OldDatabase(v, closable, rows, early) :
     v \in OldVersions, closable \in BOOLEAN, rows \in UNION {[T -> OldRow] : T \in SUBSET Tasks}, early \in SUBSET Tasks}

Init ==
  /\ disk \in {Empty} \cup OldDatabases
  /\ shadow = Empty /\ tx = Empty
  /\ phase = "off" /\ attempt = 1 /\ handle = "none" /\ initialized = FALSE
  /\ position = 1 /\ step = 1 /\ stale = {}
  /\ foreign = {} /\ failed = {} /\ upsets = 0

\* The database behind the connection, and writing it.
Db == IF handle = "unlinked" THEN shadow ELSE disk

Store(db) ==
  IF handle = "unlinked" THEN shadow' = db /\ UNCHANGED disk
                         ELSE disk' = db /\ UNCHANGED shadow

Goto(p) == phase' = p

connection == <<attempt, handle, initialized>>
plan == <<position, step, stale>>
outside == <<foreign, failed, upsets>>

-----------------------------------------------------------------------------
(* The steps of run_agent_server before and after the database.  Each may end  *)
(* the process with an exit code of its own.                                   *)

Passes(from, to) ==
  /\ phase = from /\ Goto(to)
  /\ UNCHANGED <<disk, shadow, tx, connection, plan, outside>>

\* The process is gone, and with it its transaction and an unlinked database.
Gone ==
  /\ phase' = "off" /\ handle' = "none" /\ initialized' = FALSE /\ attempt' = 1
  /\ tx' = Empty /\ shadow' = Empty /\ position' = 1 /\ step' = 1 /\ stale' = {} /\ failed' = {}

Exits(from) == phase = from /\ Gone /\ UNCHANGED <<disk, foreign, upsets>>

Main == Passes("off", "config")

ReadConfig == Passes("config", "directories")

ConfigMissing == Exits("config")

PrepareDirectories == Passes("directories", "logging")

DirectoriesMissing == Exits("directories")

InitLogging == Passes("logging", "tools")

LoggingFails == Exits("logging")

InitTools == Passes("tools", "open")

ToolsFail == Exits("tools")

InitGateway == Passes("gateway", "llm")

GatewayFails == Exits("gateway")

\* A missing model configuration is only a warning.
InitLlm == Passes("llm", "orchestrator")

InitOrchestrator == Passes("orchestrator", "serving")

OrchestratorFails == Exits("orchestrator")

Stop == Exits("serving")

-----------------------------------------------------------------------------
(* The database.                                                              *)

\* A second init returns at once when the first one succeeded.
OpenDatabase ==
  /\ phase = "open"
  /\ IF initialized
     THEN Goto("recover") /\ UNCHANGED handle
     ELSE Goto("tables") /\ handle' = "file"
  /\ UNCHANGED <<disk, shadow, tx, attempt, initialized, plan, outside>>

CreateTable ==
  /\ phase = "tables" /\ position \in Groups
  /\ Store([Db EXCEPT !.schema = Created(@, RepositoryTables[position])])
  /\ position' = position + 1
  /\ UNCHANGED <<tx, phase, connection, step, stale, outside>>

TablesDone ==
  /\ phase = "tables" /\ position \notin Groups
  /\ Goto("migrate") /\ position' = 1
  /\ UNCHANGED <<disk, shadow, tx, connection, step, stale, outside>>

Migrating == phase = "migrate" /\ position \in Versions
Migration == phase = "migration"

\* A record under another name stops the migrations.
Misnamed == Db.recorded[position] \notin {"absent", Names[position]}

BeginMigration ==
  /\ Migrating /\ ~Misnamed
  /\ tx' = Db /\ step' = 1 /\ Goto("migration")
  /\ UNCHANGED <<disk, shadow, connection, position, stale, outside>>

Required == Columns[position]
AtColumns == Migration /\ step = 1
\* Mutant of AtBatch: a batch that is recorded is not applied again.
AtUnrecordedBatch ==
  Migration /\ step = 2 /\ position \in Batched /\ Db.recorded[position] = "absent"

AtBatch == Migration /\ step = 2 /\ position \in Batched

\* The columns come first.  One that is there must be the one required; one that
\* is not is added.
ColumnSteps ==
  /\ AtColumns /\ Required \cap tx.bad = {}
  /\ tx' = [tx EXCEPT !.schema = @ \cup Required]
  /\ step' = 2
  /\ UNCHANGED <<disk, shadow, phase, connection, position, stale, outside>>

BatchStep ==
  /\ AtBatch /\ ~Refused(position, tx)
  /\ tx' = Batch(position, tx)
  /\ step' = 3
  /\ UNCHANGED <<disk, shadow, phase, connection, position, stale, outside>>

\* INSERT OR IGNORE of the record, and COMMIT.
CommitMigration ==
  /\ Migration /\ ~AtColumns /\ ~AtBatch
  /\ Store([tx EXCEPT !.recorded[position] = IF @ = "absent" THEN Names[position] ELSE @])
  /\ tx' = Empty /\ position' = position + 1 /\ Goto("migrate")
  /\ UNCHANGED <<connection, step, stale, outside>>

InitDone ==
  /\ phase = "migrate" /\ position \notin Versions
  /\ initialized' = TRUE /\ Goto("recover") /\ position' = 1
  /\ UNCHANGED <<disk, shadow, tx, attempt, handle, step, stale, outside>>

\* An exception in DataAccessFacade::init closes the connection.  In the
\* recovery it only rolls back.
InInit == phase \in {"open", "tables", "migrate", "migration"} /\ ~initialized
InRecovery == phase \in {"recover", "recovery"}

Throw(why) ==
  /\ Goto("broken")
  /\ handle' = IF InInit THEN "none" ELSE handle
  /\ tx' = Empty /\ position' = 1 /\ step' = 1 /\ stale' = {}
  /\ failed' = failed \cup {IF InInit THEN "init" ELSE "recovery"} \cup why
  /\ UNCHANGED <<disk, shadow, attempt, initialized, foreign>>

InitThrows ==
  /\ \/ Migrating /\ Misnamed
     \/ AtColumns /\ Required \cap tx.bad # {}
     \/ AtBatch /\ Refused(position, tx)
  /\ Throw({}) /\ UNCHANGED upsets

\* Any statement may fail: the disk is full, another process holds the lock.
StatementFails ==
  /\ InInit \/ InRecovery
  /\ upsets < MaxUpsets
  /\ Throw({"statement"}) /\ upsets' = upsets + 1

\* Mutant of ResetDatabase: the second attempt is not told from the first.
ResetAgain ==
  /\ phase = "broken" /\ attempt = 1
  /\ shadow' = IF handle = "none" THEN Empty ELSE Db
  /\ handle' = IF handle = "none" THEN "none" ELSE "unlinked"
  /\ disk' = Empty
  /\ Goto("open")
  /\ UNCHANGED <<tx, attempt, initialized, plan, outside>>

\* The first failure deletes the file, whatever failed; the connection, if it is
\* still open, keeps the unlinked database.  A removal that fails is not noticed:
\* Windows keeps a file that is open.
ResetDatabase ==
  /\ phase = "broken" /\ attempt = 1
  /\ \/ /\ shadow' = IF handle = "file" THEN disk ELSE Empty
        /\ handle' = IF handle = "file" THEN "unlinked" ELSE "none"
        /\ disk' = Empty /\ UNCHANGED upsets
     \/ /\ upsets < MaxUpsets /\ upsets' = upsets + 1
        /\ UNCHANGED <<disk, shadow, handle>>
  /\ attempt' = 2 /\ Goto("open")
  /\ UNCHANGED <<tx, initialized, plan, foreign, failed>>

GiveUp == attempt = 2 /\ Exits("broken")

-----------------------------------------------------------------------------
(* recoverInterruptedTasks: one transaction over the stale tasks, in the order *)
(* of their ids.  All its statements are prepared first, stale tasks or not.   *)

StaleTasks(db) == {t \in DOMAIN db.tasks : db.tasks[t].status \in Recoverable}

BeginRecovery ==
  /\ phase = "recover" /\ ResolvedAt \in Db.schema
  /\ tx' = Db /\ stale' = StaleTasks(Db) /\ Goto("recovery")
  /\ UNCHANGED <<disk, shadow, connection, position, step, outside>>

\* The id crash_recovery:<task> of the event a recovery writes.
RecoveryId(t) == 2 * t + 1

HasTerminalEvent(db, t) == \E e \in db.events : e.task = t /\ e.type \in TerminalTypes

MatchingRecovery(db, t) ==
  \E e \in db.events : e.id = RecoveryId(t) /\ e.task = t /\ e.type = "task_failed"

Conflict(db, t) == ~MatchingRecovery(db, t) /\ \E e \in db.events : e.id = RecoveryId(t)

NextSeq(rows) == Max({0} \cup {r.seq : r \in rows}) + 1

NewEvent(db, t, id, type) ==
  [id |-> id, task |-> t, type |-> type, at |-> 3,
   seq |-> NextSeq({e \in db.events : e.task = t})]

Interrupted(db, t) ==
  [db EXCEPT
     !.tasks[t].status = "interrupted",
     !.asks = @ \ {t},
     !.events = IF MatchingRecovery(db, t) \/ HasTerminalEvent(db, t) THEN @
                ELSE @ \cup {NewEvent(db, t, RecoveryId(t), "task_failed")}]

InTurn == Min(stale)
Recovering == phase = "recovery" /\ stale # {}

\* Mutant of RecoverTask: the status is written outside the transaction.
RecoverTaskUnprotected ==
  /\ Recovering /\ ~Conflict(tx, InTurn)
  /\ Store([Db EXCEPT !.tasks[InTurn].status = "interrupted"])
  /\ tx' = Interrupted(tx, InTurn)
  /\ stale' = stale \ {InTurn}
  /\ UNCHANGED <<phase, connection, position, step, outside>>

RecoverTask ==
  /\ Recovering /\ ~Conflict(tx, InTurn)
  /\ tx' = Interrupted(tx, InTurn)
  /\ stale' = stale \ {InTurn}
  /\ UNCHANGED <<disk, shadow, phase, connection, position, step, outside>>

RecoveryThrows ==
  /\ \/ phase = "recover" /\ ResolvedAt \notin Db.schema
     \/ Recovering /\ Conflict(tx, InTurn)
  /\ Throw({}) /\ UNCHANGED upsets

CommitRecovery ==
  /\ phase = "recovery" /\ stale = {}
  /\ Store(tx) /\ tx' = Empty /\ Goto("gateway")
  /\ UNCHANGED <<connection, plan, outside>>

-----------------------------------------------------------------------------
(* Serving: what a task leaves in the tables this module is about.            *)

Serving(op) ==
  /\ phase = "serving" /\ Store(op)
  /\ UNCHANGED <<tx, phase, connection, plan, outside>>

NewMessage(db, t, s, id, role) ==
  [id |-> id, session |-> s, task |-> t, role |-> role, at |-> 3,
   seq |-> NextSeq({m \in db.messages : m.session = s})]

\* The task, its question and the pointer to it are one transaction.
CreateTask(t, s) ==
  /\ t \notin DOMAIN Db.tasks /\ \A m \in Db.messages : m.task # t
  /\ Serving([Db EXCEPT
       !.tasks = [u \in DOMAIN @ \cup {t} |->
         IF u = t THEN [session |-> s, status |-> "created", at |-> 3, question |-> QuestionId(t)]
         ELSE @[u]],
       !.messages = @ \cup {NewMessage(Db, t, s, QuestionId(t), "user")}])

MarkRunning(t) ==
  /\ t \in DOMAIN Db.tasks /\ Db.tasks[t].status = "created"
  /\ Serving([Db EXCEPT !.tasks[t].status = "running"])

Running(t) == t \in DOMAIN Db.tasks /\ Db.tasks[t].status = "running"

\* The events the task has.
Own(t) == Cardinality({e \in Db.events : e.task = t})

Progress(t) ==
  /\ Running(t) /\ Own(t) < MaxEvents
  /\ Serving([Db EXCEPT !.events = @ \cup {NewEvent(Db, t, EventId(t, Own(t) + 3), "progress")}])

AskPermission(t) ==
  /\ Running(t) /\ t \notin Db.asks
  /\ Serving([Db EXCEPT !.asks = @ \cup {t}])

\* A task ends in three writes: its verdict, the answer, the terminal event.
Decide(t) ==
  /\ Running(t) /\ t \notin Db.asks
  /\ Serving([Db EXCEPT !.tasks[t].status = "completed"])

Answer(t) ==
  /\ t \in DOMAIN Db.tasks /\ Db.tasks[t].status = "completed" /\ Db.tasks[t].at = 3
  /\ ~HasTerminalEvent(Db, t)
  /\ \A m \in Db.messages : m.id # AnswerId(t)
  /\ Serving([Db EXCEPT !.messages =
       @ \cup {NewMessage(Db, t, Db.tasks[t].session, AnswerId(t), "assistant")}])

Announce(t) ==
  /\ t \in DOMAIN Db.tasks /\ Db.tasks[t].status = "completed" /\ Db.tasks[t].at = 3
  /\ ~HasTerminalEvent(Db, t)
  /\ Serving([Db EXCEPT !.events = @ \cup {NewEvent(Db, t, EventId(t, 2), "task_completed")}])

-----------------------------------------------------------------------------
(* The process is killed, and what others do to a database at rest.           *)

Kill ==
  /\ phase # "off" /\ upsets < MaxUpsets
  /\ Gone /\ upsets' = upsets + 1
  /\ UNCHANGED <<disk, foreign>>

AtRest == phase = "off" /\ disk # Empty /\ upsets < MaxUpsets /\ foreign = {}

Change(kind, db) ==
  /\ AtRest /\ disk' = db
  /\ foreign' = {kind} /\ upsets' = upsets + 1
  /\ UNCHANGED <<shadow, tx, phase, connection, plan, failed>>

LoseIndex ==
  \E i \in {p \in disk.schema : p[2] \in {"idx_messages_session_sequence", "idx_task_events_task_sequence"}} :
    Change("index", [disk EXCEPT !.schema = @ \ {i}])

AlterColumn ==
  \E c \in {<<"workspaces", "description">>, <<"messages", "sequence_no">>} :
    Change("column", [disk EXCEPT !.schema = @ \cup {c}, !.bad = @ \cup {c}])

RenameRecord ==
  \E v \in {u \in {1, 6} : disk.recorded[u] # "absent"} :
    Change("record", [disk EXCEPT !.recorded[v] = "other"])

TakeRecoveryId(t) ==
  /\ t \in StaleTasks(disk) /\ \A e \in disk.events : e.id # RecoveryId(t)
  /\ Change("event", [disk EXCEPT !.events = @ \cup {NewEvent(disk, t, RecoveryId(t), "progress")}])

-----------------------------------------------------------------------------

Boot ==
  \/ ReadConfig \/ PrepareDirectories \/ InitLogging \/ InitTools
  \/ OpenDatabase \/ CreateTable \/ TablesDone
  \/ BeginMigration \/ ColumnSteps \/ BatchStep \/ CommitMigration \/ InitDone \/ InitThrows
  \/ ResetDatabase \/ GiveUp
  \/ BeginRecovery \/ RecoverTask \/ RecoveryThrows \/ CommitRecovery
  \/ InitGateway \/ InitLlm \/ InitOrchestrator

Refusals ==
  \/ ConfigMissing \/ DirectoriesMissing \/ LoggingFails \/ ToolsFail \/ GatewayFails
  \/ OrchestratorFails

Work(t) ==
  \/ \E s \in Sessions : CreateTask(t, s)
  \/ MarkRunning(t) \/ Progress(t) \/ AskPermission(t) \/ Decide(t) \/ Answer(t) \/ Announce(t)

Next ==
  \/ Main \/ Boot \/ Refusals \/ Stop
  \/ \E t \in Tasks : Work(t)
  \/ StatementFails \/ Kill
  \/ LoseIndex \/ AlterColumn \/ RenameRecord \/ \E t \in Tasks : TakeRecoveryId(t)

\* The start is one thread that nothing blocks.
Spec == Init /\ [][Next]_vars /\ WF_vars(Boot)

-----------------------------------------------------------------------------
(* What it is for.                                                            *)

\* Every table, column and index there is.
FullSchema ==
  (UNION {RepositoryTables[g] : g \in Groups}) \cup (UNION {Columns[v] : v \in Versions})
    \cup LookupIndexes(Empty).schema \cup MessagesDraft(Empty).schema
    \cup ({"messages"} \X MessageIndexes) \cup {<<"task_events", "idx_task_events_task_sequence">>}

Message == [id : Nat, session : Sessions \cup {None}, task : Tasks, role : {"user", "assistant"},
            at : 1..3, seq : Nat]
Event == [id : Nat, task : Tasks, type : TerminalTypes \cup {"progress"}, at : 1..3, seq : Nat]

Row == [session : Sessions \cup {None}, status : Statuses, at : 1..3, question : Nat]

DbOK(db) ==
  /\ db \in [schema : SUBSET FullSchema, bad : SUBSET FullSchema,
            recorded : [Versions -> {"absent", "other"} \cup {Names[v] : v \in Versions}],
            tasks : [DOMAIN db.tasks -> Row],
            messages : SUBSET Message, events : SUBSET Event, asks : SUBSET Tasks]
  /\ DOMAIN db.tasks \subseteq Tasks /\ db.bad \subseteq db.schema

\* The state has its type.
TypeOK ==
  /\ DbOK(disk) /\ DbOK(shadow) /\ DbOK(tx)
  /\ phase \in {"off", "config", "directories", "logging", "tools", "open", "tables", "migrate",
                "migration", "broken", "recover", "recovery", "gateway", "llm", "orchestrator",
                "serving"}
  /\ attempt \in 1..2 /\ handle \in {"none", "file", "unlinked"} /\ initialized \in BOOLEAN
  /\ position \in 1..8 /\ step \in 1..3 /\ stale \subseteq Tasks /\ upsets \in 0..MaxUpsets

Prepared == {"gateway", "llm", "orchestrator", "serving"}

\* Whatever version wrote the database, whichever statement the last process was
\* killed at and whatever index somebody dropped: a server that gets past the
\* database has the whole schema and all seven records (createAllTables, migrate).
ServesCurrentSchema ==
  phase \in Prepared => /\ FullSchema \subseteq Db.schema
                        /\ \A v \in Versions : Db.recorded[v] = Names[v]

\* No request is served while a task of an earlier process still looks alive: it
\* is interrupted, has no permission request open, and its readers find an end.
NothingLeftRunning ==
  phase \in Prepared \ {"serving"} =>
    \A t \in DOMAIN Db.tasks :
      /\ Db.tasks[t].status \notin Recoverable
      /\ Db.tasks[t].status = "interrupted" => t \notin Db.asks

\* Recovery is all or nothing: a task is never interrupted in the file without a
\* terminal event, wherever the process dies (one transaction in TaskRecovery).
InterruptedHasVerdict ==
  \A t \in DOMAIN disk.tasks :
    disk.tasks[t].status = "interrupted" => HasTerminalEvent(disk, t)

\* However often the server dies and recovers, a task has one terminal event.
OneVerdict ==
  \A t \in Tasks : Cardinality({e \in disk.events : e.task = t /\ e.type \in TerminalTypes}) <= 1

\* After the upgrade each conversation has its questions and each task points at
\* its own; messages and events are numbered 1, 2, ... without two alike.
ConversationsWhole ==
  phase \in Prepared =>
    /\ \A t \in DOMAIN Db.tasks :
         Db.tasks[t].session # None =>
           \E m \in Questions(Db, t) : m.id = Db.tasks[t].question
    /\ UniqueIn(Db.messages, "session") /\ UniqueIn(Db.events, "task")
    /\ \A r \in Db.messages \cup Db.events : r.seq > 0

\* A database is only given up if a statement failed, if somebody else changed it,
\* or if the recovery found it without the column it writes: the migrations, applied
\* again at every start, accept their own result.
ResetOnlyWhenBroken ==
  phase = "broken" =>
    \/ "statement" \in failed \/ foreign \cap {"column", "record", "event"} # {}
    \/ "recovery" \in failed /\ ResolvedAt \notin Db.schema

\* What is served is the file on disk, except after a recovery that failed once.
ServesTheFile ==
  phase \in Prepared => handle = "file" \/ "recovery" \in failed

\* A server that gets past the database has one that is whole: tables, records,
\* conversations, and the file that will be there at the next start.
ServesPrepared == TypeOK /\ ServesCurrentSchema /\ ConversationsWhole /\ ServesTheFile

\* Recovery, cut off anywhere and repeated, gives each interrupted task its end,
\* one end, and leaves none out.
RecoveryIsWhole == NothingLeftRunning /\ InterruptedHasVerdict /\ OneVerdict

\* Restarts, upgrades and recoveries lose no row and renumber none that has a number.
\* The one step that does is the reset after the first failure, and it loses all:
\* scripts/test-backend-sqlite-migration.ps1:390-430 wants such a file left alone and
\* exit code 5, AppBootstrap.cpp:211-220 deletes it and starts again.
Survives ==
  /\ DOMAIN disk.tasks \subseteq DOMAIN disk'.tasks
  /\ \A m \in disk.messages : m.seq # 0 => m \in disk'.messages
  /\ \A e \in disk.events :
       \E f \in disk'.events : f.id = e.id /\ (e.seq # 0 => f = e)

HistoryKept == [][Survives \/ (phase = "broken" /\ attempt = 1 /\ disk' = Empty)]_vars

\* What was written is there after any number of starts, unless one of the reasons
\* there are for it has led to the reset.
HistoryIsSafe == []ResetOnlyWhenBroken /\ HistoryKept

\* A start comes to an end: it serves, be it an empty database after a reset, or the
\* process is gone.
StartEnds ==
  phase = "config" ~> phase \in {"serving", "off"}
=============================================================================
