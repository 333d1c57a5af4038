--------------------------- MODULE TaskLifecycle ---------------------------
(***************************************************************************)
(* The life of a task in the agent server: the create / cancel / delete    *)
(* handlers of TaskController, the AgentOrchestrator that owns the         *)
(* in-memory task table, the detached worker thread that runs and          *)
(* finalizes the task, the tasks and task_events tables of SQLite, process *)
(* death and the crash recovery of the next start.                         *)
(*                                                                         *)
(* Handlers are split where another thread can run: at each database call  *)
(* and where the orchestrator's mutex_ is released.  cancelTask keeps      *)
(* mutex_ across its database write, so it is two steps with `canceller'   *)
(* as the holder of the mutex: a worker polls its cancel flag without it.  *)
(***************************************************************************)
EXTENDS Naturals, Sequences, FiniteSets

CONSTANTS
  Tasks,        \* task ids the controller may generate, each used once
  NoTask,       \* "mutex_ is not held by cancelTask"
  Faults,       \* which of the Faultable things may go wrong with each task
  MaxCrashes,   \* bound on the number of process deaths
  MaxData       \* bound on the business events the worker of a task pushes while it runs

\* Writes of the status column report failure by FALSE; event and global_context
\* writes throw; message writes throw and are caught; deletes fail unnoticed.
\* "not_ready" is an orchestrator without a usable expert configuration.
Faultable == {"status_write", "throwing_write", "message_write", "delete", "not_ready"}

ASSUME TaskAssumption  == NoTask \notin Tasks
ASSUME FaultAssumption == Faults \in [Tasks -> SUBSET Faultable]
ASSUME BoundAssumption == MaxCrashes \in Nat /\ MaxData \in [Tasks -> Nat]

VARIABLES
  up,        \* the server process runs and has finished startup recovery
  crashes,   \* process deaths so far
  db,        \* tasks.status of the row, "absent" when there is no row
  log,       \* the task's rows of task_events in sequence_no order
  answer,    \* message_type of the task's final assistant message
  archived,  \* the result was written to global_context
  ctl,       \* where the create handler is
  active,    \* activeTasks_[t].status, "none" when there is no entry
  sent,      \* activeTasks_[t].terminalEventSent
  flag,      \* the atomic cancel flag shared with the worker
  worker,    \* where the worker thread is
  result,    \* statusToDbString of what the agent loop returned
  canceller, \* the task whose cancelTask holds mutex_
  deleting   \* tasks whose delete handler has passed its status check

tables == <<db, log, answer, archived>>
memory == <<active, sent, flag, worker, result, canceller>>
vars   == <<up, crashes, tables, ctl, memory, deleting>>

-----------------------------------------------------------------------------
Verdicts == {"completed", "failed", "cancelled"}

\* isTerminalStatus
Terminal == Verdicts \cup {"interrupted"}

\* The statuses crash recovery takes for stale, of those the server writes.
Recoverable == {"created", "running"}

\* A database write by UPDATE ... WHERE id changes nothing when the row is gone,
\* and the caller is told that it succeeded.
Updated(t, s) == [db EXCEPT ![t] = IF @ = "absent" THEN @ ELSE s]

\* Event names: "recovered" is the task_failed event crash recovery inserts,
\* with metadata status=interrupted; "data" is any non-terminal event.
EventOf(s) == CASE s = "completed"   -> "task_completed"
                [] s = "cancelled"   -> "task_cancelled"
                [] s = "interrupted" -> "recovered"
                [] OTHER             -> "task_failed"

TerminalEvents == {"task_completed", "task_failed", "task_cancelled", "recovered"}
Events == TerminalEvents \cup {"task_created", "data"}

EventTypes(t) == {log[t][i] : i \in DOMAIN log[t]}

\* EventRepository::create gives the next sequence number, so the log grows at its end.
Pushed(t, e) == [log EXCEPT ![t] = Append(@, e)]

MutexFree == canceller = NoTask

CtlSteps    == {"idle", "inserted", "marked", "published", "done"}
WorkerSteps == {"none", "running", "finalize", "message", "dialog", "emit",
                "archive", "ack", "cleanup"}

TypeOK ==
  /\ up \in BOOLEAN
  /\ crashes \in 0..MaxCrashes
  /\ db \in [Tasks -> Terminal \cup Recoverable \cup {"absent"}]
  /\ log \in [Tasks -> Seq(Events)]
  /\ answer \in [Tasks -> {"none", "result", "error"}]
  /\ archived \in [Tasks -> BOOLEAN]
  /\ ctl \in [Tasks -> CtlSteps]
  /\ active \in [Tasks -> Verdicts \cup {"none", "running"}]
  /\ sent \in [Tasks -> BOOLEAN]
  /\ flag \in [Tasks -> BOOLEAN]
  /\ worker \in [Tasks -> WorkerSteps]
  /\ result \in [Tasks -> Verdicts \cup {"none"}]
  /\ canceller \in Tasks \cup {NoTask}
  /\ deleting \in SUBSET Tasks

Init ==
  /\ up = TRUE
  /\ crashes = 0
  /\ db = [t \in Tasks |-> "absent"]
  /\ log = [t \in Tasks |-> << >>]
  /\ answer = [t \in Tasks |-> "none"]
  /\ archived = [t \in Tasks |-> FALSE]
  /\ ctl = [t \in Tasks |-> "idle"]
  /\ active = [t \in Tasks |-> "none"]
  /\ sent = [t \in Tasks |-> FALSE]
  /\ flag = [t \in Tasks |-> FALSE]
  /\ worker = [t \in Tasks |-> "none"]
  /\ result = [t \in Tasks |-> "none"]
  /\ canceller = NoTask
  /\ deleting = {}

-----------------------------------------------------------------------------
(***************************************************************************)
(* TaskController::createTask (and continueTask, which repeats it).        *)
(***************************************************************************)

\* createTaskWithUserMessage: task row and user message in one transaction.
InsertTask(t) ==
  /\ up
  /\ ctl[t] = "idle"
  /\ ctl' = [ctl EXCEPT ![t] = "inserted"]
  /\ db' = [db EXCEPT ![t] = "created"]
  /\ UNCHANGED <<up, crashes, log, answer, archived, memory, deleting>>

\* The result of updateTaskStatus is not looked at.
MarkRunning(t) ==
  /\ ctl[t] = "inserted"
  /\ ctl' = [ctl EXCEPT ![t] = "marked"]
  /\ \/ db' = Updated(t, "running")
     \/ "status_write" \in Faults[t] /\ UNCHANGED db
  /\ UNCHANGED <<up, crashes, log, answer, archived, memory, deleting>>

\* A failed write of the TaskCreated event answers 500: the task is not started.
PublishCreated(t) ==
  /\ ctl[t] = "marked"
  /\ \/ /\ ctl' = [ctl EXCEPT ![t] = "published"]
        /\ log' = Pushed(t, "task_created")
     \/ /\ "throwing_write" \in Faults[t]
        /\ ctl' = [ctl EXCEPT ![t] = "done"]
        /\ UNCHANGED log
  /\ UNCHANGED <<up, crashes, db, answer, archived, memory, deleting>>

\* isReady is false: 500, and the row keeps its status.
RefuseStart(t) ==
  /\ ctl[t] = "published"
  /\ "not_ready" \in Faults[t]
  /\ ctl' = [ctl EXCEPT ![t] = "done"]
  /\ UNCHANGED <<up, crashes, tables, memory, deleting>>

Startable(t) == db[t] # "interrupted"

\* AgentOrchestrator::startTask.  The guard on "interrupted" never refuses here:
\* that status is written at startup, when no create handler is running.
StartTask(t) ==
  /\ ctl[t] = "published"
  /\ Startable(t)
  /\ MutexFree
  /\ ctl' = [ctl EXCEPT ![t] = "done"]
  /\ active' = [active EXCEPT ![t] = "running"]
  /\ sent' = [sent EXCEPT ![t] = FALSE]
  /\ flag' = [flag EXCEPT ![t] = FALSE]
  /\ worker' = [worker EXCEPT ![t] = "running"]
  /\ UNCHANGED <<up, crashes, tables, result, canceller, deleting>>

-----------------------------------------------------------------------------
(***************************************************************************)
(* The worker: runTaskThread, then finalizeTask.                           *)
(***************************************************************************)

\* The agent loop pushes a persisted event while it runs.  A cancelled worker may
\* still do so until its next look at the flag.  A failed write is an exception,
\* which runTaskThread turns into a failed result.
WorkerPushes(t) ==
  /\ worker[t] = "running"
  /\ \/ /\ Cardinality({i \in DOMAIN log[t] : log[t][i] = "data"}) < MaxData[t]
        /\ log' = Pushed(t, "data")
        /\ UNCHANGED <<worker, result>>
     \/ /\ "throwing_write" \in Faults[t]
        /\ worker' = [worker EXCEPT ![t] = "finalize"]
        /\ result' = [result EXCEPT ![t] = "failed"]
        /\ UNCHANGED log
  /\ UNCHANGED <<up, crashes, db, answer, archived, ctl, active, sent, flag, canceller, deleting>>

\* The result the worker comes back with; "cancelled" only if it saw the flag up.
WorkerReturns(t) ==
  /\ worker[t] = "running"
  /\ \E r \in Verdicts :
       /\ r = "cancelled" => flag[t]
       /\ result' = [result EXCEPT ![t] = r]
  /\ worker' = [worker EXCEPT ![t] = "finalize"]
  /\ UNCHANGED <<up, crashes, tables, ctl, active, sent, flag, canceller, deleting>>

\* Mutant of ClaimVerdict: the result of the status write is not looked at.
ClaimUnpersisted(t) ==
  /\ worker[t] = "finalize"
  /\ MutexFree
  /\ active[t] = "running"
  /\ active' = [active EXCEPT ![t] = result[t]]
  /\ sent' = [sent EXCEPT ![t] = TRUE]
  /\ \/ db' = Updated(t, result[t])
     \/ "status_write" \in Faults[t] /\ UNCHANGED db
  /\ worker' = [worker EXCEPT ![t] = "message"]
  /\ UNCHANGED <<up, crashes, log, answer, archived, ctl, flag, result, canceller, deleting>>

\* The first critical section of finalizeTask, when nobody has decided the task:
\* the verdict is claimed in memory and written to the row under mutex_.  If the
\* write fails nothing is emitted, the entry is erased and the row stays behind.
ClaimVerdict(t) ==
  /\ worker[t] = "finalize"
  /\ MutexFree
  /\ active[t] = "running"
  /\ active' = [active EXCEPT ![t] = result[t]]
  /\ sent' = [sent EXCEPT ![t] = TRUE]
  /\ \/ /\ db' = Updated(t, result[t])
        /\ worker' = [worker EXCEPT ![t] = "message"]
     \/ /\ "status_write" \in Faults[t]
        /\ worker' = [worker EXCEPT ![t] = "cleanup"]
        /\ UNCHANGED db
  /\ UNCHANGED <<up, crashes, log, answer, archived, ctl, flag, result, canceller, deleting>>

\* The same critical section when cancelTask decided: only the event is left to
\* send.  (The code's third branch, somebody else owns the terminal state, is
\* never taken: no other thread finalizes this task.)
AcknowledgeCancel(t) ==
  /\ worker[t] = "finalize"
  /\ MutexFree
  /\ active[t] = "cancelled" /\ ~sent[t]
  /\ sent' = [sent EXCEPT ![t] = TRUE]
  /\ worker' = [worker EXCEPT ![t] = "ack"]
  /\ UNCHANGED <<up, crashes, tables, ctl, active, flag, result, canceller, deleting>>

AnswerOf(r) == IF r = "completed" THEN "result" ELSE "error"

\* createFinalAssistantMessage, skipped when the output is empty.  It keeps an
\* existing message; its exceptions (a missing row is one) are caught.
StoreAnswer(t) ==
  /\ worker[t] = "message"
  /\ \/ /\ db[t] # "absent"
        /\ answer' = [answer EXCEPT ![t] = IF @ = "none" THEN AnswerOf(result[t]) ELSE @]
        /\ worker' = [worker EXCEPT ![t] = "dialog"]
     \/ /\ "message_write" \in Faults[t] \/ db[t] = "absent"
        /\ worker' = [worker EXCEPT ![t] = "dialog"]
        /\ UNCHANGED answer
     \/ /\ worker' = [worker EXCEPT ![t] = "emit"]   \* no output
        /\ UNCHANGED answer
  /\ UNCHANGED <<up, crashes, db, log, archived, ctl, active, sent, flag, result, canceller, deleting>>

\* pushDialog, unless the answer was streamed (finalOutputSent).
PushDialog(t) ==
  /\ worker[t] = "dialog"
  /\ \/ log' = Pushed(t, "data")
     \/ UNCHANGED log
  /\ worker' = [worker EXCEPT ![t] = "emit"]
  /\ UNCHANGED <<up, crashes, db, answer, archived, ctl, active, sent, flag, result, canceller, deleting>>

EmitTerminalEvent(t) ==
  /\ worker[t] = "emit"
  /\ log' = Pushed(t, EventOf(result[t]))
  /\ worker' = [worker EXCEPT ![t] = "archive"]
  /\ UNCHANGED <<up, crashes, db, answer, archived, ctl, active, sent, flag, result, canceller, deleting>>

EmitCancelled(t) ==
  /\ worker[t] = "ack"
  /\ log' = Pushed(t, "task_cancelled")
  /\ worker' = [worker EXCEPT ![t] = "cleanup"]
  /\ UNCHANGED <<up, crashes, db, answer, archived, ctl, active, sent, flag, result, canceller, deleting>>

\* saveGlobalContext for whichever of summary, plan and output is not empty.
Archive(t) ==
  /\ worker[t] = "archive"
  /\ \/ archived' = [archived EXCEPT ![t] = TRUE]
     \/ UNCHANGED archived
  /\ worker' = [worker EXCEPT ![t] = "cleanup"]
  /\ UNCHANGED <<up, crashes, db, log, answer, ctl, active, sent, flag, result, canceller, deleting>>

\* The last critical section erases the task from the three maps.
Cleanup(t) ==
  /\ worker[t] = "cleanup"
  /\ MutexFree
  /\ active' = [active EXCEPT ![t] = "none"]
  /\ sent' = [sent EXCEPT ![t] = FALSE]
  /\ flag' = [flag EXCEPT ![t] = FALSE]
  /\ worker' = [worker EXCEPT ![t] = "none"]
  /\ result' = [result EXCEPT ![t] = "none"]
  /\ UNCHANGED <<up, crashes, tables, ctl, canceller, deleting>>

-----------------------------------------------------------------------------
(***************************************************************************)
(* AgentOrchestrator::cancelTask, under mutex_ from beginning to end.      *)
(* A refused call changes nothing.  The row the controller looked up may   *)
(* have been deleted by now, so the row is not part of the guard.          *)
(***************************************************************************)
\* Mutant of Cancellable: the terminal check is forgotten.
CancellableTwice(t) == active[t] # "none"

Cancellable(t) == active[t] \notin Terminal \cup {"none"}

CancelBegin(t) ==
  /\ up
  /\ MutexFree
  /\ Cancellable(t)
  /\ flag' = [flag EXCEPT ![t] = TRUE]
  /\ active' = [active EXCEPT ![t] = "cancelled"]
  /\ sent' = [sent EXCEPT ![t] = FALSE]
  /\ canceller' = t
  /\ UNCHANGED <<up, crashes, tables, ctl, worker, result, deleting>>

CancelPersist(t) ==
  /\ canceller = t
  /\ db' = Updated(t, "cancelled")
  /\ canceller' = NoTask
  /\ UNCHANGED <<up, crashes, log, answer, archived, ctl, active, sent, flag, worker, result, deleting>>

\* The claim is rolled back and the caller is told that nothing was cancelled.
CancelPersistFails(t) ==
  /\ canceller = t
  /\ "status_write" \in Faults[t]
  /\ flag' = [flag EXCEPT ![t] = FALSE]
  /\ active' = [active EXCEPT ![t] = "running"]
  /\ sent' = [sent EXCEPT ![t] = FALSE]
  /\ canceller' = NoTask
  /\ UNCHANGED <<up, crashes, tables, ctl, worker, result, deleting>>

-----------------------------------------------------------------------------
(***************************************************************************)
(* TaskController::deleteTask: a status check, then deleteTaskCascade.     *)
(***************************************************************************)
Deletable(t) == db[t] \notin {"absent", "running"}

DeleteCheck(t) ==
  /\ up
  /\ Deletable(t)
  /\ deleting' = deleting \cup {t}
  /\ UNCHANGED <<up, crashes, tables, ctl, memory>>

\* The cascade is a row of DELETE statements outside a transaction whose results
\* are ignored, events before the task row: each may fail on its own.
DeleteCascade(t) ==
  /\ t \in deleting
  /\ deleting' = deleting \ {t}
  /\ \/ /\ log' = [log EXCEPT ![t] = << >>]
        /\ db' = [db EXCEPT ![t] = "absent"]
     \/ /\ "delete" \in Faults[t]
        /\ \/ log' = [log EXCEPT ![t] = << >>] /\ UNCHANGED db
           \/ db' = [db EXCEPT ![t] = "absent"] /\ UNCHANGED log
  /\ UNCHANGED <<up, crashes, answer, archived, ctl, memory>>

-----------------------------------------------------------------------------
(***************************************************************************)
(* Process death and the next start.                                       *)
(***************************************************************************)

\* Every thread and every in-memory table is gone; SQLite keeps what it has.
Die ==
  /\ up' = FALSE
  /\ ctl' = [t \in Tasks |-> IF ctl[t] = "idle" THEN "idle" ELSE "done"]
  /\ active' = [t \in Tasks |-> "none"]
  /\ sent' = [t \in Tasks |-> FALSE]
  /\ flag' = [t \in Tasks |-> FALSE]
  /\ worker' = [t \in Tasks |-> "none"]
  /\ result' = [t \in Tasks |-> "none"]
  /\ canceller' = NoTask
  /\ deleting' = {}
  /\ UNCHANGED tables

Crash ==
  /\ up
  /\ crashes < MaxCrashes
  /\ crashes' = crashes + 1
  /\ Die

\* finalizeTask is called outside runTaskThread's try block: nothing catches the
\* exception of a failed write, and std::terminate takes the whole server down.
FinalWriteThrows(t) ==
  /\ worker[t] \in {"dialog", "emit", "ack", "archive"}
  /\ "throwing_write" \in Faults[t]
  /\ crashes < MaxCrashes
  /\ crashes' = crashes + 1
  /\ Die

\* Mutant of Stale: recovery forgets the tasks that were running.
StaleCreated(t) == db[t] = "created"

Stale(t) == db[t] \in Recoverable

HasTerminalEvent(t) == EventTypes(t) \cap TerminalEvents # {}

\* recoverInterruptedTasks, one transaction run before the server accepts requests.
Recover ==
  /\ ~up
  /\ up' = TRUE
  /\ db' = [t \in Tasks |-> IF Stale(t) THEN "interrupted" ELSE db[t]]
  /\ log' = [t \in Tasks |-> IF Stale(t) /\ ~HasTerminalEvent(t)
                             THEN Append(log[t], "recovered") ELSE log[t]]
  /\ UNCHANGED <<crashes, answer, archived, ctl, memory, deleting>>

-----------------------------------------------------------------------------
CreateStep(t) == InsertTask(t) \/ MarkRunning(t) \/ PublishCreated(t) \/ RefuseStart(t) \/ StartTask(t)

FinalizeStep(t) ==
  \/ ClaimVerdict(t) \/ AcknowledgeCancel(t) \/ StoreAnswer(t) \/ PushDialog(t)
  \/ EmitTerminalEvent(t) \/ EmitCancelled(t) \/ Archive(t) \/ Cleanup(t)

CancelStep(t) == CancelBegin(t) \/ CancelPersist(t) \/ CancelPersistFails(t)

DeleteStep(t) == DeleteCheck(t) \/ DeleteCascade(t)

Next ==
  \/ \E t \in Tasks :
       \/ CreateStep(t)
       \/ WorkerPushes(t)
       \/ WorkerReturns(t)
       \/ FinalizeStep(t)
       \/ FinalWriteThrows(t)
       \/ CancelStep(t)
       \/ DeleteStep(t)
  \/ Crash
  \/ Recover

Spec == Init /\ [][Next]_vars

(***************************************************************************)
(* A runnable thread runs on: a handler that has begun, a worker, and the  *)
(* start of the server after a death.  Requests, deaths and the pushes of  *)
(* the agent loop are left to the environment.                             *)
(***************************************************************************)
Fairness ==
  /\ \A t \in Tasks :
       /\ WF_vars(MarkRunning(t) \/ PublishCreated(t) \/ RefuseStart(t))
       /\ WF_vars(StartTask(t))
       /\ WF_vars(WorkerReturns(t))
       /\ WF_vars(FinalizeStep(t))
       /\ WF_vars(CancelPersist(t))
       /\ WF_vars(DeleteCascade(t))
  /\ WF_vars(Recover)

FairSpec == Spec /\ Fairness

-----------------------------------------------------------------------------
(***************************************************************************)
(* Safety.                                                                 *)
(***************************************************************************)

\* A task gets one terminal event at most, whoever wins between the worker's
\* finalizeTask, cancelTask and crash recovery.
SingleTerminalEvent ==
  \A t \in Tasks : \A i, j \in DOMAIN log[t] :
    log[t][i] \in TerminalEvents /\ log[t][j] \in TerminalEvents => i = j

\* A terminal event is in the log only after the verdict it names is durable in
\* the task's row (or after the row was deleted): never before, never another one.
EventMatchesVerdict ==
  \A t \in Tasks : \A e \in EventTypes(t) \cap TerminalEvents :
    db[t] = "absent" \/ (db[t] \in Terminal /\ EventOf(db[t]) = e)

\* finalizeTask sends the terminal event only after the worker has stopped, so no
\* business event has a higher sequence number.
NothingAfterTerminalEvent ==
  \A t \in Tasks : \A i \in DOMAIN log[t] :
    log[t][i] \in TerminalEvents => i = Len(log[t])

\* A durable verdict is never replaced: not by a late worker, not by a second
\* cancel, not by the create handler, not by recovery.
VerdictIsFinal ==
  [][\A t \in Tasks : db[t] \in Terminal => db'[t] \in {db[t], "absent"}]_vars

\* The final message and the archived result belong to the verdict that won.  A
\* task that lost to crash recovery has neither.
AnswerMatchesVerdict ==
  \A t \in Tasks :
    /\ answer[t] = "result" => db[t] \in {"completed", "absent"}
    /\ answer[t] = "error"  => db[t] \in {"failed", "cancelled", "absent"}
    /\ archived[t] => db[t] \in Verdicts \cup {"absent"}

\* A worker that still runs although its task is decided was cancelled, and its
\* flag is up: no rollback or restart of the flag may lose the request.
CancelledWorkerIsTold ==
  \A t \in Tasks :
    worker[t] = "running" /\ db[t] \in Terminal => db[t] = "cancelled" /\ flag[t]

\* When no write for a task fails, its row says "running" only while a create handler
\* or a worker of this process is still going to change it.
RunningRowHasOwner ==
  \A t \in Tasks : Faults[t] = {} /\ up /\ db[t] = "running" =>
    ctl[t] \in {"inserted", "marked", "published"} \/ worker[t] # "none"

\* Whatever fails and whoever comes first, the row, the event log, the answer, the
\* flag and the threads tell one story about a task.
VerdictsAgree ==
  /\ EventMatchesVerdict
  /\ NothingAfterTerminalEvent
  /\ AnswerMatchesVerdict
  /\ CancelledWorkerIsTold
  /\ RunningRowHasOwner

-----------------------------------------------------------------------------
(***************************************************************************)
(* The inductive invariant behind the safety properties.                   *)
(***************************************************************************)
Deciding  == {"running", "finalize"}
Telling   == {"message", "dialog", "emit", "archive"}
Undecided == Recoverable \cup {"absent"}
Creating  == {"inserted", "marked", "published"}

\* Who may decide the task: the table entry, the flag and the row agree on it.
OwnershipInv(t) ==
  /\ active[t] = "none" <=> worker[t] = "none"
  /\ worker[t] \in Deciding => active[t] \in {"running", "cancelled"} /\ ~sent[t]
  /\ worker[t] \in Deciding /\ active[t] = "running" => db[t] \in Undecided
  /\ worker[t] \in Deciding /\ active[t] = "cancelled" =>
       flag[t] /\ (canceller = t \/ db[t] \in {"cancelled", "absent"})
  /\ canceller = t =>
       worker[t] \in Deciding /\ active[t] = "cancelled" /\ db[t] \in Undecided
  /\ worker[t] \in {"finalize"} \cup Telling => result[t] \in Verdicts
  /\ worker[t] \in Telling => active[t] = result[t] /\ db[t] \in {result[t], "absent"}
  /\ worker[t] = "ack" => active[t] = "cancelled" /\ db[t] \in {"cancelled", "absent"}
  /\ worker[t] = "cleanup" => active[t] \in Verdicts

\* Only one of the create handler, the worker and a stopped server is there.
PhaseInv(t) ==
  /\ ctl[t] = "idle" =>
       db[t] = "absent" /\ log[t] = << >> /\ answer[t] = "none" /\ ~archived[t] /\ t \notin deleting
  /\ ctl[t] \in Creating => up /\ db[t] \in Undecided
  /\ ctl[t] # "done" => worker[t] = "none"
  /\ ~up => worker[t] = "none" /\ t \notin deleting

Untold(t) == \A i \in DOMAIN log[t] : log[t][i] \notin TerminalEvents

\* As long as somebody may still push an event, no terminal event is in the log.
UntoldInv(t) ==
  \/ ctl[t] \in Creating
  \/ worker[t] \in Deciding \cup {"message", "dialog", "emit", "ack"}
  \/ db[t] \in Recoverable
  => Untold(t)

IndInv ==
  /\ TypeOK
  /\ \A t \in Tasks : OwnershipInv(t) /\ PhaseInv(t) /\ UntoldInv(t)
  /\ EventMatchesVerdict
  /\ NothingAfterTerminalEvent
  /\ AnswerMatchesVerdict

-----------------------------------------------------------------------------
(***************************************************************************)
(* The abstract specification the life cycle implements.                   *)
(***************************************************************************)
VerdictOf(t) == CASE db[t] = "absent" /\ ctl[t] = "idle" -> "none"
                  [] db[t] = "absent" /\ ctl[t] # "idle" -> "removed"
                  [] db[t] \in Recoverable -> "open"
                  [] OTHER -> db[t]

Outcome == INSTANCE TaskOutcome WITH
  verdict   <- [t \in Tasks |-> VerdictOf(t)],
  announced <- [t \in Tasks |-> {v \in Terminal : EventOf(v) \in EventTypes(t)}]

\* Every step of the threads, of the database and of recovery is a step of
\* TaskOutcome or changes nothing the owner of a task can learn from its row and
\* its terminal events: one decision, then one announcement of that decision.
ImplementsOutcome == Outcome!Spec

-----------------------------------------------------------------------------
(***************************************************************************)
(* Liveness, under FairSpec.                                               *)
(***************************************************************************)

\* mutex_ is not fair: whoever repeats a cancel that cannot be written keeps it busy.
CancelsEnd == <>[](canceller = NoTask)

Unharmed == {t \in Tasks : Faults[t] = {}}

\* Every created task whose writes succeed is decided or deleted in the end, by its
\* worker, by a cancel or by recovery after a death, whatever fails for the others.
EveryTaskIsDecided ==
  CancelsEnd => \A t \in Unharmed : db[t] \in Recoverable ~> db[t] \notin Recoverable

\* An accepted cancel is announced once the worker stops, unless the process dies
\* or the task is deleted first.
CancelIsAnnounced ==
  CancelsEnd =>
    \A t \in Unharmed :
      active[t] = "cancelled" /\ db[t] = "cancelled"
        ~> ~up \/ db[t] = "absent" \/ "task_cancelled" \in EventTypes(t)

\* A task comes to its end: it is decided, and a cancel that was accepted is announced.
TasksEnd == EveryTaskIsDecided /\ CancelIsAnnounced
=============================================================================
