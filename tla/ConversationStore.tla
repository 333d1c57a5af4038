-------------------------- MODULE ConversationStore --------------------------
(* Workspaces, sessions, globals, tasks and messages: the rows behind the      *)
(* conversation, the HTTP handlers that write them in several separately       *)
(* locked calls of DataAccessFacade, and the worker that stores the answer and *)
(* archives the result when its task ends.  Every action is one locked call or *)
(* one transaction; whatever runs between two of them may come between.        *)
(* How a task's verdict is decided is TaskLifecycle's matter; here it only     *)
(* ends, or is cancelled.                                                      *)
EXTENDS Integers, Sequences, FiniteSetsExt

CONSTANTS Workspaces, Sessions, Tasks,  \* the ids that may be generated
          Globals, DefaultGlobal,       \* likewise; DefaultGlobal is "g_default"
          NamedGlobals,                 \* those a request may name
          None,
          Stranger,                     \* a workspace id that belongs to no workspace
          Results,                      \* which parts of a result may be non-empty
          MaxUpsets                     \* bound on deletions, moves and cancellations

Parts == <<"summary", "plan", "output">>

ASSUME NamesAssumption ==
  /\ DefaultGlobal \in Globals
  /\ NamedGlobals \subseteq Globals
  /\ {None, Stranger} \cap (Workspaces \cup Sessions \cup Tasks \cup Globals) = {}
  /\ None # Stranger
(* generateId puts the kind of the row into its id. *)
ASSUME IdsAssumption ==
  /\ Workspaces \cap (Sessions \cup Tasks \cup Globals) = {}
  /\ Sessions \cap (Tasks \cup Globals) = {}
  /\ Tasks \cap Globals = {}
ASSUME BoundAssumption == MaxUpsets \in Nat
ASSUME ResultsAssumption == Results \subseteq SUBSET {"summary", "plan", "output"}

VARIABLES
  workspaces,   \* rows of workspaces
  sessions,     \* sessions[s]: workspace_id of the row, None when there is none
  globals,      \* rows of globals
  tasks,        \* tasks[t]: the row, or None
  messages,     \* rows of messages; never deleted
  contexts,     \* rows of global_context; never deleted
  born,         \* the ids generated so far: none is generated twice
  opening,      \* opening[s]: the workspace createSession checked for s, or None
  request,      \* request[t]: where the createTask or continueTask that makes t is
  deleting,     \* the tasks whose deleteTask has passed its check
  active,       \* activeTasks_: "none", "running", "ended" or "cancelled"
  worker,       \* where the task's thread is
  home,         \* home[t]: the global the thread archives under
  result,       \* result[t]: the parts of its result that are not empty
  todo,         \* todo[t]: those still to archive
  defaultId,    \* defaultGlobalId_ of the orchestrator
  upsets        \* deletions, moves and cancellations so far

store  == <<workspaces, sessions, globals, tasks, messages, contexts, born>>
calls  == <<opening, request, deleting>>
memory == <<active, worker, home, result, todo, defaultId>>
vars   == <<store, calls, memory, upsets>>

Idle == [at |-> "idle", ws |-> None, session |-> None, global |-> None, parent |-> None]

Row == [session : Sessions, global : Globals, ws : Workspaces,
        status : {"created", "running", "ended", "cancelled", "interrupted"},
        question : Nat \ {0}, answer : Nat]
ASSUME NoneAssumption == None \notin Row
Message == [session : Sessions, task : Tasks, role : {"user", "assistant"}, no : Nat]
Context == [global : Globals, task : Tasks, part : {"summary", "plan", "output"}]

TypeOK ==
  /\ workspaces \subseteq Workspaces
  /\ sessions \in [Sessions -> Workspaces \cup {Stranger, None}]
  /\ globals \subseteq Globals
  /\ tasks \in [Tasks -> Row \cup {None}]
  /\ messages \subseteq Message
  /\ contexts \subseteq Context
  /\ born \subseteq Workspaces \cup Sessions \cup Globals \cup Tasks
  /\ opening \in [Sessions -> Workspaces \cup {None}]
  /\ request \in [Tasks -> [at : {"idle", "parent", "session", "global", "insert", "mark", "start"},
                            ws : Workspaces \cup {None}, session : Sessions \cup {None},
                            global : Globals \cup {None}, parent : Tasks \cup {None}]]
  /\ deleting \subseteq Tasks
  /\ active \in [Tasks -> {"none", "running", "ended", "cancelled"}]
  /\ worker \in [Tasks -> {"none", "running", "answer", "archive", "cleanup", "done", "lost"}]
  /\ home \in [Tasks -> Globals \cup {None}]
  /\ result \in [Tasks -> SUBSET {"summary", "plan", "output"}]
  /\ todo \in [Tasks -> SUBSET {"summary", "plan", "output"}]
  /\ defaultId \in Globals
  /\ upsets \in 0..MaxUpsets

(* The orchestrator has made sure of a default global: AgentOrchestrator::init. *)
Init ==
  /\ workspaces = {}
  /\ sessions = [s \in Sessions |-> None]
  /\ globals = {DefaultGlobal}
  /\ tasks = [t \in Tasks |-> None]
  /\ messages = {}
  /\ contexts = {}
  /\ born = {DefaultGlobal}
  /\ opening = [s \in Sessions |-> None]
  /\ request = [t \in Tasks |-> Idle]
  /\ deleting = {}
  /\ active = [t \in Tasks |-> "none"]
  /\ worker = [t \in Tasks |-> "none"]
  /\ home = [t \in Tasks |-> None]
  /\ result = [t \in Tasks |-> {}]
  /\ todo = [t \in Tasks |-> {}]
  /\ defaultId = DefaultGlobal
  /\ upsets = 0

Upset == upsets < MaxUpsets /\ upsets' = upsets + 1

-----------------------------------------------------------------------------
(* What the repositories find *)

HasWorkspace(w) == w \in workspaces

HasGlobal(g) == g \in globals

SessionIsIn(s, w) == sessions[s] = w

TasksOf(s) == {t \in Tasks : tasks[t] # None /\ tasks[t].session = s}

ContextOf(g) == {c \in contexts : c.global = g}

-----------------------------------------------------------------------------
(* Workspaces and sessions *)

CreateWorkspace(w) ==
  /\ w \notin born
  /\ workspaces' = workspaces \cup {w}
  /\ born' = born \cup {w}
  /\ UNCHANGED <<sessions, globals, tasks, messages, contexts, calls, memory, upsets>>

(* Nothing is deleted with a workspace: its sessions and tasks stay. *)
DeleteWorkspace(w) ==
  /\ Upset
  /\ workspaces' = workspaces \ {w}
  /\ UNCHANGED <<sessions, globals, tasks, messages, contexts, born, calls, memory>>

(* SessionController::createSession looks the workspace up first ... *)
BeginSession(s, w) ==
  /\ s \notin born /\ opening[s] = None
  /\ HasWorkspace(w)
  /\ opening' = [opening EXCEPT ![s] = w]
  /\ UNCHANGED <<store, request, deleting, memory, upsets>>

SessionAdded(s, w) == sessions' = [sessions EXCEPT ![s] = w] /\ born' = born \cup {s}

(* ... and DataAccessFacade::createSession again, with the lock of the insert. *)
InsertSession(s) ==
  /\ opening[s] # None
  /\ opening' = [opening EXCEPT ![s] = None]
  /\ IF HasWorkspace(opening[s]) THEN SessionAdded(s, opening[s])
     ELSE UNCHANGED <<sessions, born>>
  /\ UNCHANGED <<workspaces, globals, tasks, messages, contexts, request, deleting, memory, upsets>>

SessionMoved(s, w) == sessions' = [sessions EXCEPT ![s] = IF @ = None THEN None ELSE w]

(* PATCH: the workspace_id of the body is stored as it comes. *)
UpdateSession(s, w) ==
  /\ Upset
  /\ SessionMoved(s, w)
  /\ UNCHANGED <<workspaces, globals, tasks, messages, contexts, born, calls, memory>>

SessionRemoved(s) == sessions' = [sessions EXCEPT ![s] = None]

(* The session's tasks and messages stay. *)
DeleteSession(s) ==
  /\ Upset
  /\ SessionRemoved(s)
  /\ UNCHANGED <<workspaces, globals, tasks, messages, contexts, born, calls, memory>>

-----------------------------------------------------------------------------
(* Globals.  global_context references globals(id), and the facade's           *)
(* connection enforces it: a global with context rows cannot be deleted, and a *)
(* context row cannot be written for a global that is gone.                    *)

GlobalAdded(g) == globals' = globals \cup {g}

CreateGlobal(g) ==
  /\ g \notin born
  /\ GlobalAdded(g)
  /\ born' = born \cup {g}
  /\ UNCHANGED <<workspaces, sessions, tasks, messages, contexts, calls, memory, upsets>>

DeleteGlobal(g) ==
  /\ Upset
  /\ ContextOf(g) = {}
  /\ globals' = globals \ {g}
  /\ UNCHANGED <<workspaces, sessions, tasks, messages, contexts, born, calls, memory>>

(* ORDER BY created_at DESC has whole seconds: any of them may come first. *)
NewestGlobals == globals

DefaultChoices == IF NewestGlobals # {} THEN NewestGlobals ELSE {DefaultGlobal}

(* ensureDefaultGlobal: the newest global, or a new "g_default". *)
EnsureDefaultGlobal(g) == g \in DefaultChoices /\ GlobalAdded(g)

-----------------------------------------------------------------------------
(* Messages *)

NoOf(s) == {m.no : m \in {n \in messages : n.session = s}}

(* SELECT COALESCE(MAX(sequence_no), 0) + 1 FROM messages WHERE session_id = ? *)
NextSequenceNo(s) == IF NoOf(s) = {} THEN 1 ELSE Max(NoOf(s)) + 1

NewMessage(s, t, r) == [session |-> s, task |-> t, role |-> r, no |-> NextSequenceNo(s)]

FinalAnswer(t) == {m \in messages : m.task = t /\ m.role = "assistant"}

NthMessage(s, i) ==
  LET rows == {m \in messages : m.session = s}
  IN  CHOOSE m \in rows : /\ Cardinality({n \in rows : n.no < m.no}) < i
                          /\ Cardinality({n \in rows : n.no <= m.no}) >= i

TalkNewestFirst(s) ==
  LET count == Cardinality({m \in messages : m.session = s})
  IN  [i \in 1..count |-> [task |-> NthMessage(s, count + 1 - i).task,
                           role |-> NthMessage(s, count + 1 - i).role]]

(* GET /sessions/{id}/messages: the rows ORDER BY sequence_no. *)
Talk(s) ==
  [i \in 1..Cardinality({m \in messages : m.session = s}) |->
     [task |-> NthMessage(s, i).task, role |-> NthMessage(s, i).role]]

-----------------------------------------------------------------------------
(* createTask and continueTask: a request is named by the task it will make.   *)
(* Every check is a call of its own; only the transaction's are decisive.      *)

At(t, step) == request[t].at = step

Goes(t, step) == request' = [request EXCEPT ![t].at = step]

Refused(t) == request' = [request EXCEPT ![t] = Idle]

BeginCreate(t, w, s, g) ==
  /\ t \notin born /\ At(t, "idle")
  /\ HasWorkspace(w)
  /\ request' = [request EXCEPT ![t] = [at |-> "session", ws |-> w, session |-> s,
                                       global |-> g, parent |-> None]]
  /\ UNCHANGED <<store, opening, deleting, memory, upsets>>

(* continueTask may leave the session and the global to the parent task. *)
BeginContinue(t, w, p) ==
  /\ t \notin born /\ At(t, "idle")
  /\ HasWorkspace(w)
  /\ request' = [request EXCEPT ![t] = [at |-> "parent", ws |-> w, session |-> None,
                                       global |-> None, parent |-> p]]
  /\ UNCHANGED <<store, opening, deleting, memory, upsets>>

ReadParent(t) ==
  /\ At(t, "parent")
  /\ LET p == tasks[request[t].parent]
     IN  IF p = None THEN Refused(t)
         ELSE request' = [request EXCEPT ![t].at = "session", ![t].session = p.session,
                                         ![t].global = p.global]
  /\ UNCHANGED <<store, opening, deleting, memory, upsets>>

(* getSession: 404 without the row, 409 when it is of another workspace. *)
CheckSession(t) ==
  /\ At(t, "session")
  /\ IF SessionIsIn(request[t].session, request[t].ws) THEN Goes(t, "global") ELSE Refused(t)
  /\ UNCHANGED <<store, opening, deleting, memory, upsets>>

(* A global that is named must exist; otherwise ensureDefaultGlobal finds one.  *)
CheckGlobal(t) ==
  /\ At(t, "global")
  /\ \/ /\ request[t].global # None
        /\ IF HasGlobal(request[t].global) THEN Goes(t, "insert") ELSE Refused(t)
        /\ UNCHANGED globals
     \/ /\ request[t].global = None
        /\ \E g \in Globals :
             /\ EnsureDefaultGlobal(g)
             /\ request' = [request EXCEPT ![t].at = "insert", ![t].global = g]
  /\ UNCHANGED <<workspaces, sessions, tasks, messages, contexts, born, opening, deleting, memory, upsets>>

NewTask(r, no) == [session |-> r.session, global |-> r.global, ws |-> r.ws,
                   status |-> "created", question |-> no, answer |-> 0]

(* The row is written by createTaskWithUserMessage, the question with it.      *)
Asked(t) ==
  LET m == NewMessage(request[t].session, t, "user")
  IN  /\ tasks' = [tasks EXCEPT ![t] = NewTask(request[t], m.no)]
      /\ messages' = messages \cup {m}
      /\ born' = born \cup {t}
      /\ Goes(t, "mark")

InsertTaskUnchecked(t) ==
  /\ At(t, "insert")
  /\ Asked(t)
  /\ UNCHANGED <<workspaces, sessions, globals, contexts, opening, deleting, memory, upsets>>

(* BEGIN IMMEDIATE: workspace and session are looked up again; else ROLLBACK.  *)
InsertTask(t) ==
  /\ At(t, "insert")
  /\ IF HasWorkspace(request[t].ws) /\ SessionIsIn(request[t].session, request[t].ws)
     THEN Asked(t)
     ELSE Refused(t) /\ UNCHANGED <<tasks, messages, born>>
  /\ UNCHANGED <<workspaces, sessions, globals, contexts, opening, deleting, memory, upsets>>

(* UPDATE tasks SET status: of a row that is gone it changes nothing.           *)
WithStatus(t, st) == [tasks EXCEPT ![t] = IF @ = None THEN None ELSE [@ EXCEPT !.status = st]]

MarkRunning(t) ==
  /\ At(t, "mark")
  /\ tasks' = WithStatus(t, "running")
  /\ Goes(t, "start")
  /\ UNCHANGED <<workspaces, sessions, globals, messages, contexts, born, opening, deleting, memory, upsets>>

(* resolveGlobalId: a global that is gone by now is replaced by the default. *)
Resolved(g) == IF HasGlobal(g) THEN g ELSE defaultId

StartTask(t) ==
  /\ At(t, "start")
  /\ request' = [request EXCEPT ![t] = Idle]
  /\ home' = [home EXCEPT ![t] = Resolved(request[t].global)]
  /\ active' = [active EXCEPT ![t] = "running"]
  /\ worker' = [worker EXCEPT ![t] = "running"]
  /\ UNCHANGED <<store, opening, deleting, result, todo, defaultId, upsets>>

-----------------------------------------------------------------------------
(* The end of a task: cancelTask and finalizeTask *)

Cancel(t) ==
  /\ Upset
  /\ active[t] = "running"
  /\ active' = [active EXCEPT ![t] = "cancelled"]
  /\ tasks' = WithStatus(t, "cancelled")
  /\ UNCHANGED <<workspaces, sessions, globals, messages, contexts, born, calls,
                 worker, home, result, todo, defaultId>>

(* Only the thread that writes the verdict stores an answer and archives. *)
Claim(t) ==
  /\ worker[t] = "running"
  /\ \/ /\ active[t] = "running"
        /\ active' = [active EXCEPT ![t] = "ended"]
        /\ tasks' = WithStatus(t, "ended")
        /\ worker' = [worker EXCEPT ![t] = "answer"]
        /\ \E parts \in Results : /\ result' = [result EXCEPT ![t] = parts]
                                 /\ todo' = [todo EXCEPT ![t] = parts]
     \/ /\ active[t] = "cancelled"
        /\ worker' = [worker EXCEPT ![t] = "cleanup"]
        /\ UNCHANGED <<tasks, active, result, todo>>
  /\ UNCHANGED <<workspaces, sessions, globals, messages, contexts, born, calls, home, defaultId, upsets>>

StoreAnswerUnlinked(t) ==
  /\ worker[t] = "answer"
  /\ worker' = [worker EXCEPT ![t] = "archive"]
  /\ messages' = IF "output" \in result[t] /\ tasks[t] # None
                 THEN messages \cup {NewMessage(tasks[t].session, t, "assistant")} ELSE messages
  /\ UNCHANGED <<workspaces, sessions, globals, tasks, contexts, born, calls,
                 active, home, result, todo, defaultId, upsets>>

(* createFinalAssistantMessage: an answer already stored is returned, a task   *)
(* that is gone throws (caught: the task just has no answer).                  *)
StoreAnswer(t) ==
  /\ worker[t] = "answer"
  /\ worker' = [worker EXCEPT ![t] = "archive"]
  /\ IF "output" \in result[t] /\ FinalAnswer(t) = {} /\ tasks[t] # None
     THEN LET m == NewMessage(tasks[t].session, t, "assistant")
          IN  /\ messages' = messages \cup {m}
              /\ tasks' = [tasks EXCEPT ![t].answer = m.no]
     ELSE UNCHANGED <<messages, tasks>>
  /\ UNCHANGED <<workspaces, sessions, globals, contexts, born, calls,
                 active, home, result, todo, defaultId, upsets>>

NextPart(t) == Parts[CHOOSE i \in 1..3 : /\ Parts[i] \in todo[t]
                                        /\ \A j \in 1..(i - 1) : Parts[j] \notin todo[t]]

ContextSaved(g, t, p) ==
  HasGlobal(g) /\ contexts' = contexts \cup {[global |-> g, task |-> t, part |-> p]}

(* Three calls of saveGlobalContext, one per part that is not empty. *)
Archive(t) ==
  /\ worker[t] = "archive" /\ todo[t] # {}
  /\ ContextSaved(home[t], t, NextPart(t))
  /\ todo' = [todo EXCEPT ![t] = @ \ {NextPart(t)}]
  /\ UNCHANGED <<workspaces, sessions, globals, tasks, messages, born, calls,
                 active, worker, home, result, defaultId, upsets>>

Cleanup(t) ==
  /\ worker[t] = "cleanup" \/ (worker[t] = "archive" /\ todo[t] = {})
  /\ worker' = [worker EXCEPT ![t] = "done"]
  /\ active' = [active EXCEPT ![t] = "none"]
  /\ UNCHANGED <<store, calls, home, result, todo, defaultId, upsets>>

(* A home that was deleted while the task ran makes the insert throw; nothing   *)
(* catches it on the task's thread, so the process dies.  At the restart the    *)
(* unfinished tasks are marked interrupted and a default global is found.       *)
ArchiveThrows(t) ==
  /\ worker[t] = "archive" /\ todo[t] # {}
  /\ ~HasGlobal(home[t])
  /\ \E g \in Globals : EnsureDefaultGlobal(g) /\ defaultId' = g
  /\ tasks' = [u \in Tasks |-> IF tasks[u] # None /\ tasks[u].status \in {"created", "running"}
                               THEN [tasks[u] EXCEPT !.status = "interrupted"] ELSE tasks[u]]
  /\ worker' = [u \in Tasks |-> IF worker[u] \in {"none", "done"} THEN worker[u] ELSE "lost"]
  /\ active' = [u \in Tasks |-> "none"]
  /\ request' = [u \in Tasks |-> Idle]
  /\ opening' = [s \in Sessions |-> None]
  /\ deleting' = {}
  /\ UNCHANGED <<workspaces, sessions, messages, contexts, born, home, result, todo, upsets>>

-----------------------------------------------------------------------------
(* deleteTask reads the status in one call and deletes in another. *)

BeginDelete(t) ==
  /\ Upset
  /\ tasks[t] # None /\ tasks[t].status # "running"
  /\ deleting' = deleting \cup {t}
  /\ UNCHANGED <<store, opening, request, memory>>

DeleteTask(t) ==
  /\ t \in deleting
  /\ deleting' = deleting \ {t}
  /\ tasks' = [tasks EXCEPT ![t] = None]
  /\ UNCHANGED <<workspaces, sessions, globals, messages, contexts, born, opening, request, memory, upsets>>

-----------------------------------------------------------------------------
StoreStep ==
  \/ \E w \in Workspaces : CreateWorkspace(w) \/ DeleteWorkspace(w)
  \/ \E s \in Sessions, w \in Workspaces : BeginSession(s, w)
  \/ \E s \in Sessions, w \in Workspaces \cup {Stranger} : UpdateSession(s, w)
  \/ \E s \in Sessions : InsertSession(s) \/ DeleteSession(s)
  \/ \E g \in Globals : CreateGlobal(g) \/ DeleteGlobal(g)

RequestStep(t) ==
  \/ \E w \in Workspaces, s \in Sessions, g \in NamedGlobals \cup {None} : BeginCreate(t, w, s, g)
  \/ \E w \in Workspaces, p \in Tasks \ {t} : BeginContinue(t, w, p)
  \/ ReadParent(t) \/ CheckSession(t) \/ CheckGlobal(t)
  \/ InsertTask(t) \/ MarkRunning(t) \/ StartTask(t)
  \/ BeginDelete(t) \/ DeleteTask(t)

WorkerStep(t) ==
  Cancel(t) \/ Claim(t) \/ StoreAnswer(t) \/ Archive(t) \/ ArchiveThrows(t) \/ Cleanup(t)

Next == StoreStep \/ \E t \in Tasks : RequestStep(t) \/ WorkerStep(t)

Spec == Init /\ [][Next]_vars

-----------------------------------------------------------------------------
(* What the readers of a conversation see is the ledger: one growing sequence  *)
(* per session, one question and at most one answer per task, in that order    *)
(* and in that session, whatever is deleted or moved meanwhile.  It is what    *)
(* MAX(sequence_no) + 1 under one lock and the check for an existing answer    *)
(* are for.                                                                    *)
Ledger == INSTANCE ConversationLedger WITH talk <- [s \in Sessions |-> Talk(s)]
LedgerSpec == Ledger!LedgerSpec

(* The message ids kept in a task's row name messages of that task, in its     *)
(* session, the answer after the question, and no answer is without its id.    *)
PointersResolve ==
  \A s \in Sessions : \A t \in TasksOf(s) :
    LET row == tasks[t]
    IN  /\ \E m \in messages : /\ m.task = t /\ m.role = "user"
                               /\ m.session = s /\ m.no = row.question
        /\ \A m \in FinalAnswer(t) : /\ m.session = s /\ m.no = row.answer
                                     /\ m.no > row.question
        /\ row.answer # 0 => FinalAnswer(t) # {}

(* No two messages of a session share a sequence number, and none is missing:  *)
(* the unique index of the table is never hit.                                 *)
Numbered ==
  \A s \in Sessions : NoOf(s) = 1..Cardinality({m \in messages : m.session = s})

(* A task comes into being only in a session that exists, in the workspace of  *)
(* the session, which exists: whatever the earlier checks of createTask and    *)
(* continueTask saw.                                                           *)
TasksAreBornAtHome ==
  [][\A t \in Tasks : tasks[t] = None /\ tasks'[t] # None =>
        /\ tasks'[t].ws \in workspaces
        /\ sessions[tasks'[t].session] = tasks'[t].ws]_vars

(* A session comes into being only in a workspace that exists, although the    *)
(* handler looked it up in an earlier call.                                    *)
SessionsAreBornAtHome ==
  [][\A s \in Sessions : s \notin born /\ s \in born' => sessions'[s] \in workspaces]_vars

(* Nothing is born under something that is gone.                               *)
BornAtHome == TasksAreBornAtHome /\ SessionsAreBornAtHome

(* Every archived part belongs to a global that exists. *)
ContextHasGlobal == \A c \in contexts : c.global \in globals

(* A worker that got to its end has archived every part of its result, under   *)
(* one global, although other requests delete globals between its inserts; a   *)
(* task that was cancelled has archived nothing.                               *)
ArchiveWhole ==
  \A t \in Tasks : worker[t] = "done" =>
    /\ {c.part : c \in {d \in ContextOf(home[t]) : d.task = t}} = result[t]
    /\ \A c \in contexts : c.task = t => c.global = home[t]

(* The rows that name each other agree, whatever was deleted or moved between  *)
(* the calls that wrote them.                                                  *)
RowsAgree == TypeOK /\ Numbered /\ PointersResolve /\ ContextHasGlobal /\ ArchiveWhole
=============================================================================
