----------------------------- MODULE Terminals -----------------------------
(***************************************************************************)
(* The two terminal clients: the stand-alone CLI and the console inside    *)
(* the server process.  Each remembers an active global, workspace and     *)
(* session, turns a typed line into one or two HTTP requests, and follows  *)
(* the task it created with a listener thread.  Its answers may be lost,   *)
(* other clients change the same rows meanwhile, and the console must stop *)
(* together with the server that runs it.                                  *)
(***************************************************************************)
EXTENDS Integers, Sequences, FiniteSets

CONSTANTS
  Workspaces, Globals,   \* ids a row may get, positive numbers
  DefaultWorkspace,      \* the console's "ws_default", an id no row has
  DefaultGlobal,         \* the row g_default
  Linked,                \* the workspace each global names, or None
  FirstRows,             \* the rows the server starts with
  MaxSessions, MaxTasks, \* bounds on the rows created
  MaxCommands,           \* bound on the lines typed that are a command
  MaxOthers,             \* bound on the requests of other clients
  MaxLost                \* bound on the answers lost

None == 0
Life == {"unborn", "live", "gone"}
TaskStates == {"running", "over", "gone"}
Lists == {"globals", "workspaces", "sessions", "tasks", "active", "history", "permissions"}

ASSUME ConstantsAssumption ==
  /\ Workspaces \subseteq Nat \ {None} /\ Globals \subseteq Nat \ {None}
  /\ DefaultWorkspace \in Nat \ (Workspaces \union {None}) /\ DefaultGlobal \in Globals
  /\ Linked \in [Globals -> Workspaces \union {None}]
  /\ {MaxSessions, MaxTasks, MaxCommands, MaxOthers, MaxLost} \subseteq Nat

ASSUME FirstRowsAssumption ==
  /\ FirstRows \in [ws : [Workspaces -> Life], glob : [Globals -> Life],
                    sess : Seq(Workspaces \union {None}), task : Seq(TaskStates),
                    asks : SUBSET Nat]
  /\ FirstRows.asks \subseteq DOMAIN FirstRows.task

VARIABLES
  kind,       \* which of the two clients this is
  rows,       \* the server's tables
  server,     \* "up", "stopping" after a signal, "down"
  late,       \* a request whose client no longer waits, still to be served
  term,       \* the active ids and the thread that reads lines
  cancel,     \* streamCancelFlag_
  listener,   \* streamThread_
  main,       \* the main thread of the server, which stops the console
  crashed,    \* a thread object was joined twice or overwritten while joinable
  told,       \* ids whose deletion this client was told of
  misread,    \* lists it has shown as empty without an answer
  typed, others, lost

terminalVars == <<kind, rows, server, late, term, cancel, listener, main, crashed, told, misread,
          typed, others, lost>>
thread == <<cancel, listener, main, crashed>>

NoRequest == [op |-> "none", id |-> None, ws |-> None, sess |-> None, glob |-> None]
Call(op, id) == [NoRequest EXCEPT !.op = op, !.id = id]
NoListener == [st |-> "none", task |-> None, at |-> 0, left |-> 0, notices |-> 0, dead |-> FALSE]

------------------------------------------------------------------------------
(* The server: what a handler makes of the rows, and what it answers.      *)

SessionIds == DOMAIN rows.sess
TaskIds == DOMAIN rows.task
LiveWorkspace(w) == w \in Workspaces /\ rows.ws[w] = "live"
LiveSession(s) == s \in SessionIds /\ rows.sess[s] # None
LiveTask(t) == t \in TaskIds /\ rows.task[t] # "gone"

Answer(R, id, ws) == [rows |-> R, ok |-> TRUE, id |-> id, ws |-> ws, empty |-> FALSE, heard |-> TRUE]
Refusal == [rows |-> rows, ok |-> FALSE, id |-> None, ws |-> None, empty |-> FALSE, heard |-> TRUE]
If(c, answer) == IF c THEN answer ELSE Refusal
Unchanged(id, ws) == Answer(rows, id, ws)

GetGlobal(g) == If(g \in Globals /\ rows.glob[g] = "live", Unchanged(g, Linked[g]))
GetWorkspace(w) == If(LiveWorkspace(w), Unchanged(w, None))
GetSession(s) == If(LiveSession(s), Unchanged(s, None))
GetTree(w) == If(LiveWorkspace(w), Unchanged(w, None))

(* A new row takes an id that no row has had.  A deletion leaves the rows  *)
(* that name the deleted one, and of a row already gone it is a success.   *)
Fresh(f) == CHOOSE i \in DOMAIN f : f[i] = "unborn"
CreateWorkspace ==
  If(\E w \in Workspaces : rows.ws[w] = "unborn",
     LET w == Fresh(rows.ws) IN Answer([rows EXCEPT !.ws[w] = "live"], w, w))
UpdateWorkspace(w) == If(LiveWorkspace(w), Unchanged(w, None))
DeleteWorkspace(w) == Answer([rows EXCEPT !.ws[w] = "gone"], w, None)
CreateGlobal ==
  If(\E g \in Globals : rows.glob[g] = "unborn",
     LET g == Fresh(rows.glob) IN Answer([rows EXCEPT !.glob[g] = "live"], g, None))
DeleteGlobal(g) == Answer([rows EXCEPT !.glob[g] = "gone"], g, None)

CreateSession(w) ==
  If(w # None /\ LiveWorkspace(w) /\ Len(rows.sess) < MaxSessions,
     Answer([rows EXCEPT !.sess = Append(@, w)], Len(rows.sess) + 1, w))
UpdateSession(s, w) ==
  If(LiveSession(s), Answer([rows EXCEPT !.sess[s] = IF w = None THEN @ ELSE w], s, w))
DeleteSession(s) == Answer([rows EXCEPT !.sess[s] = None], s, None)

(* A task needs a session of the workspace it names.                       *)
CreateTask(r) ==
  If(/\ LiveWorkspace(r.ws) /\ LiveSession(r.sess) /\ rows.sess[r.sess] = r.ws
     /\ r.glob \in Globals /\ rows.glob[r.glob] = "live" /\ Len(rows.task) < MaxTasks,
     Answer([rows EXCEPT !.task = Append(@, "running")], Len(rows.task) + 1, None))

(* A cancel only asks the chain to end; the answer is the row as it is.    *)
CancelTask(t) == If(LiveTask(t), Unchanged(t, None))
GetTask(t) == If(LiveTask(t), Unchanged(t, None))
DeleteTask(t) ==
  If(LiveTask(t) /\ rows.task[t] # "running",
     Answer([rows EXCEPT !.task[t] = "gone", !.asks = @ \ {t}], t, None))

Resolve(t) == If(t \in rows.asks, Answer([rows EXCEPT !.asks = @ \ {t}], t, None))
ApproveFirst ==
  If(rows.asks # {}, Resolve(CHOOSE t \in rows.asks : \A u \in rows.asks : t <= u))

(* What the list handlers read.                                            *)
ListTasks == {t \in TaskIds : LiveTask(t)}
ListActiveTasks == {t \in TaskIds : rows.task[t] = "running"}
ListEventHistory == ListTasks
ListSessions == {s \in SessionIds : LiveSession(s)}
SessionsOf(w) == {s \in SessionIds : rows.sess[s] = w}
ListGlobals == {g \in Globals : rows.glob[g] = "live"}
ListWorkspaces == {w \in Workspaces : rows.ws[w] = "live"}
ListPermissions == rows.asks

Listed(l) ==
  CASE l = "tasks" -> ListTasks [] l = "active" -> ListActiveTasks
    [] l = "history" -> ListEventHistory [] l = "sessions" -> ListSessions
    [] l = "globals" -> ListGlobals [] l = "workspaces" -> ListWorkspaces
    [] l = "permissions" -> ListPermissions

Serve(r) ==
  CASE r.op \in {"health", "tools", "experts"} -> Unchanged(None, None)
    [] r.op = "list" -> [Unchanged(None, None) EXCEPT !.empty = Listed(r.id) = {}]
    [] r.op = "getGlobal" -> GetGlobal(r.id)
    [] r.op = "createGlobal" -> CreateGlobal
    [] r.op = "deleteGlobal" -> DeleteGlobal(r.id)
    [] r.op = "getWorkspace" -> GetWorkspace(r.id)
    [] r.op = "getTree" -> GetTree(r.id)
    [] r.op = "updateWorkspace" -> UpdateWorkspace(r.id)
    [] r.op = "createWorkspace" -> CreateWorkspace
    [] r.op = "deleteWorkspace" -> DeleteWorkspace(r.id)
    [] r.op = "getSession" -> GetSession(r.id)
    [] r.op = "createSession" -> CreateSession(r.ws)
    [] r.op = "updateSession" -> UpdateSession(r.id, r.ws)
    [] r.op = "deleteSession" -> DeleteSession(r.id)
    [] r.op = "createTask" -> CreateTask(r)
    [] r.op = "getTask" -> GetTask(r.id)
    [] r.op = "cancelTask" -> CancelTask(r.id)
    [] r.op = "deleteTask" -> DeleteTask(r.id)
    [] r.op = "resolve" -> Resolve(r.id)
    [] r.op = "approveFirst" -> ApproveFirst

(* The sessions of a workspace come newest first, in whole seconds: which  *)
(* of them comes first is open.                                            *)
Answers(r) ==
  IF r.op # "sessionsOf" THEN {Serve(r)}
  ELSE IF SessionsOf(r.id) = {} THEN {Unchanged(None, r.id)}
  ELSE {Unchanged(s, r.id) : s \in SessionsOf(r.id)}

(* Other clients, and the chains that run the tasks.                       *)
OtherRequests ==
  {Call("deleteWorkspace", w) : w \in ListWorkspaces}
    \union {Call("deleteSession", s) : s \in ListSessions}
    \union {[Call("updateSession", s) EXCEPT !.ws = w] : s \in ListSessions, w \in ListWorkspaces}
    \union {[Call("createSession", None) EXCEPT !.ws = w] : w \in ListWorkspaces}
    \union {Call("deleteTask", t) : t \in ListTasks}
    \union {Call("resolve", t) : t \in rows.asks}

OtherClient ==
  /\ ~crashed /\ server = "up" /\ others < MaxOthers
  /\ \E r \in OtherRequests : Serve(r).ok /\ rows' = Serve(r).rows
  /\ others' = others + 1
  /\ UNCHANGED <<kind, server, late, term, thread, told, misread, typed, lost>>

ChainStep ==
  /\ ~crashed /\ server # "down"
  /\ \E t \in ListActiveTasks :
       \/ rows' = [rows EXCEPT !.task[t] = "over"]
       \/ t \notin rows.asks /\ rows' = [rows EXCEPT !.asks = @ \union {t}]
  /\ UNCHANGED <<kind, server, late, term, thread, told, misread, typed, others, lost>>

(* A request whose client stopped waiting after 10 seconds is served late; *)
(* one that keeps the rows does nothing then.                              *)
KeepsRows == {"health", "tools", "experts", "list", "sessionsOf", "getGlobal", "getWorkspace",
          "getTree", "getSession", "getTask", "cancelTask", "updateWorkspace"}

ServeLate ==
  /\ ~crashed /\ server = "up" /\ late # NoRequest
  /\ \E a \in Answers(late) : rows' = a.rows
  /\ late' = NoRequest
  /\ UNCHANGED <<kind, server, term, thread, told, misread, typed, others, lost>>

------------------------------------------------------------------------------
(* A request and its answer.  After a time limit the client goes on as if  *)
(* refused, whether or not the server has done or will do what it asked;   *)
(* three lists of the CLI take silence for an empty list.                  *)

WrapError == [Refusal EXCEPT !.heard = FALSE]

Unheard(r) ==
  IF kind = "cli" /\ r.op = "list" /\ r.id \in {"tasks", "active", "history"}
  THEN [WrapError EXCEPT !.ok = TRUE, !.empty = TRUE]
  ELSE WrapError

Outcomes(r) == Answers(r) \union {Unheard(r)}

Replied(a) ==
  /\ server = "up" /\ a.heard
  /\ rows' = a.rows
  /\ UNCHANGED <<late, lost>>

TimesOut(r, a) ==
  /\ ~a.heard
  /\ \/ server # "up" /\ UNCHANGED <<late, lost>>
     \/ /\ server = "up" /\ lost < MaxLost
        /\ lost' = lost + 1
        /\ late' \in IF late = NoRequest /\ r.op \notin KeepsRows THEN {NoRequest, r} ELSE {late}
  /\ UNCHANGED rows

Asks(r, a) ==
  /\ Replied(a) \/ TimesOut(r, a)
  /\ UNCHANGED <<kind, server, thread, others>>

(* The loop: a line is read, its handler runs, and running_ is looked at.  *)
Back(t) == [t EXCEPT !.pc = IF t.running THEN "ready" ELSE "out", !.arg = None]
Types(k) ==
  /\ kind = k /\ ~crashed /\ term.pc = "ready" /\ typed < MaxCommands
  /\ typed' = typed + 1
Goes(t) == term' = Back(t) /\ UNCHANGED <<told, misread>>
Sends(r) == (\E a \in Outcomes(r) : Asks(r, a)) /\ Goes(term)
Learns(a, table, t) ==
  /\ told' = IF a.ok THEN [told EXCEPT ![table] = @ \union {a.id}] ELSE told
  /\ term' = Back(t) /\ UNCHANGED misread

(* Ids a user can know are those of rows that exist or have existed.       *)
SeenWorkspaces == {w \in Workspaces : rows.ws[w] # "unborn"}
SeenGlobals == {g \in Globals : rows.glob[g] # "unborn"}

Look(k, l) ==
  /\ Types(k)
  /\ LET r == Call("list", l) IN
     \E a \in Outcomes(r) :
       /\ Asks(r, a)
       /\ misread' = IF a.ok /\ a.empty /\ ~a.heard THEN misread \union {l} ELSE misread
       /\ term' = Back(term) /\ UNCHANGED told
Show(k, r) == Types(k) /\ Sends(r)

------------------------------------------------------------------------------
(* The CLI.                                                                *)

CliGlobalList == Look("cli", "globals")
CliTaskList == Look("cli", "tasks")
CliTaskHistory == Look("cli", "history")
CliTaskActive == Look("cli", "active")
CliWorkspaceList == Look("cli", "workspaces")
CliSessionList == Look("cli", "sessions")
CliPermList == Look("cli", "permissions")
CliGlobalShow(g) == Show("cli", Call("getGlobal", g))
CliTaskStatus(t) == Show("cli", Call("getTask", t))
CliWorkspaceShow(w) == Show("cli", Call("getWorkspace", w))
CliWorkspaceFiles(w) == Show("cli", Call("getTree", w))
CliTools == Show("cli", Call("tools", None))
CliExpertsList == Show("cli", Call("experts", None))
CliHealth == Show("cli", Call("health", None))
CliLooks ==
  \/ CliTools \/ CliExpertsList \/ CliHealth \/ CliWorkspaceFiles(term.ws) \/ CliGlobalList \/ CliTaskList \/ CliTaskHistory \/ CliTaskActive
  \/ CliWorkspaceList \/ CliSessionList \/ CliPermList
  \/ \E g \in SeenGlobals : CliGlobalShow(g)
  \/ \E t \in TaskIds : CliTaskStatus(t)
  \/ \E w \in SeenWorkspaces : CliWorkspaceShow(w) \/ CliWorkspaceFiles(w)

CliGlobalCreate == Types("cli") /\ Sends(Call("createGlobal", None))

(* A global that names another workspace takes the CLI there, unchecked.   *)
CliGlobalUse(g) ==
  /\ Types("cli")
  /\ LET r == Call("getGlobal", g) IN
     \E a \in Outcomes(r) :
       /\ Asks(r, a)
       /\ Goes(IF ~a.ok THEN term
               ELSE IF a.ws \in {None, term.ws} THEN [term EXCEPT !.glob = g]
               ELSE [term EXCEPT !.glob = g, !.ws = a.ws, !.sess = None])

CliGlobalDelete(g) ==
  /\ Types("cli")
  /\ LET r == Call("deleteGlobal", g) IN
     \E a \in Outcomes(r) :
       /\ Asks(r, a)
       /\ Learns(a, "glob", IF a.ok /\ g = term.glob
                            THEN [term EXCEPT !.glob = DefaultGlobal] ELSE term)

CliWorkspaceCreate == Types("cli") /\ Sends(Call("createWorkspace", None))

CliWorkspaceUse(w) ==
  /\ Types("cli")
  /\ LET r == Call("getWorkspace", w) IN
     \E a \in Outcomes(r) :
       /\ Asks(r, a)
       /\ Goes(IF ~a.ok THEN term
               ELSE [term EXCEPT !.ws = w, !.sess = IF w = term.ws THEN @ ELSE None])

CliLeaves(a, w) ==
  Learns(a, "ws", IF a.ok /\ w = term.ws THEN [term EXCEPT !.ws = None, !.sess = None] ELSE term)

CliWorkspaceDelete(w) ==
  Types("cli") /\ LET r == Call("deleteWorkspace", w) IN
    \E a \in Outcomes(r) : Asks(r, a) /\ CliLeaves(a, w)

(* The request carries a title alone, which the server refuses: the second *)
(* request, which would bind the session, is not reached.                  *)
CliSessionCreate ==
  /\ Types("cli") /\ term.ws # None
  /\ LET r == Call("createSession", None) IN
     \E a \in Outcomes(r) :
       /\ Asks(r, a)
       /\ term' = IF a.ok THEN [term EXCEPT !.pc = "bind", !.arg = a.id] ELSE Back(term)
       /\ UNCHANGED <<told, misread>>

CliSessionUpdate(s, w) ==
  Types("cli") /\ Sends([Call("updateSession", s) EXCEPT !.ws = w])

CliSessionDelete(s) ==
  /\ Types("cli")
  /\ LET r == Call("deleteSession", s) IN
     \E a \in Outcomes(r) :
       /\ Asks(r, a)
       /\ Learns(a, "sess", IF a.ok /\ s = term.sess
                            THEN [term EXCEPT !.sess = None] ELSE term)

CliLacksContext == None \in {term.glob, term.ws, term.sess}
CliTaskCancel(t) == Types("cli") /\ Sends(Call("cancelTask", t))
CliTaskDelete(t) == Types("cli") /\ Sends(Call("deleteTask", t))
CliPermApprove == Types("cli") /\ Sends(Call("approveFirst", None))
CliPermResolve(t) == Types("cli") /\ Sends(Call("resolve", t))

CliCommand ==
  \/ CliLooks \/ CliGlobalCreate \/ CliWorkspaceCreate \/ CliSessionCreate \/ CliPermApprove
  \/ \E g \in SeenGlobals : CliGlobalUse(g) \/ CliGlobalDelete(g)
  \/ \E w \in SeenWorkspaces : CliWorkspaceUse(w) \/ CliWorkspaceDelete(w)
  \/ \E s \in SessionIds : CliSessionDelete(s) \/ \E w \in SeenWorkspaces : CliSessionUpdate(s, w)
  \/ \E t \in TaskIds : CliTaskCancel(t) \/ CliTaskDelete(t) \/ CliPermResolve(t)

(* Without a server the CLI ends at once.                                  *)
CliBoots ==
  /\ kind = "cli" /\ term.pc = "boot"
  /\ LET r == Call("health", None) IN
     \E a \in Outcomes(r) :
       /\ Asks(r, a)
       /\ term' = [term EXCEPT !.pc = IF a.ok THEN "ready" ELSE "out"]
       /\ UNCHANGED <<told, misread>>
  /\ UNCHANGED typed

------------------------------------------------------------------------------
(* The console.                                                            *)

ConsoleTaskList == Look("console", "tasks")
ConsoleTaskHistory == Look("console", "history")
ConsoleTaskActive == Look("console", "active")
ConsoleWorkspaceList == Look("console", "workspaces")
ConsoleSessionList == Look("console", "sessions")
ConsolePermList == Look("console", "permissions")
ConsoleGlobalShow == Show("console", Call("getGlobal", term.glob))
ConsoleTaskStatus(t) == Show("console", Call("getTask", t))
ConsoleWorkspaceShow(w) == Show("console", Call("getWorkspace", w))
ConsoleWorkspaceSessions(w) == Show("console", Call("sessionsOf", w))
ConsoleWorkspaceFiles(w) == Show("console", Call("getTree", w))
ConsoleTools == Show("console", Call("tools", None))
ConsoleExpertsList == Show("console", Call("experts", None))
ConsoleHealth == Show("console", Call("health", None))
ConsoleLooks ==
  \/ ConsoleTools \/ ConsoleExpertsList \/ ConsoleHealth \/ ConsoleWorkspaceFiles(term.ws)
  \/ ConsoleTaskList \/ ConsoleTaskHistory \/ ConsoleTaskActive \/ ConsoleWorkspaceList
  \/ ConsoleSessionList \/ ConsolePermList \/ ConsoleGlobalShow
  \/ \E t \in TaskIds : ConsoleTaskStatus(t)
  \/ \E w \in SeenWorkspaces : ConsoleWorkspaceShow(w) \/ ConsoleWorkspaceSessions(w) \/ ConsoleWorkspaceFiles(w)

ConsoleWorkspaceCreate == Types("console") /\ Sends(Call("createWorkspace", None))

(* Without an id it changes the active workspace, which the rows need not have. *)
ConsoleWorkspaceUpdate(w) == Types("console") /\ Sends(Call("updateWorkspace", w))

(* The workspace is taken at once, then its newest session if it has one;  *)
(* otherwise the session of the former workspace stays active.             *)
ConsoleWorkspaceUse(w) ==
  /\ Types("console")
  /\ LET r == Call("getWorkspace", w) IN
     \E a \in Outcomes(r) :
       /\ Asks(r, a)
       /\ term' = IF a.ok THEN [term EXCEPT !.ws = w, !.pc = "restore"] ELSE Back(term)
       /\ UNCHANGED <<told, misread>>

ConsoleRestores ==
  /\ term.pc = "restore" /\ ~crashed
  /\ LET r == Call("sessionsOf", term.ws) IN
     \E a \in Outcomes(r) :
       /\ Asks(r, a)
       /\ Goes(IF a.ok /\ a.id # None THEN [term EXCEPT !.sess = a.id] ELSE term)
  /\ UNCHANGED typed

ConsoleWorkspaceDelete(w) ==
  /\ Types("console")
  /\ LET r == Call("deleteWorkspace", w) IN
     \E a \in Outcomes(r) :
       /\ Asks(r, a)
       /\ Learns(a, "ws", IF a.ok /\ w = term.ws
                          THEN [term EXCEPT !.ws = DefaultWorkspace] ELSE term)

(* The new session is active before it is bound a second time.             *)
ConsoleSessionCreate ==
  /\ Types("console")
  /\ LET r == [Call("createSession", None) EXCEPT !.ws = IF term.ws = DefaultWorkspace THEN None ELSE term.ws] IN
     \E a \in Outcomes(r) :
       /\ Asks(r, a)
       /\ term' = IF a.ok THEN [term EXCEPT !.sess = a.id, !.pc = "bind", !.arg = a.id]
                  ELSE Back(term)
       /\ UNCHANGED <<told, misread>>

ConsoleSessionUse(s) ==
  /\ Types("console")
  /\ LET r == Call("getSession", s) IN
     \E a \in Outcomes(r) :
       /\ Asks(r, a)
       /\ Goes(IF a.ok THEN [term EXCEPT !.sess = s] ELSE term)

ConsoleSessionUpdate(s, w) ==
  Types("console") /\ Sends([Call("updateSession", s) EXCEPT !.ws = w])

ConsoleKeepsSession(a, s) == Learns(a, "sess", term)

ConsoleLeaves(a, s) ==
  Learns(a, "sess", IF a.ok /\ s = term.sess THEN [term EXCEPT !.sess = None] ELSE term)

ConsoleSessionDelete(s) ==
  Types("console") /\ LET r == Call("deleteSession", s) IN
    \E a \in Outcomes(r) : Asks(r, a) /\ ConsoleLeaves(a, s)

ConsoleTaskCancel(t) == Types("console") /\ Sends(Call("cancelTask", t))
ConsoleTaskDelete(t) == Types("console") /\ Sends(Call("deleteTask", t))
ConsolePermApprove == Types("console") /\ Sends(Call("approveFirst", None))
ConsolePermResolve(t) == Types("console") /\ Sends(Call("resolve", t))

(* A bound session is active in the CLI only now; the console ignores the  *)
(* answer.                                                                 *)
Binds ==
  /\ term.pc = "bind" /\ ~crashed
  /\ LET r == [Call("updateSession", term.arg) EXCEPT !.ws = term.ws] IN
     \E a \in Outcomes(r) :
       /\ Asks(r, a)
       /\ Goes(IF kind = "cli" /\ a.ok /\ a.ws = term.ws
               THEN [term EXCEPT !.sess = term.arg] ELSE term)
  /\ UNCHANGED typed

(* A task that is running when the answer comes gets a listener.           *)
TaskCreate ==
  /\ Types(kind) /\ ~(kind = "cli" /\ CliLacksContext)
  /\ LET r == [Call("createTask", None) EXCEPT !.ws = term.ws, !.sess = term.sess, !.glob = term.glob] IN
     \E a \in Outcomes(r) :
       /\ Asks(r, a)
       /\ term' = IF a.ok THEN [term EXCEPT !.pc = "halt", !.arg = a.id] ELSE Back(term)
       /\ UNCHANGED <<told, misread>>

ConsoleCommand ==
  \/ ConsoleLooks \/ ConsoleWorkspaceCreate \/ ConsoleSessionCreate \/ ConsolePermApprove
  \/ ConsoleWorkspaceUpdate(term.ws)
  \/ \E w \in SeenWorkspaces :
       ConsoleWorkspaceUse(w) \/ ConsoleWorkspaceUpdate(w) \/ ConsoleWorkspaceDelete(w)
  \/ \E s \in SessionIds :
       \/ ConsoleSessionUse(s) \/ ConsoleSessionDelete(s)
       \/ \E w \in SeenWorkspaces : ConsoleSessionUpdate(s, w)
  \/ \E t \in TaskIds : ConsoleTaskCancel(t) \/ ConsoleTaskDelete(t) \/ ConsolePermResolve(t)

(* The console gives up waiting for the server after 15 seconds, but stays. *)
ConsoleBoots ==
  /\ kind = "console" /\ term.pc = "boot"
  /\ Goes(term)
  /\ UNCHANGED <<kind, rows, server, late, thread, typed, others, lost>>

------------------------------------------------------------------------------
(* The listener thread.  A stream brings task_created, the verdict and     *)
(* stream_end, and a ping every 3 seconds while the task runs.  The server *)
(* refuses that of a deleted task; of one deleted after it looked and      *)
(* before it replays the events, it brings pings for ever.                 *)

Gone == rows.task[listener.task] = "gone"
Runs == rows.task[listener.task] = "running"
Held == listener.st = "accepted" \/ (listener.st = "open" /\ (listener.dead \/ Runs))
Available == IF listener.dead THEN 0 ELSE IF Runs THEN 1 ELSE 3

Notice == IF cancel THEN 0 ELSE 1

Ends(n) == listener' = [listener EXCEPT !.st = "ended", !.left = 0, !.notices = @ + n]

(* The console shows the status of a refusal whatever the flag says, the   *)
(* CLI takes the answer for a stream without events.                       *)
Connects ==
  /\ listener.st = "connecting"
  /\ \/ server # "up" /\ Ends(Notice)
     \/ server = "up" /\ Gone /\ Ends(Notice + IF kind = "console" THEN 1 ELSE 0)
     \/ server = "up" /\ ~Gone /\ listener' = [listener EXCEPT !.st = "accepted"]
  /\ UNCHANGED lost

Replays ==
  /\ listener.st = "accepted"
  /\ listener' = [listener EXCEPT !.st = "open", !.dead = Gone]
  /\ UNCHANGED lost

ReceivesAnyway ==
  /\ listener.st = "open" /\ listener.left = 0
  /\ \E n \in 1..(Available - listener.at) : listener' = [listener EXCEPT !.left = n]
  /\ UNCHANGED lost

(* The flag is looked at once for each piece of data, events or a ping.    *)
Receives ==
  /\ listener.st = "open" /\ listener.left = 0
  /\ \/ cancel /\ (Held \/ Available > listener.at) /\ Ends(0)
     \/ ~cancel /\ \E n \in 1..(Available - listener.at) : listener' = [listener EXCEPT !.left = n]
  /\ UNCHANGED lost

onSseEvent ==
  /\ listener.left > 0
  /\ listener' = [listener EXCEPT !.at = @ + 1, !.left = @ - 1,
                                  !.notices = @ + IF kind = "console" /\ listener.at = 2 THEN 1 ELSE 0]
  /\ UNCHANGED lost

(* The console was told by stream_end, the CLI's printer leaves that out.  *)
Closes ==
  /\ listener.st = "open" /\ listener.left = 0 /\ listener.at = 3
  /\ Ends(IF kind = "cli" THEN Notice ELSE 0) /\ UNCHANGED lost
Breaks ==
  /\ listener.st \in {"accepted", "open"} /\ listener.left = 0 /\ lost < MaxLost
  /\ lost' = lost + 1 /\ Ends(Notice)

ListenerGoesOn == Connects \/ Replays \/ Receives \/ onSseEvent \/ Closes
ListenerStep ==
  /\ ~crashed /\ (ListenerGoesOn \/ Breaks)
  /\ UNCHANGED <<kind, rows, server, late, term, cancel, main, crashed, told, misread, typed, others>>

------------------------------------------------------------------------------
(* stopStreamListener sets the flag and joins; startStreamListener does    *)
(* that, clears the flag and starts the thread.  The thread that reads     *)
(* lines runs them, and the main thread when the server has stopped.       *)

HaltKeepingFlag(before, after) ==
  /\ UNCHANGED cancel
  /\ IF listener.st = "none" THEN after ELSE before
  /\ UNCHANGED <<listener, crashed>>

Halt(before, after) ==
  /\ cancel' = TRUE
  /\ IF listener.st = "none" THEN after ELSE before
  /\ UNCHANGED <<listener, crashed>>

(* Joining a thread that another has joined is undefined; the process ends. *)
Join(after, here) ==
  /\ listener.st \in {"ended", "none"}
  /\ IF listener.st = "ended" THEN listener' = NoListener /\ after /\ UNCHANGED crashed
     ELSE crashed' = TRUE /\ here /\ UNCHANGED listener
  /\ UNCHANGED cancel

At(pc) == term' = [term EXCEPT !.pc = pc]
Halted == IF term.arg = None THEN term' = [term EXCEPT !.pc = "out", !.running = FALSE] ELSE At("clear")

Quits ==
  /\ term.pc = "ready" /\ At("halt")
  /\ UNCHANGED <<cancel, listener, crashed>>
stopStreamListener ==
  \/ term.pc = "halt" /\ Halt(At("joining"), Halted)
  \/ term.pc = "joining" /\ Join(Halted, UNCHANGED term)
startStreamListener ==
  \/ /\ term.pc = "clear" /\ cancel' = FALSE /\ At("spawn")
     /\ UNCHANGED <<listener, crashed>>
  \/ /\ term.pc = "spawn"
     /\ crashed' = (listener.st # "none")
     /\ listener' = [NoListener EXCEPT !.st = "connecting", !.task = term.arg]
     /\ term' = Back(term) /\ UNCHANGED cancel
TermStep ==
  /\ ~crashed
  /\ stopStreamListener \/ startStreamListener
  /\ UNCHANGED <<kind, rows, server, late, main, told, misread, typed, others, lost>>
Quit ==
  /\ ~crashed /\ Quits
  /\ UNCHANGED <<kind, rows, server, late, main, told, misread, typed, others, lost>>

(* An empty line, or the end of the input, only looks at running_.         *)
EmptyLine ==
  /\ ~crashed /\ term.pc = "ready" /\ term' = Back(term)
  /\ UNCHANGED <<kind, rows, server, late, thread, told, misread, typed, others, lost>>

Signal ==
  /\ ~crashed /\ server = "up" /\ server' = "stopping"
  /\ UNCHANGED <<kind, rows, late, term, thread, told, misread, typed, others, lost>>

(* run returns when every worker has: a worker that serves a stream stays  *)
(* until the stream ends.                                                  *)
ServerReturns ==
  /\ ~crashed /\ server = "stopping" /\ ~Held
  /\ server' = "down"
  /\ main' = [main EXCEPT !.pc = IF kind = "console" THEN "halt" ELSE "done"]
  /\ UNCHANGED <<kind, rows, late, term, cancel, listener, crashed, told, misread, typed, others, lost>>

MainAt(pc) == main' = [main EXCEPT !.pc = pc]

Stopped(t) == [t EXCEPT !.running = FALSE]

(* stop, and stop again from the destructor.                               *)
stop ==
  /\ ~crashed
  /\ \/ main.pc = "halt" /\ Halt(MainAt("joining"), MainAt("repl")) /\ term' = Stopped(term)
     \/ main.pc = "joining" /\ Join(MainAt("repl"), UNCHANGED main) /\ UNCHANGED term
     \/ /\ main.pc = "repl" /\ term.pc = "out"
        /\ main' = [pc |-> IF main.again THEN "done" ELSE "halt", again |-> TRUE]
        /\ UNCHANGED <<term, cancel, listener, crashed>>
  /\ UNCHANGED <<kind, rows, server, late, told, misread, typed, others, lost>>

------------------------------------------------------------------------------
TerminalInit ==
  /\ kind \in {"cli", "console"}
  /\ rows = FirstRows
  /\ server = "up" /\ late = NoRequest
  /\ term = [pc |-> "boot", glob |-> DefaultGlobal, sess |-> None, arg |-> None, running |-> TRUE,
             ws |-> IF kind = "cli" THEN None ELSE DefaultWorkspace]
  /\ cancel = FALSE /\ listener = NoListener
  /\ main = [pc |-> "serving", again |-> FALSE] /\ crashed = FALSE
  /\ told = [ws |-> {}, sess |-> {}, glob |-> {}] /\ misread = {}
  /\ typed = 0 /\ others = 0 /\ lost = 0

TerminalNext ==
  \/ CliBoots \/ ConsoleBoots \/ CliCommand \/ ConsoleCommand \/ TaskCreate
  \/ ConsoleRestores \/ Binds \/ EmptyLine \/ Quit
  \/ OtherClient \/ ChainStep \/ ServeLate
  \/ ListenerStep \/ TermStep
  \/ Signal \/ ServerReturns \/ stop

TerminalSpec ==
  /\ TerminalInit /\ [][TerminalNext]_terminalVars
  /\ WF_terminalVars(CliBoots \/ ConsoleBoots) /\ WF_terminalVars(ConsoleRestores \/ Binds) /\ WF_terminalVars(EmptyLine)
  /\ WF_terminalVars(TermStep) /\ WF_terminalVars(ListenerGoesOn /\ ListenerStep)
  /\ WF_terminalVars(ServerReturns) /\ WF_terminalVars(stop)

------------------------------------------------------------------------------
TerminalTypeOK ==
  /\ kind \in {"cli", "console"} /\ server \in {"up", "stopping", "down"}
  /\ rows.ws \in [Workspaces -> Life] /\ rows.glob \in [Globals -> Life]
  /\ rows.sess \in Seq(Workspaces \union {None}) /\ rows.task \in Seq(TaskStates)
  /\ rows.asks \subseteq TaskIds
  /\ term \in [pc : {"boot", "ready", "restore", "bind", "halt", "joining", "clear", "spawn", "out"},
               glob : Globals, ws : Workspaces \union {None, DefaultWorkspace},
               sess : SessionIds \union {None}, arg : Nat, running : BOOLEAN]
  /\ listener \in [st : {"none", "connecting", "accepted", "open", "ended"}, task : TaskIds \union {None},
                   at : 0..3, left : 0..3, notices : 0..2, dead : BOOLEAN]
  /\ main \in [pc : {"serving", "halt", "joining", "repl", "done"}, again : BOOLEAN]
  /\ cancel \in BOOLEAN /\ crashed \in BOOLEAN /\ misread \subseteq Lists

(* A client never goes on with a row it was told is deleted: the session   *)
(* in either client, the workspace in either unless a global the CLI       *)
(* switched to names it, the global except the default, which the CLI      *)
(* falls back to unseen.                                                   *)
DeletedIsNotActive ==
  /\ term.sess \notin told.sess
  /\ term.ws \in told.ws => kind = "cli" /\ \E g \in Globals : Linked[g] = term.ws
  /\ term.glob \in told.glob => term.glob = DefaultGlobal

(* No client shows an empty list that the server did not send, but for the *)
(* three lists of tasks of the CLI, which look empty when there is no      *)
(* server.                                                                 *)
EmptyIsAnAnswer == misread \subseteq IF kind = "cli" THEN {"tasks", "active", "history"} ELSE {}

(* However stale the ids of a client are, a task it is told of was created *)
(* in a session that belonged to its workspace, both still there.          *)
StaleIdsAreRefused ==
  [][Len(rows'.task) > Len(rows.task) /\ term.pc = "ready" /\ term'.pc = "halt"
     => LiveWorkspace(term.ws) /\ LiveSession(term.sess) /\ rows.sess[term.sess] = term.ws]_terminalVars

(* The ids and lists a client works with are the server's, or refused.     *)
IdsAreTrue == [](TerminalTypeOK /\ DeletedIsNotActive /\ EmptyIsAnAnswer) /\ StaleIdsAreRefused

(* Once the listener is told to stop, it prints what was left of the piece *)
(* of data it had begun, and nothing else, unless it is the console's and  *)
(* the server refuses it because its task is deleted.                      *)
RefusalIsShown == kind = "console" /\ listener.st = "connecting" /\ Gone
CancelledIsSilent ==
  [][cancel /\ cancel' /\ listener'.task = listener.task
     => /\ listener'.left <= listener.left
        /\ \/ listener'.notices - listener.notices <= listener'.at - listener.at
           \/ RefusalIsShown /\ listener'.notices = 1]_terminalVars

(* A listener that ended by itself has told its user so; the notice comes  *)
(* twice if the connection broke after stream_end or was refused.          *)
EndIsTold == listener.st = "ended" /\ ~cancel => listener.notices >= 1

(* The line reader alone never joins twice nor overwrites a running        *)
(* thread; it takes a shutdown at the same moment.                         *)
CrashNeedsShutdown == crashed => main.pc # "serving"

(* The listener says that it ended, is silent when it was stopped, and is  *)
(* joined by one thread at a time until the server stops.                  *)
ListenerIsTrue == [](EndIsTold /\ CrashNeedsShutdown) /\ CancelledIsSilent

(* /task create and /quit give way in the end, though they wait for the    *)
(* former listener: its next ping wakes it.                                *)
PromptReturns ==
  term.pc \notin {"boot", "ready", "out"} ~> term.pc \in {"ready", "out"} \/ crashed

(* A server told to stop does stop, console and all, once no stream holds  *)
(* a worker: that of a running task does, and that of a task deleted       *)
(* between look and replay for ever.  The reader must be given a line.     *)
ShutdownEnds == <>[]~Held => (server = "stopping" ~> main.pc = "done" \/ crashed)

(* The prompt comes back, and so does the server from its shutdown.        *)
TerminalComesBack == PromptReturns /\ ShutdownEnds
=============================================================================
