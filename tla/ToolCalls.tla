------------------------------ MODULE ToolCalls ------------------------------
(***************************************************************************)
(* A tool call from the model's command to its record: the workspace       *)
(* policy, the risk level with the administrator's overrides, the user's   *)
(* answer (AgentLoop::run, ToolSystem::callToolWithPermission), then       *)
(* ToolSystem::callTool with the call history, the debugger's breakpoints  *)
(* around the tool, and the statistics.  Each task is one worker thread;   *)
(* HTTP threads reload the tool configuration, change the policy, cancel   *)
(* tasks and drive the debugger between any two of its steps.              *)
(*                                                                         *)
(* A tool's own work is one step with either result (WorkspaceRuntimes has *)
(* the locks and the process under it).  What the user answers to a        *)
(* permission request is free here; PermissionGate has the request.        *)
(***************************************************************************)
EXTENDS Integers, FiniteSets, FiniteSetsExt

CONSTANTS
    Tasks,          \* tasks with a running chain, one worker thread each
    Tools,          \* registered tools
    Requests,       \* commands the model may write: a tool and detected risk
    ShellRun,       \* the tool named shell.run
    FileWrites,     \* file.write and file.apply_patch
    Options,        \* per task: autoSafe, askWrites (TaskExecutionOptions)
    Configs,        \* contents config/tools.json may have
    Policies,       \* contents permissions_config may have
    Breakable,      \* breakpoints that are set at times: a tool and a point
    WarnAfter,      \* callTool's 3: the count from which a repeat is suspect
    MaxCalls        \* bound: commands one chain issues

Levels == {"safe", "medium", "dangerous", "blocked"}
Points == {"before", "after"}
Override == [risk : Levels \cup {"none"}, enabled : BOOLEAN]

ASSUME RequestsAssumption ==
    Requests # {} /\ Requests \subseteq [tool : Tools, detected : Levels]
ASSUME OptionsAssumption ==
    Options \in [Tasks -> [autoSafe : BOOLEAN, askWrites : BOOLEAN]]
ASSUME ConfigsAssumption == Configs \subseteq [Tools -> Override]
ASSUME PoliciesAssumption == Policies \subseteq [Tools -> {"ask", "auto", "deny"}]
ASSUME BreakableAssumption == Breakable \subseteq Tools \X Points
ASSUME ShellAssumption == ShellRun \notin FileWrites
ASSUME MaxCallsAssumption == MaxCalls \in Nat /\ WarnAfter \in Nat
ASSUME FiniteAssumption == IsFiniteSet(Tasks) /\ IsFiniteSet(Requests)

VARIABLES
    overrides,      \* ToolSystem::configOverrides_
    armed,          \* Debugger::enabled_
    disarming,      \* an HTTP thread is between the two halves of setEnabled(false)
    session,        \* the DebugSession each task's worker uses, and whether
                    \* sessions_ still leads to it
    pc,             \* where the worker of each task is
    call,           \* the locals of the call it is in
    cancelled,      \* the task's cancel flag
    history,        \* ToolSystem::callHistory_, by tool and arguments
    stats,          \* ToolSystem::stats_
    issued,         \* commands the chain has issued
    \* observers, read by no action
    failedOnce,     \* requests of which some call has failed
    skips           \* calls of each tool ended by a skip

debugVars == <<armed, disarming>>
books == <<history, stats, failedOnce, skips>>
vars == <<overrides, armed, disarming, session, pc, call,
          cancelled, history, stats, issued, failedOnce, skips>>

Labels == {"idle", "policy", "check", "level", "wait", "poll", "begin", "count",
           "break", "session", "reset", "ready", "paused", "run", "finish",
           "return", "denied", "stopped"}

\* Between the history entry and the statistics of one call.
InCall == {"break", "session", "reset", "ready", "paused", "run", "finish"}

\* A session as getOrCreateSession makes it (DebugSession's initialisers).
FreshSession == [mapped |-> TRUE, resolved |-> FALSE, skip |-> FALSE,
                 args |-> "own"]
SessionType == [mapped : BOOLEAN, resolved : BOOLEAN, skip : BOOLEAN,
                args : {"own", "edited"}]

\* route, approved, dup, at, ran and ok are the code's locals; args is what the
\* tool was given.  off, late, skipAsked and editAsked observe the HTTP threads.
CallType == [req : Requests, route : {"ask", "auto"}, approved : BOOLEAN,
             dup : BOOLEAN, at : Points, ran : BOOLEAN, ok : BOOLEAN,
             args : {"own", "edited"},
             off : BOOLEAN, late : BOOLEAN, editAsked : BOOLEAN,
             skipAsked : {"no", "early", "heard"}]
NewCall(r) == [req |-> r, route |-> "ask", approved |-> FALSE, dup |-> FALSE,
               at |-> "before", ran |-> FALSE, ok |-> FALSE, args |-> "own",
               off |-> FALSE, late |-> FALSE, editAsked |-> FALSE,
               skipAsked |-> "no"]
NoCall == NewCall(CHOOSE r \in Requests : TRUE)

Enabled(tool) == overrides[tool].enabled
ToolOf(t) == call[t].req.tool

\* callToolWithPermission: the override replaces the detected level ...
Configured(r) == IF overrides[r.tool].risk = "none"
                 THEN r.detected ELSE overrides[r.tool].risk

\* ... what was detected in a shell command is a floor under it ...
Floored(r, t) ==
    LET level == Configured(r) IN
    CASE r.tool # ShellRun -> level
      [] r.tool = ShellRun /\ r.detected = "blocked" -> "blocked"
      [] r.tool = ShellRun /\ r.detected = "dangerous" ->
            IF level = "blocked" THEN "blocked" ELSE "dangerous"
      [] r.tool = ShellRun /\ r.detected = "safe" ->
            IF level \in {"dangerous", "blocked"} THEN level
            ELSE IF Options[t].autoSafe THEN "safe" ELSE "medium"
      [] OTHER -> level

\* Mutant: the override is applied after the floor.
LevelOverriddenLast(r, t) ==
    IF overrides[r.tool].risk # "none" THEN overrides[r.tool].risk ELSE Floored(r, t)

\* ... and the task's option decides for a file write below dangerous.
Level(r, t) ==
    IF r.tool \in FileWrites /\ Floored(r, t) \notin {"dangerous", "blocked"}
    THEN IF Options[t].askWrites THEN "medium" ELSE "safe"
    ELSE Floored(r, t)

RequiresPermission(level) == level \in {"medium", "dangerous"}

Init ==
    /\ overrides \in Configs
    /\ armed = FALSE /\ disarming = FALSE
    /\ session = [t \in Tasks |-> [FreshSession EXCEPT !.mapped = FALSE]]
    /\ pc = [t \in Tasks |-> "idle"]
    /\ call = [t \in Tasks |-> NoCall]
    /\ cancelled = [t \in Tasks |-> FALSE]
    /\ history = [r \in Requests |-> [count |-> 0, lastSuccess |-> TRUE]]
    /\ stats = [tool \in Tools |-> [calls |-> 0, ok |-> 0, failed |-> 0]]
    /\ issued = [t \in Tasks |-> 0]
    /\ failedOnce = {} /\ skips = [tool \in Tools |-> 0]

----------------------------------------------------------------------------
(* The worker: Goto moves it, Set changes the locals of its call.           *)

Goto(t, label) == pc' = [pc EXCEPT ![t] = label]
Set(t, c) == call' = [call EXCEPT ![t] = c]
SetSession(t, s) == session' = [session EXCEPT ![t] = s]
Ends(t, label) == Goto(t, label) /\ Set(t, NoCall)
KeepWorld == UNCHANGED <<overrides, debugVars, cancelled>>
KeepBooks == UNCHANGED books

\* The next <cmd> of the reply, unless the chain was cancelled.
Command(t) ==
    /\ pc[t] = "idle" /\ issued[t] < MaxCalls
    /\ IF cancelled[t]
       THEN Goto(t, "stopped") /\ UNCHANGED <<call, issued>>
       ELSE \E r \in Requests :
                /\ Goto(t, "policy")
                /\ Set(t, NewCall(r))
                /\ issued' = [issued EXCEPT ![t] = @ + 1]
    /\ KeepWorld /\ KeepBooks /\ UNCHANGED session

\* permissions_config is read from the database, once: any of its contents may
\* be there at that moment, and a later change of it does not reach this call.
ReadPolicy(t) ==
    /\ pc[t] = "policy"
    /\ \E policy \in Policies :
         CASE policy[ToolOf(t)] = "deny" -> Goto(t, "denied") /\ UNCHANGED call
           [] policy[ToolOf(t)] = "auto" ->
                  Goto(t, "poll") /\ Set(t, [call[t] EXCEPT !.route = "auto"])
           [] policy[ToolOf(t)] = "ask" -> Goto(t, "check") /\ UNCHANGED call
    /\ KeepWorld /\ KeepBooks /\ UNCHANGED <<session, issued>>

\* callToolWithPermission refuses a disabled tool before it asks the user.
CheckEnabled(t) ==
    /\ pc[t] = "check"
    /\ IF cancelled[t] THEN Ends(t, "stopped")
       ELSE /\ Goto(t, IF Enabled(ToolOf(t)) THEN "level" ELSE "return")
            /\ UNCHANGED call
    /\ KeepWorld /\ KeepBooks /\ UNCHANGED <<session, issued>>

\* The level is computed under the shared lock and decides who is asked.
Assess(t) ==
    LET level == Level(call[t].req, t) IN
    /\ pc[t] = "level"
    /\ Goto(t, IF level = "blocked" THEN "return"
               ELSE IF RequiresPermission(level) THEN "wait" ELSE "begin")
    /\ KeepWorld /\ KeepBooks /\ UNCHANGED <<session, issued, call>>

\* waitForResolution returns: the user's answer, a timeout or the cancel.
Answered(t) ==
    /\ pc[t] = "wait"
    /\ \E approved \in BOOLEAN :
        /\ cancelled[t] => ~approved
        /\ IF cancelled[t] THEN Ends(t, "stopped")
           ELSE IF approved
           THEN /\ Goto(t, "poll")
                /\ Set(t, [call[t] EXCEPT !.approved = TRUE,
                                        !.off = ~Enabled(ToolOf(t))])
           ELSE Goto(t, "denied") /\ UNCHANGED call
    /\ KeepWorld /\ KeepBooks /\ UNCHANGED <<session, issued>>

\* The last look at the cancel flag before callTool.
Poll(t) ==
    /\ pc[t] = "poll"
    /\ IF cancelled[t] THEN Ends(t, "stopped") ELSE Goto(t, "begin") /\ UNCHANGED call
    /\ KeepWorld /\ KeepBooks /\ UNCHANGED <<session, issued>>

\* callTool refuses a disabled tool again, then announces ToolStarted.
Begin(t) ==
    /\ pc[t] = "begin"
    /\ Goto(t, IF Enabled(ToolOf(t)) THEN "count" ELSE "return")
    /\ KeepWorld /\ KeepBooks /\ UNCHANGED <<session, issued, call>>

\* Mutant: a repeat is suspect whatever became of the calls before it.
CountAnyRepeat(t) ==
    LET r == call[t].req
        n == history[r].count + 1 IN
    /\ pc[t] = "count"
    /\ history' = [history EXCEPT ![r] = [history[r] EXCEPT !.count = n]]
    /\ Set(t, [call[t] EXCEPT !.dup = n >= WarnAfter])
    /\ Goto(t, "break")
    /\ KeepWorld /\ UNCHANGED <<session, issued, stats, failedOnce, skips>>

\* The call history, under the write lock: shared by all tasks, never reset.
Count(t) ==
    LET r == call[t].req
        n == history[r].count + 1 IN
    /\ pc[t] = "count"
    /\ history' = [history EXCEPT ![r] = [history[r] EXCEPT !.count = n]]
    /\ Set(t, [call[t] EXCEPT !.dup = n >= WarnAfter /\ ~history[r].lastSuccess])
    /\ Goto(t, "break")
    /\ KeepWorld /\ UNCHANGED <<session, issued, stats, failedOnce, skips>>

\* isEnabled and hasBreakpoint, before the tool and again after it: HTTP
\* requests set and remove breakpoints at any time, and this is the one place
\* they are read, so any of Breakable may be set.
Break(t) ==
    /\ pc[t] = "break"
    /\ \/ /\ armed /\ <<ToolOf(t), call[t].at>> \in Breakable
          /\ Goto(t, "session")
       \/ Goto(t, IF call[t].at = "before" THEN "run" ELSE "finish")
    /\ KeepWorld /\ KeepBooks /\ UNCHANGED <<session, issued, call>>

\* getOrCreateSession under the sessions' mutex.
GetSession(t) ==
    /\ pc[t] = "session"
    /\ SetSession(t, IF session[t].mapped THEN session[t] ELSE FreshSession)
    /\ Goto(t, "reset")
    /\ KeepWorld /\ KeepBooks /\ UNCHANGED <<call, issued>>

\* Mutant: the pause keeps the skip of the one before.
PrepareKeepsSkip(t) ==
    /\ pc[t] = "reset"
    /\ IF call[t].at = "before"
       THEN SetSession(t, [session[t] EXCEPT !.args = "own"]) ELSE UNCHANGED session
    /\ Goto(t, "ready")
    /\ KeepWorld /\ KeepBooks /\ UNCHANGED <<call, issued>>

\* The pause is prepared without the session's mutex, field by field: first
\* the context and the skip ...
Prepare(t) ==
    /\ pc[t] = "reset"
    /\ IF call[t].at = "before"
       THEN SetSession(t, [session[t] EXCEPT !.args = "own", !.skip = FALSE])
       ELSE SetSession(t, [session[t] EXCEPT !.skip = FALSE])
    /\ Goto(t, "ready")
    /\ KeepWorld /\ KeepBooks /\ UNCHANGED <<call, issued>>

\* ... then resolved; the breakpoint event is published and the worker waits.
Publish(t) ==
    /\ pc[t] = "ready"
    /\ SetSession(t, [session[t] EXCEPT !.resolved = FALSE])
    /\ Goto(t, "paused")
    /\ KeepWorld /\ KeepBooks /\ UNCHANGED <<call, issued>>

\* The wait ends when resolved.  Before the tool a skip ends the call without
\* it and without its statistics, anything else goes on with the session's
\* arguments; after the tool the result is the tool's or one the user sent
\* with modify_result during the pause (a skip is not looked at there).
Wake(t) ==
    /\ pc[t] = "paused" /\ session[t].resolved
    /\ IF call[t].at = "after"
       THEN /\ Goto(t, "finish")
            /\ \E ok \in BOOLEAN : Set(t, [call[t] EXCEPT !.ok = ok])
            /\ UNCHANGED skips
       ELSE IF session[t].skip
       THEN /\ Goto(t, "return") /\ UNCHANGED call
            /\ skips' = [skips EXCEPT ![ToolOf(t)] = @ + 1]
       ELSE /\ Goto(t, "run")
            /\ Set(t, [call[t] EXCEPT !.args = session[t].args])
            /\ UNCHANGED skips
    /\ KeepWorld /\ UNCHANGED <<session, issued, history, stats, failedOnce>>

\* ToolRegistry::call: refused arguments, an exception and a failure look alike.
Run(t) ==
    /\ pc[t] = "run"
    /\ \E ok \in BOOLEAN :
         Set(t, [call[t] EXCEPT !.ran = TRUE, !.ok = ok, !.at = "after"])
    /\ Goto(t, "break")
    /\ KeepWorld /\ UNCHANGED <<session, issued, books>>

\* History and statistics under the write lock, then ToolFinished.
Finish(t) ==
    LET r == call[t].req
        ok == call[t].ok IN
    /\ pc[t] = "finish"
    /\ history' = [history EXCEPT ![r] = [history[r] EXCEPT !.lastSuccess = ok]]
    /\ stats' = [stats EXCEPT
                    ![r.tool] = [calls  |-> stats[r.tool].calls + 1,
                                 ok     |-> stats[r.tool].ok + IF ok THEN 1 ELSE 0,
                                 failed |-> stats[r.tool].failed + IF ok THEN 0 ELSE 1]]
    /\ failedOnce' = IF ok THEN failedOnce ELSE failedOnce \cup {r}
    /\ Goto(t, "return")
    /\ KeepWorld /\ UNCHANGED <<session, issued, call, skips>>

\* Back in the chain: a cancelled chain ends here, and the result of a tool
\* that ran is dropped; otherwise the result is recorded.
Return(t) ==
    /\ pc[t] \in {"return", "denied"}
    /\ Ends(t, IF pc[t] = "return" /\ cancelled[t] THEN "stopped" ELSE "idle")
    /\ KeepWorld /\ KeepBooks /\ UNCHANGED <<session, issued>>

Worker(t) ==
    \/ Command(t) \/ ReadPolicy(t) \/ CheckEnabled(t) \/ Assess(t)
    \/ Answered(t) \/ Poll(t) \/ Begin(t) \/ Count(t) \/ Break(t)
    \/ GetSession(t) \/ Prepare(t) \/ Publish(t) \/ Wake(t) \/ Run(t)
    \/ Finish(t) \/ Return(t)

----------------------------------------------------------------------------
(* The HTTP threads.                                                        *)

KeepWorkers == UNCHANGED <<pc, cancelled, issued, books>>

Pausing(t) == pc[t] \in {"reset", "ready", "paused"}

\* ToolSystem::reloadConfig replaces all overrides under the write lock.
Reload ==
    /\ overrides' \in Configs
    /\ call' = [t \in Tasks |->
                  [call[t] EXCEPT !.off = @ /\ ~overrides'[ToolOf(t)].enabled]]
    /\ KeepWorkers /\ UNCHANGED <<debugVars, session>>

\* The cancel flag; nothing wakes a worker that is paused by the debugger.
Cancel(t) ==
    /\ ~cancelled[t]
    /\ cancelled' = [cancelled EXCEPT ![t] = TRUE]
    /\ IF pc[t] \in {"policy", "check", "wait", "poll"}
       THEN Set(t, [call[t] EXCEPT !.late = TRUE]) ELSE UNCHANGED call
    /\ UNCHANGED <<overrides, debugVars, session, pc, issued, books>>

Arm ==
    /\ armed' = TRUE
    /\ KeepWorkers /\ UNCHANGED <<overrides, disarming, session, call>>

\* setEnabled(false) stores the flag before it takes the sessions' mutex ...
Disarm ==
    /\ ~disarming
    /\ armed' = FALSE /\ disarming' = TRUE
    /\ KeepWorkers /\ UNCHANGED <<overrides, session, call>>

\* Mutant: the sessions are dropped without waking their workers.
ClearWithoutWaking ==
    /\ disarming
    /\ disarming' = FALSE
    /\ session' = [t \in Tasks |-> [session[t] EXCEPT !.mapped = FALSE]]
    /\ KeepWorkers /\ UNCHANGED <<overrides, armed, call>>

\* ... resolves every session in the map and empties the map.
ClearSessions ==
    /\ disarming
    /\ disarming' = FALSE
    /\ session' = [t \in Tasks |->
                     IF session[t].mapped
                     THEN [session[t] EXCEPT !.resolved = TRUE, !.mapped = FALSE]
                     ELSE session[t]]
    /\ KeepWorkers /\ UNCHANGED <<overrides, armed, call>>

\* Every debugger request but that one is refused with 503 while the debugger is
\* off; a task without a session is left alone.
Reached(t) == armed /\ session[t].mapped

\* doContinue and doStepOver: a pause that is resolved already is left alone.
Continue(t) ==
    /\ Reached(t) /\ ~session[t].resolved
    /\ SetSession(t, [session[t] EXCEPT !.resolved = TRUE])
    /\ KeepWorkers /\ UNCHANGED <<overrides, debugVars, call>>

Skip(t) ==
    /\ Reached(t) /\ ~session[t].resolved
    /\ SetSession(t, [session[t] EXCEPT !.resolved = TRUE, !.skip = TRUE])
    /\ IF Pausing(t) /\ call[t].at = "before"
       THEN Set(t, [call[t] EXCEPT !.skipAsked =
                        IF pc[t] = "paused" THEN "heard" ELSE "early"])
       ELSE UNCHANGED call
    /\ KeepWorkers /\ UNCHANGED <<overrides, debugVars>>

\* The edits are taken at any time, whatever the session is paused at.
ModifyArguments(t) ==
    /\ Reached(t)
    /\ SetSession(t, [session[t] EXCEPT !.args = "edited"])
    /\ IF Pausing(t) THEN Set(t, [call[t] EXCEPT !.editAsked = TRUE]) ELSE UNCHANGED call
    /\ KeepWorkers /\ UNCHANGED <<overrides, debugVars>>

DebugRequest(t) == Continue(t) \/ Skip(t) \/ ModifyArguments(t)

Next ==
    \/ \E t \in Tasks : Worker(t)
    \/ Reload \/ Arm \/ Disarm \/ ClearSessions
    \/ \E t \in Tasks : \/ Cancel(t) \/ DebugRequest(t)

\* The user goes on from every pause shown, an HTTP request that began ends,
\* and a worker thread that can run does (a permission wait times out).
Fairness ==
    /\ \A t \in Tasks : WF_vars(Worker(t)) /\ WF_vars(Continue(t))
    /\ WF_vars(ClearSessions)

Spec == Init /\ [][Next]_vars /\ Fairness

----------------------------------------------------------------------------
(* Properties.                                                              *)

Stats == [calls : Nat, ok : Nat, failed : Nat]

\* The types of the tool system's, the debugger's and the workers' state; a
\* chain that stops in the middle of its commands was cancelled.
TypeOK ==
    /\ overrides \in [Tools -> Override]
    /\ armed \in BOOLEAN /\ disarming \in BOOLEAN
    /\ session \in [Tasks -> SessionType]
    /\ pc \in [Tasks -> Labels]
    /\ call \in [Tasks -> CallType]
    /\ \A t \in Tasks : pc[t] = "stopped" => cancelled[t]
    /\ cancelled \in [Tasks -> BOOLEAN]
    /\ history \in [Requests -> [count : Nat, lastSuccess : BOOLEAN]]
    /\ stats \in [Tools -> Stats]
    /\ issued \in [Tasks -> 0 .. MaxCalls]
    /\ failedOnce \subseteq Requests
    /\ skips \in [Tools -> Nat]

\* Between callTool's check and the end of the call.
Started(t) == pc[t] = "count" \/ pc[t] \in InCall

\* Where the policy asks, no reload at any point of the call, no override and
\* no option lets a shell command detected as dangerous run without the
\* user's yes, or a blocked one run at all; nor a file write of a task that
\* wants to be asked (the "floor" of callToolWithPermission).
FloorHolds ==
    \A t \in Tasks :
        Started(t) /\ call[t].route = "ask" =>
            LET r == call[t].req IN
            /\ r.tool = ShellRun => r.detected # "blocked"
            /\ r.tool = ShellRun /\ r.detected = "dangerous" => call[t].approved
            /\ r.tool \in FileWrites /\ Options[t].askWrites => call[t].approved

\* A tool that was disabled when the user said yes, and has been ever since,
\* is not started by that yes (callTool looks again).
DisabledStaysOut == \A t \in Tasks : Started(t) => ~call[t].off

\* A skip that reached a worker waiting before its tool keeps the tool from
\* running, whatever else is sent in the same pause.
SkipIsFinal ==
    \A t \in Tasks :
        call[t].skipAsked = "heard" => ~call[t].ran

\* A call is skipped only by a skip sent during its own pause, and a tool gets
\* edited arguments only by an edit of its own pause: nothing is left over
\* from an earlier pause of the same session.
SkipWasAsked ==
    [][\A t \in Tasks :
         pc[t] = "paused" /\ pc'[t] = "return" => call[t].skipAsked # "no"]_vars
EditWasAsked ==
    \A t \in Tasks :
        call[t].args = "edited" => call[t].editAsked

\* The duplicate warning is given only for a call that has failed before.
WarnedAfterFailure ==
    \A t \in Tasks :
        pc[t] \in InCall /\ call[t].dup =>
            call[t].req \in failedOnce /\ history[call[t].req].count >= WarnAfter

\* A cancel that came before the chain's last look at the flag keeps the tool
\* from starting, on every way a call can take.
CancelHonoured == \A t \in Tasks : Started(t) => ~call[t].late

\* What the user or the administrator ordered is done, and nothing like it is done
\* unasked: disable, cancel, skip and edit of arguments, however they interleave.
OrdersAreObeyed ==
    /\ [](DisabledStaysOut /\ CancelHonoured /\ SkipIsFinal /\ EditWasAsked)
    /\ SkipWasAsked

\* What a history has counted of some commands; the calls of a tool under way.
Counted(h, S) == MapThenSumSet(LAMBDA r : h[r].count, S)
OfTool(tool) == {r \in Requests : r.tool = tool}
Underway(tool) == {t \in Tasks : pc[t] \in InCall /\ ToolOf(t) = tool}

\* History and statistics describe the same calls: each call counted is in
\* the statistics, was skipped, or is under way.
BooksBalance ==
    \A tool \in Tools :
        /\ stats[tool].calls = stats[tool].ok + stats[tool].failed
        /\ Counted(history, OfTool(tool))
             = stats[tool].calls + skips[tool] + Cardinality(Underway(tool))

\* The records of all tasks' calls agree with each other and with what happened.
BooksAreTrue == TypeOK /\ BooksBalance /\ WarnedAfterFailure

\* A worker that the debugger holds in a session it can still be reached by
\* goes on, by the user's continue or by disabling the debugger.
PauseEnds ==
    \A t \in Tasks :
        armed /\ session[t].mapped /\ pc[t] = "paused" ~> pc[t] # "paused"
=============================================================================
