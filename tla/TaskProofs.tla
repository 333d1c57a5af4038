----------------------------- MODULE TaskProofs -----------------------------
(***************************************************************************)
(* What holds of TaskLifecycle and of Terminals for every set of tasks and *)
(* rows, every set of faults and every bound: their inductive invariants,  *)
(* the safety properties that follow from them, and that TaskLifecycle     *)
(* implements TaskOutcome.                                                 *)
(*                                                                         *)
(* The invariant of TaskLifecycle speaks about one task at a time, and an  *)
(* action touches one task: `Untouched' lets a proof forget the others.    *)
(* That of Terminals has two parts.  The threads: who may join the         *)
(* listener, and what it still has to say.  The client: what it remembers  *)
(* are ids of rows, none of them one it was told is deleted, and what it   *)
(* was told of stays deleted, since `Later' rows never take an id back.    *)
(***************************************************************************)
EXTENDS TaskLifecycle, Terminals, TLAPS

-----------------------------------------------------------------------------
\* The parts of IndInv that concern task t.
MatchInv(t) ==
  \A i \in DOMAIN log[t] : log[t][i] \in TerminalEvents =>
    db[t] = "absent" \/ (db[t] \in Terminal /\ EventOf(db[t]) = log[t][i])

LastInv(t) ==
  \A i \in DOMAIN log[t] : log[t][i] \in TerminalEvents => i = Len(log[t])

AnswerInv(t) ==
  /\ answer[t] = "result" => db[t] \in {"completed", "absent"}
  /\ answer[t] = "error"  => db[t] \in {"failed", "cancelled", "absent"}
  /\ archived[t] => db[t] \in Verdicts \cup {"absent"}

TaskInv(t) ==
  /\ OwnershipInv(t) /\ PhaseInv(t) /\ UntoldInv(t)
  /\ MatchInv(t) /\ LastInv(t) /\ AnswerInv(t)

\* The inductive invariant is a statement about each task.
LEMMA IndInvByTask == IndInv <=> TypeOK /\ \A t \in Tasks : TaskInv(t)
BY DEF IndInv, TaskInv, MatchInv, LastInv, AnswerInv, EventMatchesVerdict, EventTypes,
       NothingAfterTerminalEvent, AnswerMatchesVerdict

\* The same after a step.
LEMMA IndInvByTaskNext == IndInv' <=> TypeOK' /\ \A t \in Tasks : TaskInv(t)'
BY DEF IndInv, TaskInv, MatchInv, LastInv, AnswerInv, EventMatchesVerdict, EventTypes,
       NothingAfterTerminalEvent, AnswerMatchesVerdict

\* What the log of a task looks like after one more event was pushed.
LEMMA PushFacts ==
  ASSUME NEW S, NEW s \in Seq(S), NEW e \in S
  PROVE  /\ Append(s, e) \in Seq(S)
         /\ Len(Append(s, e)) = Len(s) + 1
         /\ DOMAIN Append(s, e) = 1 .. Len(s) + 1
         /\ DOMAIN s = 1 .. Len(s)
         /\ Len(s) \in Nat
         /\ \A i \in 1 .. Len(s) : Append(s, e)[i] = s[i]
         /\ Append(s, e)[Len(s) + 1] = e
OBVIOUS

\* Nothing about task u changes.
Untouched(u) ==
  /\ up' = up
  /\ db'[u] = db[u] /\ log'[u] = log[u] /\ answer'[u] = answer[u] /\ archived'[u] = archived[u]
  /\ ctl'[u] = ctl[u] /\ active'[u] = active[u] /\ sent'[u] = sent[u] /\ flag'[u] = flag[u]
  /\ worker'[u] = worker[u] /\ result'[u] = result[u]
  /\ canceller' = u <=> canceller = u
  /\ u \in deleting' <=> u \in deleting

\* A task nobody touches keeps its part of the invariant.
LEMMA UntouchedKeepsInv ==
  ASSUME NEW u \in Tasks, TaskInv(u), Untouched(u)
  PROVE  TaskInv(u)'
BY DEF Untouched, TaskInv, OwnershipInv, PhaseInv, UntoldInv, Untold, MatchInv, LastInv, AnswerInv

-----------------------------------------------------------------------------
\* The empty database and the empty task table satisfy the invariant.
LEMMA InitInv == Init => IndInv
<1> SUFFICES ASSUME Init PROVE TypeOK /\ \A t \in Tasks : TaskInv(t)
  BY IndInvByTask
<1>1. TypeOK
  BY BoundAssumption DEF Init, TypeOK, CtlSteps, WorkerSteps
<1>2. ASSUME NEW t \in Tasks PROVE TaskInv(t)
  BY TaskAssumption DEF Init, TaskInv, OwnershipInv, PhaseInv, UntoldInv, Untold, MatchInv,
     LastInv, AnswerInv,
     Deciding, Telling, Creating, Recoverable
<1> QED BY <1>1, <1>2

-----------------------------------------------------------------------------
\* What a step of task t must leave behind.
StepInv(t) == TypeOK' /\ TaskInv(t)' /\ \A u \in Tasks \ {t} : Untouched(u)

\* A log without a terminal event matches every verdict.
LEMMA UntoldIsFine ==
  ASSUME NEW t \in Tasks, Untold(t)
  PROVE  UntoldInv(t) /\ MatchInv(t) /\ LastInv(t)
BY DEF Untold, UntoldInv, MatchInv, LastInv

\* Pushing a business event to a task that is not announced.
LEMMA PushData ==
  ASSUME TypeOK, NEW t \in Tasks, Untold(t),
         NEW e \in Events \ TerminalEvents, log' = Pushed(t, e)
  PROVE  /\ log' \in [Tasks -> Seq(Events)]
         /\ Untold(t)'
         /\ \A u \in Tasks \ {t} : log'[u] = log[u]
<1>1. log[t] \in Seq(Events) /\ log'[t] = Append(log[t], e)
  BY DEF TypeOK, Pushed
<1>2. log' \in [Tasks -> Seq(Events)] /\ \A u \in Tasks \ {t} : log'[u] = log[u]
  BY <1>1, PushFacts DEF TypeOK, Pushed
<1>3. Untold(t)'
  BY <1>1, PushFacts DEF Untold
<1> QED BY <1>2, <1>3

\* Announcing a task that is not announced.
LEMMA PushVerdict ==
  ASSUME TypeOK, NEW t \in Tasks, Untold(t),
         NEW e \in TerminalEvents, log' = Pushed(t, e),
         db'[t] = "absent" \/ (db'[t] \in Terminal /\ EventOf(db'[t]) = e)
  PROVE  /\ log' \in [Tasks -> Seq(Events)]
         /\ MatchInv(t)' /\ LastInv(t)'
         /\ \A u \in Tasks \ {t} : log'[u] = log[u]
<1>1. e \in Events /\ log[t] \in Seq(Events) /\ log'[t] = Append(log[t], e)
  BY DEF TypeOK, Pushed, Events
<1>2. log' \in [Tasks -> Seq(Events)] /\ \A u \in Tasks \ {t} : log'[u] = log[u]
  BY <1>1, PushFacts DEF TypeOK, Pushed
<1>3. \A i \in DOMAIN log'[t] : log'[t][i] \in TerminalEvents => i = Len(log'[t]) /\ log'[t][i] = e
  BY <1>1, PushFacts DEF Untold
<1>4. MatchInv(t)' /\ LastInv(t)'
  BY <1>3 DEF MatchInv, LastInv
<1> QED BY <1>2, <1>4

\* The create handler keeps the invariant of its task and leaves the others alone.
LEMMA CreateKeepsInv ==
  ASSUME TypeOK, NEW t \in Tasks, TaskInv(t), CreateStep(t)
  PROVE  StepInv(t)
<1> USE DEF Verdicts, Terminal, Recoverable, tables, memory, Updated, MutexFree
<1>1. CASE InsertTask(t)
  <2>2. TypeOK'
    BY <1>1 DEF TypeOK, InsertTask, CtlSteps
  <2>3. \A u \in Tasks \ {t} : Untouched(u)
    BY <1>1, TaskAssumption DEF TypeOK, InsertTask, Untouched
  <2>4. TaskInv(t)'
    BY <1>1, TaskAssumption DEF TypeOK, InsertTask, TaskInv, OwnershipInv, PhaseInv,
       UntoldInv, Untold, MatchInv, LastInv, AnswerInv, Deciding, Telling, Undecided,
       Creating
  <2> QED BY <2>2, <2>3, <2>4 DEF StepInv
<1>2. CASE MarkRunning(t)
  <2>2. TypeOK'
    BY <1>2 DEF TypeOK, MarkRunning, CtlSteps
  <2>3. \A u \in Tasks \ {t} : Untouched(u)
    BY <1>2, TaskAssumption DEF TypeOK, MarkRunning, Untouched
  <2>4. TaskInv(t)'
    BY <1>2, TaskAssumption DEF TypeOK, MarkRunning, TaskInv, OwnershipInv, PhaseInv,
       UntoldInv, Untold, MatchInv, LastInv, AnswerInv, Deciding, Telling, Undecided,
       Creating
  <2> QED BY <2>2, <2>3, <2>4 DEF StepInv
<1>3. CASE PublishCreated(t)
  <2>8. Untold(t)
    BY <1>3 DEF PublishCreated, TaskInv, UntoldInv, Deciding, Creating
  <2>9. log' \in [Tasks -> Seq(Events)] /\ Untold(t)' /\ \A u \in Tasks \ {t} : log'[u] = log[u]
    <3>1. CASE \E e \in Events \ TerminalEvents : log' = Pushed(t, e)
      BY <2>8, <3>1, PushData
    <3>2. CASE UNCHANGED log
      BY <2>8, <3>2 DEF TypeOK, Untold
    <3> QED BY <1>3, <3>1, <3>2 DEF PublishCreated, Events, TerminalEvents
  <2>2. TypeOK'
    BY <1>3, <2>9 DEF TypeOK, PublishCreated, CtlSteps
  <2>3. \A u \in Tasks \ {t} : Untouched(u)
    BY <1>3, <2>9, TaskAssumption DEF TypeOK, PublishCreated, Untouched
  <2>4. OwnershipInv(t)'
    BY <1>3, <2>9, TaskAssumption DEF TypeOK, PublishCreated, TaskInv, OwnershipInv,
       PhaseInv, Deciding, Telling, Undecided, Creating, WorkerSteps
  <2>5. PhaseInv(t)' /\ AnswerInv(t)'
    BY <1>3, <2>9 DEF TypeOK, PublishCreated, TaskInv, OwnershipInv, PhaseInv, AnswerInv,
       Deciding, Telling, Undecided, Creating
  <2>6. UntoldInv(t)' /\ MatchInv(t)' /\ LastInv(t)'
    BY <1>3, <2>9 DEF TypeOK, PublishCreated, TaskInv, OwnershipInv, PhaseInv, UntoldInv,
       Untold, MatchInv, LastInv, Deciding, Telling, Undecided, Creating
  <2> QED BY <2>2, <2>3, <2>4, <2>5, <2>6 DEF StepInv, TaskInv
<1>4. CASE RefuseStart(t)
  <2>2. TypeOK'
    BY <1>4 DEF TypeOK, RefuseStart, CtlSteps
  <2>3. \A u \in Tasks \ {t} : Untouched(u)
    BY <1>4, TaskAssumption DEF TypeOK, RefuseStart, Untouched
  <2>4. TaskInv(t)'
    BY <1>4, TaskAssumption DEF TypeOK, RefuseStart, TaskInv, OwnershipInv, PhaseInv,
       UntoldInv, Untold, MatchInv, LastInv, AnswerInv, Deciding, Telling, Undecided,
       Creating
  <2> QED BY <2>2, <2>3, <2>4 DEF StepInv
<1>5. CASE StartTask(t)
  <2>2. TypeOK'
    BY <1>5 DEF TypeOK, StartTask, CtlSteps, WorkerSteps
  <2>3. \A u \in Tasks \ {t} : Untouched(u)
    BY <1>5, TaskAssumption DEF TypeOK, StartTask, Untouched
  <2>4. TaskInv(t)'
    BY <1>5, TaskAssumption DEF TypeOK, StartTask, TaskInv, OwnershipInv, PhaseInv,
       UntoldInv, Untold, MatchInv, LastInv, AnswerInv, Deciding, Telling, Undecided,
       Creating
  <2> QED BY <2>2, <2>3, <2>4 DEF StepInv
<1> QED BY <1>1, <1>2, <1>3, <1>4, <1>5 DEF CreateStep

\* So does the worker while the agent loop runs.
LEMMA RunKeepsInv ==
  ASSUME TypeOK, NEW t \in Tasks, TaskInv(t), WorkerPushes(t) \/ WorkerReturns(t)
  PROVE  StepInv(t)
<1> USE DEF Verdicts, Terminal, Recoverable, tables, memory, Updated, MutexFree
<1>1. CASE WorkerPushes(t)
  <2>8. Untold(t)
    BY <1>1 DEF WorkerPushes, TaskInv, UntoldInv, Deciding, Creating
  <2>9. log' \in [Tasks -> Seq(Events)] /\ Untold(t)' /\ \A u \in Tasks \ {t} : log'[u] = log[u]
    <3>1. CASE \E e \in Events \ TerminalEvents : log' = Pushed(t, e)
      BY <2>8, <3>1, PushData
    <3>2. CASE UNCHANGED log
      BY <2>8, <3>2 DEF TypeOK, Untold
    <3> QED BY <1>1, <3>1, <3>2 DEF WorkerPushes, Events, TerminalEvents
  <2>2. TypeOK'
    BY <1>1, <2>9 DEF TypeOK, WorkerPushes, WorkerSteps
  <2>3. \A u \in Tasks \ {t} : Untouched(u)
    BY <1>1, <2>9, TaskAssumption DEF TypeOK, WorkerPushes, Untouched
  <2>4. OwnershipInv(t)'
    BY <1>1, <2>9, TaskAssumption DEF TypeOK, WorkerPushes, TaskInv, OwnershipInv, PhaseInv,
       Deciding, Telling, Undecided, Creating, WorkerSteps
  <2>5. PhaseInv(t)' /\ AnswerInv(t)'
    BY <1>1, <2>9 DEF TypeOK, WorkerPushes, TaskInv, OwnershipInv, PhaseInv, AnswerInv,
       Deciding, Telling, Undecided, Creating
  <2>6. UntoldInv(t)' /\ MatchInv(t)' /\ LastInv(t)'
    BY <1>1, <2>9 DEF TypeOK, WorkerPushes, TaskInv, OwnershipInv, PhaseInv, UntoldInv,
       Untold, MatchInv, LastInv, Deciding, Telling, Undecided, Creating
  <2> QED BY <2>2, <2>3, <2>4, <2>5, <2>6 DEF StepInv, TaskInv
<1>2. CASE WorkerReturns(t)
  <2>2. TypeOK'
    BY <1>2 DEF TypeOK, WorkerReturns, WorkerSteps
  <2>3. \A u \in Tasks \ {t} : Untouched(u)
    BY <1>2, TaskAssumption DEF TypeOK, WorkerReturns, Untouched
  <2>4. TaskInv(t)'
    BY <1>2, TaskAssumption DEF TypeOK, WorkerReturns, TaskInv, OwnershipInv, PhaseInv,
       UntoldInv, Untold, MatchInv, LastInv, AnswerInv, Deciding, Telling, Undecided,
       Creating
  <2> QED BY <2>2, <2>3, <2>4 DEF StepInv
<1> QED BY <1>1, <1>2

\* So does finalizeTask, which claims the verdict and announces it.
LEMMA FinalizeKeepsInv ==
  ASSUME TypeOK, NEW t \in Tasks, TaskInv(t), FinalizeStep(t)
  PROVE  StepInv(t)
<1> USE DEF Verdicts, Terminal, Recoverable, tables, memory, Updated, MutexFree
<1>1. CASE ClaimVerdict(t)
  <2>1. result[t] \in Verdicts
    BY <1>1 DEF ClaimVerdict, TaskInv, OwnershipInv
  <2>2. TypeOK'
    <3>1. db' \in [Tasks -> Terminal \cup Recoverable \cup {"absent"}]
      BY <1>1, <2>1 DEF TypeOK, ClaimVerdict
    <3>2. active' \in [Tasks -> Verdicts \cup {"none", "running"}]
      BY <1>1, <2>1 DEF TypeOK, ClaimVerdict
    <3> QED BY <1>1, <3>1, <3>2 DEF TypeOK, ClaimVerdict, WorkerSteps
  <2>3. \A u \in Tasks \ {t} : Untouched(u)
    BY <1>1, TaskAssumption DEF TypeOK, ClaimVerdict, Untouched
  <2>4. OwnershipInv(t)'
    BY <1>1, TaskAssumption DEF TypeOK, ClaimVerdict, TaskInv, OwnershipInv, PhaseInv,
       Deciding, Telling, Undecided, Creating, WorkerSteps
  <2>5. PhaseInv(t)' /\ AnswerInv(t)'
    BY <1>1 DEF TypeOK, ClaimVerdict, TaskInv, OwnershipInv, PhaseInv, AnswerInv, Deciding,
       Telling, Undecided, Creating
  <2>6. UntoldInv(t)' /\ MatchInv(t)' /\ LastInv(t)'
    BY <1>1 DEF TypeOK, ClaimVerdict, TaskInv, OwnershipInv, PhaseInv, UntoldInv, Untold,
       MatchInv, LastInv, Deciding, Telling, Undecided, Creating
  <2> QED BY <2>2, <2>3, <2>4, <2>5, <2>6 DEF StepInv, TaskInv
<1>2. CASE AcknowledgeCancel(t)
  <2>2. TypeOK'
    BY <1>2 DEF TypeOK, AcknowledgeCancel, WorkerSteps
  <2>3. \A u \in Tasks \ {t} : Untouched(u)
    BY <1>2, TaskAssumption DEF TypeOK, AcknowledgeCancel, Untouched
  <2>4. TaskInv(t)'
    BY <1>2, TaskAssumption DEF TypeOK, AcknowledgeCancel, TaskInv, OwnershipInv, PhaseInv,
       UntoldInv, Untold, MatchInv, LastInv, AnswerInv, Deciding, Telling, Undecided,
       Creating
  <2> QED BY <2>2, <2>3, <2>4 DEF StepInv
<1>3. CASE StoreAnswer(t)
  <2>2. TypeOK'
    BY <1>3 DEF TypeOK, StoreAnswer, AnswerOf, WorkerSteps
  <2>3. \A u \in Tasks \ {t} : Untouched(u)
    BY <1>3, TaskAssumption DEF TypeOK, StoreAnswer, Untouched
  <2>4. TaskInv(t)'
    BY <1>3, TaskAssumption DEF TypeOK, StoreAnswer, TaskInv, OwnershipInv, PhaseInv,
       UntoldInv, Untold, MatchInv, LastInv, AnswerInv, Deciding, Telling, Undecided,
       Creating, AnswerOf
  <2> QED BY <2>2, <2>3, <2>4 DEF StepInv
<1>4. CASE PushDialog(t)
  <2>8. Untold(t)
    BY <1>4 DEF PushDialog, TaskInv, UntoldInv, Deciding, Creating
  <2>9. log' \in [Tasks -> Seq(Events)] /\ Untold(t)' /\ \A u \in Tasks \ {t} : log'[u] = log[u]
    <3>1. CASE \E e \in Events \ TerminalEvents : log' = Pushed(t, e)
      BY <2>8, <3>1, PushData
    <3>2. CASE UNCHANGED log
      BY <2>8, <3>2 DEF TypeOK, Untold
    <3> QED BY <1>4, <3>1, <3>2 DEF PushDialog, Events, TerminalEvents
  <2>2. TypeOK'
    BY <1>4, <2>9 DEF TypeOK, PushDialog, WorkerSteps
  <2>3. \A u \in Tasks \ {t} : Untouched(u)
    BY <1>4, <2>9, TaskAssumption DEF TypeOK, PushDialog, Untouched
  <2>4. OwnershipInv(t)'
    BY <1>4, <2>9, TaskAssumption DEF TypeOK, PushDialog, TaskInv, OwnershipInv, PhaseInv,
       Deciding, Telling, Undecided, Creating, WorkerSteps
  <2>5. PhaseInv(t)' /\ AnswerInv(t)'
    BY <1>4, <2>9 DEF TypeOK, PushDialog, TaskInv, OwnershipInv, PhaseInv, AnswerInv,
       Deciding, Telling, Undecided, Creating
  <2>6. UntoldInv(t)' /\ MatchInv(t)' /\ LastInv(t)'
    BY <1>4, <2>9 DEF TypeOK, PushDialog, TaskInv, OwnershipInv, PhaseInv, UntoldInv,
       Untold, MatchInv, LastInv, Deciding, Telling, Undecided, Creating
  <2> QED BY <2>2, <2>3, <2>4, <2>5, <2>6 DEF StepInv, TaskInv
<1>5. CASE EmitTerminalEvent(t)
  <2>8. Untold(t)
    BY <1>5 DEF EmitTerminalEvent, TaskInv, UntoldInv, Deciding
  <2>. DEFINE e == EventOf(result[t])
  <2>7. /\ e \in TerminalEvents
        /\ db'[t] = "absent" \/ (db'[t] \in Terminal /\ EventOf(db'[t]) = e)
    BY <1>5 DEF EmitTerminalEvent, TaskInv, OwnershipInv, EventOf, TerminalEvents, Telling
  <2>9. /\ log' \in [Tasks -> Seq(Events)] /\ MatchInv(t)' /\ LastInv(t)'
        /\ \A u \in Tasks \ {t} : log'[u] = log[u]
    BY <1>5, <2>8, <2>7, PushVerdict DEF EmitTerminalEvent
  <2>2. TypeOK'
    BY <1>5, <2>9 DEF TypeOK, EmitTerminalEvent, WorkerSteps
  <2>3. \A u \in Tasks \ {t} : Untouched(u)
    BY <1>5, <2>9, TaskAssumption DEF TypeOK, EmitTerminalEvent, Untouched
  <2>4. OwnershipInv(t)'
    BY <1>5, <2>9, TaskAssumption DEF TypeOK, EmitTerminalEvent, TaskInv, OwnershipInv,
       PhaseInv, Deciding, Telling, Undecided, Creating, WorkerSteps
  <2>5. PhaseInv(t)' /\ AnswerInv(t)'
    BY <1>5, <2>9 DEF TypeOK, EmitTerminalEvent, TaskInv, OwnershipInv, PhaseInv, AnswerInv,
       Deciding, Telling, Undecided, Creating
  <2>6. UntoldInv(t)' /\ MatchInv(t)' /\ LastInv(t)'
    BY <1>5, <2>9 DEF TypeOK, EmitTerminalEvent, TaskInv, OwnershipInv, PhaseInv, UntoldInv,
       Untold, MatchInv, LastInv, Deciding, Telling, Undecided, Creating
  <2> QED BY <2>2, <2>3, <2>4, <2>5, <2>6 DEF StepInv, TaskInv
<1>6. CASE EmitCancelled(t)
  <2>8. Untold(t)
    BY <1>6 DEF EmitCancelled, TaskInv, UntoldInv, Deciding
  <2>. DEFINE e == "task_cancelled"
  <2>7. /\ e \in TerminalEvents
        /\ db'[t] = "absent" \/ (db'[t] \in Terminal /\ EventOf(db'[t]) = e)
    BY <1>6 DEF EmitCancelled, TaskInv, OwnershipInv, EventOf, TerminalEvents, Telling
  <2>9. /\ log' \in [Tasks -> Seq(Events)] /\ MatchInv(t)' /\ LastInv(t)'
        /\ \A u \in Tasks \ {t} : log'[u] = log[u]
    BY <1>6, <2>8, <2>7, PushVerdict DEF EmitCancelled
  <2>2. TypeOK'
    BY <1>6, <2>9 DEF TypeOK, EmitCancelled, WorkerSteps
  <2>3. \A u \in Tasks \ {t} : Untouched(u)
    BY <1>6, <2>9, TaskAssumption DEF TypeOK, EmitCancelled, Untouched
  <2>4. OwnershipInv(t)'
    BY <1>6, <2>9, TaskAssumption DEF TypeOK, EmitCancelled, TaskInv, OwnershipInv,
       PhaseInv, Deciding, Telling, Undecided, Creating, WorkerSteps
  <2>5. PhaseInv(t)' /\ AnswerInv(t)'
    BY <1>6, <2>9 DEF TypeOK, EmitCancelled, TaskInv, OwnershipInv, PhaseInv, AnswerInv,
       Deciding, Telling, Undecided, Creating
  <2>6. UntoldInv(t)' /\ MatchInv(t)' /\ LastInv(t)'
    BY <1>6, <2>9 DEF TypeOK, EmitCancelled, TaskInv, OwnershipInv, PhaseInv, UntoldInv,
       Untold, MatchInv, LastInv, Deciding, Telling, Undecided, Creating
  <2> QED BY <2>2, <2>3, <2>4, <2>5, <2>6 DEF StepInv, TaskInv
<1>7. CASE Archive(t)
  <2>2. TypeOK'
    BY <1>7 DEF TypeOK, Archive, WorkerSteps
  <2>3. \A u \in Tasks \ {t} : Untouched(u)
    BY <1>7, TaskAssumption DEF TypeOK, Archive, Untouched
  <2>4. TaskInv(t)'
    BY <1>7, TaskAssumption DEF TypeOK, Archive, TaskInv, OwnershipInv, PhaseInv, UntoldInv,
       Untold, MatchInv, LastInv, AnswerInv, Deciding, Telling, Undecided, Creating
  <2> QED BY <2>2, <2>3, <2>4 DEF StepInv
<1>8. CASE Cleanup(t)
  <2>2. TypeOK'
    BY <1>8 DEF TypeOK, Cleanup, WorkerSteps
  <2>3. \A u \in Tasks \ {t} : Untouched(u)
    BY <1>8, TaskAssumption DEF TypeOK, Cleanup, Untouched
  <2>4. TaskInv(t)'
    BY <1>8, TaskAssumption DEF TypeOK, Cleanup, TaskInv, OwnershipInv, PhaseInv, UntoldInv,
       Untold, MatchInv, LastInv, AnswerInv, Deciding, Telling, Undecided, Creating
  <2> QED BY <2>2, <2>3, <2>4 DEF StepInv
<1> QED BY <1>1, <1>2, <1>3, <1>4, <1>5, <1>6, <1>7, <1>8 DEF FinalizeStep

\* So does cancelTask, with its rollback.
LEMMA CancelKeepsInv ==
  ASSUME TypeOK, NEW t \in Tasks, TaskInv(t), CancelStep(t)
  PROVE  StepInv(t)
<1> USE DEF Verdicts, Terminal, Recoverable, tables, memory, Updated, MutexFree
<1>1. CASE CancelBegin(t)
  <2>2. TypeOK'
    BY <1>1 DEF TypeOK, CancelBegin
  <2>3. \A u \in Tasks \ {t} : Untouched(u)
    BY <1>1, TaskAssumption DEF TypeOK, CancelBegin, Untouched
  <2>4. OwnershipInv(t)'
    BY <1>1, TaskAssumption DEF TypeOK, CancelBegin, TaskInv, OwnershipInv, PhaseInv,
       Deciding, Telling, Undecided, Creating, WorkerSteps, Cancellable
  <2>5. PhaseInv(t)' /\ AnswerInv(t)'
    BY <1>1 DEF TypeOK, CancelBegin, TaskInv, OwnershipInv, PhaseInv, AnswerInv, Deciding,
       Telling, Undecided, Creating, Cancellable
  <2>6. UntoldInv(t)' /\ MatchInv(t)' /\ LastInv(t)'
    BY <1>1 DEF TypeOK, CancelBegin, TaskInv, OwnershipInv, PhaseInv, UntoldInv, Untold,
       MatchInv, LastInv, Deciding, Telling, Undecided, Creating, Cancellable
  <2> QED BY <2>2, <2>3, <2>4, <2>5, <2>6 DEF StepInv, TaskInv
<1>2. CASE CancelPersist(t)
  <2>2. TypeOK'
    BY <1>2 DEF TypeOK, CancelPersist
  <2>3. \A u \in Tasks \ {t} : Untouched(u)
    BY <1>2, TaskAssumption DEF TypeOK, CancelPersist, Untouched
  <2>4. TaskInv(t)'
    BY <1>2, TaskAssumption DEF TypeOK, CancelPersist, TaskInv, OwnershipInv, PhaseInv,
       UntoldInv, Untold, MatchInv, LastInv, AnswerInv, Deciding, Telling, Undecided,
       Creating
  <2> QED BY <2>2, <2>3, <2>4 DEF StepInv
<1>3. CASE CancelPersistFails(t)
  <2>2. TypeOK'
    BY <1>3 DEF TypeOK, CancelPersistFails
  <2>3. \A u \in Tasks \ {t} : Untouched(u)
    BY <1>3, TaskAssumption DEF TypeOK, CancelPersistFails, Untouched
  <2>4. TaskInv(t)'
    BY <1>3, TaskAssumption DEF TypeOK, CancelPersistFails, TaskInv, OwnershipInv, PhaseInv,
       UntoldInv, Untold, MatchInv, LastInv, AnswerInv, Deciding, Telling, Undecided,
       Creating
  <2> QED BY <2>2, <2>3, <2>4 DEF StepInv
<1> QED BY <1>1, <1>2, <1>3 DEF CancelStep

\* So does deleteTask.
LEMMA DeleteKeepsInv ==
  ASSUME TypeOK, NEW t \in Tasks, TaskInv(t), DeleteStep(t)
  PROVE  StepInv(t)
<1> USE DEF Verdicts, Terminal, Recoverable, tables, memory, Updated, MutexFree
<1>1. CASE DeleteCheck(t)
  <2>2. TypeOK'
    BY <1>1 DEF TypeOK, DeleteCheck
  <2>3. \A u \in Tasks \ {t} : Untouched(u)
    BY <1>1, TaskAssumption DEF TypeOK, DeleteCheck, Untouched
  <2>4. TaskInv(t)'
    BY <1>1, TaskAssumption DEF TypeOK, DeleteCheck, TaskInv, OwnershipInv, PhaseInv,
       UntoldInv, Untold, MatchInv, LastInv, AnswerInv, Deciding, Telling, Undecided,
       Creating, Deletable
  <2> QED BY <2>2, <2>3, <2>4 DEF StepInv
<1>2. CASE DeleteCascade(t)
  <2>1. << >> \in Seq(Events)
    OBVIOUS
  <2>2. TypeOK'
    BY <1>2, <2>1 DEF TypeOK, DeleteCascade
  <2>3. \A u \in Tasks \ {t} : Untouched(u)
    BY <1>2, TaskAssumption DEF TypeOK, DeleteCascade, Untouched
  <2>4. TaskInv(t)'
    BY <1>2, TaskAssumption DEF TypeOK, DeleteCascade, TaskInv, OwnershipInv, PhaseInv,
       UntoldInv, Untold, MatchInv, LastInv, AnswerInv, Deciding, Telling, Undecided,
       Creating
  <2> QED BY <2>2, <2>3, <2>4 DEF StepInv
<1> QED BY <1>1, <1>2 DEF DeleteStep

\* Process death leaves every task without a thread and without a claim.
LEMMA DeathKeepsInv ==
  ASSUME IndInv, Die, up, crashes < MaxCrashes, crashes' = crashes + 1
  PROVE  IndInv'
<1> USE DEF Verdicts, Terminal, Recoverable, tables
<1>1. TypeOK /\ \A t \in Tasks : TaskInv(t)
  BY IndInvByTask
<1>2. TypeOK'
  <2>1. ctl' \in [Tasks -> CtlSteps]
    BY <1>1 DEF TypeOK, Die, CtlSteps
  <2>2. crashes' \in 0..MaxCrashes
    BY <1>1, BoundAssumption DEF TypeOK
  <2> QED BY <1>1, <2>1, <2>2 DEF TypeOK, Die, WorkerSteps
<1>3. ASSUME NEW t \in Tasks PROVE TaskInv(t)'
  BY <1>1, <1>3, TaskAssumption DEF TypeOK, Die, TaskInv, OwnershipInv, PhaseInv, UntoldInv,
     Untold, MatchInv, LastInv, AnswerInv, Deciding, Telling, Undecided, Creating
<1> QED BY <1>2, <1>3, IndInvByTaskNext

\* Recovery decides what nobody else can decide any more.
LEMMA RecoverKeepsInv ==
  ASSUME IndInv, Recover
  PROVE  IndInv'
<1> USE DEF Verdicts, Terminal, Recoverable, tables, memory
<1>1. TypeOK /\ \A t \in Tasks : TaskInv(t)
  BY IndInvByTask
<1>2. TypeOK'
  BY <1>1, PushFacts DEF TypeOK, Recover, Stale, Events, TerminalEvents
<1>3. ASSUME NEW t \in Tasks PROVE TaskInv(t)'
  <2> TaskInv(t) /\ TypeOK
    BY <1>1, <1>3
  <2>1. CASE ~Stale(t)
    BY <1>3, <2>1 DEF TypeOK, Recover, Stale, TaskInv, OwnershipInv, PhaseInv, UntoldInv, Untold,
       MatchInv, LastInv, AnswerInv, Deciding, Telling, Undecided, Creating
  <2>2. CASE Stale(t)
    <3>1. Untold(t) /\ ~HasTerminalEvent(t)
      BY <2>2, <1>3 DEF TaskInv, UntoldInv, Untold, Stale, HasTerminalEvent, EventTypes
    <3>2. log'[t] = Append(log[t], "recovered") /\ log[t] \in Seq(Events) /\ "recovered" \in
       Events /\ db'[t] = "interrupted"
      BY <1>3, <2>2, <3>1 DEF Recover, TypeOK, Events, TerminalEvents
    <3>3. MatchInv(t)' /\ LastInv(t)'
      BY <3>1, <3>2, PushFacts DEF MatchInv, LastInv, Untold, EventOf, TerminalEvents
    <3>4. OwnershipInv(t)' /\ PhaseInv(t)' /\ UntoldInv(t)' /\ AnswerInv(t)'
      BY <1>3, <2>2, <3>2 DEF Recover, Stale, TypeOK, TaskInv, OwnershipInv, PhaseInv, UntoldInv,
         AnswerInv, Deciding, Telling, Undecided, Creating
    <3> QED BY <3>3, <3>4 DEF TaskInv
  <2> QED BY <2>1, <2>2
<1> QED BY <1>2, <1>3, IndInvByTaskNext

-----------------------------------------------------------------------------
\* Every step of task t that changes the invariant's state: all of Next but
\* process death and recovery.
TaskStep(t) ==
  \/ CreateStep(t) \/ WorkerPushes(t) \/ WorkerReturns(t)
  \/ FinalizeStep(t) \/ CancelStep(t) \/ DeleteStep(t)

LEMMA NextByTask ==
  Next => \/ \E t \in Tasks : TaskStep(t)
          \/ (Crash \/ \E t \in Tasks : FinalWriteThrows(t))
          \/ Recover
BY DEF Next, TaskStep

\* A step of one task disturbs no other one.
LEMMA TaskStepKeepsInv ==
  ASSUME IndInv, NEW t \in Tasks, TaskStep(t)
  PROVE  StepInv(t) /\ IndInv'
<1>1. TypeOK /\ \A u \in Tasks : TaskInv(u)
  BY IndInvByTask
<1>2. StepInv(t)
  BY <1>1, CreateKeepsInv, RunKeepsInv, FinalizeKeepsInv, CancelKeepsInv, DeleteKeepsInv DEF
     TaskStep
<1>3. ASSUME NEW u \in Tasks PROVE TaskInv(u)'
  BY <1>1, <1>2, UntouchedKeepsInv DEF StepInv
<1>4. TypeOK'
  BY <1>2 DEF StepInv
<1> QED BY <1>2, <1>3, <1>4, IndInvByTaskNext

\* Doing nothing keeps the invariant.
LEMMA StutterKeepsInv == IndInv /\ UNCHANGED vars => IndInv'
<1> SUFFICES ASSUME IndInv, UNCHANGED vars PROVE IndInv'
  OBVIOUS
<1>1. TypeOK /\ \A t \in Tasks : TaskInv(t)
  BY IndInvByTask
<1>2. TypeOK'
  BY <1>1 DEF TypeOK, vars, tables, memory
<1>3. ASSUME NEW t \in Tasks PROVE TaskInv(t)'
  BY <1>1, UntouchedKeepsInv DEF Untouched, vars, tables, memory
<1> QED BY <1>2, <1>3, IndInvByTaskNext

\* Who may decide a task, who announces it and what was announced always agree:
\* the ownership protocol of finalizeTask, cancelTask and crash recovery is an
\* inductive invariant, whatever writes fail and whenever the process dies.
THEOREM OwnershipIsInvariant == Spec => []IndInv
<1>1. IndInv /\ [Next]_vars => IndInv'
  <2> SUFFICES ASSUME IndInv, [Next]_vars PROVE IndInv'
    OBVIOUS
  <2>1. CASE \E t \in Tasks : TaskStep(t)
    BY <2>1, TaskStepKeepsInv
  <2>2. CASE Crash \/ \E t \in Tasks : FinalWriteThrows(t)
    <3>1. up
      <4>1. CASE Crash
        BY <4>1 DEF Crash
      <4>2. ASSUME NEW t \in Tasks, FinalWriteThrows(t) PROVE up
        BY <4>2, IndInvByTask DEF FinalWriteThrows, TaskInv, PhaseInv
      <4> QED BY <2>2, <4>1, <4>2
    <3> QED BY <2>2, <3>1, DeathKeepsInv DEF Crash, FinalWriteThrows
  <2>3. CASE Recover
    BY <2>3, RecoverKeepsInv
  <2>4. CASE UNCHANGED vars
    BY <2>4, StutterKeepsInv
  <2> QED BY <2>1, <2>2, <2>3, <2>4, NextByTask
<1> QED BY InitInv, <1>1, PTL DEF Spec

-----------------------------------------------------------------------------
\* Every variable keeps its type.
THEOREM TypeCorrect == Spec => []TypeOK
<1>1. IndInv => TypeOK
  BY DEF IndInv
<1> QED BY OwnershipIsInvariant, <1>1, PTL

\* A terminal event is the last event of its task, so there is one at most.
THEOREM OneTerminalEvent == Spec => [](SingleTerminalEvent /\ NothingAfterTerminalEvent)
<1>1. IndInv => SingleTerminalEvent /\ NothingAfterTerminalEvent
  BY DEF IndInv, NothingAfterTerminalEvent, SingleTerminalEvent
<1> QED BY OwnershipIsInvariant, <1>1, PTL

\* A terminal event names the durable verdict.
THEOREM EventsFollowVerdicts == Spec => []EventMatchesVerdict
<1>1. IndInv => EventMatchesVerdict
  BY DEF IndInv
<1> QED BY OwnershipIsInvariant, <1>1, PTL

\* The final message and the archive belong to the verdict.
THEOREM AnswersFollowVerdicts == Spec => []AnswerMatchesVerdict
<1>1. IndInv => AnswerMatchesVerdict
  BY DEF IndInv
<1> QED BY OwnershipIsInvariant, <1>1, PTL

\* A worker that runs on after its task was decided can see that it was cancelled.
THEOREM WorkersAreTold == Spec => []CancelledWorkerIsTold
<1>1. IndInv => CancelledWorkerIsTold
  BY DEF IndInv, OwnershipInv, CancelledWorkerIsTold, Deciding, Undecided, Recoverable,
         Terminal, Verdicts
<1> QED BY OwnershipIsInvariant, <1>1, PTL

-----------------------------------------------------------------------------
\* The steps that write the row of a task write it only while it is undecided.
LEMMA TaskStepKeepsVerdict ==
  ASSUME IndInv, NEW t \in Tasks, TaskStep(t), NEW u \in Tasks, db[u] \in Terminal
  PROVE  db'[u] \in {db[u], "absent"}
<1>1. TypeOK /\ TaskInv(t)
  BY IndInvByTask
<1>2. CASE u # t
  BY <1>2, TaskStepKeepsInv DEF StepInv, Untouched
<1>3. CASE u = t
  <2> USE DEF TypeOK, TaskInv, Terminal, Verdicts, tables, Updated
  <2>1. CASE CreateStep(t)
    BY <1>1, <1>3, <2>1 DEF CreateStep, InsertTask, MarkRunning, PublishCreated, RefuseStart,
       StartTask, PhaseInv, Creating, Undecided, Recoverable
  <2>2. CASE WorkerPushes(t) \/ WorkerReturns(t)
    BY <1>1, <1>3, <2>2 DEF WorkerPushes, WorkerReturns
  <2>3. CASE FinalizeStep(t)
    BY <1>1, <1>3, <2>3 DEF FinalizeStep, ClaimVerdict, AcknowledgeCancel, StoreAnswer, PushDialog,
       EmitTerminalEvent, EmitCancelled, Archive, Cleanup, OwnershipInv, Deciding, Undecided, Recoverable
  <2>4. CASE CancelStep(t)
    BY <1>1, <1>3, <2>4 DEF CancelStep, CancelBegin, CancelPersist, CancelPersistFails,
       OwnershipInv, Undecided, Recoverable
  <2>5. CASE DeleteStep(t)
    BY <1>1, <1>3, <2>5 DEF DeleteStep, DeleteCheck, DeleteCascade
  <2> QED BY <2>1, <2>2, <2>3, <2>4, <2>5 DEF TaskStep
<1> QED BY <1>2, <1>3

\* No step of a thread, of a second cancel, of a create handler or of recovery
\* replaces a durable verdict.
THEOREM VerdictsAreFinal == Spec => VerdictIsFinal
<1>1. IndInv /\ [Next]_vars => [\A t \in Tasks : db[t] \in Terminal => db'[t] \in {db[t],
   "absent"}]_vars
  <2> SUFFICES ASSUME IndInv, Next, NEW u \in Tasks, db[u] \in Terminal
               PROVE  db'[u] \in {db[u], "absent"}
    OBVIOUS
  <2>1. CASE \E t \in Tasks : TaskStep(t)
    BY <2>1, TaskStepKeepsVerdict
  <2>2. CASE Crash \/ \E t \in Tasks : FinalWriteThrows(t)
    BY <2>2 DEF Crash, FinalWriteThrows, Die, tables
  <2>3. CASE Recover
    BY <2>3 DEF Recover, Stale, Recoverable, Terminal, Verdicts
  <2> QED BY <2>1, <2>2, <2>3, NextByTask
<1> QED BY OwnershipIsInvariant, <1>1, PTL DEF Spec, VerdictIsFinal

-----------------------------------------------------------------------------
\* Who owns an open row when no write for it fails.
OwnerInv ==
  \A t \in Tasks : Faults[t] = {} /\ up /\ db[t] \in Recoverable => ctl[t] \in Creating \/ worker[t] \in Deciding

\* When no write for a task fails, its row is not left "running" without an owner.
THEOREM RunningRowsAreOwned == Spec => []RunningRowHasOwner
<1>1. Init => OwnerInv
  BY DEF Init, OwnerInv, Recoverable
<1>2. IndInv /\ OwnerInv /\ [Next]_vars => OwnerInv'
  <2> SUFFICES ASSUME IndInv, OwnerInv, [Next]_vars, NEW u \in Tasks,
                      Faults[u] = {}, up', db'[u] \in Recoverable
               PROVE  ctl'[u] \in Creating \/ worker'[u] \in Deciding
    BY DEF OwnerInv
  <2>0. TypeOK /\ \A t \in Tasks : TaskInv(t)
    BY IndInvByTask
  <2>1. ASSUME NEW t \in Tasks, TaskStep(t), u # t PROVE ctl'[u] \in Creating \/ worker'[u] \in
     Deciding
    BY <2>1, TaskStepKeepsInv DEF StepInv, Untouched, OwnerInv
  <2>2. CASE TaskStep(u)
    <3> USE DEF TypeOK, TaskInv, OwnerInv, Recoverable, Creating, Deciding, tables, memory, Updated
    <3>1. CASE CreateStep(u)
      BY <2>0, <3>1 DEF CreateStep, InsertTask, MarkRunning, PublishCreated, RefuseStart, StartTask
    <3>2. CASE WorkerPushes(u) \/ WorkerReturns(u)
      BY <2>0, <3>2 DEF WorkerPushes, WorkerReturns
    <3>3. CASE FinalizeStep(u)
      <4>1. up /\ worker[u] # "none"
        BY <2>0, <3>3 DEF FinalizeStep, ClaimVerdict, AcknowledgeCancel, StoreAnswer, PushDialog,
           EmitTerminalEvent, EmitCancelled, Archive, Cleanup, PhaseInv
      <4>2. CASE ClaimVerdict(u)
        BY <2>0, <4>1, <4>2 DEF ClaimVerdict, OwnershipInv, Verdicts, Undecided
      <4>3. CASE AcknowledgeCancel(u)
        BY <2>0, <4>1, <4>3, TaskAssumption DEF AcknowledgeCancel, OwnershipInv, MutexFree
      <4>4. CASE db' = db /\ worker[u] \notin Deciding
        BY <2>0, <4>1, <4>4 DEF PhaseInv
      <4> QED BY <3>3, <4>2, <4>3, <4>4 DEF FinalizeStep, StoreAnswer, PushDialog,
             EmitTerminalEvent, EmitCancelled, Archive, Cleanup
    <3>4. CASE CancelStep(u)
      BY <2>0, <3>4 DEF CancelStep, CancelBegin, CancelPersist, CancelPersistFails
    <3>5. CASE DeleteStep(u)
      BY <2>0, <3>5 DEF DeleteStep, DeleteCheck, DeleteCascade
    <3> QED BY <2>2, <3>1, <3>2, <3>3, <3>4, <3>5 DEF TaskStep
  <2>3. CASE Crash \/ \E t \in Tasks : FinalWriteThrows(t)
    BY <2>3 DEF Crash, FinalWriteThrows, Die
  <2>4. CASE Recover
    BY <2>4 DEF Recover, Stale, Recoverable
  <2>5. CASE UNCHANGED vars
    BY <2>5 DEF vars, tables, memory, OwnerInv
  <2> QED BY <2>1, <2>2, <2>3, <2>4, <2>5, NextByTask
<1>3. OwnerInv => RunningRowHasOwner
  BY DEF OwnerInv, RunningRowHasOwner, Recoverable, Creating, Deciding
<1> QED BY OwnershipIsInvariant, <1>1, <1>2, <1>3, PTL DEF Spec

\* Row, log, answer, flag and threads tell one story, for every number of tasks and
\* every pattern of failing writes and deaths.
THEOREM OneStory == Spec => []VerdictsAgree
<1>1. EventMatchesVerdict /\ (SingleTerminalEvent /\ NothingAfterTerminalEvent)
        /\ AnswerMatchesVerdict /\ CancelledWorkerIsTold /\ RunningRowHasOwner
      => VerdictsAgree
  BY DEF VerdictsAgree
<1> QED
  BY EventsFollowVerdicts, OneTerminalEvent, AnswersFollowVerdicts, WorkersAreTold,
     RunningRowsAreOwned, <1>1, PTL

-----------------------------------------------------------------------------
(***************************************************************************)
(* The task life cycle implements TaskOutcome, for every set of tasks and  *)
(* every set of faults.  A step of the server shows the owner of a task    *)
(* one of five things (`Shows'), and each is a step of the abstract        *)
(* specification.                                                          *)
(***************************************************************************)
Announced(t) == {v \in Terminal : EventOf(v) \in EventTypes(t)}

\* The owner of task t sees no difference.
SameView(t) == VerdictOf(t)' = VerdictOf(t) /\ Announced(t)' = Announced(t)

Submitted(t) == VerdictOf(t) = "none" /\ VerdictOf(t)' = "open" /\ Announced(t)' = Announced(t)

Decided(t, v) == VerdictOf(t) = "open" /\ VerdictOf(t)' = v /\ Announced(t)' = Announced(t)

Told(t, v) ==
  /\ Announced(t) = {} /\ VerdictOf(t) \in {v, "removed"}
  /\ Announced(t)' = {v} /\ VerdictOf(t)' = VerdictOf(t)

Removed(t) ==
  /\ VerdictOf(t) # "none"
  /\ VerdictOf(t)' \in {"removed", VerdictOf(t)}
  /\ Announced(t)' \in {{}, Announced(t)}

Shows(t) ==
  SameView(t) \/ Submitted(t) \/ (\E v \in Verdicts : Decided(t, v) \/ Told(t, v)) \/ Removed(t)

\* Each verdict has an event of its own.
LEMMA EventOfInjective ==
  /\ \A v, w \in Terminal : EventOf(v) = EventOf(w) => v = w
  /\ \A v \in Terminal : EventOf(v) \in TerminalEvents
BY DEF Terminal, Verdicts, EventOf, TerminalEvents

\* No terminal event, nothing announced.
LEMMA UntoldNotAnnounced ==
  ASSUME NEW t \in Tasks, Untold(t)
  PROVE  Announced(t) = {}
BY EventOfInjective DEF Announced, Untold, EventTypes

\* Pushing the event of a verdict announces that verdict, and no other.
LEMMA PushAnnounces ==
  ASSUME TypeOK, NEW t \in Tasks, Untold(t), NEW v \in Terminal, log' = Pushed(t, EventOf(v))
  PROVE  Announced(t) = {} /\ Announced(t)' = {v}
<1>1. EventOf(v) \in Events /\ log[t] \in Seq(Events) /\ log'[t] = Append(log[t], EventOf(v))
  BY EventOfInjective DEF TypeOK, Pushed, Events
<1>2. ASSUME NEW w \in Terminal PROVE EventOf(w) \in EventTypes(t)' <=> w = v
  BY <1>1, PushFacts, EventOfInjective DEF EventTypes, Untold
<1>3. Announced(t)' = {v}
  BY <1>2 DEF Announced
<1> QED BY <1>3, UntoldNotAnnounced

\* What an untouched task shows.
LEMMA UntouchedSame ==
  ASSUME NEW u \in Tasks, Untouched(u)
  PROVE  SameView(u)
BY DEF Untouched, SameView, VerdictOf, Announced, EventTypes

\* A step that leaves row and log of a known task alone shows nothing.
LEMMA QuietSame ==
  ASSUME NEW t \in Tasks, db'[t] = db[t], log'[t] = log[t], ctl'[t] = "idle" <=> ctl[t] = "idle"
  PROVE  SameView(t)
BY DEF SameView, VerdictOf, Announced, EventTypes

\* A business event is not an announcement.
LEMMA DataSame ==
  ASSUME TypeOK, NEW t \in Tasks, Untold(t), NEW e \in Events \ TerminalEvents, log' = Pushed(t, e)
  PROVE  Announced(t)' = Announced(t)
<1>1. Untold(t)'
  BY PushData
<1>2. Announced(t)' = {}
  BY <1>1, EventOfInjective DEF Announced, Untold, EventTypes
<1> QED BY <1>2, UntoldNotAnnounced

-----------------------------------------------------------------------------
\* The create handler submits the task, and then shows nothing.
LEMMA CreateShows ==
  ASSUME TypeOK, NEW t \in Tasks, TaskInv(t), CreateStep(t)
  PROVE  Shows(t)
<1> USE DEF tables, memory, Updated
<1>1. CASE InsertTask(t)
  <2>1. Announced(t)' = Announced(t)
    BY <1>1 DEF InsertTask, Announced, EventTypes
  <2> QED BY <1>1, <2>1 DEF InsertTask, TypeOK, TaskInv, PhaseInv, Shows, Submitted, VerdictOf, Recoverable
<1>2. CASE MarkRunning(t)
  <2>1. Announced(t)' = Announced(t)
    BY <1>2 DEF MarkRunning, Announced, EventTypes
  <2>2. VerdictOf(t)' = VerdictOf(t)
    BY <1>2 DEF MarkRunning, TypeOK, TaskInv, PhaseInv, VerdictOf, Recoverable, Creating, Undecided
  <2> QED BY <2>1, <2>2 DEF Shows, SameView
<1>3. CASE PublishCreated(t)
  <2>1. Untold(t)
    BY <1>3 DEF PublishCreated, TaskInv, UntoldInv, Creating
  <2>2. Announced(t)' = Announced(t)
    <3>1. CASE log' = Pushed(t, "task_created")
      BY <2>1, <3>1, DataSame DEF Events, TerminalEvents
    <3>2. CASE UNCHANGED log
      BY <3>2 DEF Announced, EventTypes
    <3> QED BY <1>3, <3>1, <3>2 DEF PublishCreated
  <2>3. VerdictOf(t)' = VerdictOf(t)
    BY <1>3 DEF PublishCreated, TypeOK, VerdictOf
  <2> QED BY <2>2, <2>3 DEF Shows, SameView
<1>4. CASE RefuseStart(t) \/ StartTask(t)
  BY <1>4, QuietSame DEF RefuseStart, StartTask, TypeOK, Shows
<1> QED BY <1>1, <1>2, <1>3, <1>4 DEF CreateStep

\* The worker decides the task when it claims the verdict and announces it when it
\* emits the event.
LEMMA WorkerShows ==
  ASSUME TypeOK, NEW t \in Tasks, TaskInv(t),
         WorkerPushes(t) \/ WorkerReturns(t) \/ FinalizeStep(t)
  PROVE  Shows(t)
<1> USE DEF tables, memory, Updated
<1>1. CASE db' = db /\ log' = log /\ ctl' = ctl
  BY <1>1, QuietSame DEF Shows
<1>2. ASSUME db' = db, ctl' = ctl, Untold(t), NEW e \in Events \ TerminalEvents, log' = Pushed(t, e)
      PROVE  Shows(t)
  BY <1>2, DataSame DEF Shows, SameView, VerdictOf
<1>3. CASE WorkerPushes(t) \/ PushDialog(t)
  <2>1. Untold(t) /\ db' = db /\ ctl' = ctl
    BY <1>3 DEF WorkerPushes, PushDialog, TaskInv, UntoldInv, Deciding
  <2>2. "data" \in Events \ TerminalEvents
    BY DEF Events, TerminalEvents
  <2> QED BY <1>1, <1>2, <1>3, <2>1, <2>2 DEF WorkerPushes, PushDialog
<1>4. CASE WorkerReturns(t) \/ AcknowledgeCancel(t) \/ StoreAnswer(t) \/ Archive(t) \/ Cleanup(t)
  BY <1>1, <1>4 DEF WorkerReturns, AcknowledgeCancel, StoreAnswer, Archive, Cleanup
<1>5. CASE ClaimVerdict(t)
  <2>1. Announced(t)' = Announced(t) /\ ctl' = ctl
    BY <1>5 DEF ClaimVerdict, Announced, EventTypes
  <2>2. result[t] \in Verdicts /\ db[t] \in Undecided /\ ctl[t] # "idle"
    BY <1>5 DEF ClaimVerdict, TaskInv, OwnershipInv, PhaseInv, Deciding
  <2>3. VerdictOf(t)' = VerdictOf(t) \/ (VerdictOf(t) = "open" /\ VerdictOf(t)' = result[t])
    BY <1>5, <2>1, <2>2 DEF ClaimVerdict, TypeOK, VerdictOf, Undecided, Recoverable, Verdicts
  <2> QED BY <2>1, <2>2, <2>3 DEF Shows, SameView, Decided
<1>6. ASSUME NEW v \in Verdicts, log' = Pushed(t, EventOf(v)), Untold(t), db' = db, ctl' = ctl,
             db[t] \in {v, "absent"}, ctl[t] # "idle"
      PROVE  Shows(t)
  <2>1. Announced(t) = {} /\ Announced(t)' = {v}
    BY <1>6, PushAnnounces DEF Terminal
  <2>2. VerdictOf(t) \in {v, "removed"} /\ VerdictOf(t)' = VerdictOf(t)
    BY <1>6 DEF VerdictOf, Recoverable, Verdicts
  <2> QED BY <2>1, <2>2 DEF Shows, Told
<1>7. CASE EmitTerminalEvent(t)
  BY <1>6, <1>7 DEF EmitTerminalEvent, TaskInv, OwnershipInv, PhaseInv, UntoldInv, Telling
<1>8. CASE EmitCancelled(t)
  <2>1. EventOf("cancelled") = "task_cancelled" /\ "cancelled" \in Verdicts
    BY DEF EventOf, Verdicts
  <2> QED BY <1>6, <1>8, <2>1 DEF EmitCancelled, TaskInv, OwnershipInv, PhaseInv, UntoldInv
<1> QED BY <1>3, <1>4, <1>5, <1>7, <1>8 DEF FinalizeStep

\* A cancel decides when its write succeeds.
LEMMA CancelShows ==
  ASSUME TypeOK, NEW t \in Tasks, TaskInv(t), CancelStep(t)
  PROVE  Shows(t)
<1> USE DEF tables, memory, Updated
<1>1. CASE CancelBegin(t) \/ CancelPersistFails(t)
  BY <1>1, QuietSame DEF CancelBegin, CancelPersistFails, Shows
<1>2. CASE CancelPersist(t)
  <2>1. Announced(t)' = Announced(t) /\ ctl' = ctl
    BY <1>2 DEF CancelPersist, Announced, EventTypes
  <2>2. db[t] \in Undecided /\ ctl[t] # "idle"
    BY <1>2 DEF CancelPersist, TaskInv, OwnershipInv, PhaseInv, Deciding
  <2>3. VerdictOf(t)' = VerdictOf(t) \/ (VerdictOf(t) = "open" /\ VerdictOf(t)' = "cancelled")
    BY <1>2, <2>1, <2>2 DEF CancelPersist, TypeOK, VerdictOf, Undecided, Recoverable
  <2> QED BY <2>1, <2>3 DEF Shows, SameView, Decided, Verdicts
<1> QED BY <1>1, <1>2 DEF CancelStep

\* A delete removes the row, the events, or both.
LEMMA DeleteShows ==
  ASSUME TypeOK, NEW t \in Tasks, TaskInv(t), DeleteStep(t)
  PROVE  Shows(t)
<1> USE DEF tables, memory
<1>1. CASE DeleteCheck(t)
  BY <1>1, QuietSame DEF DeleteCheck, Shows
<1>2. CASE DeleteCascade(t)
  <2>1. ctl[t] # "idle" /\ ctl' = ctl
    BY <1>2 DEF DeleteCascade, TaskInv, PhaseInv
  <2>2. VerdictOf(t) # "none" /\ VerdictOf(t)' \in {"removed", VerdictOf(t)}
    BY <1>2, <2>1 DEF DeleteCascade, TypeOK, VerdictOf, Terminal, Verdicts, Recoverable
  <2>3. log'[t] = << >> \/ log' = log
    BY <1>2 DEF DeleteCascade, TypeOK
  <2>4. Announced(t)' \in {{}, Announced(t)}
    BY <2>3 DEF Announced, EventTypes
  <2> QED BY <2>2, <2>4 DEF Shows, Removed
<1> QED BY <1>1, <1>2 DEF DeleteStep

-----------------------------------------------------------------------------
\* A step that shows something of one task is a step of TaskOutcome.
LEMMA ShowsIsOutcome ==
  ASSUME NEW t \in Tasks, Shows(t), \A u \in Tasks \ {t} : SameView(u)
  PROVE  [Outcome!Next]_(Outcome!vars)
<1> DEFINE V == [u \in Tasks |-> VerdictOf(u)]
           A == [u \in Tasks |-> {v \in Terminal : EventOf(v) \in EventTypes(u)}]
<1>1. V' = [V EXCEPT ![t] = VerdictOf(t)'] /\ A' = [A EXCEPT ![t] = Announced(t)']
  BY DEF SameView, Announced
<1>2. V[t] = VerdictOf(t) /\ A[t] = Announced(t)
  BY DEF Announced
<1>3. /\ VerdictOf(t)' = VerdictOf(t) => V' = V
      /\ Announced(t)' = Announced(t) => A' = A
  BY <1>1, <1>2
<1>4. Verdicts = Outcome!Decisions
  BY DEF Verdicts, Outcome!Decisions
<1>5. CASE SameView(t)
  BY <1>3, <1>5 DEF SameView, Outcome!vars
<1>6. CASE Submitted(t)
  <2>1. Outcome!Submit(t)
    BY <1>1, <1>2, <1>3, <1>6 DEF Submitted, Outcome!Submit
  <2> QED BY <2>1 DEF Outcome!Next
<1>7. ASSUME NEW v \in Verdicts, Decided(t, v) PROVE Outcome!Next
  <2>1. Outcome!Decide(t, v)
    BY <1>1, <1>2, <1>3, <1>7 DEF Decided, Outcome!Decide
  <2> QED BY <1>4, <2>1 DEF Outcome!Next
<1>8. ASSUME NEW v \in Verdicts, Told(t, v) PROVE Outcome!Next
  <2>1. Outcome!Announce(t, v)
    BY <1>1, <1>2, <1>3, <1>8 DEF Told, Outcome!Announce
  <2> QED BY <1>4, <2>1 DEF Outcome!Next
<1>9. CASE Removed(t)
  <2>1. Outcome!Remove(t)
    BY <1>1, <1>2, <1>3, <1>9 DEF Removed, Outcome!Remove
  <2> QED BY <2>1 DEF Outcome!Next
<1> QED BY <1>5, <1>6, <1>7, <1>8, <1>9 DEF Shows

\* Recovery interrupts every open task, and announces it.
LEMMA RecoverIsInterrupt ==
  ASSUME IndInv, Recover
  PROVE  Outcome!Interrupt
<1> USE DEF tables, memory
<1>1. TypeOK /\ \A t \in Tasks : TaskInv(t)
  BY IndInvByTask
<1>2. ASSUME NEW t \in Tasks
      PROVE  /\ VerdictOf(t) = "open" => VerdictOf(t)' = "interrupted" /\ Announced(t)' = {"interrupted"}
             /\ VerdictOf(t) # "open" => SameView(t)
  <2>1. CASE Stale(t)
    <3>1. Untold(t) /\ ~HasTerminalEvent(t)
      BY <1>1, <2>1 DEF TaskInv, UntoldInv, Untold, Stale, HasTerminalEvent, EventTypes
    <3>2. /\ log'[t] = Append(log[t], "recovered") /\ log[t] \in Seq(Events) /\ "recovered" \in Events
          /\ db'[t] = "interrupted"
      BY <1>1, <2>1, <3>1 DEF Recover, TypeOK, Events, TerminalEvents
    <3>3. ASSUME NEW v \in Terminal PROVE EventOf(v) \in EventTypes(t)' <=> v = "interrupted"
      <4>1. EventOf(v) = "recovered" <=> v = "interrupted"
        BY DEF EventOf, Terminal, Verdicts
      <4>2. \A i \in DOMAIN log[t] : log[t][i] # EventOf(v)
        BY <3>1, EventOfInjective DEF Untold
      <4> QED BY <3>2, <4>1, <4>2, PushFacts DEF EventTypes
    <3>4. Announced(t)' = {"interrupted"}
      BY <3>3 DEF Announced, Terminal
    <3> QED BY <2>1, <3>2, <3>4 DEF VerdictOf, Stale, Recoverable
  <2>2. CASE ~Stale(t)
    <3>1. SameView(t)
      BY <1>1, <2>2, QuietSame DEF Recover, TypeOK
    <3>2. VerdictOf(t) # "open"
      BY <1>1, <2>2 DEF VerdictOf, Stale, TypeOK, Terminal, Verdicts, Recoverable
    <3> QED BY <3>1, <3>2
  <2> QED BY <2>1, <2>2
<1> QED BY <1>2 DEF Outcome!Interrupt, SameView, Announced

\* Every step of the server is a step of TaskOutcome, or shows nothing.
THEOREM LifecycleImplementsOutcome == Spec => ImplementsOutcome
<1>1. Init => Outcome!Init
  <2> SUFFICES ASSUME Init PROVE Outcome!Init
    OBVIOUS
  <2>1. ASSUME NEW t \in Tasks PROVE VerdictOf(t) = "none" /\ Announced(t) = {}
    <3>1. Untold(t)
      BY <2>1 DEF Init, Untold
    <3>2. Announced(t) = {}
      BY <2>1, <3>1, UntoldNotAnnounced
    <3>3. db[t] = "absent" /\ ctl[t] = "idle"
      BY <2>1 DEF Init
    <3>4. VerdictOf(t) = "none"
      BY <3>3 DEF VerdictOf, Recoverable
    <3> QED BY <3>2, <3>4
  <2> QED BY <2>1 DEF Outcome!Init, Announced
<1>2. IndInv /\ [Next]_vars => [Outcome!Next]_(Outcome!vars)
  <2> SUFFICES ASSUME IndInv, [Next]_vars PROVE [Outcome!Next]_(Outcome!vars)
    OBVIOUS
  <2>0. TypeOK /\ \A t \in Tasks : TaskInv(t)
    BY IndInvByTask
  <2>1. ASSUME NEW t \in Tasks, TaskStep(t) PROVE [Outcome!Next]_(Outcome!vars)
    <3>1. Shows(t)
      BY <2>0, <2>1, CreateShows, WorkerShows, CancelShows, DeleteShows DEF TaskStep
    <3>2. \A u \in Tasks \ {t} : SameView(u)
      BY <2>1, TaskStepKeepsInv, UntouchedSame DEF StepInv
    <3> QED BY <3>1, <3>2, ShowsIsOutcome
  <2>2. CASE Recover
    BY <2>2, RecoverIsInterrupt DEF Outcome!Next
  <2>3. CASE (Crash \/ \E t \in Tasks : FinalWriteThrows(t)) \/ UNCHANGED vars
    <3>1. \A t \in Tasks : SameView(t)
      BY <2>0, <2>3, QuietSame DEF Crash, FinalWriteThrows, Die, tables, vars, TypeOK
    <3> QED BY <3>1 DEF SameView, Announced, Outcome!vars
  <2> QED BY <2>1, <2>2, <2>3, NextByTask
<1> QED BY OwnershipIsInvariant, <1>1, <1>2, PTL DEF Spec, ImplementsOutcome, Outcome!Spec

-----------------------------------------------------------------------------
(* The listener thread, and the two threads that may stop it.  A listener    *)
(* tells its end by itself unless it was stopped, and only a listener that   *)
(* has ended is joined; the flag stays up until nothing is left to be told.  *)

\* What the reader keeps: its place, the ids it remembers, the id in hand.
Places == {"boot", "ready", "restore", "bind", "halt", "joining", "clear", "spawn", "out"}
TermOk(t, R) ==
  t \in [pc : Places, glob : Globals, ws : Workspaces \union {None, DefaultWorkspace},
         sess : DOMAIN R.sess \union {None}, arg : Nat, running : BOOLEAN]

\* Of a step: a listener told to stop says no more than it had begun to, or
\* shows that it was refused.
Quietly ==
  /\ listener'.left <= listener.left
  /\ \/ listener'.notices - listener.notices <= listener'.at - listener.at
     \/ RefusalIsShown /\ listener'.notices = 1
Silent == cancel /\ cancel' /\ listener'.task = listener.task => Quietly

ListenerType ==
  [st : {"none", "connecting", "accepted", "open", "ended"}, task : Nat,
   at : 0..3, left : 0..3, notices : 0..2, dead : BOOLEAN]

\* The listener L by itself, following a task of R.
ListenerOk(L, R) ==
  /\ L \in ListenerType
  /\ L.st = "none" => L = NoListener
  /\ L.st # "none" => L.task \in DOMAIN R.task /\ L.task # None
  /\ L.left > 0 => L.st = "open"
  /\ L.st \in {"connecting", "accepted"} => L.at = 0
  /\ L.at + L.left <= 3
  /\ kind = "console" /\ L.at = 3 => L.notices >= 1
  /\ L.st # "ended" => L.notices <= IF L.at = 3 THEN 1 ELSE 0

\* Who may join it, or start the next.
JoinOk ==
  /\ main \in [pc : {"serving", "halt", "joining", "repl", "done"}, again : BOOLEAN]
  /\ cancel \in BOOLEAN /\ crashed \in BOOLEAN
  /\ term.pc \in {"clear", "spawn"} => listener.st = "none"
  /\ term.pc = "joining" /\ main.pc = "serving" => listener.st # "none"

ThreadsOk ==
  kind \in {"cli", "console"} /\ ListenerOk(listener, rows) /\ JoinOk /\ EndIsTold /\ CrashNeedsShutdown

\* A thread that does nothing for the listener, whatever becomes of the rows.
LEMMA ThreadsKept ==
  ASSUME ThreadsOk, UNCHANGED <<kind, cancel, listener, crashed, main>>,
         DOMAIN rows.task \subseteq DOMAIN rows'.task,
         term'.pc \notin {"clear", "spawn", "joining"} \/ term'.pc = term.pc
  PROVE  ThreadsOk'
BY DEF ThreadsOk, ListenerOk, JoinOk, EndIsTold, CrashNeedsShutdown

\* What a step of the listener does.
LEMMA ListenerStepOk ==
  ASSUME ThreadsOk, ListenerStep
  PROVE  ThreadsOk' /\ (cancel => Quietly)
<1> USE DEF ThreadsOk, ListenerOk, ListenerType, NoListener
<1>1. UNCHANGED <<kind, rows, term, cancel, main, crashed>>
  BY DEF ListenerStep
<1>2. listener \in ListenerType /\ cancel \in BOOLEAN
  BY DEF JoinOk
<1>3. ASSUME NEW n \in 0..2, Ends(n), listener.st \in {"connecting", "accepted", "open"}, listener.left = 0,
             listener.notices + n \in 0..2, cancel \/ n >= 1 \/ listener.notices >= 1
      PROVE  /\ ListenerOk(listener', rows')
             /\ listener'.st = "ended" /\ listener'.left = 0 /\ listener'.at = listener.at
             /\ listener'.notices = listener.notices + n
             /\ ~cancel => listener'.notices >= 1
  <2>1. /\ listener'.st = "ended" /\ listener'.left = 0 /\ listener'.at = listener.at
        /\ listener'.notices = listener.notices + n /\ listener'.task = listener.task
        /\ listener'.dead = listener.dead
    BY <1>2, <1>3 DEF Ends
  <2>2. listener' \in ListenerType
    BY <1>2, <1>3 DEF Ends
  <2>3. ListenerOk(listener', rows')
    BY <1>1, <1>2, <1>3, <2>1, <2>2
  <2>4. ~cancel => listener'.notices >= 1
    BY <1>2, <1>3, <2>1
  <2> QED BY <2>1, <2>3, <2>4
<1>4. CASE Connects
  <2>1. /\ listener.st = "connecting" /\ listener.at = 0 /\ listener.left = 0 /\ listener.notices = 0
        /\ (kind = "console") \in BOOLEAN
    BY <1>2, <1>4 DEF Connects
  <2>2. CASE ~Gone /\ listener' = [listener EXCEPT !.st = "accepted"]
    <3>1. /\ listener' \in ListenerType /\ listener'.st = "accepted" /\ listener'.left = listener.left
          /\ listener'.at = listener.at /\ listener'.notices = listener.notices
          /\ listener'.task = listener.task
      BY <1>2, <2>2
    <3> QED BY <1>1, <1>2, <2>1, <3>1 DEF JoinOk, EndIsTold, CrashNeedsShutdown, Quietly
  <2>3. CASE Ends(Notice)
    BY <1>1, <1>2, <1>3, <2>1, <2>3 DEF Notice, JoinOk, EndIsTold, CrashNeedsShutdown, Quietly
  <2>4. CASE Gone /\ Ends(Notice + IF kind = "console" THEN 1 ELSE 0)
    <3>1. PICK n \in 0..2 :
            /\ Ends(n) /\ (n >= 1 \/ cancel) /\ (cancel => n <= 1)
            /\ (cancel /\ n = 1 => kind = "console")
      BY <1>2, <2>4 DEF Notice
    <3>2. /\ ListenerOk(listener', rows')
          /\ listener'.st = "ended" /\ listener'.left = 0 /\ listener'.at = 0
          /\ listener'.notices = n /\ (~cancel => listener'.notices >= 1)
      BY <1>2, <1>3, <2>1, <3>1
    <3>3. cancel => Quietly
      BY <2>1, <2>4, <3>1, <3>2 DEF Quietly, RefusalIsShown
    <3> QED BY <1>1, <1>2, <2>1, <3>2, <3>3 DEF JoinOk, EndIsTold, CrashNeedsShutdown
  <2> QED BY <1>4, <2>2, <2>3, <2>4 DEF Connects
<1>9. CASE Replays
  <2> DEFINE d == Gone
  <2>1. d \in BOOLEAN /\ listener' = [listener EXCEPT !.st = "open", !.dead = d] /\ listener.st = "accepted"
    BY <1>9 DEF Replays, Gone
  <2> HIDE DEF d
  <2>2. /\ listener' \in ListenerType /\ listener'.st = "open" /\ listener'.left = listener.left
        /\ listener'.at = listener.at /\ listener'.notices = listener.notices
        /\ listener'.task = listener.task
    BY <1>2, <2>1
  <2> QED BY <1>1, <1>2, <2>1, <2>2 DEF JoinOk, EndIsTold, CrashNeedsShutdown, Quietly
<1>5. CASE Receives
  <2>1. CASE cancel /\ Ends(0)
    BY <1>1, <1>2, <1>3, <1>5, <2>1 DEF Receives, JoinOk, EndIsTold, CrashNeedsShutdown, Quietly
  <2>2. CASE ~cancel /\ \E n \in 1..(Available - listener.at) : listener' = [listener EXCEPT !.left = n]
    <3>1. PICK n \in 1..(Available - listener.at) : listener' = [listener EXCEPT !.left = n]
      BY <2>2
    <3>2. Available \in {0, 1, 3}
      BY DEF Available
    <3>3. n \in 0..3 /\ n + listener.at <= 3 /\ listener.at < 3
      <4> HIDE DEF Available
      <4> QED BY <1>2, <3>1, <3>2
    <3> QED BY <1>1, <1>2, <1>5, <2>2, <3>1, <3>3 DEF Receives, JoinOk, EndIsTold, CrashNeedsShutdown, Quietly
  <2> QED BY <1>5, <2>1, <2>2 DEF Receives
<1>6. CASE onSseEvent
  <2> DEFINE m == IF kind = "console" /\ listener.at = 2 THEN 1 ELSE 0
  <2>1. listener' = [listener EXCEPT !.at = @ + 1, !.left = @ - 1, !.notices = @ + m]
        /\ listener.left > 0
    BY <1>6 DEF onSseEvent
  <2>2. m \in {0, 1} /\ (m = 1 => listener.at = 2) /\ (kind = "console" /\ listener.at = 2 => m = 1)
    OBVIOUS
  <2> HIDE DEF m
  <2>3. /\ listener'.at = listener.at + 1 /\ listener'.left = listener.left - 1
        /\ listener'.notices = listener.notices + m /\ listener'.st = listener.st
        /\ listener'.task = listener.task /\ listener'.dead = listener.dead
        /\ listener.st = "open" /\ listener.at \in 0..2 /\ listener.notices = 0
    BY <1>2, <2>1
  <2>4. ListenerOk(listener', rows')
    <3>1. listener' \in ListenerType
      <4>1. listener.at + 1 \in 0..3 /\ listener.left - 1 \in 0..3 /\ listener.notices + m \in 0..2
        BY <1>2, <2>1, <2>2, <2>3
      <4> QED BY <1>2, <2>1, <4>1
    <3> QED BY <1>1, <1>2, <2>2, <2>3, <3>1
  <2> QED BY <1>1, <1>2, <2>2, <2>3, <2>4 DEF JoinOk, EndIsTold, CrashNeedsShutdown, Quietly
<1>7. CASE Closes
  <2>1. kind = "cli" \/ kind = "console"
    OBVIOUS
  <2>2. PICK n \in 0..1 : Ends(n) /\ (cancel => n = 0) /\ (cancel \/ n = 1 \/ kind # "cli")
    BY <1>7 DEF Closes, Notice
  <2>3. listener.st = "open" /\ listener.left = 0 /\ listener.at = 3
    BY <1>7 DEF Closes
  <2>4. cancel \/ n = 1 \/ listener.notices >= 1
    BY <2>1, <2>2, <2>3
  <2> QED BY <1>1, <1>2, <1>3, <2>2, <2>3, <2>4 DEF JoinOk, EndIsTold, CrashNeedsShutdown, Quietly
<1>8. CASE Breaks
  <2>1. Ends(Notice) /\ listener.st \in {"accepted", "open"} /\ listener.left = 0
    BY <1>8 DEF Breaks
  <2> QED BY <1>1, <1>2, <1>3, <2>1 DEF Notice, JoinOk, EndIsTold, CrashNeedsShutdown, Quietly
<1> QED BY <1>4, <1>5, <1>6, <1>7, <1>8, <1>9 DEF ListenerStep, ListenerGoesOn

\* The line reader stops its listener, and starts the next.
LEMMA TermStepOk ==
  ASSUME ThreadsOk, TermStep,
         TermOk(term, rows),
         term.pc \in {"clear", "spawn"} => term.arg \in TaskIds /\ term.arg # None
  PROVE  /\ ThreadsOk'
         /\ Silent
<1> USE DEF Silent, TermOk
<1>1. UNCHANGED <<kind, rows, main>> /\ ~crashed
  BY DEF TermStep
<1>2. /\ listener \in ListenerType /\ cancel \in BOOLEAN /\ kind \in {"cli", "console"}
      /\ listener.st = "none" => listener = NoListener
      /\ listener.st # "none" => listener.task # 0
  BY DEF ThreadsOk, ListenerOk, JoinOk, None
<1>3. listener' = NoListener => ListenerOk(listener, rows)'
  BY <1>1 DEF ListenerOk, ListenerType, NoListener, None
<1>4. Halted => term'.pc \in {"out", "clear"}
  BY DEF Halted, At
<1>5. CASE term.pc = "halt" /\ Halt(At("joining"), Halted)
  <2>1. cancel' = TRUE /\ UNCHANGED <<listener, crashed>>
        /\ (IF listener.st = "none" THEN Halted ELSE At("joining"))
    BY <1>5 DEF Halt
  <2>2. IF listener.st = "none" THEN term'.pc \in {"out", "clear"} ELSE term'.pc = "joining"
    BY <1>4, <2>1 DEF At
  <2>3. ThreadsOk'
    BY <1>1, <2>1, <2>2 DEF ThreadsOk, ListenerOk, JoinOk, EndIsTold, CrashNeedsShutdown
  <2>4. Silent
    BY <1>2, <2>1 DEF ListenerType, Quietly
  <2> QED BY <2>3, <2>4
<1>6. CASE term.pc = "joining" /\ Join(Halted, UNCHANGED term)
  <2>1. CASE listener.st = "ended" /\ listener' = NoListener /\ Halted /\ UNCHANGED <<crashed, cancel>>
    <3>1. term'.pc \in {"out", "clear"}
      BY <1>4, <2>1
    <3>2. listener'.st = "none" /\ listener'.task = 0
      BY <2>1 DEF NoListener, None
    <3>3. ThreadsOk'
      BY <1>1, <1>3, <2>1, <3>1, <3>2 DEF ThreadsOk, JoinOk, EndIsTold, CrashNeedsShutdown
    <3>4. listener.task # 0
      BY <1>2, <2>1
    <3> QED BY <3>2, <3>3, <3>4
  <2>2. CASE listener.st = "none" /\ crashed' = TRUE /\ UNCHANGED <<term, listener, cancel>>
    <3>1. ThreadsOk'
      BY <1>1, <1>6, <2>2 DEF ThreadsOk, ListenerOk, JoinOk, EndIsTold, CrashNeedsShutdown
    <3>2. Silent
      BY <1>2, <2>2 DEF ListenerType, Quietly
    <3> QED BY <3>1, <3>2
  <2> QED BY <1>6, <2>1, <2>2 DEF Join
<1>7. CASE term.pc = "clear" /\ cancel' = FALSE /\ At("spawn") /\ UNCHANGED <<listener, crashed>>
  <2>1. term'.pc = "spawn" /\ listener.st = "none"
    BY <1>7 DEF At, ThreadsOk, JoinOk
  <2>2. ThreadsOk'
    BY <1>1, <1>7, <2>1 DEF ThreadsOk, ListenerOk, JoinOk, EndIsTold, CrashNeedsShutdown
  <2> QED BY <1>7, <2>2
<1>8. CASE /\ term.pc = "spawn" /\ crashed' = (listener.st # "none")
           /\ listener' = [NoListener EXCEPT !.st = "connecting", !.task = term.arg]
           /\ term' = Back(term) /\ UNCHANGED cancel
  <2>1. listener = NoListener /\ crashed' = FALSE /\ term.arg \in TaskIds /\ term.arg # None
    BY <1>2, <1>8 DEF ThreadsOk, JoinOk
  <2>2. term'.pc \in {"ready", "out"}
    BY <1>8 DEF Back
  <2>3. /\ listener' = [st |-> "connecting", task |-> term.arg, at |-> 0, left |-> 0, notices |-> 0, dead |-> FALSE]
    BY <1>8 DEF NoListener
  <2>4. ListenerOk(listener, rows)'
    BY <1>1, <2>1, <2>3 DEF ListenerOk, ListenerType, TaskIds
  <2>5. ThreadsOk'
    BY <1>1, <1>8, <2>1, <2>2, <2>3, <2>4 DEF ThreadsOk, JoinOk, EndIsTold, CrashNeedsShutdown
  <2>6. Silent
    BY <2>1, <2>3 DEF NoListener
  <2> QED BY <2>5, <2>6
<1> QED BY <1>5, <1>6, <1>7, <1>8 DEF TermStep, stopStreamListener, startStreamListener

\* The main thread stops the console, twice.
LEMMA StopOk ==
  ASSUME ThreadsOk, stop, TermOk(term, rows)
  PROVE  /\ ThreadsOk' /\ term' \in {term, Stopped(term)}
         /\ Silent
<1> USE DEF Silent, TermOk
<1>1. UNCHANGED <<kind, rows>> /\ ~crashed
  BY DEF stop
<1>2. /\ listener \in ListenerType /\ cancel \in BOOLEAN /\ kind \in {"cli", "console"}
      /\ main \in [pc : {"serving", "halt", "joining", "repl", "done"}, again : BOOLEAN]
      /\ listener.st # "none" => listener.task # 0
  BY DEF ThreadsOk, ListenerOk, JoinOk, None
<1>3. listener' = NoListener => ListenerOk(listener, rows)'
  BY <1>1 DEF ListenerOk, ListenerType, NoListener, None
<1>4. \A p \in {"joining", "repl", "halt", "done"} :
         MainAt(p) => main' \in [pc : {"serving", "halt", "joining", "repl", "done"}, again : BOOLEAN]
                      /\ main'.pc # "serving"
  BY <1>2 DEF MainAt
<1>5. CASE main.pc = "halt" /\ Halt(MainAt("joining"), MainAt("repl")) /\ term' = Stopped(term)
  <2>1. cancel' = TRUE /\ UNCHANGED <<listener, crashed>> /\ \E p \in {"joining", "repl"} : MainAt(p)
    BY <1>5 DEF Halt
  <2>2. main' \in [pc : {"serving", "halt", "joining", "repl", "done"}, again : BOOLEAN] /\ main'.pc # "serving"
    BY <1>4, <2>1
  <2>3. term'.pc = term.pc
    BY <1>5 DEF Stopped
  <2>4. ThreadsOk'
    BY <1>1, <2>1, <2>2, <2>3 DEF ThreadsOk, ListenerOk, JoinOk, EndIsTold, CrashNeedsShutdown
  <2>5. Silent
    BY <1>2, <2>1 DEF ListenerType, Quietly
  <2> QED BY <1>5, <2>4, <2>5
<1>6. CASE main.pc = "joining" /\ Join(MainAt("repl"), UNCHANGED main) /\ UNCHANGED term
  <2>1. CASE listener.st = "ended" /\ listener' = NoListener /\ MainAt("repl") /\ UNCHANGED <<crashed, cancel>>
    <3>1. main' \in [pc : {"serving", "halt", "joining", "repl", "done"}, again : BOOLEAN] /\ main'.pc # "serving"
      BY <1>4, <2>1
    <3>2. listener'.st = "none" /\ listener'.task = 0
      BY <2>1 DEF NoListener, None
    <3>3. ThreadsOk'
      BY <1>1, <1>3, <1>6, <2>1, <3>1, <3>2 DEF ThreadsOk, JoinOk, EndIsTold, CrashNeedsShutdown
    <3>4. listener.task # 0
      BY <1>2, <2>1
    <3> QED BY <1>6, <3>2, <3>3, <3>4
  <2>2. CASE crashed' = TRUE /\ UNCHANGED <<main, listener, cancel>>
    <3>1. ThreadsOk'
      BY <1>1, <1>6, <2>2 DEF ThreadsOk, ListenerOk, JoinOk, EndIsTold, CrashNeedsShutdown
    <3>2. Silent
      BY <1>2, <2>2 DEF ListenerType, Quietly
    <3> QED BY <1>6, <3>1, <3>2
  <2> QED BY <1>6, <2>1, <2>2 DEF Join
<1>7. CASE /\ main.pc = "repl" /\ term.pc = "out"
           /\ main' = [pc |-> IF main.again THEN "done" ELSE "halt", again |-> TRUE]
           /\ UNCHANGED <<term, cancel, listener, crashed>>
  <2>1. main' \in [pc : {"serving", "halt", "joining", "repl", "done"}, again : BOOLEAN] /\ main'.pc # "serving"
    BY <1>7
  <2>2. ThreadsOk'
    BY <1>1, <1>7, <2>1 DEF ThreadsOk, ListenerOk, JoinOk, EndIsTold, CrashNeedsShutdown
  <2>3. Silent
    BY <1>2, <1>7 DEF ListenerType, Quietly
  <2> QED BY <1>7, <2>2, <2>3
<1> QED BY <1>5, <1>6, <1>7 DEF stop

-----------------------------------------------------------------------------
(* The server's rows.  Whatever a request does, ids are never taken back and *)
(* what is gone stays gone.                                                  *)

RowsOk(R) ==
  /\ R \in [ws : [Workspaces -> Life], glob : [Globals -> Life],
            sess : Seq(Workspaces \union {None}), task : Seq(TaskStates), asks : SUBSET Nat]
  /\ R.asks \subseteq DOMAIN R.task

Later(R, Q) ==
  /\ RowsOk(Q)
  /\ DOMAIN R.sess \subseteq DOMAIN Q.sess /\ DOMAIN R.task \subseteq DOMAIN Q.task
  /\ \A w \in Workspaces : R.ws[w] = "gone" => Q.ws[w] = "gone"
  /\ \A g \in Globals : R.glob[g] = "gone" => Q.glob[g] = "gone"
  /\ \A s \in DOMAIN R.sess : R.sess[s] = None => Q.sess[s] = None

\* A request the server knows, which binds a session to no stranger.
Operations ==
  {"health", "tools", "experts", "list", "sessionsOf", "getGlobal", "createGlobal", "deleteGlobal",
   "getWorkspace", "getTree", "updateWorkspace", "createWorkspace", "deleteWorkspace",
   "getSession", "createSession", "updateSession", "deleteSession", "createTask", "getTask",
   "cancelTask", "deleteTask", "resolve", "approveFirst"}
Known(r) ==
  r.op \in Operations /\ (r.op = "updateSession" => r.ws \in Workspaces \union {None})

LEMMA LaterSelf ==
  ASSUME NEW R, RowsOk(R) PROVE Later(R, R)
BY DEF Later

\* An answer that leaves the rows alone, and what a refused one is.
LEMMA Plain ==
  /\ Refusal.rows = rows /\ Refusal.ok = FALSE /\ Refusal.heard = TRUE
  /\ \A id, ws : /\ Unchanged(id, ws).rows = rows /\ Unchanged(id, ws).ok = TRUE
                 /\ Unchanged(id, ws).heard = TRUE /\ Unchanged(id, ws).id = id
                 /\ Unchanged(id, ws).ws = ws
  /\ \A R, id, ws : /\ Answer(R, id, ws).rows = R /\ Answer(R, id, ws).ok = TRUE
                    /\ Answer(R, id, ws).heard = TRUE /\ Answer(R, id, ws).id = id
                    /\ Answer(R, id, ws).ws = ws
BY DEF Refusal, Unchanged, Answer

\* One field of the rows written.
LEMMA WriteWorkspace ==
  ASSUME RowsOk(rows), NEW w, NEW x \in Life, w \in Workspaces /\ rows.ws[w] = "gone" => x = "gone"
  PROVE  /\ Later(rows, [rows EXCEPT !.ws[w] = x])
         /\ w \in Workspaces => [rows EXCEPT !.ws[w] = x].ws[w] = x
BY DEF RowsOk, Later

LEMMA WriteGlobal ==
  ASSUME RowsOk(rows), NEW g, NEW x \in Life, g \in Globals /\ rows.glob[g] = "gone" => x = "gone"
  PROVE  /\ Later(rows, [rows EXCEPT !.glob[g] = x])
         /\ g \in Globals => [rows EXCEPT !.glob[g] = x].glob[g] = x
BY DEF RowsOk, Later

LEMMA WriteSession ==
  ASSUME RowsOk(rows), NEW s, NEW w \in Workspaces \union {None},
         s \in SessionIds /\ rows.sess[s] = None => w = None
  PROVE  /\ Later(rows, [rows EXCEPT !.sess[s] = w])
         /\ s \in SessionIds => [rows EXCEPT !.sess[s] = w].sess[s] = w
         /\ SessionIds \subseteq Nat \ {0}
<1>1. /\ rows.sess \in Seq(Workspaces \union {None})
      /\ [rows.sess EXCEPT ![s] = w] \in Seq(Workspaces \union {None})
      /\ DOMAIN [rows.sess EXCEPT ![s] = w] = DOMAIN rows.sess
      /\ SessionIds \subseteq Nat \ {0}
  <2>1. rows.sess \in Seq(Workspaces \union {None})
    BY DEF RowsOk
  <2>2. ASSUME NEW S, NEW q \in Seq(S), NEW x \in S
        PROVE  /\ [q EXCEPT ![s] = x] \in Seq(S) /\ DOMAIN [q EXCEPT ![s] = x] = DOMAIN q
               /\ DOMAIN q \subseteq Nat \ {0}
    <3>1. DOMAIN q = 1 .. Len(q) /\ Len(q) \in Nat /\ \A i \in 1 .. Len(q) : q[i] \in S
      OBVIOUS
    <3>2. [q EXCEPT ![s] = x] \in [1 .. Len(q) -> S]
      BY <3>1
    <3>3. [q EXCEPT ![s] = x] \in Seq(S)
      BY <3>1, <3>2
    <3> QED BY <3>1, <3>2, <3>3
  <2> QED BY <2>1, <2>2 DEF SessionIds
<1>2. [rows EXCEPT !.sess[s] = w] = [rows EXCEPT !.sess = [rows.sess EXCEPT ![s] = w]]
  BY DEF RowsOk
<1> QED BY <1>1, <1>2 DEF RowsOk, Later, SessionIds

LEMMA AddSession ==
  ASSUME RowsOk(rows), NEW w \in Workspaces
  PROVE  LET Q == [rows EXCEPT !.sess = Append(@, w)] IN
         /\ Later(rows, Q)
         /\ Len(rows.sess) + 1 \in DOMAIN Q.sess /\ Len(rows.sess) + 1 \notin SessionIds
         /\ Len(rows.sess) + 1 \in Nat \ {0} /\ Q.sess[Len(rows.sess) + 1] = w
<1> DEFINE q == Append(rows.sess, w)
<1>1. /\ rows.sess \in Seq(Workspaces \union {None}) /\ q \in Seq(Workspaces \union {None})
      /\ Len(rows.sess) \in Nat /\ DOMAIN rows.sess = 1 .. Len(rows.sess)
      /\ DOMAIN q = 1 .. Len(rows.sess) + 1 /\ q[Len(rows.sess) + 1] = w
      /\ \A i \in 1 .. Len(rows.sess) : q[i] = rows.sess[i]
  BY DEF RowsOk
<1> DEFINE Q == [rows EXCEPT !.sess = q]
<1>2. /\ Q.sess = q /\ Q.ws = rows.ws /\ Q.glob = rows.glob /\ Q.task = rows.task /\ Q.asks = rows.asks
      /\ q \in Seq(Workspaces \union {None}) => RowsOk(Q)
  <2> HIDE DEF q
  <2> QED BY DEF RowsOk
<1> HIDE DEF q, Q
<1>3. Later(rows, Q)
  BY <1>1, <1>2 DEF Later
<1>4. /\ Len(rows.sess) + 1 \in DOMAIN Q.sess /\ Len(rows.sess) + 1 \notin SessionIds
      /\ Len(rows.sess) + 1 \in Nat \ {0} /\ Q.sess[Len(rows.sess) + 1] = w
  BY <1>1, <1>2 DEF SessionIds
<1> QED BY <1>3, <1>4 DEF q, Q

LEMMA AddTask ==
  ASSUME RowsOk(rows)
  PROVE  LET Q == [rows EXCEPT !.task = Append(@, "running")] IN
         /\ Later(rows, Q)
         /\ Len(rows.task) + 1 \in DOMAIN Q.task /\ Len(rows.task) + 1 \in Nat \ {0}
<1> DEFINE q == Append(rows.task, "running")
<1>1. /\ rows.task \in Seq(TaskStates) /\ q \in Seq(TaskStates)
      /\ Len(rows.task) \in Nat /\ DOMAIN rows.task = 1 .. Len(rows.task)
      /\ DOMAIN q = 1 .. Len(rows.task) + 1 /\ rows.asks \subseteq DOMAIN rows.task
  BY DEF RowsOk, TaskStates
<1> DEFINE Q == [rows EXCEPT !.task = q]
<1>2. /\ Q.sess = rows.sess /\ Q.ws = rows.ws /\ Q.glob = rows.glob /\ Q.task = q /\ Q.asks = rows.asks
      /\ q \in Seq(TaskStates) /\ rows.asks \subseteq DOMAIN q => RowsOk(Q)
  <2> HIDE DEF q
  <2> QED BY DEF RowsOk
<1> HIDE DEF q, Q
<1>3. Later(rows, Q)
  BY <1>1, <1>2 DEF Later
<1>4. Len(rows.task) + 1 \in DOMAIN Q.task /\ Len(rows.task) + 1 \in Nat \ {0}
  BY <1>1, <1>2
<1> QED BY <1>3, <1>4 DEF q, Q

LEMMA WriteTask ==
  ASSUME RowsOk(rows), NEW t, NEW x \in TaskStates, NEW A, A \subseteq rows.asks \union {t}, t \in TaskIds
  PROVE  /\ Later(rows, [rows EXCEPT !.task[t] = x, !.asks = A])
         /\ Later(rows, [rows EXCEPT !.task[t] = x])
         /\ Later(rows, [rows EXCEPT !.asks = A])
<1>1. /\ rows.task \in Seq(TaskStates)
      /\ [rows.task EXCEPT ![t] = x] \in Seq(TaskStates)
      /\ DOMAIN [rows.task EXCEPT ![t] = x] = DOMAIN rows.task
      /\ DOMAIN rows.task \subseteq Nat /\ A \subseteq DOMAIN rows.task /\ A \in SUBSET Nat
  BY DEF RowsOk, TaskIds
<1>2. /\ [rows EXCEPT !.task[t] = x, !.asks = A] = [rows EXCEPT !.task = [rows.task EXCEPT ![t] = x], !.asks = A]
      /\ [rows EXCEPT !.task[t] = x] = [rows EXCEPT !.task = [rows.task EXCEPT ![t] = x]]
  BY DEF RowsOk
<1> DEFINE q == [rows.task EXCEPT ![t] = x]
<1> HIDE DEF q
<1>3. q \in Seq(TaskStates) /\ DOMAIN q = DOMAIN rows.task
  BY <1>1 DEF q
<1>4. Later(rows, [rows EXCEPT !.task = q, !.asks = A]) /\ Later(rows, [rows EXCEPT !.task = q])
      /\ Later(rows, [rows EXCEPT !.asks = A])
  BY <1>1, <1>3 DEF RowsOk, Later
<1> QED BY <1>2, <1>4 DEF q

\* Whatever a request it knows asks of it, the server answers, and its rows are later ones.
LEMMA Served ==
  ASSUME RowsOk(rows), NEW r, Known(r), r.op # "sessionsOf"
  PROVE  Later(rows, Serve(r).rows) /\ Serve(r).heard = TRUE
<1>1. Later(rows, rows)
  BY LaterSelf
<1>2. \A c \in BOOLEAN : \A a :
        Later(rows, a.rows) /\ a.heard = TRUE
          => Later(rows, If(c, a).rows) /\ If(c, a).heard = TRUE
  BY <1>1, Plain DEF If
<1>3. CASE r.op \in {"health", "tools", "experts"}
  BY <1>1, <1>3, Plain DEF Serve
<1>4. CASE r.op = "list"
  <2>1. Serve(r) = [Unchanged(None, None) EXCEPT !.empty = Listed(r.id) = {}]
    BY <1>4 DEF Serve
  <2>2. Serve(r).rows = rows /\ Serve(r).heard = TRUE
    BY <2>1 DEF Unchanged, Answer
  <2> QED BY <1>1, <2>2
<1>5. CASE r.op \in {"getGlobal", "getWorkspace", "getTree", "updateWorkspace", "getSession",
                    "getTask", "cancelTask"}
  <2>1. \E c \in BOOLEAN : \E id, ws : Serve(r) = If(c, Unchanged(id, ws))
    <3>1. CASE r.op = "getGlobal"
      BY <3>1 DEF Serve, GetGlobal
    <3>2. CASE r.op = "getWorkspace"
      BY <3>2 DEF Serve, GetWorkspace, LiveWorkspace
    <3>3. CASE r.op = "getTree"
      BY <3>3 DEF Serve, GetTree, LiveWorkspace
    <3>4. CASE r.op = "updateWorkspace"
      BY <3>4 DEF Serve, UpdateWorkspace, LiveWorkspace
    <3>5. CASE r.op = "getSession"
      BY <3>5 DEF Serve, GetSession, LiveSession
    <3>6. CASE r.op = "getTask"
      BY <3>6 DEF Serve, GetTask, LiveTask
    <3>7. CASE r.op = "cancelTask"
      BY <3>7 DEF Serve, CancelTask, LiveTask
    <3> QED BY <1>5, <3>1, <3>2, <3>3, <3>4, <3>5, <3>6, <3>7
  <2> QED BY <1>1, <1>2, <2>1, Plain
<1>6. CASE r.op = "createWorkspace"
  <2> DEFINE w == Fresh(rows.ws)
             Q == [rows EXCEPT !.ws[w] = "live"]
             c == \E x \in Workspaces : rows.ws[x] = "unborn"
  <2>1. Serve(r) = If(c, Answer(Q, w, w))
    BY <1>6 DEF Serve, CreateWorkspace
  <2>2. c => rows.ws[w] = "unborn"
    BY DEF Fresh, RowsOk
  <2>3. c => Later(rows, Q)
    <3> HIDE DEF w
    <3> QED BY <2>2, WriteWorkspace DEF Life
  <2> HIDE DEF w, Q, c
  <2> QED BY <1>1, <2>1, <2>3, Plain DEF If
<1>7. CASE r.op = "createGlobal"
  <2> DEFINE w == Fresh(rows.glob)
             Q == [rows EXCEPT !.glob[w] = "live"]
             c == \E x \in Globals : rows.glob[x] = "unborn"
  <2>1. Serve(r) = If(c, Answer(Q, w, None))
    BY <1>7 DEF Serve, CreateGlobal
  <2>2. c => rows.glob[w] = "unborn"
    BY DEF Fresh, RowsOk
  <2>3. c => Later(rows, Q)
    <3> HIDE DEF w
    <3> QED BY <2>2, WriteGlobal DEF Life
  <2> HIDE DEF w, Q, c
  <2> QED BY <1>1, <2>1, <2>3, Plain DEF If
<1>8. CASE r.op = "deleteGlobal"
  <2> DEFINE Q == [rows EXCEPT !.glob[r.id] = "gone"]
  <2>1. Serve(r) = Answer(Q, r.id, None)
    BY <1>8 DEF Serve, DeleteGlobal
  <2>2. Later(rows, Q)
    BY WriteGlobal DEF Life
  <2> HIDE DEF Q
  <2> QED BY <2>1, <2>2, Plain
<1>9. CASE r.op = "deleteWorkspace"
  <2> DEFINE Q == [rows EXCEPT !.ws[r.id] = "gone"]
  <2>1. Serve(r) = Answer(Q, r.id, None)
    BY <1>9 DEF Serve, DeleteWorkspace
  <2>2. Later(rows, Q)
    BY WriteWorkspace DEF Life
  <2> HIDE DEF Q
  <2> QED BY <2>1, <2>2, Plain
<1>10. CASE r.op = "createSession"
  <2> DEFINE Q == [rows EXCEPT !.sess = Append(@, r.ws)]
             c == r.ws # None /\ LiveWorkspace(r.ws) /\ Len(rows.sess) < MaxSessions
  <2>1. Serve(r) = If(c, Answer(Q, Len(rows.sess) + 1, r.ws))
    BY <1>10 DEF Serve, CreateSession
  <2>2. c => Later(rows, Q)
    BY AddSession DEF LiveWorkspace
  <2> HIDE DEF Q, c
  <2> QED BY <1>1, <2>1, <2>2, Plain DEF If
<1>11. CASE r.op = "updateSession"
  <2> DEFINE c == LiveSession(r.id)
             Q == [rows EXCEPT !.sess[r.id] = IF r.ws = None THEN @ ELSE r.ws]
             v == IF r.ws = None THEN rows.sess[r.id] ELSE r.ws
  <2>1. Serve(r) = If(c, Answer(Q, r.id, r.ws))
    BY <1>11 DEF Serve, UpdateSession
  <2>2. c => v \in Workspaces \union {None} /\ rows.sess[r.id] # None
    BY <1>11 DEF LiveSession, Known, RowsOk, SessionIds
  <2>3. Q = [rows EXCEPT !.sess[r.id] = v]
    OBVIOUS
  <2>4. c => Later(rows, Q)
    <3> HIDE DEF v, Q
    <3> QED BY <2>2, <2>3, WriteSession
  <2> HIDE DEF Q, c
  <2> QED BY <1>1, <2>1, <2>4, Plain DEF If
<1>12. CASE r.op = "deleteSession"
  <2> DEFINE Q == [rows EXCEPT !.sess[r.id] = None]
  <2>1. Serve(r) = Answer(Q, r.id, None)
    BY <1>12 DEF Serve, DeleteSession
  <2>2. Later(rows, Q)
    BY WriteSession
  <2> HIDE DEF Q
  <2> QED BY <2>1, <2>2, Plain
<1>13. CASE r.op = "createTask"
  <2> DEFINE Q == [rows EXCEPT !.task = Append(@, "running")]
  <2>1. \E c \in BOOLEAN : Serve(r) = If(c, Answer(Q, Len(rows.task) + 1, None))
    BY <1>13 DEF Serve, CreateTask
  <2>2. Later(rows, Q)
    BY AddTask
  <2> HIDE DEF Q
  <2> QED BY <1>1, <2>1, <2>2, Plain DEF If
<1>14. CASE r.op = "deleteTask"
  <2> DEFINE Q == [rows EXCEPT !.task[r.id] = "gone", !.asks = @ \ {r.id}]
             c == LiveTask(r.id) /\ rows.task[r.id] # "running"
  <2>1. Serve(r) = If(c, Answer(Q, r.id, None))
    BY <1>14 DEF Serve, DeleteTask
  <2>2. c => Later(rows, Q)
    <3>1. rows.asks \ {r.id} \subseteq rows.asks \union {r.id} /\ "gone" \in TaskStates
          /\ Q = [rows EXCEPT !.task[r.id] = "gone", !.asks = rows.asks \ {r.id}]
      BY DEF TaskStates
    <3> HIDE DEF Q
    <3> QED BY <3>1, WriteTask DEF LiveTask
  <2> HIDE DEF Q, c
  <2> QED BY <1>1, <2>1, <2>2, Plain DEF If
<1>15. ASSUME NEW t
       PROVE  Later(rows, Resolve(t).rows) /\ Resolve(t).heard = TRUE
  <2> DEFINE Q == [rows EXCEPT !.asks = @ \ {t}]
             c == t \in rows.asks
  <2>1. Resolve(t) = If(c, Answer(Q, t, None))
    BY DEF Resolve
  <2>2. c => Later(rows, Q)
    <3>1. rows.asks \ {t} \subseteq rows.asks \union {t} /\ "gone" \in TaskStates
          /\ Q = [rows EXCEPT !.asks = rows.asks \ {t}] /\ (c => t \in TaskIds)
      BY DEF TaskStates, RowsOk, TaskIds
    <3> HIDE DEF Q
    <3> QED BY <3>1, WriteTask
  <2> HIDE DEF Q, c
  <2> QED BY <1>1, <2>1, <2>2, Plain DEF If
<1>16. CASE r.op = "resolve"
  BY <1>15, <1>16 DEF Serve
<1>17. CASE r.op = "approveFirst"
  <2> DEFINE first == CHOOSE t \in rows.asks : \A u \in rows.asks : t <= u
  <2>1. Serve(r) = If(rows.asks # {}, Resolve(first))
    BY <1>17 DEF Serve, ApproveFirst
  <2> HIDE DEF first
  <2> QED BY <1>2, <1>15, <2>1
<1> QED BY <1>3, <1>4, <1>5, <1>6, <1>7, <1>8, <1>9, <1>10, <1>11, <1>12, <1>13, <1>14, <1>16, <1>17
        DEF Known, Operations

-----------------------------------------------------------------------------
(* The client.  What it remembers are ids that the server gave it, and none  *)
(* of which it was told that it is deleted; what it was told is so.          *)

IdsOk(t, R, T) ==
  /\ TermOk(t, R)
  /\ t.sess \notin T.sess
  /\ t.ws \in T.ws => kind = "cli" /\ \E g \in Globals : Linked[g] = t.ws
  /\ t.glob \in T.glob => t.glob = DefaultGlobal

\* What a command under way has in hand.
PlaceOk(t, R) ==
  /\ t.pc \in {"boot", "ready", "restore", "out"} => t.arg = None
  /\ t.pc \in {"halt", "joining"} => t.arg \in DOMAIN R.task \union {None}
  /\ t.pc \in {"clear", "spawn"} => t.arg \in DOMAIN R.task /\ t.arg # None
  /\ t.pc = "bind" => t.arg \in DOMAIN R.sess
  /\ t.pc \in {"bind", "restore"} => t.ws \in Workspaces

ToldOk(T, R) ==
  /\ T \in [ws : SUBSET Workspaces, sess : SUBSET DOMAIN R.sess, glob : SUBSET Globals]
  /\ \A w \in T.ws : R.ws[w] = "gone"
  /\ \A s \in T.sess : R.sess[s] = None
  /\ \A g \in T.glob : R.glob[g] = "gone"

LateOk == late = NoRequest \/ Known(late)

ClientOk ==
  /\ kind \in {"cli", "console"} /\ server \in {"up", "stopping", "down"}
  /\ RowsOk(rows) /\ ToldOk(told, rows) /\ LateOk
  /\ IdsOk(term, rows, told) /\ PlaceOk(term, rows)
  /\ misread \subseteq Lists /\ EmptyIsAnAnswer

TerminalInv == ClientOk /\ ThreadsOk

\* A task it is told of is one of its own workspace's.
AtHome ==
  Len(rows'.task) > Len(rows.task) /\ term.pc = "ready" /\ term'.pc = "halt"
     => LiveWorkspace(term.ws) /\ LiveSession(term.sess) /\ rows.sess[term.sess] = term.ws

\* Rows come later and nothing else changes.
LEMMA LaterKeeps ==
  ASSUME NEW R, NEW Q, RowsOk(R), Later(R, Q), NEW T, ToldOk(T, R)
  PROVE  /\ ToldOk(T, Q)
         /\ \A t : IdsOk(t, R, T) => IdsOk(t, Q, T)
         /\ \A t : PlaceOk(t, R) => PlaceOk(t, Q)
<1>1. ToldOk(T, Q)
  BY DEF ToldOk, Later
<1>2. \A t : IdsOk(t, R, T) => IdsOk(t, Q, T)
  <2> SUFFICES ASSUME NEW t, IdsOk(t, R, T) PROVE IdsOk(t, Q, T)
    OBVIOUS
  <2>1. t.sess \in DOMAIN Q.sess \union {None}
    BY DEF IdsOk, TermOk, Later
  <2> QED BY <2>1 DEF IdsOk, TermOk
<1>3. \A t : PlaceOk(t, R) => PlaceOk(t, Q)
  BY DEF PlaceOk, Later
<1> QED BY <1>1, <1>2, <1>3

\* A step that leaves the threads alone.
LEMMA ClientMoves ==
  ASSUME TerminalInv, Later(rows, rows'), LateOk', UNCHANGED kind, UNCHANGED thread,
         server' \in {"up", "stopping", "down"}, ToldOk(told', rows'),
         IdsOk(term', rows', told'), PlaceOk(term', rows'),
         misread' \subseteq Lists, EmptyIsAnAnswer',
         term'.pc \notin {"clear", "spawn", "joining"} \/ term'.pc = term.pc
  PROVE  TerminalInv' /\ Silent
<1>1. DOMAIN rows.task \subseteq DOMAIN rows'.task /\ RowsOk(rows')
  BY DEF Later
<1>2. ThreadsOk'
  BY <1>1, ThreadsKept DEF TerminalInv, thread
<1>3. ClientOk'
  BY <1>1 DEF TerminalInv, ClientOk, IdsOk, TermOk
<1>4. listener' = listener /\ listener \in ListenerType
  BY DEF thread, TerminalInv, ThreadsOk, ListenerOk
<1>5. Silent
  BY <1>4 DEF Silent, ListenerType, Quietly
<1> QED BY <1>2, <1>3, <1>5 DEF TerminalInv

\* The request and its answer, whether it comes or not.
LEMMA Asked ==
  ASSUME TerminalInv, NEW r, Known(r), NEW a \in Outcomes(r), Asks(r, a)
  PROVE  /\ Later(rows, rows') /\ LateOk' /\ ToldOk(told, rows')
         /\ \A t : IdsOk(t, rows, told) => IdsOk(t, rows', told)
         /\ UNCHANGED kind /\ UNCHANGED thread /\ UNCHANGED server
         /\ \/ a.heard = TRUE /\ a \in Answers(r) /\ rows' = a.rows
            \/ /\ a.heard = FALSE /\ rows' = rows
               /\ a.ok = TRUE => /\ kind = "cli" /\ r.op = "list"
                                 /\ r.id \in {"tasks", "active", "history"}
               /\ a.ok \in BOOLEAN
<1>1. /\ Unheard(r).heard = FALSE /\ Unheard(r).ok \in BOOLEAN
      /\ Unheard(r).ok = TRUE => /\ kind = "cli" /\ r.op = "list"
                                 /\ r.id \in {"tasks", "active", "history"}
  BY DEF Unheard, WrapError, Refusal
<1>2. \A b \in Answers(r) : b.heard = TRUE /\ Later(rows, b.rows)
  <2>1. CASE r.op # "sessionsOf"
    BY <2>1, Served DEF Answers, TerminalInv, ClientOk
  <2>2. CASE r.op = "sessionsOf"
    <3>1. \A b \in Answers(r) : \E s : b = Unchanged(s, r.id)
      BY <2>2 DEF Answers
    <3> QED BY <3>1, Plain, LaterSelf DEF TerminalInv, ClientOk
  <2> QED BY <2>1, <2>2
<1>3. UNCHANGED kind /\ UNCHANGED thread /\ UNCHANGED server
  BY DEF Asks
<1>4. a \in Answers(r) \/ a = Unheard(r)
  BY DEF Outcomes
<1>5. CASE Replied(a)
  <2>1. a.heard = TRUE /\ a \in Answers(r) /\ rows' = a.rows /\ late' = late
    BY <1>1, <1>2, <1>4, <1>5 DEF Replied
  <2>2. Later(rows, rows') /\ LateOk'
    BY <1>2, <2>1 DEF LateOk, TerminalInv, ClientOk, Known
  <2> QED BY <1>3, <2>1, <2>2, LaterKeeps DEF TerminalInv, ClientOk
<1>6. CASE TimesOut(r, a)
  <2>1. a = Unheard(r) /\ rows' = rows
    BY <1>2, <1>4, <1>6 DEF TimesOut
  <2>2. late' \in {late, NoRequest, r}
    BY <1>6 DEF TimesOut
  <2>3. LateOk'
    BY <2>2 DEF LateOk, TerminalInv, ClientOk, Known
  <2>4. Later(rows, rows')
    BY <2>1, LaterSelf DEF TerminalInv, ClientOk
  <2> QED BY <1>1, <1>3, <2>1, <2>3, <2>4 DEF TerminalInv, ClientOk
<1> QED BY <1>5, <1>6 DEF Asks

\* Back to the prompt.
LEMMA GoesBack ==
  ASSUME NEW t, NEW R, NEW T, IdsOk(t, R, T)
  PROVE  /\ IdsOk(Back(t), R, T) /\ PlaceOk(Back(t), R)
         /\ Back(t).pc \in {"ready", "out"}
<1> DEFINE p == IF t.running THEN "ready" ELSE "out"
<1>1. Back(t) = [t EXCEPT !.pc = p, !.arg = None] /\ p \in {"ready", "out"}
  BY DEF Back
<1> HIDE DEF p
<1>2. /\ Back(t) \in [pc : Places, glob : Globals, ws : Workspaces \union {None, DefaultWorkspace},
                      sess : DOMAIN R.sess \union {None}, arg : Nat, running : BOOLEAN]
      /\ Back(t).pc = p /\ Back(t).arg = None /\ Back(t).sess = t.sess
      /\ Back(t).ws = t.ws /\ Back(t).glob = t.glob
  <2> DEFINE W == Workspaces \union {None, DefaultWorkspace}
             S == DOMAIN R.sess \union {None}
  <2>1. t \in [pc : Places, glob : Globals, ws : W, sess : S, arg : Nat, running : BOOLEAN]
    BY DEF IdsOk, TermOk
  <2>2. p \in Places /\ None \in Nat
    BY <1>1 DEF Places, None
  <2> HIDE DEF W, S
  <2>3. /\ Back(t) \in [pc : Places, glob : Globals, ws : W, sess : S, arg : Nat, running : BOOLEAN]
        /\ Back(t).pc = p /\ Back(t).arg = None /\ Back(t).sess = t.sess
        /\ Back(t).ws = t.ws /\ Back(t).glob = t.glob
    BY <1>1, <2>1, <2>2
  <2> QED BY <2>3 DEF W, S
<1> QED BY <1>1, <1>2 DEF IdsOk, TermOk, PlaceOk

\* A request without a workspace of its own.
LEMMA CallIsKnown ==
  ASSUME NEW op \in Operations, NEW id
  PROVE  /\ Known(Call(op, id)) /\ Call(op, id).op = op /\ Call(op, id).id = id
         /\ Call(op, id).ws = None
BY DEF Known, Call, NoRequest

\* A command that ends with these ids in memory, and has heard nothing.
LEMMA GoesOk ==
  ASSUME TerminalInv, NEW r, Known(r), NEW a \in Outcomes(r), Asks(r, a),
         NEW t, IdsOk(t, rows', told), Goes(t)
  PROVE  TerminalInv' /\ Silent /\ AtHome
<1>1. term' = Back(t) /\ UNCHANGED <<told, misread>>
  BY DEF Goes
<1>2. IdsOk(term', rows', told') /\ PlaceOk(term', rows') /\ term'.pc \in {"ready", "out"}
  BY <1>1, GoesBack
<1>3. /\ Later(rows, rows') /\ LateOk' /\ ToldOk(told', rows')
      /\ UNCHANGED kind /\ UNCHANGED thread /\ UNCHANGED server
  BY <1>1, Asked
<1>4. misread' \subseteq Lists /\ EmptyIsAnAnswer' /\ server' \in {"up", "stopping", "down"}
  BY <1>1, <1>3 DEF TerminalInv, ClientOk, EmptyIsAnAnswer
<1>5. TerminalInv' /\ Silent
  BY <1>2, <1>3, <1>4, ClientMoves
<1> QED BY <1>2, <1>5 DEF AtHome

\* The same, when it has.
LEMMA LearnsOk ==
  ASSUME TerminalInv, NEW r, Known(r), NEW a \in Outcomes(r), Asks(r, a), NEW table, NEW t,
         Learns(a, table, t), IdsOk(t, rows', told'), ToldOk(told', rows')
  PROVE  TerminalInv' /\ Silent /\ AtHome
<1>1. term' = Back(t) /\ UNCHANGED misread
  BY DEF Learns
<1>2. IdsOk(term', rows', told') /\ PlaceOk(term', rows') /\ term'.pc \in {"ready", "out"}
  BY <1>1, GoesBack
<1>3. Later(rows, rows') /\ LateOk' /\ UNCHANGED kind /\ UNCHANGED thread /\ UNCHANGED server
  BY Asked
<1>4. misread' \subseteq Lists /\ EmptyIsAnAnswer' /\ server' \in {"up", "stopping", "down"}
  BY <1>1, <1>3 DEF TerminalInv, ClientOk, EmptyIsAnAnswer
<1>5. TerminalInv' /\ Silent
  BY <1>2, <1>3, <1>4, ClientMoves
<1> QED BY <1>2, <1>5 DEF AtHome

LEMMA SendsOk ==
  ASSUME TerminalInv, NEW r, Known(r), Sends(r)
  PROVE  TerminalInv' /\ Silent /\ AtHome
<1>1. PICK a \in Outcomes(r) : Asks(r, a) /\ Goes(term)
  BY DEF Sends
<1>2. IdsOk(term, rows', told)
  BY <1>1, Asked DEF TerminalInv, ClientOk
<1> QED BY <1>1, <1>2, GoesOk

LEMMA LookOk ==
  ASSUME TerminalInv, NEW k, NEW l \in Lists, Look(k, l)
  PROVE  TerminalInv' /\ Silent /\ AtHome
<1> DEFINE r == Call("list", l)
<1>1. Known(r) /\ r.id = l
  BY CallIsKnown DEF Operations
<1>2. PICK a \in Outcomes(r) :
        /\ Asks(r, a)
        /\ misread' = IF a.ok /\ a.empty /\ ~a.heard THEN misread \union {l} ELSE misread
        /\ term' = Back(term) /\ UNCHANGED told
  BY DEF Look
<1> HIDE DEF r
<1>3. /\ Later(rows, rows') /\ LateOk' /\ ToldOk(told', rows') /\ IdsOk(term, rows', told')
      /\ UNCHANGED kind /\ UNCHANGED thread /\ UNCHANGED server
      /\ a.heard = TRUE \/ (a.ok = TRUE => kind = "cli" /\ l \in {"tasks", "active", "history"})
  BY <1>1, <1>2, Asked DEF TerminalInv, ClientOk
<1>4. \/ misread' = misread
      \/ misread' = misread \union {l} /\ kind = "cli" /\ l \in {"tasks", "active", "history"}
  <2>1. a.ok \in BOOLEAN \/ a.heard = TRUE
    BY <1>1, <1>2, Asked
  <2> QED BY <1>2, <1>3, <2>1
<1>5. misread' \subseteq Lists /\ EmptyIsAnAnswer'
  BY <1>3, <1>4 DEF TerminalInv, ClientOk, EmptyIsAnAnswer
<1>6. IdsOk(term', rows', told') /\ PlaceOk(term', rows') /\ term'.pc \in {"ready", "out"}
  BY <1>2, <1>3, GoesBack
<1>7. server' \in {"up", "stopping", "down"}
  BY <1>3 DEF TerminalInv, ClientOk
<1>8. TerminalInv' /\ Silent
  BY <1>3, <1>5, <1>6, <1>7, ClientMoves
<1> QED BY <1>6, <1>8 DEF AtHome

\* What a client remembers, changed in some of its parts.
Now(t, g, w, s, p, n) == [t EXCEPT !.glob = g, !.ws = w, !.sess = s, !.pc = p, !.arg = n]

LEMMA Remembers ==
  ASSUME NEW t, NEW R, NEW T, NEW T0, IdsOk(t, R, T0),
         NEW g \in Globals, NEW w \in Workspaces \union {None, DefaultWorkspace},
         NEW s \in DOMAIN R.sess \union {None}, NEW p \in Places, NEW n \in Nat,
         s \notin T.sess, w \in T.ws => kind = "cli" /\ \E h \in Globals : Linked[h] = w,
         g \in T.glob => g = DefaultGlobal
  PROVE  /\ IdsOk(Now(t, g, w, s, p, n), R, T)
         /\ Now(t, g, w, s, p, n).pc = p /\ Now(t, g, w, s, p, n).arg = n
         /\ Now(t, g, w, s, p, n).ws = w
<1> DEFINE W == Workspaces \union {None, DefaultWorkspace}
           S == DOMAIN R.sess \union {None}
           u == Now(t, g, w, s, p, n)
<1>1. /\ t \in [pc : Places, glob : Globals, ws : W, sess : S, arg : Nat, running : BOOLEAN]
      /\ w \in W /\ s \in S
  BY DEF IdsOk, TermOk
<1> HIDE DEF W, S
<1>2. /\ u \in [pc : Places, glob : Globals, ws : W, sess : S, arg : Nat, running : BOOLEAN]
      /\ u.pc = p /\ u.arg = n /\ u.ws = w /\ u.glob = g /\ u.sess = s
  BY <1>1 DEF Now
<1> HIDE DEF u
<1>3. IdsOk(u, R, T)
  BY <1>2 DEF IdsOk, TermOk, W, S
<1> QED BY <1>2, <1>3 DEF u

LEMMA Forms ==
  ASSUME NEW t, NEW R, NEW T, IdsOk(t, R, T), NEW g, NEW w, NEW s, NEW p, NEW n
  PROVE  /\ t = Now(t, t.glob, t.ws, t.sess, t.pc, t.arg)
         /\ [t EXCEPT !.glob = g] = Now(t, g, t.ws, t.sess, t.pc, t.arg)
         /\ [t EXCEPT !.glob = g, !.ws = w, !.sess = s] = Now(t, g, w, s, t.pc, t.arg)
         /\ [t EXCEPT !.ws = w, !.sess = s] = Now(t, t.glob, w, s, t.pc, t.arg)
         /\ [t EXCEPT !.sess = s] = Now(t, t.glob, t.ws, s, t.pc, t.arg)
         /\ [t EXCEPT !.ws = w] = Now(t, t.glob, w, t.sess, t.pc, t.arg)
         /\ [t EXCEPT !.ws = w, !.pc = p] = Now(t, t.glob, w, t.sess, p, t.arg)
         /\ [t EXCEPT !.pc = p, !.arg = n] = Now(t, t.glob, t.ws, t.sess, p, n)
         /\ [t EXCEPT !.sess = s, !.pc = p, !.arg = n] = Now(t, t.glob, t.ws, s, p, n)
         /\ [t EXCEPT !.pc = p] = Now(t, t.glob, t.ws, t.sess, p, t.arg)
<1> DEFINE W == Workspaces \union {None, DefaultWorkspace}
           S == DOMAIN R.sess \union {None}
<1>1. t \in [pc : Places, glob : Globals, ws : W, sess : S, arg : Nat, running : BOOLEAN]
  BY DEF IdsOk, TermOk
<1> HIDE DEF W, S
<1> QED BY <1>1 DEF Now

\* Its parts, as they are.
LEMMA HasIds ==
  ASSUME NEW t, NEW R, NEW T, IdsOk(t, R, T)
  PROVE  /\ t.glob \in Globals /\ t.ws \in Workspaces \union {None, DefaultWorkspace}
         /\ t.sess \in DOMAIN R.sess \union {None} /\ t.pc \in Places /\ t.arg \in Nat
         /\ t.running \in BOOLEAN
         /\ t.sess \notin T.sess
         /\ t.ws \in T.ws => kind = "cli" /\ \E g \in Globals : Linked[g] = t.ws
         /\ t.glob \in T.glob => t.glob = DefaultGlobal
BY DEF IdsOk, TermOk

\* What the client is told when a deletion is answered.
LEMMA Tells ==
  ASSUME NEW T, NEW R, ToldOk(T, R)
  PROVE  /\ \A w \in Workspaces : R.ws[w] = "gone" => ToldOk([T EXCEPT !.ws = @ \union {w}], R)
         /\ \A s \in DOMAIN R.sess : R.sess[s] = None => ToldOk([T EXCEPT !.sess = @ \union {s}], R)
         /\ \A g \in Globals : R.glob[g] = "gone" => ToldOk([T EXCEPT !.glob = @ \union {g}], R)
<1> DEFINE D == DOMAIN R.sess
<1>1. T \in [ws : SUBSET Workspaces, sess : SUBSET D, glob : SUBSET Globals]
  BY DEF ToldOk
<1> HIDE DEF D
<1>2. ASSUME NEW w \in Workspaces, R.ws[w] = "gone" PROVE ToldOk([T EXCEPT !.ws = @ \union {w}], R)
  <2> DEFINE U == [T EXCEPT !.ws = @ \union {w}]
  <2>1. /\ U \in [ws : SUBSET Workspaces, sess : SUBSET D, glob : SUBSET Globals]
        /\ U.ws = T.ws \union {w} /\ U.sess = T.sess /\ U.glob = T.glob
    BY <1>1
  <2> HIDE DEF U
  <2>2. ToldOk(U, R)
    BY <1>2, <2>1 DEF ToldOk, D
  <2> QED BY <2>2 DEF U
<1>3. ASSUME NEW s \in DOMAIN R.sess, R.sess[s] = None PROVE ToldOk([T EXCEPT !.sess = @ \union {s}], R)
  <2> DEFINE U == [T EXCEPT !.sess = @ \union {s}]
  <2>1. /\ U \in [ws : SUBSET Workspaces, sess : SUBSET D, glob : SUBSET Globals]
        /\ U.sess = T.sess \union {s} /\ U.ws = T.ws /\ U.glob = T.glob
    BY <1>1, <1>3 DEF D
  <2> HIDE DEF U
  <2>2. ToldOk(U, R)
    BY <1>3, <2>1 DEF ToldOk, D
  <2> QED BY <2>2 DEF U
<1>4. ASSUME NEW g \in Globals, R.glob[g] = "gone" PROVE ToldOk([T EXCEPT !.glob = @ \union {g}], R)
  <2> DEFINE U == [T EXCEPT !.glob = @ \union {g}]
  <2>1. /\ U \in [ws : SUBSET Workspaces, sess : SUBSET D, glob : SUBSET Globals]
        /\ U.glob = T.glob \union {g} /\ U.ws = T.ws /\ U.sess = T.sess
    BY <1>1
  <2> HIDE DEF U
  <2>2. ToldOk(U, R)
    BY <1>4, <2>1 DEF ToldOk, D
  <2> QED BY <2>2 DEF U
<1> QED BY <1>2, <1>3, <1>4

-----------------------------------------------------------------------------
(* The answers the commands act on.                                          *)

LEMMA FoundGlobal ==
  ASSUME NEW g, NEW a \in Answers(Call("getGlobal", g)), a.ok
  PROVE  g \in Globals /\ rows.glob[g] = "live" /\ a.ws = Linked[g]
<1>1. a = GetGlobal(g)
  BY CallIsKnown DEF Answers, Serve, Operations
<1> QED BY <1>1, Plain DEF GetGlobal, If

LEMMA FoundWorkspace ==
  ASSUME NEW w, NEW a \in Answers(Call("getWorkspace", w)), a.ok
  PROVE  w \in Workspaces /\ rows.ws[w] = "live"
<1>1. a = GetWorkspace(w)
  BY CallIsKnown DEF Answers, Serve, Operations
<1> QED BY <1>1, Plain DEF GetWorkspace, If, LiveWorkspace

LEMMA FoundSession ==
  ASSUME NEW s, NEW a \in Answers(Call("getSession", s)), a.ok
  PROVE  s \in SessionIds /\ rows.sess[s] # None
<1>1. a = GetSession(s)
  BY CallIsKnown DEF Answers, Serve, Operations
<1> QED BY <1>1, Plain DEF GetSession, If, LiveSession

LEMMA DeletedGlobal ==
  ASSUME RowsOk(rows), NEW g \in Globals, NEW a \in Answers(Call("deleteGlobal", g))
  PROVE  a.id = g /\ a.rows.glob[g] = "gone"
<1> DEFINE Q == [rows EXCEPT !.glob[g] = "gone"]
<1>1. a = Answer(Q, g, None)
  BY CallIsKnown DEF Answers, Serve, Operations, DeleteGlobal
<1>2. Q.glob[g] = "gone"
  BY WriteGlobal DEF Life
<1> HIDE DEF Q
<1> QED BY <1>1, <1>2, Plain

LEMMA DeletedWorkspace ==
  ASSUME RowsOk(rows), NEW w \in Workspaces, NEW a \in Answers(Call("deleteWorkspace", w))
  PROVE  a.id = w /\ a.rows.ws[w] = "gone"
<1> DEFINE Q == [rows EXCEPT !.ws[w] = "gone"]
<1>1. a = Answer(Q, w, None)
  BY CallIsKnown DEF Answers, Serve, Operations, DeleteWorkspace
<1>2. Q.ws[w] = "gone"
  BY WriteWorkspace DEF Life
<1> HIDE DEF Q
<1> QED BY <1>1, <1>2, Plain

LEMMA DeletedSession ==
  ASSUME RowsOk(rows), NEW s \in SessionIds, NEW a \in Answers(Call("deleteSession", s))
  PROVE  a.id = s /\ a.rows.sess[s] = None
<1> DEFINE Q == [rows EXCEPT !.sess[s] = None]
<1>1. a = Answer(Q, s, None)
  BY CallIsKnown DEF Answers, Serve, Operations, DeleteSession
<1>2. Q.sess[s] = None
  BY WriteSession
<1> HIDE DEF Q
<1> QED BY <1>1, <1>2, Plain

LEMMA NewSession ==
  ASSUME RowsOk(rows), NEW r, r.op = "createSession", NEW a \in Answers(r), a.ok
  PROVE  /\ r.ws \in Workspaces /\ a.id \in DOMAIN a.rows.sess /\ a.id \notin SessionIds
         /\ a.id \in Nat /\ a.id # None
<1> DEFINE w == r.ws
<1>1. a = CreateSession(w)
  BY DEF Answers, Serve
<1>2. /\ w # None /\ LiveWorkspace(w)
      /\ a = Answer([rows EXCEPT !.sess = Append(@, w)], Len(rows.sess) + 1, w)
  BY <1>1, Plain DEF CreateSession, If
<1> DEFINE Q == [rows EXCEPT !.sess = Append(@, w)]
           n == Len(rows.sess) + 1
<1>3. w \in Workspaces
  BY <1>2 DEF LiveWorkspace
<1>4. n \in DOMAIN Q.sess /\ n \notin SessionIds /\ n \in Nat \ {0}
  BY <1>3, AddSession
<1> HIDE DEF Q, n
<1>5. a = Answer(Q, n, w)
  BY <1>2 DEF Q, n
<1> QED BY <1>3, <1>4, <1>5, Plain DEF None

LEMMA NewTask ==
  ASSUME RowsOk(rows), NEW w, NEW s, NEW g,
         NEW a \in Answers([Call("createTask", None) EXCEPT !.ws = w, !.sess = s, !.glob = g]), a.ok
  PROVE  /\ a.id \in DOMAIN a.rows.task /\ a.id \in Nat
         /\ LiveWorkspace(w) /\ LiveSession(s) /\ rows.sess[s] = w
<1> DEFINE r == [Call("createTask", None) EXCEPT !.ws = w, !.sess = s, !.glob = g]
<1>1. r.op = "createTask" /\ r.ws = w /\ r.sess = s /\ r.glob = g
  BY DEF Call, NoRequest
<1>2. a = CreateTask(r)
  <2> HIDE DEF r
  <2>1. a \in Answers(r)
    BY DEF r
  <2> QED BY <1>1, <2>1 DEF Answers, Serve
<1> HIDE DEF r
<1>3. /\ LiveWorkspace(w) /\ LiveSession(s) /\ rows.sess[s] = w
      /\ a = Answer([rows EXCEPT !.task = Append(@, "running")], Len(rows.task) + 1, None)
  BY <1>1, <1>2, Plain DEF CreateTask, If
<1> DEFINE Q == [rows EXCEPT !.task = Append(@, "running")]
           n == Len(rows.task) + 1
<1>4. n \in DOMAIN Q.task /\ n \in Nat \ {0}
  BY AddTask
<1> HIDE DEF Q, n
<1>5. a = Answer(Q, n, None)
  BY <1>3 DEF Q, n
<1> QED BY <1>3, <1>4, <1>5, Plain

LEMMA Bound ==
  ASSUME NEW s, NEW w, NEW a \in Answers([Call("updateSession", s) EXCEPT !.ws = w]), a.ok
  PROVE  s \in SessionIds /\ rows.sess[s] # None
<1> DEFINE r == [Call("updateSession", s) EXCEPT !.ws = w]
<1>1. r.op = "updateSession" /\ r.ws = w /\ r.id = s
  BY DEF Call, NoRequest
<1>2. a = UpdateSession(s, w)
  <2> HIDE DEF r
  <2>1. a \in Answers(r)
    BY DEF r
  <2> QED BY <1>1, <2>1 DEF Answers, Serve
<1> QED BY <1>2, Plain DEF UpdateSession, If, LiveSession

LEMMA Newest ==
  ASSUME NEW w \in Workspaces, w # None, NEW a \in Answers(Call("sessionsOf", w)), a.id # None
  PROVE  a.id \in SessionIds /\ rows.sess[a.id] # None
<1>1. a \in {Unchanged(None, w)} \/ a \in {Unchanged(s, w) : s \in SessionsOf(w)}
  BY CallIsKnown DEF Answers, Operations
<1> QED BY <1>1, Plain DEF SessionsOf

\* An answer that grants something was heard, but for a list.
LEMMA Heard ==
  ASSUME TerminalInv, NEW r, Known(r), r.op # "list", NEW a \in Outcomes(r), Asks(r, a), a.ok
  PROVE  a \in Answers(r) /\ rows' = a.rows
BY Asked

\* What it was told of is none of what is there, nor of what stands for nothing.
LEMMA Strangers ==
  ASSUME TerminalInv
  PROVE  /\ None \notin told.ws /\ DefaultWorkspace \notin told.ws /\ None \notin told.sess
         /\ told.sess \subseteq SessionIds /\ told.ws \subseteq Workspaces
         /\ told.glob \subseteq Globals
         /\ \A w \in Workspaces : rows.ws[w] = "live" => w \notin told.ws
         /\ \A g \in Globals : rows.glob[g] = "live" => g \notin told.glob
         /\ \A s \in SessionIds : rows.sess[s] # None => s \notin told.sess
         /\ SessionIds \subseteq Nat \ {None}
<1>1. ToldOk(told, rows) /\ RowsOk(rows)
  BY DEF TerminalInv, ClientOk
<1>2. SessionIds \subseteq Nat \ {None}
  <2>1. rows.sess \in Seq(Workspaces \union {None})
    BY <1>1 DEF RowsOk
  <2> QED BY <2>1 DEF SessionIds, None
<1> QED BY <1>1, <1>2, ConstantsAssumption DEF ToldOk, SessionIds

\* The ids it remembers, whatever it has asked for.
LEMMA StillHas ==
  ASSUME TerminalInv, NEW r, Known(r), NEW a \in Outcomes(r), Asks(r, a)
  PROVE  /\ IdsOk(term, rows', told) /\ ToldOk(told, rows') /\ RowsOk(rows')
         /\ SessionIds \subseteq DOMAIN rows'.sess
BY Asked DEF TerminalInv, ClientOk, Later, SessionIds

\* One of them replaced, or two.
LEMMA Replaces ==
  ASSUME TerminalInv, NEW R, IdsOk(term, R, told), NEW T
  PROVE  /\ \A g \in Globals : (g \in T.glob => g = DefaultGlobal) /\ T.ws = told.ws /\ T.sess = told.sess
              => IdsOk([term EXCEPT !.glob = g], R, T)
         /\ \A s \in DOMAIN R.sess \union {None} : s \notin T.sess /\ T.ws = told.ws /\ T.glob = told.glob
              => IdsOk([term EXCEPT !.sess = s], R, T)
         /\ \A w \in Workspaces \union {None}, s \in DOMAIN R.sess \union {None} :
              /\ w \in T.ws => kind = "cli" /\ \E h \in Globals : Linked[h] = w
              /\ s \notin T.sess /\ T.glob = told.glob
              => /\ IdsOk([term EXCEPT !.ws = w, !.sess = s], R, T)
                 /\ \A g \in Globals : (g \in T.glob => g = DefaultGlobal)
                      => IdsOk([term EXCEPT !.glob = g, !.ws = w, !.sess = s], R, T)
<1>1. \A g, w, s :
        /\ [term EXCEPT !.glob = g] = Now(term, g, term.ws, term.sess, term.pc, term.arg)
        /\ [term EXCEPT !.sess = s] = Now(term, term.glob, term.ws, s, term.pc, term.arg)
        /\ [term EXCEPT !.ws = w, !.sess = s] = Now(term, term.glob, w, s, term.pc, term.arg)
        /\ [term EXCEPT !.glob = g, !.ws = w, !.sess = s] = Now(term, g, w, s, term.pc, term.arg)
  <2> DEFINE W == Workspaces \union {None, DefaultWorkspace}
             S == DOMAIN R.sess \union {None}
  <2>1. term \in [pc : Places, glob : Globals, ws : W, sess : S, arg : Nat, running : BOOLEAN]
    BY DEF IdsOk, TermOk
  <2> HIDE DEF W, S
  <2> QED BY <2>1 DEF Now
<1>2. /\ term.glob \in Globals /\ term.ws \in Workspaces \union {None, DefaultWorkspace}
      /\ term.sess \in DOMAIN R.sess \union {None} /\ term.pc \in Places /\ term.arg \in Nat
      /\ term.sess \notin told.sess
      /\ term.ws \in told.ws => kind = "cli" /\ \E h \in Globals : Linked[h] = term.ws
      /\ term.glob \in told.glob => term.glob = DefaultGlobal
  BY HasIds
<1>3. ASSUME NEW g \in Globals, NEW w \in Workspaces \union {None, DefaultWorkspace},
             NEW s \in DOMAIN R.sess \union {None}, s \notin T.sess, g \in T.glob => g = DefaultGlobal,
             w \in T.ws => kind = "cli" /\ \E h \in Globals : Linked[h] = w
      PROVE  IdsOk(Now(term, g, w, s, term.pc, term.arg), R, T)
  BY <1>2, <1>3, Remembers
<1>4. ASSUME NEW g \in Globals, g \in T.glob => g = DefaultGlobal, T.ws = told.ws, T.sess = told.sess
      PROVE  IdsOk([term EXCEPT !.glob = g], R, T)
  <2>1. IdsOk(Now(term, g, term.ws, term.sess, term.pc, term.arg), R, T)
    BY <1>2, <1>3, <1>4
  <2> QED BY <1>1, <2>1
<1>5. ASSUME NEW s \in DOMAIN R.sess \union {None}, s \notin T.sess, T.ws = told.ws, T.glob = told.glob
      PROVE  IdsOk([term EXCEPT !.sess = s], R, T)
  <2>1. IdsOk(Now(term, term.glob, term.ws, s, term.pc, term.arg), R, T)
    BY <1>2, <1>3, <1>5
  <2> QED BY <1>1, <2>1
<1>6. ASSUME NEW w \in Workspaces \union {None}, NEW s \in DOMAIN R.sess \union {None},
             w \in T.ws => kind = "cli" /\ \E h \in Globals : Linked[h] = w,
             s \notin T.sess, T.glob = told.glob
      PROVE  /\ IdsOk([term EXCEPT !.ws = w, !.sess = s], R, T)
             /\ \A g \in Globals : (g \in T.glob => g = DefaultGlobal)
                  => IdsOk([term EXCEPT !.glob = g, !.ws = w, !.sess = s], R, T)
  <2>1. ASSUME NEW g \in Globals, g \in T.glob => g = DefaultGlobal
        PROVE  IdsOk(Now(term, g, w, s, term.pc, term.arg), R, T)
    BY <1>3, <1>6, <2>1
  <2>2. IdsOk([term EXCEPT !.ws = w, !.sess = s], R, T)
    <3>1. IdsOk(Now(term, term.glob, w, s, term.pc, term.arg), R, T)
      BY <1>2, <1>6, <2>1
    <3> QED BY <1>1, <3>1
  <2>3. ASSUME NEW g \in Globals, g \in T.glob => g = DefaultGlobal
        PROVE  IdsOk([term EXCEPT !.glob = g, !.ws = w, !.sess = s], R, T)
    <3>1. IdsOk(Now(term, g, w, s, term.pc, term.arg), R, T)
      BY <2>1, <2>3
    <3>2. [term EXCEPT !.glob = g, !.ws = w, !.sess = s] = Now(term, g, w, s, term.pc, term.arg)
      BY <1>1
    <3> QED BY <3>1, <3>2
  <2> QED BY <2>2, <2>3
<1> QED BY <1>4, <1>5, <1>6

LEMMA CliGlobalUseOk ==
  ASSUME TerminalInv, NEW g \in Globals, CliGlobalUse(g)
  PROVE  TerminalInv' /\ Silent /\ AtHome
<1> DEFINE r == Call("getGlobal", g)
           T(a) == IF ~a.ok THEN term
                   ELSE IF a.ws \in {None, term.ws} THEN [term EXCEPT !.glob = g]
                   ELSE [term EXCEPT !.glob = g, !.ws = a.ws, !.sess = None]
<1>1. PICK a \in Outcomes(r) : Asks(r, a) /\ Goes(T(a))
  BY DEF CliGlobalUse
<1>2. Known(r) /\ r.op # "list" /\ kind = "cli"
  BY CallIsKnown DEF Operations, CliGlobalUse, Types
<1>3. IdsOk(term, rows', told)
  BY <1>1, <1>2, StillHas
<1>4. CASE a.ok
  <2>1. a \in Answers(r)
    BY <1>1, <1>2, <1>4, Heard
  <2>2. g \in Globals /\ rows.glob[g] = "live" /\ a.ws = Linked[g]
    BY <1>4, <2>1, FoundGlobal
  <2>3. a.ws \in Workspaces \union {None} /\ g \notin told.glob /\ None \notin told.sess
    BY <2>2, Strangers, ConstantsAssumption
  <2>4. IdsOk([term EXCEPT !.glob = g], rows', told)
    BY <1>3, <2>3, Replaces
  <2>5. IdsOk([term EXCEPT !.glob = g, !.ws = a.ws, !.sess = None], rows', told)
    BY <1>2, <1>3, <2>2, <2>3, Replaces
  <2>6. IdsOk(T(a), rows', told)
    BY <1>4, <2>4, <2>5
  <2> QED BY <1>1, <1>2, <2>6, GoesOk
<1>5. CASE ~a.ok
  BY <1>1, <1>2, <1>3, <1>5, GoesOk
<1> QED BY <1>4, <1>5

LEMMA CliGlobalDeleteOk ==
  ASSUME TerminalInv, NEW g \in Globals, CliGlobalDelete(g)
  PROVE  TerminalInv' /\ Silent /\ AtHome
<1> DEFINE r == Call("deleteGlobal", g)
           T(a) == IF a.ok /\ g = term.glob THEN [term EXCEPT !.glob = DefaultGlobal] ELSE term
<1>1. PICK a \in Outcomes(r) : Asks(r, a) /\ Learns(a, "glob", T(a))
  BY DEF CliGlobalDelete
<1>2. Known(r) /\ r.op # "list"
  BY CallIsKnown DEF Operations
<1>3. IdsOk(term, rows', told) /\ ToldOk(told, rows')
  BY <1>1, <1>2, StillHas
<1>4. CASE a.ok
  <2>1. a \in Answers(r) /\ rows' = a.rows
    BY <1>1, <1>2, <1>4, Heard
  <2>2. a.id = g /\ rows'.glob[g] = "gone"
    BY <2>1, DeletedGlobal DEF TerminalInv, ClientOk
  <2>3. told' = [told EXCEPT !.glob = @ \union {g}]
    BY <1>1, <1>4, <2>2 DEF Learns
  <2>4. ToldOk(told', rows')
    BY <1>3, <2>2, <2>3, Tells
  <2>5. told'.glob = told.glob \union {g} /\ told'.ws = told.ws /\ told'.sess = told.sess
    BY <1>3, <2>3 DEF ToldOk
  <2>6. IdsOk(T(a), rows', told')
    <3>1. CASE g = term.glob
      <4>1. IdsOk([term EXCEPT !.glob = DefaultGlobal], rows', told')
        BY <1>3, <2>5, Replaces, ConstantsAssumption
      <4> QED BY <1>4, <3>1, <4>1
    <3>2. CASE g # term.glob
      BY <1>3, <2>5, <3>2 DEF IdsOk, TermOk
    <3> QED BY <3>1, <3>2
  <2> QED BY <1>1, <1>2, <2>4, <2>6, LearnsOk
<1>5. CASE ~a.ok
  BY <1>1, <1>2, <1>3, <1>5, LearnsOk DEF Learns
<1> QED BY <1>4, <1>5

LEMMA CliWorkspaceUseOk ==
  ASSUME TerminalInv, NEW w \in Workspaces, CliWorkspaceUse(w)
  PROVE  TerminalInv' /\ Silent /\ AtHome
<1> DEFINE r == Call("getWorkspace", w)
           s == IF w = term.ws THEN term.sess ELSE None
           T(a) == IF ~a.ok THEN term
                   ELSE [term EXCEPT !.ws = w, !.sess = IF w = term.ws THEN @ ELSE None]
<1>1. PICK a \in Outcomes(r) : Asks(r, a) /\ Goes(T(a))
  BY DEF CliWorkspaceUse
<1>2. Known(r) /\ r.op # "list"
  BY CallIsKnown DEF Operations
<1>3. IdsOk(term, rows', told)
  BY <1>1, <1>2, StillHas
<1>4. CASE a.ok
  <2>1. w \in Workspaces /\ rows.ws[w] = "live"
    BY <1>1, <1>2, <1>4, Heard, FoundWorkspace
  <2>2. w \notin told.ws /\ s \notin told.sess /\ s \in DOMAIN rows'.sess \union {None}
    BY <1>3, <2>1, Strangers, HasIds
  <2>3. T(a) = [term EXCEPT !.ws = w, !.sess = s]
    BY <1>4
  <2> HIDE DEF s
  <2>4. IdsOk([term EXCEPT !.ws = w, !.sess = s], rows', told)
    BY <1>3, <2>2, Replaces
  <2> QED BY <1>1, <1>2, <2>3, <2>4, GoesOk
<1>5. CASE ~a.ok
  BY <1>1, <1>2, <1>3, <1>5, GoesOk
<1> QED BY <1>4, <1>5

\* A workspace told to be deleted, after which another one, or none, is active.
LEMMA WorkspaceDeleted ==
  ASSUME TerminalInv, NEW w \in Workspaces, NEW r, r = Call("deleteWorkspace", w),
         NEW a \in Outcomes(r), Asks(r, a), NEW t, Learns(a, "ws", t),
         a.ok => \/ t = term /\ term.ws # w
                 \/ \E v \in {None, DefaultWorkspace}, s \in {None, term.sess} :
                      t = Now(term, term.glob, v, s, term.pc, term.arg),
         ~a.ok => t = term
  PROVE  TerminalInv' /\ Silent /\ AtHome
<1>2. Known(r) /\ r.op # "list"
  BY CallIsKnown DEF Operations
<1>3. IdsOk(term, rows', told) /\ ToldOk(told, rows')
  BY <1>2, StillHas
<1>4. CASE a.ok
  <2>1. a \in Answers(r) /\ rows' = a.rows
    BY <1>2, <1>4, Heard
  <2>2. a.id = w /\ rows'.ws[w] = "gone"
    BY <2>1, DeletedWorkspace DEF TerminalInv, ClientOk
  <2>3. told' = [told EXCEPT !.ws = @ \union {w}]
    BY <1>4, <2>2 DEF Learns
  <2>4. ToldOk(told', rows')
    BY <1>3, <2>2, <2>3, Tells
  <2>5. told'.ws = told.ws \union {w} /\ told'.glob = told.glob /\ told'.sess = told.sess
    BY <1>3, <2>3 DEF ToldOk
  <2>6. IdsOk(t, rows', told')
    <3>1. CASE t = term /\ term.ws # w
      BY <1>3, <2>5, <3>1 DEF IdsOk, TermOk
    <3>2. ASSUME NEW v \in {None, DefaultWorkspace}, NEW s \in {None, term.sess},
                 t = Now(term, term.glob, v, s, term.pc, term.arg)
          PROVE  IdsOk(t, rows', told')
      <4>1. v \notin told'.ws /\ s \notin told'.sess /\ s \in DOMAIN rows'.sess \union {None}
            /\ v \in Workspaces \union {None, DefaultWorkspace}
        BY <1>3, <2>5, Strangers, HasIds, ConstantsAssumption
      <4>2. IdsOk(Now(term, term.glob, v, s, term.pc, term.arg), rows', told')
        BY <1>3, <2>5, <4>1, HasIds, Remembers
      <4> QED BY <3>2, <4>2
    <3> QED BY <1>4, <3>1, <3>2
  <2> QED BY <1>2, <2>4, <2>6, LearnsOk
<1>5. CASE ~a.ok
  BY <1>2, <1>3, <1>5, LearnsOk DEF Learns
<1> QED BY <1>4, <1>5

LEMMA CliWorkspaceDeleteOk ==
  ASSUME TerminalInv, NEW w \in Workspaces, CliWorkspaceDelete(w)
  PROVE  TerminalInv' /\ Silent /\ AtHome
<1> DEFINE r == Call("deleteWorkspace", w)
           T(a) == IF a.ok /\ w = term.ws THEN [term EXCEPT !.ws = None, !.sess = None] ELSE term
<1>1. PICK a \in Outcomes(r) : Asks(r, a) /\ Learns(a, "ws", T(a))
  BY DEF CliWorkspaceDelete, CliLeaves
<1>2. [term EXCEPT !.ws = None, !.sess = None] = Now(term, term.glob, None, None, term.pc, term.arg)
  BY Forms DEF TerminalInv, ClientOk
<1>3. /\ a.ok => \/ T(a) = term /\ term.ws # w
                 \/ T(a) = Now(term, term.glob, None, None, term.pc, term.arg)
      /\ ~a.ok => T(a) = term
  BY <1>2
<1> HIDE DEF T
<1> QED BY <1>1, <1>3, WorkspaceDeleted

LEMMA ConsoleWorkspaceDeleteOk ==
  ASSUME TerminalInv, NEW w \in Workspaces, ConsoleWorkspaceDelete(w)
  PROVE  TerminalInv' /\ Silent /\ AtHome
<1> DEFINE r == Call("deleteWorkspace", w)
           T(a) == IF a.ok /\ w = term.ws THEN [term EXCEPT !.ws = DefaultWorkspace] ELSE term
<1>1. PICK a \in Outcomes(r) : Asks(r, a) /\ Learns(a, "ws", T(a))
  BY DEF ConsoleWorkspaceDelete
<1>2. [term EXCEPT !.ws = DefaultWorkspace]
        = Now(term, term.glob, DefaultWorkspace, term.sess, term.pc, term.arg)
  BY Forms DEF TerminalInv, ClientOk
<1>3. /\ a.ok => \/ T(a) = term /\ term.ws # w
                 \/ T(a) = Now(term, term.glob, DefaultWorkspace, term.sess, term.pc, term.arg)
      /\ ~a.ok => T(a) = term
  BY <1>2
<1> HIDE DEF T
<1> QED BY <1>1, <1>3, WorkspaceDeleted

\* A session told to be deleted is not the active one any more.
LEMMA SessionDeleted ==
  ASSUME TerminalInv, NEW s \in SessionIds, NEW r, r = Call("deleteSession", s),
         NEW a \in Outcomes(r), Asks(r, a),
         Learns(a, "sess", IF a.ok /\ s = term.sess THEN [term EXCEPT !.sess = None] ELSE term)
  PROVE  TerminalInv' /\ Silent /\ AtHome
<1> DEFINE t == IF a.ok /\ s = term.sess THEN [term EXCEPT !.sess = None] ELSE term
<1>2. Known(r) /\ r.op # "list"
  BY CallIsKnown DEF Operations
<1>3. IdsOk(term, rows', told) /\ ToldOk(told, rows') /\ s \in DOMAIN rows'.sess
  BY <1>2, StillHas
<1>4. CASE a.ok
  <2>1. a \in Answers(r) /\ rows' = a.rows
    BY <1>2, <1>4, Heard
  <2>2. a.id = s /\ rows'.sess[s] = None
    BY <2>1, DeletedSession DEF TerminalInv, ClientOk
  <2>3. told' = [told EXCEPT !.sess = @ \union {s}]
    BY <1>4, <2>2 DEF Learns
  <2>4. ToldOk(told', rows')
    BY <1>3, <2>2, <2>3, Tells
  <2>5. told'.sess = told.sess \union {s} /\ told'.glob = told.glob /\ told'.ws = told.ws
    BY <1>3, <2>3 DEF ToldOk
  <2>6. IdsOk(t, rows', told')
    <3>1. CASE s = term.sess
      <4>1. None \notin told'.sess
        BY <2>5, Strangers
      <4>2. IdsOk([term EXCEPT !.sess = None], rows', told')
        BY <1>3, <2>5, <4>1, Replaces
      <4> QED BY <1>4, <3>1, <4>2
    <3>2. CASE s # term.sess
      BY <1>3, <2>5, <3>2 DEF IdsOk, TermOk
    <3> QED BY <3>1, <3>2
  <2> QED BY <1>2, <2>4, <2>6, LearnsOk
<1>5. CASE ~a.ok
  BY <1>2, <1>3, <1>5, LearnsOk DEF Learns
<1> QED BY <1>4, <1>5

\* A command that goes on with these ids in memory.
LEMMA StaysOk ==
  ASSUME TerminalInv, NEW r, Known(r), NEW a \in Outcomes(r), Asks(r, a),
         IdsOk(term', rows', told), PlaceOk(term', rows'), UNCHANGED <<told, misread>>,
         term'.pc \notin {"clear", "spawn", "joining"}
  PROVE  TerminalInv' /\ Silent
<1>1. /\ Later(rows, rows') /\ LateOk' /\ ToldOk(told', rows')
      /\ UNCHANGED kind /\ UNCHANGED thread /\ UNCHANGED server
  BY Asked
<1>2. misread' \subseteq Lists /\ EmptyIsAnAnswer' /\ server' \in {"up", "stopping", "down"}
  BY <1>1 DEF TerminalInv, ClientOk, EmptyIsAnAnswer
<1> QED BY <1>1, <1>2, ClientMoves

\* The place it goes on at.
LEMMA TermForms ==
  ASSUME NEW R, IdsOk(term, R, told), NEW w, NEW p, NEW n
  PROVE  /\ [term EXCEPT !.ws = w, !.pc = p] = Now(term, term.glob, w, term.sess, p, term.arg)
         /\ [term EXCEPT !.pc = p, !.arg = n] = Now(term, term.glob, term.ws, term.sess, p, n)
         /\ [term EXCEPT !.pc = p] = Now(term, term.glob, term.ws, term.sess, p, term.arg)
<1> DEFINE W == Workspaces \union {None, DefaultWorkspace}
           S == DOMAIN R.sess \union {None}
<1>1. term \in [pc : Places, glob : Globals, ws : W, sess : S, arg : Nat, running : BOOLEAN]
  BY DEF IdsOk, TermOk
<1> HIDE DEF W, S
<1> QED BY <1>1 DEF Now

LEMMA Moves ==
  ASSUME NEW R, IdsOk(term, R, told), NEW p \in Places, NEW n \in Nat,
         NEW w \in Workspaces \union {None, DefaultWorkspace}, w = term.ws \/ w \notin told.ws,
         NEW s \in DOMAIN R.sess \union {None}, s = term.sess \/ s \notin told.sess,
         NEW t, t = Now(term, term.glob, w, s, p, n)
  PROVE  IdsOk(t, R, told) /\ t.pc = p /\ t.arg = n /\ t.ws = w
<1>1. /\ term.glob \in Globals /\ s \notin told.sess
      /\ term.glob \in told.glob => term.glob = DefaultGlobal
      /\ w \in told.ws => kind = "cli" /\ \E h \in Globals : Linked[h] = w
  BY HasIds
<1> QED BY <1>1, Remembers

\* Where it is.
LEMMA AtPlace ==
  ASSUME TerminalInv
  PROVE  /\ IdsOk(term, rows, told) /\ PlaceOk(term, rows) /\ RowsOk(rows)
         /\ term.glob \in Globals /\ term.ws \in Workspaces \union {None, DefaultWorkspace}
         /\ term.sess \in SessionIds \union {None} /\ term.arg \in Nat
         /\ DOMAIN rows.task \subseteq Nat \ {None} /\ SessionIds \subseteq Nat \ {None}
         /\ term.pc \in Places /\ term.running \in BOOLEAN
<1>1. IdsOk(term, rows, told) /\ PlaceOk(term, rows) /\ RowsOk(rows)
  BY DEF TerminalInv, ClientOk
<1>2. rows.task \in Seq(TaskStates)
  BY <1>1 DEF RowsOk
<1> QED BY <1>1, <1>2, HasIds, Strangers DEF SessionIds, None

LEMMA ConsoleWorkspaceUseOk ==
  ASSUME TerminalInv, NEW w \in Workspaces, ConsoleWorkspaceUse(w)
  PROVE  TerminalInv' /\ Silent /\ AtHome
<1> DEFINE r == Call("getWorkspace", w)
<1>1. PICK a \in Outcomes(r) :
        /\ Asks(r, a)
        /\ term' = IF a.ok THEN [term EXCEPT !.ws = w, !.pc = "restore"] ELSE Back(term)
        /\ UNCHANGED <<told, misread>>
  BY DEF ConsoleWorkspaceUse
<1>2. Known(r) /\ r.op # "list" /\ term.pc = "ready"
  BY CallIsKnown DEF Operations, ConsoleWorkspaceUse, Types
<1>3. IdsOk(term, rows', told)
  BY <1>1, <1>2, StillHas
<1>4. CASE a.ok
  <2>1. w \notin told.ws
    BY <1>1, <1>2, <1>4, Heard, FoundWorkspace, Strangers
  <2>2. term' = Now(term, term.glob, w, term.sess, "restore", term.arg)
    BY <1>1, <1>3, <1>4, TermForms
  <2>3. IdsOk(term', rows', told) /\ term'.pc = "restore" /\ term'.arg = term.arg /\ term'.ws = w
    <3>1. term.sess \in DOMAIN rows'.sess \union {None} /\ term.arg \in Nat /\ "restore" \in Places
      BY <1>3, HasIds DEF Places
    <3> QED BY <1>3, <2>1, <2>2, <3>1, Moves
  <2>4. PlaceOk(term', rows') /\ AtHome
    BY <1>2, <2>3, AtPlace DEF PlaceOk, AtHome
  <2> QED BY <1>1, <1>2, <2>3, <2>4, StaysOk
<1>5. CASE ~a.ok
  BY <1>1, <1>2, <1>3, <1>5, GoesOk DEF Goes
<1> QED BY <1>4, <1>5

LEMMA ConsoleRestoresOk ==
  ASSUME TerminalInv, ConsoleRestores
  PROVE  TerminalInv' /\ Silent /\ AtHome
<1> DEFINE r == Call("sessionsOf", term.ws)
           T(a) == IF a.ok /\ a.id # None THEN [term EXCEPT !.sess = a.id] ELSE term
<1>1. PICK a \in Outcomes(r) : Asks(r, a) /\ Goes(T(a))
  BY DEF ConsoleRestores
<1>2. Known(r) /\ r.op # "list" /\ term.ws \in Workspaces
  BY CallIsKnown, AtPlace DEF Operations, ConsoleRestores, PlaceOk
<1>3. IdsOk(term, rows', told) /\ SessionIds \subseteq DOMAIN rows'.sess
  BY <1>1, <1>2, StillHas
<1>4. CASE a.ok /\ a.id # None
  <2>1. term.ws # None
    BY <1>2, ConstantsAssumption
  <2>2. a.id \in SessionIds /\ rows.sess[a.id] # None
    BY <1>1, <1>2, <1>4, <2>1, Heard, Newest
  <2>3. a.id \notin told.sess /\ a.id \in DOMAIN rows'.sess \union {None}
    BY <1>3, <2>2, Strangers
  <2>4. IdsOk([term EXCEPT !.sess = a.id], rows', told)
    BY <1>3, <2>3, Replaces
  <2> QED BY <1>1, <1>2, <1>4, <2>4, GoesOk
<1>5. CASE ~(a.ok /\ a.id # None)
  BY <1>1, <1>2, <1>3, <1>5, GoesOk
<1> QED BY <1>4, <1>5

LEMMA ConsoleSessionCreateOk ==
  ASSUME TerminalInv, ConsoleSessionCreate
  PROVE  TerminalInv' /\ Silent /\ AtHome
<1> DEFINE v == IF term.ws = DefaultWorkspace THEN None ELSE term.ws
           r == [Call("createSession", None) EXCEPT !.ws = v]
<1>1. PICK a \in Outcomes(r) :
        /\ Asks(r, a)
        /\ term' = IF a.ok THEN [term EXCEPT !.sess = a.id, !.pc = "bind", !.arg = a.id]
                   ELSE Back(term)
        /\ UNCHANGED <<told, misread>>
  BY DEF ConsoleSessionCreate
<1>2. Known(r) /\ r.op # "list" /\ term.pc = "ready"
  BY DEF Known, Operations, Call, NoRequest, ConsoleSessionCreate, Types
<1>3. IdsOk(term, rows', told)
  BY <1>1, <1>2, StillHas
<1>4. CASE a.ok
  <2>1. a \in Answers(r) /\ rows' = a.rows
    BY <1>1, <1>2, <1>4, Heard
  <2>2. v \in Workspaces /\ a.id \in DOMAIN rows'.sess /\ a.id \notin SessionIds /\ a.id \in Nat
    <3>1. r.op = "createSession" /\ r.ws = v
      BY DEF Call, NoRequest
    <3> QED BY <1>4, <2>1, <3>1, NewSession, AtPlace
  <2>3. term.ws = v
    BY <2>2, ConstantsAssumption
  <2>4. a.id \notin told.sess /\ "bind" \in Places
    BY <2>2, Strangers DEF Places
  <2>5. term' = Now(term, term.glob, term.ws, a.id, "bind", a.id)
    <3> DEFINE n == a.id
    <3>1. term' = [term EXCEPT !.sess = n, !.pc = "bind", !.arg = n]
      BY <1>1, <1>4
    <3> HIDE DEF n
    <3>2. [term EXCEPT !.sess = n, !.pc = "bind", !.arg = n]
            = Now(term, term.glob, term.ws, n, "bind", n)
      <4> DEFINE W == Workspaces \union {None, DefaultWorkspace}
                 S == DOMAIN rows'.sess \union {None}
      <4>1. term \in [pc : Places, glob : Globals, ws : W, sess : S, arg : Nat, running : BOOLEAN]
        BY <1>3 DEF IdsOk, TermOk
      <4> HIDE DEF W, S
      <4> QED BY <4>1 DEF Now
    <3> QED BY <3>1, <3>2 DEF n
  <2>6. IdsOk(term', rows', told) /\ term'.pc = "bind" /\ term'.arg = a.id /\ term'.ws = term.ws
    <3>1. term.ws \in Workspaces \union {None, DefaultWorkspace}
      BY AtPlace
    <3> QED BY <1>3, <2>2, <2>4, <2>5, <3>1, Moves
  <2>7. PlaceOk(term', rows') /\ AtHome
    BY <2>2, <2>3, <2>6 DEF PlaceOk, AtHome
  <2> QED BY <1>1, <1>2, <2>6, <2>7, StaysOk
<1>5. CASE ~a.ok
  BY <1>1, <1>2, <1>3, <1>5, GoesOk DEF Goes
<1> QED BY <1>4, <1>5

LEMMA CliSessionCreateOk ==
  ASSUME TerminalInv, CliSessionCreate
  PROVE  TerminalInv' /\ Silent /\ AtHome
<1> DEFINE r == Call("createSession", None)
<1>1. PICK a \in Outcomes(r) :
        /\ Asks(r, a)
        /\ term' = IF a.ok THEN [term EXCEPT !.pc = "bind", !.arg = a.id] ELSE Back(term)
        /\ UNCHANGED <<told, misread>>
  BY DEF CliSessionCreate
<1>2. Known(r) /\ r.op # "list"
  BY CallIsKnown DEF Operations
<1>3. IdsOk(term, rows', told)
  BY <1>1, <1>2, StillHas
<1>4. ~a.ok
  <2> SUFFICES ASSUME a.ok PROVE FALSE
    OBVIOUS
  <2>1. a \in Answers(r) /\ r.op = "createSession" /\ r.ws = None
    BY <1>1, <1>2, CallIsKnown, Heard DEF Operations
  <2>2. None \in Workspaces
    BY <2>1, NewSession, AtPlace
  <2> QED BY <2>2, ConstantsAssumption
<1> QED BY <1>1, <1>2, <1>3, <1>4, GoesOk DEF Goes

LEMMA ConsoleSessionUseOk ==
  ASSUME TerminalInv, NEW s \in SessionIds, ConsoleSessionUse(s)
  PROVE  TerminalInv' /\ Silent /\ AtHome
<1> DEFINE r == Call("getSession", s)
           T(a) == IF a.ok THEN [term EXCEPT !.sess = s] ELSE term
<1>1. PICK a \in Outcomes(r) : Asks(r, a) /\ Goes(T(a))
  BY DEF ConsoleSessionUse
<1>2. Known(r) /\ r.op # "list"
  BY CallIsKnown DEF Operations
<1>3. IdsOk(term, rows', told) /\ SessionIds \subseteq DOMAIN rows'.sess
  BY <1>1, <1>2, StillHas
<1>4. CASE a.ok
  <2>1. rows.sess[s] # None
    BY <1>1, <1>2, <1>4, Heard, FoundSession
  <2>2. IdsOk([term EXCEPT !.sess = s], rows', told)
    BY <1>3, <2>1, Strangers, Replaces
  <2> QED BY <1>1, <1>2, <1>4, <2>2, GoesOk
<1>5. CASE ~a.ok
  BY <1>1, <1>2, <1>3, <1>5, GoesOk
<1> QED BY <1>4, <1>5

LEMMA BindsOk ==
  ASSUME TerminalInv, Binds
  PROVE  TerminalInv' /\ Silent /\ AtHome
<1> DEFINE s == term.arg
           r == [Call("updateSession", s) EXCEPT !.ws = term.ws]
           T(a) == IF kind = "cli" /\ a.ok /\ a.ws = term.ws THEN [term EXCEPT !.sess = s] ELSE term
<1>1. PICK a \in Outcomes(r) : Asks(r, a) /\ Goes(T(a))
  BY DEF Binds
<1>2. s \in SessionIds /\ term.ws \in Workspaces
  BY AtPlace DEF PlaceOk, Binds, SessionIds
<1>3. Known(r) /\ r.op # "list"
  BY <1>2 DEF Known, Operations, Call, NoRequest
<1>4. IdsOk(term, rows', told) /\ SessionIds \subseteq DOMAIN rows'.sess
  BY <1>1, <1>3, StillHas
<1>5. CASE a.ok
  <2>1. rows.sess[s] # None
    BY <1>1, <1>3, <1>5, Heard, Bound
  <2>2. IdsOk([term EXCEPT !.sess = s], rows', told)
    BY <1>2, <1>4, <2>1, Strangers, Replaces
  <2>3. IdsOk(T(a), rows', told)
    BY <1>4, <2>2
  <2> QED BY <1>1, <1>3, <2>3, GoesOk
<1>6. CASE ~a.ok
  BY <1>1, <1>3, <1>4, <1>6, GoesOk
<1> QED BY <1>5, <1>6

LEMMA TaskCreateOk ==
  ASSUME TerminalInv, TaskCreate
  PROVE  TerminalInv' /\ Silent /\ AtHome
<1> DEFINE r == [Call("createTask", None) EXCEPT !.ws = term.ws, !.sess = term.sess, !.glob = term.glob]
<1>1. PICK a \in Outcomes(r) :
        /\ Asks(r, a)
        /\ term' = IF a.ok THEN [term EXCEPT !.pc = "halt", !.arg = a.id] ELSE Back(term)
        /\ UNCHANGED <<told, misread>>
  BY DEF TaskCreate
<1>2. Known(r) /\ r.op # "list"
  BY DEF Known, Operations, Call, NoRequest
<1>3. IdsOk(term, rows', told)
  BY <1>1, <1>2, StillHas
<1>4. CASE a.ok
  <2>1. a \in Answers(r) /\ rows' = a.rows
    BY <1>1, <1>2, <1>4, Heard
  <2>2. /\ a.id \in DOMAIN rows'.task /\ a.id \in Nat
        /\ LiveWorkspace(term.ws) /\ LiveSession(term.sess) /\ rows.sess[term.sess] = term.ws
    <3> DEFINE w == term.ws
               s == term.sess
               g == term.glob
    <3>1. RowsOk(rows) /\ a \in Answers([Call("createTask", None) EXCEPT !.ws = w, !.sess = s, !.glob = g])
      BY <2>1, AtPlace
    <3> HIDE DEF w, s, g
    <3>2. /\ a.id \in DOMAIN a.rows.task /\ a.id \in Nat
          /\ LiveWorkspace(w) /\ LiveSession(s) /\ rows.sess[s] = w
      BY <1>4, <3>1, NewTask
    <3> QED BY <2>1, <3>2 DEF w, s, g
  <2>3. term' = Now(term, term.glob, term.ws, term.sess, "halt", a.id)
    BY <1>1, <1>3, <1>4, TermForms
  <2>4. IdsOk(term', rows', told) /\ term'.pc = "halt" /\ term'.arg = a.id
    <3>1. /\ term.ws \in Workspaces \union {None, DefaultWorkspace} /\ "halt" \in Places
          /\ term.sess \in DOMAIN rows'.sess \union {None}
      BY <1>3, HasIds DEF Places
    <3> QED BY <1>3, <2>2, <2>3, <3>1, Moves
  <2>5. PlaceOk(term', rows') /\ AtHome
    BY <2>2, <2>4 DEF PlaceOk, AtHome
  <2> QED BY <1>1, <1>2, <2>4, <2>5, StaysOk
<1>5. CASE ~a.ok
  BY <1>1, <1>2, <1>3, <1>5, GoesOk DEF Goes
<1> QED BY <1>4, <1>5

LEMMA CliBootsOk ==
  ASSUME TerminalInv, CliBoots
  PROVE  TerminalInv' /\ Silent /\ AtHome
<1> DEFINE r == Call("health", None)
           p(a) == IF a.ok THEN "ready" ELSE "out"
<1>1. PICK a \in Outcomes(r) :
        /\ Asks(r, a) /\ term' = [term EXCEPT !.pc = p(a)] /\ UNCHANGED <<told, misread>>
  BY DEF CliBoots
<1>2. Known(r) /\ term.pc = "boot"
  BY CallIsKnown DEF Operations, CliBoots
<1>3. IdsOk(term, rows', told)
  BY <1>1, <1>2, StillHas
<1>4. p(a) \in {"ready", "out"} /\ p(a) \in Places
  BY DEF Places
<1> DEFINE q == p(a)
<1>5. term' = [term EXCEPT !.pc = q] /\ q \in {"ready", "out"} /\ q \in Places
  BY <1>1, <1>4
<1> HIDE DEF q
<1>6. term' = Now(term, term.glob, term.ws, term.sess, q, term.arg)
  BY <1>3, <1>5, TermForms
<1>7. IdsOk(term', rows', told) /\ term'.pc = q /\ term'.arg = term.arg
  <2>1. /\ term.ws \in Workspaces \union {None, DefaultWorkspace}
        /\ term.sess \in DOMAIN rows'.sess \union {None} /\ term.arg \in Nat
    BY <1>3, HasIds
  <2> QED BY <1>3, <1>5, <1>6, <2>1, Moves
<1>8. PlaceOk(term', rows') /\ AtHome
  BY <1>2, <1>5, <1>7, AtPlace DEF PlaceOk, AtHome
<1> QED BY <1>1, <1>2, <1>5, <1>7, <1>8, StaysOk

\* The commands that keep nothing of the answer.
LEMMA Sent ==
  ASSUME TerminalInv, NEW op \in Operations, NEW id, Sends(Call(op, id))
  PROVE  TerminalInv' /\ Silent /\ AtHome
BY CallIsKnown, SendsOk

LEMMA SessionUpdates ==
  ASSUME TerminalInv, NEW s, NEW w \in Workspaces, Sends([Call("updateSession", s) EXCEPT !.ws = w])
  PROVE  TerminalInv' /\ Silent /\ AtHome
<1> DEFINE r == [Call("updateSession", s) EXCEPT !.ws = w]
<1>1. Known(r)
  BY DEF Known, Operations, Call, NoRequest
<1> HIDE DEF r
<1>2. Sends(r)
  BY DEF r
<1> QED BY <1>1, <1>2, SendsOk

LEMMA CliLooksOk ==
  ASSUME TerminalInv, CliLooks
  PROVE  TerminalInv' /\ Silent /\ AtHome
<1>1. \/ \E l \in Lists : Look("cli", l)
      \/ \E op \in Operations : \E id : Sends(Call(op, id))
  <2> USE DEF Lists, Operations
  <2>1. CASE CliTools \/ CliExpertsList \/ CliHealth \/ CliWorkspaceFiles(term.ws)
    BY <2>1 DEF CliTools, CliExpertsList, CliHealth, CliWorkspaceFiles, Show
  <2>2. CASE CliGlobalList \/ CliTaskList \/ CliTaskHistory \/ CliTaskActive
             \/ CliWorkspaceList \/ CliSessionList \/ CliPermList
    BY <2>2 DEF CliGlobalList, CliTaskList, CliTaskHistory, CliTaskActive, CliWorkspaceList,
                CliSessionList, CliPermList
  <2>3. ASSUME NEW g, CliGlobalShow(g) PROVE \E op \in Operations : \E id : Sends(Call(op, id))
    BY <2>3 DEF CliGlobalShow, Show
  <2>4. ASSUME NEW t, CliTaskStatus(t) PROVE \E op \in Operations : \E id : Sends(Call(op, id))
    BY <2>4 DEF CliTaskStatus, Show
  <2>5. ASSUME NEW w, CliWorkspaceShow(w) \/ CliWorkspaceFiles(w)
        PROVE  \E op \in Operations : \E id : Sends(Call(op, id))
    BY <2>5 DEF CliWorkspaceShow, CliWorkspaceFiles, Show
  <2> QED BY <2>1, <2>2, <2>3, <2>4, <2>5 DEF CliLooks
<1> QED BY <1>1, LookOk, Sent

LEMMA ConsoleLooksOk ==
  ASSUME TerminalInv, ConsoleLooks
  PROVE  TerminalInv' /\ Silent /\ AtHome
<1>1. \/ \E l \in Lists : Look("console", l)
      \/ \E op \in Operations : \E id : Sends(Call(op, id))
  <2> USE DEF Lists, Operations
  <2>1. CASE ConsoleTools \/ ConsoleExpertsList \/ ConsoleHealth \/ ConsoleWorkspaceFiles(term.ws)
             \/ ConsoleGlobalShow
    BY <2>1 DEF ConsoleTools, ConsoleExpertsList, ConsoleHealth, ConsoleWorkspaceFiles,
                ConsoleGlobalShow, Show
  <2>2. CASE ConsoleTaskList \/ ConsoleTaskHistory \/ ConsoleTaskActive
             \/ ConsoleWorkspaceList \/ ConsoleSessionList \/ ConsolePermList
    BY <2>2 DEF ConsoleTaskList, ConsoleTaskHistory, ConsoleTaskActive, ConsoleWorkspaceList,
                ConsoleSessionList, ConsolePermList
  <2>3. ASSUME NEW t, ConsoleTaskStatus(t) PROVE \E op \in Operations : \E id : Sends(Call(op, id))
    BY <2>3 DEF ConsoleTaskStatus, Show
  <2>4. ASSUME NEW w, ConsoleWorkspaceShow(w) \/ ConsoleWorkspaceSessions(w) \/ ConsoleWorkspaceFiles(w)
        PROVE  \E op \in Operations : \E id : Sends(Call(op, id))
    BY <2>4 DEF ConsoleWorkspaceShow, ConsoleWorkspaceSessions, ConsoleWorkspaceFiles, Show
  <2> QED BY <2>1, <2>2, <2>3, <2>4 DEF ConsoleLooks
<1> QED BY <1>1, LookOk, Sent

LEMMA CliCommandOk ==
  ASSUME TerminalInv, CliCommand
  PROVE  TerminalInv' /\ Silent /\ AtHome
<1>1. CASE CliLooks
  BY <1>1, CliLooksOk
<1>2. CASE CliGlobalCreate \/ CliWorkspaceCreate \/ CliPermApprove
           \/ \E t \in TaskIds : CliTaskCancel(t) \/ CliTaskDelete(t) \/ CliPermResolve(t)
  <2>1. \E op \in Operations : \E id : Sends(Call(op, id))
    BY <1>2 DEF CliGlobalCreate, CliWorkspaceCreate, CliPermApprove, CliTaskCancel, CliTaskDelete,
                CliPermResolve, Operations
  <2> QED BY <2>1, Sent
<1>3. CASE CliSessionCreate
  BY <1>3, CliSessionCreateOk
<1>4. CASE \E g \in SeenGlobals : CliGlobalUse(g) \/ CliGlobalDelete(g)
  BY <1>4, CliGlobalUseOk, CliGlobalDeleteOk DEF SeenGlobals
<1>5. CASE \E w \in SeenWorkspaces : CliWorkspaceUse(w) \/ CliWorkspaceDelete(w)
  BY <1>5, CliWorkspaceUseOk, CliWorkspaceDeleteOk DEF SeenWorkspaces
<1>6. ASSUME NEW s \in SessionIds, CliSessionDelete(s)
      PROVE  TerminalInv' /\ Silent /\ AtHome
  BY <1>6, SessionDeleted DEF CliSessionDelete
<1>7. ASSUME NEW s \in SessionIds, NEW w \in SeenWorkspaces, CliSessionUpdate(s, w)
      PROVE  TerminalInv' /\ Silent /\ AtHome
  BY <1>7, SessionUpdates DEF CliSessionUpdate, SeenWorkspaces
<1> QED BY <1>1, <1>2, <1>3, <1>4, <1>5, <1>6, <1>7 DEF CliCommand

LEMMA ConsoleCommandOk ==
  ASSUME TerminalInv, ConsoleCommand
  PROVE  TerminalInv' /\ Silent /\ AtHome
<1>1. CASE ConsoleLooks
  BY <1>1, ConsoleLooksOk
<1>2. CASE ConsoleWorkspaceCreate \/ ConsolePermApprove
           \/ ConsoleWorkspaceUpdate(term.ws) \/ (\E w \in SeenWorkspaces : ConsoleWorkspaceUpdate(w))
           \/ \E t \in TaskIds : ConsoleTaskCancel(t) \/ ConsoleTaskDelete(t) \/ ConsolePermResolve(t)
  <2>1. \E op \in Operations : \E id : Sends(Call(op, id))
    BY <1>2 DEF ConsoleWorkspaceCreate, ConsolePermApprove, ConsoleWorkspaceUpdate,
                ConsoleTaskCancel, ConsoleTaskDelete, ConsolePermResolve, Operations
  <2> QED BY <2>1, Sent
<1>3. CASE ConsoleSessionCreate
  BY <1>3, ConsoleSessionCreateOk
<1>4. CASE \E w \in SeenWorkspaces : ConsoleWorkspaceUse(w) \/ ConsoleWorkspaceDelete(w)
  BY <1>4, ConsoleWorkspaceUseOk, ConsoleWorkspaceDeleteOk DEF SeenWorkspaces
<1>5. ASSUME NEW s \in SessionIds, ConsoleSessionDelete(s)
      PROVE  TerminalInv' /\ Silent /\ AtHome
  BY <1>5, SessionDeleted DEF ConsoleSessionDelete, ConsoleLeaves
<1>6. ASSUME NEW s \in SessionIds, ConsoleSessionUse(s)
      PROVE  TerminalInv' /\ Silent /\ AtHome
  BY <1>6, ConsoleSessionUseOk
<1>7. ASSUME NEW s \in SessionIds, NEW w \in SeenWorkspaces, ConsoleSessionUpdate(s, w)
      PROVE  TerminalInv' /\ Silent /\ AtHome
  BY <1>7, SessionUpdates DEF ConsoleSessionUpdate, SeenWorkspaces
<1> QED BY <1>1, <1>2, <1>3, <1>4, <1>5, <1>6, <1>7 DEF ConsoleCommand

-----------------------------------------------------------------------------
(* The steps that are no request of the client.                              *)

\* The rows come later, as another client or a chain has them.
LEMMA RowsMove ==
  ASSUME TerminalInv, Later(rows, rows'), late' \in {late, NoRequest},
         UNCHANGED <<kind, server, term, told, misread>>, UNCHANGED thread
  PROVE  TerminalInv' /\ Silent /\ AtHome
<1>1. ToldOk(told', rows') /\ IdsOk(term', rows', told') /\ PlaceOk(term', rows')
  BY LaterKeeps DEF TerminalInv, ClientOk
<1>2. LateOk'
  BY DEF TerminalInv, ClientOk, LateOk, Known
<1>3. misread' \subseteq Lists /\ EmptyIsAnAnswer' /\ server' \in {"up", "stopping", "down"}
  BY DEF TerminalInv, ClientOk, EmptyIsAnAnswer
<1>4. TerminalInv' /\ Silent
  BY <1>1, <1>2, <1>3, ClientMoves
<1> QED BY <1>4 DEF AtHome

LEMMA OtherClientOk ==
  ASSUME TerminalInv, OtherClient
  PROVE  TerminalInv' /\ Silent /\ AtHome
<1>1. PICK r \in OtherRequests : rows' = Serve(r).rows
  BY DEF OtherClient
<1>2. Known(r) /\ r.op # "sessionsOf"
  <2>1. \/ \E op \in {"deleteWorkspace", "deleteSession", "deleteTask", "resolve"} : \E id : r = Call(op, id)
        \/ \E s, w : w \in Workspaces /\ r = [Call("updateSession", s) EXCEPT !.ws = w]
        \/ \E w : r = [Call("createSession", None) EXCEPT !.ws = w]
    BY <1>1 DEF OtherRequests, ListWorkspaces
  <2>2. ASSUME NEW op \in {"deleteWorkspace", "deleteSession", "deleteTask", "resolve"}, NEW id,
               r = Call(op, id)
        PROVE  Known(r) /\ r.op # "sessionsOf"
    BY <2>2, CallIsKnown DEF Operations
  <2>3. ASSUME NEW s, NEW w \in Workspaces, r = [Call("updateSession", s) EXCEPT !.ws = w]
        PROVE  Known(r) /\ r.op # "sessionsOf"
    BY <2>3 DEF Known, Operations, Call, NoRequest
  <2>4. ASSUME NEW w, r = [Call("createSession", None) EXCEPT !.ws = w]
        PROVE  Known(r) /\ r.op # "sessionsOf"
    BY <2>4 DEF Known, Operations, Call, NoRequest
  <2> QED BY <2>1, <2>2, <2>3, <2>4
<1>3. Later(rows, rows')
  BY <1>1, <1>2, Served DEF TerminalInv, ClientOk
<1> QED BY <1>3, RowsMove DEF OtherClient

LEMMA ChainStepOk ==
  ASSUME TerminalInv, ChainStep
  PROVE  TerminalInv' /\ Silent /\ AtHome
<1>1. PICK t \in TaskIds : \/ rows' = [rows EXCEPT !.task[t] = "over"]
                           \/ rows' = [rows EXCEPT !.asks = @ \union {t}]
  BY DEF ChainStep, ListActiveTasks
<1>2. RowsOk(rows) /\ "over" \in TaskStates /\ rows.asks \union {t} \subseteq rows.asks \union {t}
  BY DEF TerminalInv, ClientOk, TaskStates
<1>3. Later(rows, [rows EXCEPT !.task[t] = "over"])
  BY <1>2, WriteTask
<1>4. Later(rows, [rows EXCEPT !.asks = rows.asks \union {t}])
  BY <1>2, WriteTask
<1>5. Later(rows, rows')
  BY <1>1, <1>3, <1>4
<1> QED BY <1>5, RowsMove DEF ChainStep

LEMMA ServeLateOk ==
  ASSUME TerminalInv, ServeLate
  PROVE  TerminalInv' /\ Silent /\ AtHome
<1>1. PICK a \in Answers(late) : rows' = a.rows
  BY DEF ServeLate
<1>2. Known(late) /\ RowsOk(rows)
  BY DEF ServeLate, TerminalInv, ClientOk, LateOk
<1>3. Later(rows, rows')
  <2>1. CASE late.op # "sessionsOf"
    BY <1>1, <1>2, <2>1, Served DEF Answers
  <2>2. CASE late.op = "sessionsOf"
    <3>1. \E s : a = Unchanged(s, late.id)
      BY <1>1, <2>2 DEF Answers
    <3> QED BY <1>1, <1>2, <3>1, Plain, LaterSelf
  <2> QED BY <2>1, <2>2
<1> QED BY <1>3, RowsMove DEF ServeLate

\* Nothing but where the reader is.
LEMMA TermMoves ==
  ASSUME TerminalInv, UNCHANGED <<kind, rows, server, late, told, misread>>, UNCHANGED thread,
         IdsOk(term', rows, told), PlaceOk(term', rows),
         term'.pc \notin {"clear", "spawn", "joining"} \/ term'.pc = term.pc
  PROVE  TerminalInv' /\ Silent /\ AtHome
<1>1. Later(rows, rows') /\ ToldOk(told', rows') /\ IdsOk(term', rows', told') /\ PlaceOk(term', rows')
  BY LaterSelf DEF TerminalInv, ClientOk
<1>2. LateOk' /\ misread' \subseteq Lists /\ EmptyIsAnAnswer' /\ server' \in {"up", "stopping", "down"}
  BY DEF TerminalInv, ClientOk, EmptyIsAnAnswer, LateOk, Known
<1>3. TerminalInv' /\ Silent
  BY <1>1, <1>2, ClientMoves
<1>4. AtHome
  <2>1. Len(rows.task) \in Nat
    BY AtPlace DEF RowsOk
  <2> QED BY <2>1 DEF AtHome
<1> QED BY <1>3, <1>4

LEMMA ConsoleBootsOk ==
  ASSUME TerminalInv, ConsoleBoots
  PROVE  TerminalInv' /\ Silent /\ AtHome
BY AtPlace, GoesBack, TermMoves DEF ConsoleBoots, Goes

LEMMA EmptyLineOk ==
  ASSUME TerminalInv, EmptyLine
  PROVE  TerminalInv' /\ Silent /\ AtHome
BY AtPlace, GoesBack, TermMoves DEF EmptyLine

LEMMA PcMoves ==
  ASSUME TerminalInv, NEW p \in Places, NEW t, t = [term EXCEPT !.pc = p]
  PROVE  IdsOk(t, rows, told) /\ t.pc = p /\ t.arg = term.arg /\ t.ws = term.ws
<1>1. t = Now(term, term.glob, term.ws, term.sess, p, term.arg)
  BY AtPlace, TermForms
<1> QED BY <1>1, AtPlace, Moves DEF SessionIds

LEMMA QuitOk ==
  ASSUME TerminalInv, Quit
  PROVE  TerminalInv' /\ Silent /\ AtHome
<1>1. term.pc = "ready" /\ term' = [term EXCEPT !.pc = "halt"] /\ "halt" \in Places
  BY DEF Quit, Quits, At, Places
<1>2. IdsOk(term', rows, told) /\ term'.pc = "halt" /\ term'.arg = term.arg
  BY <1>1, PcMoves
<1>3. PlaceOk(term', rows)
  BY <1>1, <1>2, AtPlace DEF PlaceOk
<1> QED BY <1>2, <1>3, TermMoves DEF Quit, Quits, thread

-----------------------------------------------------------------------------
(* The steps of the listener, of its two stoppers and of the server.         *)

\* The client as it was, with the reader elsewhere.
LEMMA ClientKept ==
  ASSUME TerminalInv, UNCHANGED <<kind, rows, late, told, misread>>,
         server' \in {"up", "stopping", "down"}, IdsOk(term', rows, told), PlaceOk(term', rows)
  PROVE  ClientOk' /\ AtHome
<1>1. ClientOk'
  BY DEF TerminalInv, ClientOk, EmptyIsAnAnswer, IdsOk, TermOk, LateOk, Known
<1>2. Len(rows.task) \in Nat
  BY AtPlace DEF RowsOk
<1> QED BY <1>1, <1>2 DEF AtHome

LEMMA ListenerStepKeeps ==
  ASSUME TerminalInv, ListenerStep
  PROVE  TerminalInv' /\ Silent /\ AtHome
<1>1. ThreadsOk' /\ Silent
  BY ListenerStepOk DEF TerminalInv, Silent
<1>2. UNCHANGED <<kind, rows, late, told, misread, server, term>>
  BY DEF ListenerStep
<1>3. ClientOk' /\ AtHome
  BY <1>2, AtPlace, ClientKept DEF TerminalInv, ClientOk
<1> QED BY <1>1, <1>3 DEF TerminalInv

LEMMA SignalOk ==
  ASSUME TerminalInv, Signal
  PROVE  TerminalInv' /\ Silent /\ AtHome
<1>1. UNCHANGED <<kind, rows, late, term, told, misread>> /\ UNCHANGED thread /\ server' = "stopping"
  BY DEF Signal
<1>2. ClientOk' /\ AtHome
  BY <1>1, AtPlace, ClientKept
<1>3. ThreadsOk'
  BY <1>1, ThreadsKept DEF TerminalInv, thread
<1>4. Silent
  BY <1>1 DEF thread, Silent, TerminalInv, ThreadsOk, ListenerOk, ListenerType, Quietly
<1> QED BY <1>2, <1>3, <1>4 DEF TerminalInv

LEMMA ServerReturnsOk ==
  ASSUME TerminalInv, ServerReturns
  PROVE  TerminalInv' /\ Silent /\ AtHome
<1>1. /\ UNCHANGED <<kind, rows, late, term, cancel, listener, crashed, told, misread>>
      /\ server' = "down" /\ ~crashed
      /\ main' = [main EXCEPT !.pc = IF kind = "console" THEN "halt" ELSE "done"]
  BY DEF ServerReturns
<1>2. ClientOk' /\ AtHome
  BY <1>1, AtPlace, ClientKept
<1>3. main' \in [pc : {"serving", "halt", "joining", "repl", "done"}, again : BOOLEAN]
      /\ main'.pc # "serving"
  BY <1>1 DEF TerminalInv, ThreadsOk, JoinOk
<1>4. ThreadsOk'
  BY <1>1, <1>3 DEF TerminalInv, ThreadsOk, ListenerOk, JoinOk, EndIsTold, CrashNeedsShutdown
<1>5. Silent
  BY <1>1 DEF Silent, TerminalInv, ThreadsOk, ListenerOk, ListenerType, Quietly
<1> QED BY <1>2, <1>4, <1>5 DEF TerminalInv

LEMMA TermStepKeeps ==
  ASSUME TerminalInv, TermStep
  PROVE  TerminalInv' /\ Silent /\ AtHome
<1>1. UNCHANGED <<kind, rows, server, late, told, misread>>
  BY DEF TermStep
<1>2. term.pc \in {"clear", "spawn"} => term.arg \in TaskIds /\ term.arg # None
  BY AtPlace DEF PlaceOk, TaskIds
<1>3. ThreadsOk' /\ Silent
  BY <1>2, AtPlace, TermStepOk DEF TerminalInv, IdsOk, TermOk
<1>4. IdsOk(term, rows, told) /\ PlaceOk(term, rows)
  BY AtPlace
<1>5. term.pc \in {"halt", "joining"} => term.arg \in DOMAIN rows.task \union {None}
  BY <1>4 DEF PlaceOk
<1>6. ASSUME Halted, term.pc \in {"halt", "joining"}
      PROVE  IdsOk(term', rows, told) /\ PlaceOk(term', rows)
  <2>1. CASE term.arg = None
    <3>1. term' = [term EXCEPT !.pc = "out", !.running = FALSE]
      BY <1>6, <2>1 DEF Halted
    <3>2. /\ term' \in [pc : Places, glob : Globals, ws : Workspaces \union {None, DefaultWorkspace},
                        sess : DOMAIN rows.sess \union {None}, arg : Nat, running : BOOLEAN]
          /\ term'.pc = "out" /\ term'.arg = term.arg /\ term'.sess = term.sess
          /\ term'.ws = term.ws /\ term'.glob = term.glob
      <4> DEFINE S == DOMAIN rows.sess \union {None}
                 W == Workspaces \union {None, DefaultWorkspace}
      <4>1. term \in [pc : Places, glob : Globals, ws : W, sess : S, arg : Nat, running : BOOLEAN]
            /\ "out" \in Places
        BY <1>4 DEF IdsOk, TermOk, Places
      <4> HIDE DEF S, W
      <4>2. /\ term' \in [pc : Places, glob : Globals, ws : W, sess : S, arg : Nat, running : BOOLEAN]
            /\ term'.pc = "out" /\ term'.arg = term.arg /\ term'.sess = term.sess
            /\ term'.ws = term.ws /\ term'.glob = term.glob
        BY <3>1, <4>1
      <4> QED BY <4>2 DEF S, W
    <3> QED BY <1>4, <2>1, <3>2 DEF IdsOk, TermOk, PlaceOk
  <2>2. CASE term.arg # None
    <3>1. term' = [term EXCEPT !.pc = "clear"] /\ "clear" \in Places
      BY <1>6, <2>2 DEF Halted, At, Places
    <3>2. IdsOk(term', rows, told) /\ term'.pc = "clear" /\ term'.arg = term.arg
      BY <3>1, PcMoves
    <3> QED BY <1>5, <1>6, <2>2, <3>2 DEF PlaceOk
  <2> QED BY <2>1, <2>2
<1>7. ASSUME At("joining"), term.pc = "halt"
      PROVE  IdsOk(term', rows, told) /\ PlaceOk(term', rows)
  <2>1. term' = [term EXCEPT !.pc = "joining"] /\ "joining" \in Places
    BY <1>7 DEF At, Places
  <2>2. IdsOk(term', rows, told) /\ term'.pc = "joining" /\ term'.arg = term.arg
    BY <2>1, PcMoves
  <2> QED BY <1>5, <1>7, <2>2 DEF PlaceOk
<1>8. ASSUME At("spawn"), term.pc = "clear"
      PROVE  IdsOk(term', rows, told) /\ PlaceOk(term', rows)
  <2>1. term' = [term EXCEPT !.pc = "spawn"] /\ "spawn" \in Places
    BY <1>8 DEF At, Places
  <2>2. IdsOk(term', rows, told) /\ term'.pc = "spawn" /\ term'.arg = term.arg
    BY <2>1, PcMoves
  <2> QED BY <1>2, <1>8, <2>2 DEF PlaceOk, TaskIds
<1>9. IdsOk(term', rows, told) /\ PlaceOk(term', rows)
  <2>1. \/ term' = term
        \/ Halted /\ term.pc \in {"halt", "joining"}
        \/ At("joining") /\ term.pc = "halt"
        \/ At("spawn") /\ term.pc = "clear"
        \/ term' = Back(term)
    BY DEF TermStep, stopStreamListener, startStreamListener, Halt, Join
  <2> QED BY <1>4, <1>6, <1>7, <1>8, <2>1, GoesBack
<1>10. server' \in {"up", "stopping", "down"}
  BY <1>1 DEF TerminalInv, ClientOk
<1>11. ClientOk' /\ AtHome
  BY <1>1, <1>9, <1>10, ClientKept
<1> QED BY <1>3, <1>11 DEF TerminalInv

LEMMA StopKeeps ==
  ASSUME TerminalInv, stop
  PROVE  TerminalInv' /\ Silent /\ AtHome
<1>1. UNCHANGED <<kind, rows, server, late, told, misread>>
  BY DEF stop
<1>2. ThreadsOk' /\ Silent /\ term' \in {term, Stopped(term)}
  BY AtPlace, StopOk DEF TerminalInv, IdsOk, TermOk
<1>3. IdsOk(term, rows, told) /\ PlaceOk(term, rows)
  BY AtPlace
<1>4. IdsOk(Stopped(term), rows, told) /\ PlaceOk(Stopped(term), rows)
  <2> DEFINE S == DOMAIN rows.sess \union {None}
             W == Workspaces \union {None, DefaultWorkspace}
             t == Stopped(term)
  <2>1. term \in [pc : Places, glob : Globals, ws : W, sess : S, arg : Nat, running : BOOLEAN]
    BY <1>3 DEF IdsOk, TermOk
  <2> HIDE DEF S, W
  <2>2. /\ t \in [pc : Places, glob : Globals, ws : W, sess : S, arg : Nat, running : BOOLEAN]
        /\ t.pc = term.pc /\ t.arg = term.arg /\ t.sess = term.sess
        /\ t.ws = term.ws /\ t.glob = term.glob
    BY <2>1 DEF Stopped
  <2> HIDE DEF t
  <2>3. IdsOk(t, rows, told) /\ PlaceOk(t, rows)
    BY <1>3, <2>2 DEF S, W, IdsOk, TermOk, PlaceOk
  <2> QED BY <2>3 DEF t
<1>5. IdsOk(term', rows, told) /\ PlaceOk(term', rows)
  BY <1>2, <1>3, <1>4
<1>6. server' \in {"up", "stopping", "down"}
  BY <1>1 DEF TerminalInv, ClientOk
<1>7. ClientOk' /\ AtHome
  BY <1>1, <1>5, <1>6, ClientKept
<1> QED BY <1>2, <1>7 DEF TerminalInv

-----------------------------------------------------------------------------

\* Every step keeps the invariant, and does what the two action properties say.
LEMMA TerminalStep ==
  ASSUME TerminalInv, [TerminalNext]_terminalVars
  PROVE  TerminalInv' /\ Silent /\ AtHome
<1>1. CASE UNCHANGED terminalVars
  BY <1>1, AtPlace, TermMoves DEF terminalVars, thread
<1>2. CASE CliBoots \/ ConsoleBoots
  BY <1>2, CliBootsOk, ConsoleBootsOk
<1>3. CASE CliCommand \/ ConsoleCommand \/ TaskCreate
  BY <1>3, CliCommandOk, ConsoleCommandOk, TaskCreateOk
<1>4. CASE ConsoleRestores \/ Binds \/ EmptyLine \/ Quit
  BY <1>4, ConsoleRestoresOk, BindsOk, EmptyLineOk, QuitOk
<1>5. CASE OtherClient \/ ChainStep \/ ServeLate
  BY <1>5, OtherClientOk, ChainStepOk, ServeLateOk
<1>6. CASE ListenerStep \/ TermStep \/ stop
  BY <1>6, ListenerStepKeeps, TermStepKeeps, StopKeeps
<1>7. CASE Signal \/ ServerReturns
  BY <1>7, SignalOk, ServerReturnsOk
<1> QED BY <1>1, <1>2, <1>3, <1>4, <1>5, <1>6, <1>7 DEF TerminalNext

LEMMA TerminalStart ==
  ASSUME TerminalInit PROVE TerminalInv
<1>1. RowsOk(rows)
  BY FirstRowsAssumption DEF TerminalInit, RowsOk
<1>2. ToldOk(told, rows)
  BY DEF TerminalInit, ToldOk
<1>3. term \in [pc : Places, glob : Globals, ws : Workspaces \union {None, DefaultWorkspace},
                sess : DOMAIN rows.sess \union {None}, arg : Nat, running : BOOLEAN]
  <2> DEFINE S == DOMAIN rows.sess \union {None}
             W == Workspaces \union {None, DefaultWorkspace}
             w == IF kind = "cli" THEN None ELSE DefaultWorkspace
  <2>1. None \in S /\ w \in W /\ DefaultGlobal \in Globals /\ "boot" \in Places /\ None \in Nat
    BY ConstantsAssumption DEF Places, None
  <2>2. term = [pc |-> "boot", glob |-> DefaultGlobal, sess |-> None, arg |-> None, running |-> TRUE,
                ws |-> w]
    BY DEF TerminalInit
  <2> HIDE DEF S, W, w
  <2>3. term \in [pc : Places, glob : Globals, ws : W, sess : S, arg : Nat, running : BOOLEAN]
    BY <2>1, <2>2
  <2> QED BY <2>3 DEF S, W
<1>4. IdsOk(term, rows, told) /\ PlaceOk(term, rows)
  BY <1>3 DEF TerminalInit, IdsOk, TermOk, PlaceOk
<1>5. ClientOk
  BY <1>1, <1>2, <1>4 DEF TerminalInit, ClientOk, LateOk, EmptyIsAnAnswer
<1>6. ThreadsOk
  <2>1. ListenerOk(listener, rows)
    BY DEF TerminalInit, ListenerOk, ListenerType, NoListener, None
  <2>2. JoinOk
    BY DEF TerminalInit, JoinOk
  <2> QED BY <2>1, <2>2 DEF TerminalInit, ThreadsOk, EndIsTold, CrashNeedsShutdown, NoListener
<1> QED BY <1>5, <1>6 DEF TerminalInv

\* What the invariant says of the two properties.
LEMMA TerminalMeans ==
  ASSUME TerminalInv
  PROVE  TerminalTypeOK /\ DeletedIsNotActive /\ EmptyIsAnAnswer /\ EndIsTold /\ CrashNeedsShutdown
<1>1. DeletedIsNotActive /\ EmptyIsAnAnswer /\ EndIsTold /\ CrashNeedsShutdown
  BY DEF TerminalInv, ClientOk, ThreadsOk, IdsOk, TermOk, DeletedIsNotActive
<1>2. /\ kind \in {"cli", "console"} /\ server \in {"up", "stopping", "down"}
      /\ rows.ws \in [Workspaces -> Life] /\ rows.glob \in [Globals -> Life]
      /\ rows.sess \in Seq(Workspaces \union {None}) /\ rows.task \in Seq(TaskStates)
      /\ rows.asks \subseteq TaskIds /\ misread \subseteq Lists
  BY DEF TerminalInv, ClientOk, RowsOk, TaskIds
<1>3. term \in [pc : {"boot", "ready", "restore", "bind", "halt", "joining", "clear", "spawn", "out"},
                glob : Globals, ws : Workspaces \union {None, DefaultWorkspace},
                sess : SessionIds \union {None}, arg : Nat, running : BOOLEAN]
  BY AtPlace DEF IdsOk, TermOk, Places, SessionIds
<1>4. listener \in [st : {"none", "connecting", "accepted", "open", "ended"}, task : TaskIds \union {None},
                    at : 0..3, left : 0..3, notices : 0..2, dead : BOOLEAN]
  <2>1. ListenerOk(listener, rows)
    BY DEF TerminalInv, ThreadsOk
  <2>2. listener.task \in TaskIds \union {None}
    BY <2>1 DEF ListenerOk, TaskIds, NoListener
  <2> DEFINE S == TaskIds \union {None}
  <2> HIDE DEF S
  <2>3. listener \in ListenerType /\ listener.task \in S
    BY <2>1, <2>2 DEF ListenerOk, S
  <2>4. listener \in [st : {"none", "connecting", "accepted", "open", "ended"}, task : S,
                      at : 0..3, left : 0..3, notices : 0..2, dead : BOOLEAN]
    BY <2>3 DEF ListenerType
  <2> QED BY <2>4 DEF S
<1>5. /\ main \in [pc : {"serving", "halt", "joining", "repl", "done"}, again : BOOLEAN]
      /\ cancel \in BOOLEAN /\ crashed \in BOOLEAN
  BY DEF TerminalInv, ThreadsOk, JoinOk
<1>6. TerminalTypeOK
  BY <1>2, <1>3, <1>4, <1>5 DEF TerminalTypeOK
<1> QED BY <1>1, <1>6

\* The invariant of the two clients.
THEOREM TerminalsHold == TerminalSpec => []TerminalInv
<1>1. TerminalInit => TerminalInv
  BY TerminalStart
<1>2. TerminalInv /\ [TerminalNext]_terminalVars => TerminalInv'
  BY TerminalStep
<1> QED BY <1>1, <1>2, PTL DEF TerminalSpec

\* The ids a client works with are the server's.
THEOREM TerminalIds == TerminalSpec => IdsAreTrue
<1>1. TerminalInv => TerminalTypeOK /\ DeletedIsNotActive /\ EmptyIsAnAnswer
  BY TerminalMeans
<1>2. TerminalInv /\ [TerminalNext]_terminalVars
      => [Len(rows'.task) > Len(rows.task) /\ term.pc = "ready" /\ term'.pc = "halt"
            => LiveWorkspace(term.ws) /\ LiveSession(term.sess)
               /\ rows.sess[term.sess] = term.ws]_terminalVars
  BY TerminalStep DEF AtHome
<1> QED BY <1>1, <1>2, TerminalsHold, PTL DEF TerminalSpec, IdsAreTrue, StaleIdsAreRefused

\* The listener tells its end, is silent when stopped or only shows a refusal, and is
\* joined once.
THEOREM TerminalListener == TerminalSpec => ListenerIsTrue
<1>1. TerminalInv => EndIsTold /\ CrashNeedsShutdown
  BY TerminalMeans
<1>2. TerminalInv /\ [TerminalNext]_terminalVars
      => [cancel /\ cancel' /\ listener'.task = listener.task
            => /\ listener'.left <= listener.left
               /\ \/ listener'.notices - listener.notices <= listener'.at - listener.at
                  \/ RefusalIsShown /\ listener'.notices = 1]_terminalVars
  BY TerminalStep DEF Silent, Quietly
<1> QED BY <1>1, <1>2, TerminalsHold, PTL DEF TerminalSpec, ListenerIsTrue, CancelledIsSilent
=============================================================================
