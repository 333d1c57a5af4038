----------------------- MODULE ConversationStoreProofs -----------------------
(* What holds of the conversation's rows for any number of workspaces,         *)
(* sessions, globals and tasks, and whatever is deleted, moved or cancelled:   *)
(* the rows agree, nothing is born under something that is gone, and what      *)
(* readers see is the ledger.                                                  *)
EXTENDS ConversationStore, FiniteSetTheorems, SequenceTheorems, TLAPS

-----------------------------------------------------------------------------
(* Rows with the numbers 1 to n: how MAX, COUNT and ORDER BY see them.         *)

Numbers(R, n) ==
  /\ {m.no : m \in R} = 1..n
  /\ \A m1, m2 \in R : m1.no = m2.no => m1 = m2

Nth(R, i) == CHOOSE m \in R : /\ Cardinality({q \in R : q.no < m.no}) < i
                              /\ Cardinality({q \in R : q.no <= m.no}) >= i

\* The largest of 1 to n is n.
LEMMA MaxOfInterval ==
  ASSUME NEW n \in Nat \ {0}
  PROVE  Max(1..n) = n
<1> DEFINE IsMax(x) == x \in 1..n /\ \A y \in 1..n : x >= y
<1>1. IsMax(n)
  OBVIOUS
<1>2. \A x : IsMax(x) => x = n
  OBVIOUS
<1>3. Max(1..n) = CHOOSE x : IsMax(x)
  BY DEF Max
<1> HIDE DEF IsMax
<1>4. IsMax(CHOOSE x : IsMax(x))
  BY <1>1
<1> QED
  BY <1>2, <1>3, <1>4

\* Of rows with the numbers 1 to n, k have a number up to k.
LEMMA CountUpTo ==
  ASSUME NEW R, NEW n \in Nat, Numbers(R, n), NEW k \in 0..n
  PROVE  Cardinality({m \in R : m.no <= k}) = k
<1> DEFINE S == {m \in R : m.no <= k}
           f == [m \in S |-> m.no]
<1>1. \A m \in R : m.no \in 1..n
  BY DEF Numbers
<1>2. \A i \in 1..k : \E m \in S : m.no = i
  <2> SUFFICES ASSUME NEW i \in 1..k PROVE \E m \in S : m.no = i
    OBVIOUS
  <2>1. i \in 1..n /\ i <= k
    OBVIOUS
  <2>2. i \in {m.no : m \in R}
    BY <2>1 DEF Numbers
  <2> QED
    BY <2>1, <2>2
<1>3. f \in [S -> 1..k]
  BY <1>1
<1>4. f \in Injection(S, 1..k)
  BY <1>3 DEF Injection, IsInjective, Numbers
<1>5. f \in Surjection(S, 1..k)
  BY <1>2, <1>3 DEF Surjection
<1>6. IsFiniteSet(1..k) /\ Cardinality(1..k) = k
  BY FS_Interval
<1>7. Cardinality(S) = Cardinality(1..k)
  BY <1>4, <1>5, <1>6, FS_Injection
<1> QED
  BY <1>6, <1>7

\* ORDER BY: of rows with the numbers 1 to n the i-th has the number i.
LEMMA NthHasNumber ==
  ASSUME NEW R, NEW n \in Nat, Numbers(R, n), NEW i \in 1..n
  PROVE  Nth(R, i) \in R /\ Nth(R, i).no = i
<1> DEFINE IsNth(m) == /\ Cardinality({q \in R : q.no < m.no}) < i
                       /\ Cardinality({q \in R : q.no <= m.no}) >= i
<1>1. ASSUME NEW m \in R PROVE IsNth(m) <=> m.no = i
  <2>1. \A q \in R : q.no \in 1..n
    BY DEF Numbers
  <2>2. {q \in R : q.no < m.no} = {q \in R : q.no <= m.no - 1}
    BY <2>1
  <2>3. m.no - 1 \in 0..n /\ m.no \in 0..n
    BY <2>1
  <2>4. Cardinality({q \in R : q.no <= m.no - 1}) = m.no - 1 /\ Cardinality({q \in R : q.no <= m.no}) = m.no
    BY <2>3, CountUpTo
  <2>5. Cardinality({q \in R : q.no < m.no}) = m.no - 1
    BY <2>2, <2>4
  <2>6. IsNth(m) <=> m.no - 1 < i /\ m.no >= i
    BY <2>4, <2>5
  <2> QED
    BY <2>3, <2>6
<1>2. \E m \in R : m.no = i
  <2>1. i \in {m.no : m \in R}
    BY DEF Numbers
  <2> QED
    BY <2>1
<1>3. \E m \in R : IsNth(m)
  BY <1>1, <1>2
<1> DEFINE x == CHOOSE m \in R : IsNth(m)
<1>4. x \in R /\ IsNth(x)
  <2> HIDE DEF IsNth
  <2> QED
    BY <1>3
<1>5. Nth(R, i) = x
  BY DEF Nth
<1> HIDE DEF x, IsNth
<1> QED
  BY <1>1, <1>4, <1>5
-----------------------------------------------------------------------------
(* The messages of a session, as its readers see them.                         *)

Rows(M, s) == {m \in M : m.session = s}

Entries == [task : Tasks, role : {"user", "assistant"}]
EntryOf(m) == [task |-> m.task, role |-> m.role]

TalkOf(R) == [i \in 1..Cardinality(R) |-> EntryOf(Nth(R, i))]

LEMMA TalkIs ==
  ASSUME NEW s
  PROVE  Talk(s) = TalkOf(Rows(messages, s)) /\ Talk(s)' = TalkOf(Rows(messages', s))
BY DEF Talk, NthMessage, TalkOf, Nth, EntryOf, Rows

\* What a talk says is what its messages say, each at its number.
LEMMA TalkTells ==
  ASSUME NEW R, R \subseteq Message, NEW n \in Nat, n = Cardinality(R), Numbers(R, n)
  PROVE  /\ TalkOf(R) \in Seq(Entries) /\ Len(TalkOf(R)) = n /\ DOMAIN TalkOf(R) = 1..n
         /\ \A m \in R : m.no \in 1..n /\ TalkOf(R)[m.no] = EntryOf(m)
         /\ \A i \in 1..n : \E m \in R : m.no = i /\ TalkOf(R)[i] = EntryOf(m)
<1>1. \A i \in 1..n : Nth(R, i) \in R /\ Nth(R, i).no = i
  BY NthHasNumber
<1>2. \A m \in R : m.no \in 1..n /\ Nth(R, m.no) = m
  BY <1>1 DEF Numbers
<1>3. \A m \in R : EntryOf(m) \in Entries
  BY DEF Message, Entries, EntryOf
<1>4. \A i \in 1..n : TalkOf(R)[i] = EntryOf(Nth(R, i))
  BY DEF TalkOf
<1>5. TalkOf(R) \in [1..n -> Entries]
  BY <1>1, <1>3 DEF TalkOf
<1>6. TalkOf(R) \in Seq(Entries) /\ Len(TalkOf(R)) = n
  BY <1>5
<1> QED
  BY <1>1, <1>2, <1>4, <1>5, <1>6

\* A message with the next number comes at the end.
LEMMA TalkGrows ==
  ASSUME NEW R, IsFiniteSet(R), R \subseteq Message, NEW n \in Nat, n = Cardinality(R), Numbers(R, n),
         NEW m \in Message, m.no = n + 1
  PROVE  /\ IsFiniteSet(R \cup {m}) /\ Cardinality(R \cup {m}) = n + 1 /\ Numbers(R \cup {m}, n + 1)
         /\ TalkOf(R \cup {m}) = Append(TalkOf(R), EntryOf(m))
<1> DEFINE S == R \cup {m}
<1>1. \A q \in R : q.no \in 1..n
  BY DEF Numbers
<1>2. m \notin R
  BY <1>1
<1>3. IsFiniteSet(S) /\ Cardinality(S) = n + 1
  BY <1>2, FS_AddElement
<1>4. Numbers(S, n + 1)
  <2>1. {q.no : q \in S} = {q.no : q \in R} \cup {m.no}
    OBVIOUS
  <2>2. 1..(n + 1) = (1..n) \cup {n + 1}
    OBVIOUS
  <2>3. {q.no : q \in S} = 1..(n + 1)
    BY <2>1, <2>2 DEF Numbers
  <2>4. \A q, r \in S : q.no = r.no => q = r
    BY <1>1 DEF Numbers
  <2> QED
    BY <2>3, <2>4 DEF Numbers
<1>5. TalkOf(S) = Append(TalkOf(R), EntryOf(m))
  <2> DEFINE old == TalkOf(R)
             new == TalkOf(S)
             e == EntryOf(m)
  <2>1. /\ old \in Seq(Entries) /\ Len(old) = n
        /\ \A q \in R : old[q.no] = EntryOf(q)
        /\ \A i \in 1..n : \E q \in R : q.no = i
    BY TalkTells
  <2>2. /\ new \in Seq(Entries) /\ Len(new) = n + 1
        /\ \A q \in S : new[q.no] = EntryOf(q)
    <3>1. S \subseteq Message /\ n + 1 \in Nat
      OBVIOUS
    <3> QED
      BY <1>3, <1>4, <3>1, TalkTells
  <2>3. e \in Entries
    BY DEF Message, Entries, EntryOf
  <2>4. ASSUME NEW i \in 1..n PROVE new[i] = old[i]
    <3>1. PICK q \in R : q.no = i
      BY <2>1
    <3>2. new[q.no] = EntryOf(q) /\ old[q.no] = EntryOf(q)
      BY <2>1, <2>2
    <3> QED
      BY <3>1, <3>2
  <2>5. new[n + 1] = e
    BY <2>2
  <2> HIDE DEF old, new, e
  <2>6. /\ Append(old, e) \in Seq(Entries) /\ Len(Append(old, e)) = n + 1
        /\ \A i \in 1..(n + 1) : Append(old, e)[i] = IF i = n + 1 THEN e ELSE old[i]
    BY <2>1, <2>3
  <2>7. \A i \in 1..Len(new) : new[i] = Append(old, e)[i]
    BY <2>2, <2>4, <2>5, <2>6
  <2>8. new = Append(old, e)
    BY <2>2, <2>6, <2>7, SeqEqual
  <2> QED
    BY <2>8 DEF old, new, e
<1> QED
  BY <1>3, <1>4, <1>5
-----------------------------------------------------------------------------
(* The inductive invariant.                                                    *)

PartNames == {"summary", "plan", "output"}
Early == {"parent", "session", "global", "insert"}
Late == {"mark", "start"}

\* The rows of messages are numbered, and a task has one in each role at most.
TalkInv ==
  /\ IsFiniteSet(messages)
  /\ \A s \in Sessions : Numbers(Rows(messages, s), Cardinality(Rows(messages, s)))
  /\ \A m \in messages : m.task \in born
  /\ \A m, n \in messages : m.task = n.task /\ m.role = n.role => m = n

RowInv == PointersResolve /\ \A t \in Tasks : tasks[t] # None => t \in born

\* Until its row is written the task is not born, and its request has passed the checks;
\* it gets its thread when the request ends.
RequestOk(t, r, B, p) ==
  /\ r.at \in Early => t \notin B
  /\ r.at \in Late => t \in B
  /\ p # "none" => t \in B /\ r.at = "idle"
  /\ r.at # "idle" => r.ws \in Workspaces
  /\ r.at = "parent" => r.parent \in Tasks
  /\ r.at \in {"session", "global", "insert"} \cup Late => r.session \in Sessions
  /\ r.at \in {"insert"} \cup Late => r.global \in Globals

RequestInv == \A t \in Tasks : RequestOk(t, request[t], born, worker[t])

\* The parts archived are those no longer to do, all of them in one global.
ArchiveOk(t, C, g, p, parts, left) ==
  /\ \A c \in C : c.task = t => c.global = g
  /\ left \subseteq parts
  /\ p # "lost" => \A a \in PartNames : a \in parts \ left <=> \E c \in C : c.task = t /\ c.part = a
  /\ p \in {"none", "running", "cleanup"} => parts = {}
  /\ p = "done" => left = {}

ArchiveInv == \A t \in Tasks : ArchiveOk(t, contexts, home[t], worker[t], result[t], todo[t])

IInv == TypeOK /\ TalkInv /\ RowInv /\ RequestInv /\ ArchiveInv /\ ContextHasGlobal

-----------------------------------------------------------------------------
(* What a step leaves as it was.                                               *)

LEMMA TalkKept ==
  ASSUME TalkInv, messages' = messages, born \subseteq born'
  PROVE  TalkInv'
BY DEF TalkInv

\* Of a row that stays, session, question and answer stay.
SameRow(x, y) ==
  x = y \/ (x \in Row /\ y \in Row /\ x.session = y.session /\ x.question = y.question /\ x.answer = y.answer)

LEMMA RowsKept ==
  ASSUME TypeOK, RowInv, messages' = messages, born \subseteq born',
         \A t \in Tasks : tasks'[t] = None \/ SameRow(tasks[t], tasks'[t])
  PROVE  RowInv'
<1>1. ASSUME NEW t \in Tasks, tasks'[t] # None
      PROVE  /\ tasks[t] # None /\ tasks'[t].session = tasks[t].session
             /\ tasks'[t].question = tasks[t].question /\ tasks'[t].answer = tasks[t].answer
  BY <1>1, NoneAssumption DEF SameRow
<1>2. \A t \in Tasks : tasks'[t] # None => t \in born'
  BY <1>1 DEF RowInv
<1>3. PointersResolve'
  <2> SUFFICES ASSUME NEW s \in Sessions, NEW t \in Tasks, tasks'[t] # None, tasks'[t].session = s
               PROVE  LET row == tasks'[t]
                      IN  /\ \E m \in messages : /\ m.task = t /\ m.role = "user"
                                                 /\ m.session = s /\ m.no = row.question
                          /\ \A m \in FinalAnswer(t) : /\ m.session = s /\ m.no = row.answer
                                                       /\ m.no > row.question
                          /\ row.answer # 0 => FinalAnswer(t) # {}
    BY DEF PointersResolve, TasksOf, FinalAnswer
  <2>1. t \in TasksOf(s)
    BY <1>1 DEF TasksOf
  <2> QED
    BY <1>1, <2>1 DEF RowInv, PointersResolve
<1> QED
  BY <1>2, <1>3 DEF RowInv

\* A request of one task goes on.
LEMMA RequestMoves ==
  ASSUME TypeOK, RequestInv, NEW t \in Tasks, NEW r, request' = [request EXCEPT ![t] = r],
         born \subseteq born', \A u \in Tasks \ {t} : u \in born' <=> u \in born,
         \A u \in Tasks \ {t} : worker'[u] = worker[u],
         RequestOk(t, r, born', worker'[t])
  PROVE  RequestInv'
BY DEF TypeOK, RequestInv, RequestOk

LEMMA RequestsKept ==
  ASSUME RequestInv, request' = request, \A u \in Tasks : u \in born' <=> u \in born,
         \A u \in Tasks : worker[u] # "none" \/ worker'[u] = worker[u]
  PROVE  RequestInv'
BY DEF RequestInv, RequestOk

LEMMA ArchiveKept ==
  ASSUME ArchiveInv, UNCHANGED <<contexts, home, result, todo>>,
         \A t \in Tasks : worker'[t] \in {worker[t], "lost"}
  PROVE  ArchiveInv'
BY DEF ArchiveInv, ArchiveOk

\* The thread of one task goes on.
LEMMA ArchiveMoves ==
  ASSUME ArchiveInv, NEW t \in Tasks,
         \A u \in Tasks \ {t} : /\ worker'[u] = worker[u] /\ home'[u] = home[u]
                                /\ result'[u] = result[u] /\ todo'[u] = todo[u],
         \A u \in Tasks \ {t} : \A c : c.task = u => (c \in contexts' <=> c \in contexts),
         ArchiveOk(t, contexts', home'[t], worker'[t], result'[t], todo'[t])
  PROVE  ArchiveInv'
<1>1. ASSUME NEW u \in Tasks \ {t}
      PROVE  ArchiveOk(u, contexts', home'[u], worker'[u], result'[u], todo'[u])
  <2>1. ArchiveOk(u, contexts, home[u], worker[u], result[u], todo[u])
    BY DEF ArchiveInv
  <2> QED
    BY <2>1 DEF ArchiveOk
<1> QED
  BY <1>1 DEF ArchiveInv

\* UPDATE tasks SET status touches the status of one row, if there is one.
LEMMA StatusSet ==
  ASSUME TypeOK, NEW t \in Tasks, NEW st \in {"created", "running", "ended", "cancelled", "interrupted"},
         tasks' = WithStatus(t, st)
  PROVE  /\ tasks' \in [Tasks -> Row \cup {None}]
         /\ \A u \in Tasks : SameRow(tasks[u], tasks'[u])
<1>1. \A u \in Tasks : tasks[u] = None \/ tasks[u] \in Row
  BY DEF TypeOK
<1>2. ASSUME NEW row \in Row
      PROVE  [row EXCEPT !.status = st] \in Row /\ SameRow(row, [row EXCEPT !.status = st])
  BY DEF Row, SameRow
<1>3. tasks' = [tasks EXCEPT ![t] = IF tasks[t] = None THEN None ELSE [tasks[t] EXCEPT !.status = st]]
  BY DEF WithStatus
<1>4. \A u \in Tasks : tasks'[u] = IF u = t /\ tasks[t] # None THEN [tasks[t] EXCEPT !.status = st] ELSE tasks[u]
  BY <1>3 DEF TypeOK
<1>5. \A u \in Tasks : SameRow(tasks[u], tasks'[u]) /\ tasks'[u] \in Row \cup {None}
  BY <1>1, <1>2, <1>4 DEF SameRow
<1>6. tasks' = [u \in Tasks |-> tasks'[u]]
  BY <1>3 DEF TypeOK
<1> QED
  BY <1>5, <1>6
-----------------------------------------------------------------------------
(* Workspaces, sessions and globals.                                           *)

LEMMA StoreStepTypes ==
  ASSUME IInv, StoreStep
  PROVE  TypeOK'
<1>0. TypeOK
  BY DEF IInv
<1>1. ASSUME NEW w \in Workspaces, CreateWorkspace(w) \/ DeleteWorkspace(w) PROVE TypeOK'
  BY <1>0, <1>1, BoundAssumption DEF CreateWorkspace, DeleteWorkspace, Upset, TypeOK, calls, memory
<1>2. ASSUME NEW s \in Sessions, NEW w \in Workspaces, BeginSession(s, w) PROVE TypeOK'
  BY <1>0, <1>2 DEF BeginSession, TypeOK, store, memory
<1>3. ASSUME NEW s \in Sessions, NEW w \in Workspaces \cup {Stranger}, UpdateSession(s, w) PROVE TypeOK'
  BY <1>0, <1>3, BoundAssumption DEF UpdateSession, SessionMoved, Upset, TypeOK, calls, memory
<1>4. ASSUME NEW s \in Sessions, DeleteSession(s) PROVE TypeOK'
  BY <1>0, <1>4, BoundAssumption DEF DeleteSession, SessionRemoved, Upset, TypeOK, calls, memory
<1>5. ASSUME NEW s \in Sessions, InsertSession(s) PROVE TypeOK'
  <2>1. /\ opening' = [opening EXCEPT ![s] = None]
        /\ UNCHANGED <<workspaces, globals, tasks, messages, contexts, request, deleting, memory, upsets>>
        /\ \/ sessions' = [sessions EXCEPT ![s] = opening[s]] /\ born' = born \cup {s}
           \/ UNCHANGED <<sessions, born>>
    BY <1>5 DEF InsertSession, SessionAdded
  <2> QED
    BY <1>0, <2>1 DEF TypeOK, memory
<1>6. ASSUME NEW g \in Globals, CreateGlobal(g) \/ DeleteGlobal(g) PROVE TypeOK'
  BY <1>0, <1>6, BoundAssumption DEF CreateGlobal, DeleteGlobal, GlobalAdded, Upset, TypeOK, calls, memory
<1> QED
  BY <1>1, <1>2, <1>3, <1>4, <1>5, <1>6 DEF StoreStep

LEMMA StoreStepKeeps ==
  ASSUME IInv, StoreStep
  PROVE  IInv'
<1>1. UNCHANGED <<tasks, messages, contexts, request, worker, home, result, todo>>
  BY DEF StoreStep, CreateWorkspace, DeleteWorkspace, BeginSession, UpdateSession, InsertSession, DeleteSession,
         CreateGlobal, DeleteGlobal, store, calls, memory
<1>2. \E x \in Workspaces \cup Sessions \cup Globals : born' = born \/ born' = born \cup {x}
  <2>1. DefaultGlobal \in Globals
    BY NamesAssumption
  <2> QED
    BY <2>1 DEF StoreStep, CreateWorkspace, DeleteWorkspace, BeginSession, UpdateSession, InsertSession,
                SessionAdded, DeleteSession, CreateGlobal, DeleteGlobal, store
<1>3. born \subseteq born' /\ \A t \in Tasks : t \in born' <=> t \in born
  BY <1>2, IdsAssumption
<1>4. ContextHasGlobal'
  <2>1. \/ globals \subseteq globals'
        \/ \E g \in Globals : ContextOf(g) = {} /\ globals' = globals \ {g}
    BY DEF StoreStep, CreateWorkspace, DeleteWorkspace, BeginSession, UpdateSession, InsertSession,
           DeleteSession, CreateGlobal, GlobalAdded, DeleteGlobal, store
  <2> QED
    BY <1>1, <2>1 DEF IInv, ContextHasGlobal, ContextOf
<1>5. TalkInv' /\ RowInv'
  BY <1>1, <1>3, TalkKept, RowsKept DEF IInv, SameRow
<1>6. RequestInv' /\ ArchiveInv'
  BY <1>1, <1>3, RequestsKept, ArchiveKept DEF IInv
<1> QED
  BY <1>4, <1>5, <1>6, StoreStepTypes DEF IInv

-----------------------------------------------------------------------------
(* The checks of createTask and continueTask.                                  *)

LEMMA ChecksKeep ==
  ASSUME IInv, NEW t \in Tasks,
         \/ \E w \in Workspaces, s \in Sessions, g \in NamedGlobals \cup {None} : BeginCreate(t, w, s, g)
         \/ \E w \in Workspaces, p \in Tasks \ {t} : BeginContinue(t, w, p)
         \/ ReadParent(t) \/ CheckSession(t) \/ CheckGlobal(t)
  PROVE  IInv'
<1> DEFINE Req == [at : {"idle"} \cup Early \cup Late, ws : Workspaces \cup {None}, session : Sessions \cup {None},
                   global : Globals \cup {None}, parent : Tasks \cup {None}]
<1>0. TypeOK /\ request \in [Tasks -> Req] /\ RequestOk(t, request[t], born, worker[t])
  BY DEF IInv, TypeOK, RequestInv, Early, Late
<1>1. UNCHANGED <<workspaces, sessions, tasks, messages, contexts, born, opening, deleting, memory, upsets>>
  BY DEF BeginCreate, BeginContinue, ReadParent, CheckSession, CheckGlobal, store
<1>2. globals \subseteq globals' /\ globals' \subseteq Globals
  BY <1>0 DEF BeginCreate, BeginContinue, ReadParent, CheckSession, CheckGlobal, store, TypeOK,
              EnsureDefaultGlobal, GlobalAdded
<1>3. \E r \in Req : request' = [request EXCEPT ![t] = r] /\ RequestOk(t, r, born, worker[t])
  <2> DEFINE Goal == \E r \in Req : request' = [request EXCEPT ![t] = r] /\ RequestOk(t, r, born, worker[t])
  <2>1. Idle \in Req /\ request[t] \in Req
    BY <1>0 DEF Idle, Early, Late
  <2>2. request[t].at # "idle" => worker[t] = "none" /\ RequestOk(t, Idle, born, worker[t])
    BY <1>0 DEF RequestOk, Early, Late, Idle
  <2>3. ASSUME NEW w \in Workspaces, NEW s \in Sessions, NEW g \in NamedGlobals \cup {None}, BeginCreate(t, w, s, g)
        PROVE  Goal
    <3> DEFINE r == [at |-> "session", ws |-> w, session |-> s, global |-> g, parent |-> None]
    <3>1. r \in Req
      BY NamesAssumption DEF Early, Late
    <3>2. request' = [request EXCEPT ![t] = r] /\ t \notin born
      BY <2>3 DEF BeginCreate
    <3>3. RequestOk(t, r, born, worker[t])
      BY <1>0, <3>2 DEF RequestOk, Early, Late
    <3> HIDE DEF r
    <3> QED
      BY <3>1, <3>2, <3>3
  <2>4. ASSUME NEW w \in Workspaces, NEW p \in Tasks \ {t}, BeginContinue(t, w, p)
        PROVE  Goal
    <3> DEFINE r == [at |-> "parent", ws |-> w, session |-> None, global |-> None, parent |-> p]
    <3>1. r \in Req
      BY DEF Early, Late
    <3>2. request' = [request EXCEPT ![t] = r] /\ t \notin born
      BY <2>4 DEF BeginContinue
    <3>3. RequestOk(t, r, born, worker[t])
      BY <1>0, <3>2 DEF RequestOk, Early, Late
    <3> HIDE DEF r
    <3> QED
      BY <3>1, <3>2, <3>3
  <2>5. CASE ReadParent(t)
    <3> DEFINE p == tasks[request[t].parent]
               r == [request[t] EXCEPT !.at = "session", !.session = p.session, !.global = p.global]
    <3>1. At(t, "parent") /\ request[t].parent \in Tasks
      BY <1>0, <2>5 DEF ReadParent, At, RequestOk
    <3>2. CASE p = None
      <4>1. request' = [request EXCEPT ![t] = Idle]
        BY <2>5, <3>2 DEF ReadParent, Refused
      <4> QED
        BY <2>1, <2>2, <3>1, <4>1 DEF At
    <3>3. CASE p # None
      <4>1. p \in Row
        BY <1>0, <3>1, <3>3 DEF TypeOK
      <4>2. p.session \in Sessions /\ p.global \in Globals
        BY <4>1 DEF Row
      <4>3. r \in Req /\ r.at = "session" /\ r.ws = request[t].ws /\ r.session = p.session
        BY <2>1, <4>2 DEF Early, Late
      <4>4. request' = [request EXCEPT ![t] = r]
        BY <1>0, <2>5, <3>3 DEF ReadParent
      <4> HIDE DEF r
      <4>5. RequestOk(t, r, born, worker[t])
        BY <1>0, <3>1, <4>2, <4>3 DEF RequestOk, Early, Late, At
      <4> QED
        BY <4>3, <4>4, <4>5
    <3> QED
      BY <3>2, <3>3
  <2>6. CASE CheckSession(t)
    <3>1. At(t, "session")
      BY <2>6 DEF CheckSession
    <3>2. CASE Refused(t)
      BY <2>1, <2>2, <3>1, <3>2 DEF At, Refused
    <3>3. CASE Goes(t, "global")
      <4> DEFINE r == [request[t] EXCEPT !.at = "global"]
      <4>1. r \in Req /\ r.at = "global" /\ r.ws = request[t].ws /\ r.session = request[t].session
        BY <2>1 DEF Early, Late
      <4>2. request' = [request EXCEPT ![t] = r]
        BY <1>0, <3>3 DEF Goes
      <4> HIDE DEF r
      <4>3. RequestOk(t, r, born, worker[t])
        BY <1>0, <3>1, <4>1 DEF RequestOk, Early, Late, At
      <4> QED
        BY <4>1, <4>2, <4>3
    <3> QED
      BY <2>6, <3>2, <3>3 DEF CheckSession
  <2>7. CASE CheckGlobal(t)
    <3>1. At(t, "global")
      BY <2>7 DEF CheckGlobal
    <3>2. CASE Refused(t)
      BY <2>1, <2>2, <3>1, <3>2 DEF At, Refused
    <3>3. ASSUME NEW g \in Globals, request' = [request EXCEPT ![t].at = "insert", ![t].global = g]
          PROVE  Goal
      <4> DEFINE r == [request[t] EXCEPT !.at = "insert", !.global = g]
      <4>1. r \in Req /\ r.at = "insert" /\ r.ws = request[t].ws /\ r.session = request[t].session /\ r.global = g
        BY <2>1 DEF Early, Late
      <4>2. request' = [request EXCEPT ![t] = r]
        BY <1>0, <3>3
      <4> HIDE DEF r
      <4>3. RequestOk(t, r, born, worker[t])
        BY <1>0, <3>1, <4>1 DEF RequestOk, Early, Late, At
      <4> QED
        BY <4>1, <4>2, <4>3
    <3>4. CASE Goes(t, "insert") /\ request[t].global # None
      <4>1. request[t].global \in Globals
        BY <2>1, <3>4
      <4>2. request' = [request EXCEPT ![t].at = "insert", ![t].global = request[t].global]
        BY <1>0, <2>1, <3>4 DEF Goes
      <4> QED
        BY <3>3, <4>1, <4>2
    <3> QED
      BY <2>7, <3>2, <3>3, <3>4 DEF CheckGlobal
  <2> QED
    BY <2>3, <2>4, <2>5, <2>6, <2>7
<1>4. PICK r \in Req : request' = [request EXCEPT ![t] = r] /\ RequestOk(t, r, born, worker[t])
  BY <1>3
<1>5. TypeOK'
  <2>1. request' \in [Tasks -> Req]
    BY <1>0, <1>4
  <2> QED
    BY <1>0, <1>1, <1>2, <2>1 DEF TypeOK, memory, Early, Late
<1>6. TalkInv' /\ RowInv'
  BY <1>1, TalkKept, RowsKept DEF IInv, SameRow
<1>7. RequestInv' /\ ArchiveInv'
  BY <1>0, <1>1, <1>4, RequestMoves, ArchiveKept DEF IInv, memory
<1>8. ContextHasGlobal'
  BY <1>1, <1>2 DEF IInv, ContextHasGlobal
<1> QED
  BY <1>5, <1>6, <1>7, <1>8 DEF IInv
-----------------------------------------------------------------------------
(* A message more.                                                             *)

\* Sessions are numbered apart: a new message takes the next number of its own, and its talk grows.
LEMMA Says ==
  ASSUME TypeOK, TalkInv, NEW s \in Sessions, NEW t \in Tasks, NEW r \in {"user", "assistant"},
         \A q \in messages : ~(q.task = t /\ q.role = r),
         messages' = messages \cup {NewMessage(s, t, r)}, born \subseteq born', t \in born'
  PROVE  /\ TalkInv'
         /\ NewMessage(s, t, r) \in Message
         /\ NewMessage(s, t, r).no \in Nat \ {0}
         /\ \A q \in messages : q.session = s => q.no < NewMessage(s, t, r).no
         /\ Talk(s)' = Append(Talk(s), [task |-> t, role |-> r])
         /\ \A x \in Sessions \ {s} : Talk(x)' = Talk(x)
<1> DEFINE R == Rows(messages, s)
           n == Cardinality(R)
           m == NewMessage(s, t, r)
<1>1. R \subseteq Message /\ IsFiniteSet(R) /\ n \in Nat /\ Numbers(R, n)
  <2>1. R \subseteq messages /\ messages \subseteq Message /\ IsFiniteSet(messages)
    BY DEF Rows, TypeOK, TalkInv
  <2>2. IsFiniteSet(R)
    BY <2>1, FS_Subset
  <2>3. n \in Nat
    BY <2>2, FS_CardinalityType
  <2> QED
    BY <2>1, <2>2, <2>3 DEF TalkInv
<1>2. NextSequenceNo(s) = n + 1
  <2> HIDE DEF n
  <2>1. NoOf(s) = 1..n
    BY <1>1 DEF NoOf, Rows, Numbers
  <2>2. CASE n = 0
    <3>1. NoOf(s) = {}
      BY <2>1, <2>2
    <3> QED
      BY <2>2, <3>1 DEF NextSequenceNo
  <2>3. CASE n # 0
    <3>1. n \in Nat \ {0} /\ 1 \in 1..n
      BY <1>1, <2>3
    <3>2. Max(NoOf(s)) = n
      BY <2>1, <3>1, MaxOfInterval
    <3>3. NoOf(s) # {}
      BY <2>1, <3>1
    <3> QED
      BY <3>2, <3>3 DEF NextSequenceNo
  <2> QED
    BY <2>2, <2>3
<1>3. m = [session |-> s, task |-> t, role |-> r, no |-> n + 1]
  BY <1>2 DEF NewMessage
<1>4. m \in Message /\ m.no = n + 1 /\ m.session = s /\ m.task = t /\ m.role = r
  BY <1>1, <1>3 DEF Message
<1>5. messages' = messages \cup {m}
  OBVIOUS
<1> HIDE DEF m
<1>6. Rows(messages', s) = R \cup {m} /\ \A x \in Sessions \ {s} : Rows(messages', x) = Rows(messages, x)
  BY <1>4, <1>5 DEF Rows
<1>7. /\ Cardinality(R \cup {m}) = n + 1 /\ Numbers(R \cup {m}, n + 1)
      /\ TalkOf(R \cup {m}) = Append(TalkOf(R), EntryOf(m))
  BY <1>1, <1>4, TalkGrows
<1>8. TalkInv'
  <2>1. IsFiniteSet(messages')
    BY <1>5, FS_AddElement DEF TalkInv
  <2>2. \A x \in Sessions : Numbers(Rows(messages', x), Cardinality(Rows(messages', x)))
    <3>1. Numbers(Rows(messages', s), Cardinality(Rows(messages', s)))
      BY <1>6, <1>7
    <3>2. ASSUME NEW x \in Sessions \ {s}
          PROVE  Numbers(Rows(messages', x), Cardinality(Rows(messages', x)))
      BY <1>6 DEF TalkInv
    <3> QED
      BY <3>1, <3>2
  <2>3. \A q \in messages' : q.task \in born'
    BY <1>4, <1>5 DEF TalkInv
  <2>4. \A p, q \in messages' : p.task = q.task /\ p.role = q.role => p = q
    BY <1>4, <1>5 DEF TalkInv
  <2> QED
    BY <2>1, <2>2, <2>3, <2>4 DEF TalkInv
<1>9. \A q \in messages : q.session = s => q.no < m.no
  <2> SUFFICES ASSUME NEW q \in messages, q.session = s PROVE q.no < m.no
    OBVIOUS
  <2>1. q \in R
    BY DEF Rows
  <2>2. q.no \in 1..n
    BY <1>1, <2>1 DEF Numbers
  <2> QED
    BY <1>1, <1>4, <2>2
<1>10. EntryOf(m) = [task |-> t, role |-> r]
  BY <1>4 DEF EntryOf
<1>11. Talk(s)' = Append(Talk(s), [task |-> t, role |-> r])
  BY <1>6, <1>7, <1>10, TalkIs
<1>12. \A x \in Sessions \ {s} : Talk(x)' = Talk(x)
  BY <1>6, TalkIs
<1> QED
  BY <1>1, <1>4, <1>8, <1>9, <1>11, <1>12 DEF m

\* What a reader of a session finds said is what its rows say.
LEMMA Heard ==
  ASSUME TypeOK, TalkInv, NEW s \in Sessions, NEW t, NEW r
  PROVE  (\E i \in DOMAIN Talk(s) : Talk(s)[i] = [task |-> t, role |-> r])
           <=> \E m \in messages : m.session = s /\ m.task = t /\ m.role = r
<1> DEFINE R == Rows(messages, s)
           n == Cardinality(R)
<1>1. R \subseteq Message /\ n \in Nat /\ Numbers(R, n)
  <2>1. R \subseteq messages /\ messages \subseteq Message /\ IsFiniteSet(messages)
    BY DEF Rows, TypeOK, TalkInv
  <2>2. IsFiniteSet(R)
    BY <2>1, FS_Subset
  <2>3. n \in Nat
    BY <2>2, FS_CardinalityType
  <2> QED
    BY <2>1, <2>3 DEF TalkInv
<1>2. /\ DOMAIN TalkOf(R) = 1..n
      /\ \A m \in R : m.no \in 1..n /\ TalkOf(R)[m.no] = EntryOf(m)
      /\ \A i \in 1..n : \E m \in R : m.no = i /\ TalkOf(R)[i] = EntryOf(m)
  BY <1>1, TalkTells
<1>3. \A m \in R : EntryOf(m) = [task |-> t, role |-> r] <=> m.task = t /\ m.role = r
  BY DEF EntryOf
<1>4. \A m : m \in R <=> m \in messages /\ m.session = s
  BY DEF Rows
<1>5. Talk(s) = TalkOf(R)
  BY TalkIs
<1> HIDE DEF R, n
<1> QED
  BY <1>2, <1>3, <1>4, <1>5
-----------------------------------------------------------------------------
(* The rows of tasks that are written together with a message.                 *)

PointersOf(t, row, M) ==
  /\ \E m \in M : m.task = t /\ m.role = "user" /\ m.session = row.session /\ m.no = row.question
  /\ \A m \in M : m.task = t /\ m.role = "assistant" =>
                    m.session = row.session /\ m.no = row.answer /\ m.no > row.question
  /\ row.answer # 0 => \E m \in M : m.task = t /\ m.role = "assistant"

LEMMA PointersAre ==
  /\ tasks \in [Tasks -> Row \cup {None}] =>
       (PointersResolve <=> \A t \in Tasks : tasks[t] # None => PointersOf(t, tasks[t], messages))
  /\ tasks' \in [Tasks -> Row \cup {None}] =>
       (PointersResolve' <=> \A t \in Tasks : tasks'[t] # None => PointersOf(t, tasks'[t], messages'))
<1>1. ASSUME tasks \in [Tasks -> Row \cup {None}]
      PROVE  PointersResolve <=> \A t \in Tasks : tasks[t] # None => PointersOf(t, tasks[t], messages)
  <2>1. \A t \in Tasks : tasks[t] # None => tasks[t].session \in Sessions
    BY <1>1 DEF Row
  <2> QED
    BY <2>1 DEF PointersResolve, PointersOf, TasksOf, FinalAnswer
<1>2. ASSUME tasks' \in [Tasks -> Row \cup {None}]
      PROVE  PointersResolve' <=> \A t \in Tasks : tasks'[t] # None => PointersOf(t, tasks'[t], messages')
  <2>1. \A t \in Tasks : tasks'[t] # None => tasks'[t].session \in Sessions
    BY <1>2 DEF Row
  <2> QED
    BY <2>1 DEF PointersResolve, PointersOf, TasksOf, FinalAnswer
<1> QED
  BY <1>1, <1>2

\* A row and a message of one task are written in one transaction.
LEMMA RowsWritten ==
  ASSUME TypeOK, RowInv, NEW t \in Tasks, NEW row \in Row, NEW m, m.task = t, t \in born', born \subseteq born',
         tasks' = [tasks EXCEPT ![t] = row], messages' = messages \cup {m},
         PointersOf(t, row, messages')
  PROVE  tasks' \in [Tasks -> Row \cup {None}] /\ RowInv'
<1>1. tasks' \in [Tasks -> Row \cup {None}] /\ tasks \in [Tasks -> Row \cup {None}]
  BY DEF TypeOK
<1>2. tasks'[t] = row /\ \A u \in Tasks \ {t} : tasks'[u] = tasks[u]
  BY DEF TypeOK
<1>3. \A u \in Tasks : tasks'[u] # None => u \in born'
  BY <1>2 DEF RowInv
<1>4. ASSUME NEW u \in Tasks, u # t, tasks[u] # None PROVE PointersOf(u, tasks[u], messages')
  <2>1. PointersOf(u, tasks[u], messages)
    BY <1>1, <1>4, PointersAre DEF RowInv
  <2> QED
    BY <1>4, <2>1 DEF PointersOf
<1>5. \A u \in Tasks : tasks'[u] # None => PointersOf(u, tasks'[u], messages')
  BY <1>2, <1>4
<1> QED
  BY <1>1, <1>3, <1>5, PointersAre DEF RowInv

\* The transaction of createTaskWithUserMessage, committed.
LEMMA AskedIs ==
  ASSUME IInv, NEW t \in Tasks, At(t, "insert"), Asked(t), workspaces' = workspaces
  PROVE  /\ \A q \in messages : q.task # t
         /\ TalkInv' /\ RowInv'
         /\ tasks' \in [Tasks -> Row \cup {None}] /\ messages' \subseteq Message
         /\ born' = born \cup {t} /\ t \notin born
         /\ tasks[t] = None /\ tasks'[t].ws = request[t].ws /\ tasks'[t].session = request[t].session
         /\ \A u \in Tasks \ {t} : tasks'[u] = tasks[u]
         /\ \E s \in Sessions : /\ Talk(s)' = Append(Talk(s), [task |-> t, role |-> "user"])
                                /\ \A x \in Sessions \ {s} : Talk(x)' = Talk(x)
<1>0. TypeOK /\ TalkInv /\ RowInv /\ RequestOk(t, request[t], born, worker[t])
  BY DEF IInv, RequestInv
<1>1. /\ request[t].ws \in Workspaces /\ request[t].session \in Sessions
      /\ request[t].global \in Globals /\ t \notin born
  BY <1>0 DEF RequestOk, At, Early, Late
<1> PICK s \in Sessions : s = request[t].session
  BY <1>1
<1> DEFINE m == NewMessage(s, t, "user")
           row == NewTask(request[t], m.no)
<1>2. tasks' = [tasks EXCEPT ![t] = row] /\ messages' = messages \cup {m} /\ born' = born \cup {t}
  BY DEF Asked
<1>3. \A q \in messages : q.task # t
  BY <1>0, <1>1 DEF TalkInv
<1>4. /\ TalkInv' /\ m \in Message /\ m.no \in Nat \ {0}
      /\ Talk(s)' = Append(Talk(s), [task |-> t, role |-> "user"])
      /\ \A x \in Sessions \ {s} : Talk(x)' = Talk(x)
  BY <1>0, <1>1, <1>2, <1>3, Says
<1>5. m.session = s /\ m.task = t /\ m.role = "user"
  BY DEF NewMessage
<1> HIDE DEF m
<1>6. /\ row \in Row /\ row.session = s /\ row.ws = request[t].ws /\ row.question = m.no /\ row.answer = 0
  <2>1. row = [session |-> s, global |-> request[t].global, ws |-> request[t].ws,
               status |-> "created", question |-> m.no, answer |-> 0]
    BY DEF NewTask
  <2> HIDE DEF row
  <2> QED
    BY <1>1, <1>4, <2>1 DEF Row
<1> HIDE DEF row
<1>7. PointersOf(t, row, messages')
  BY <1>2, <1>3, <1>5, <1>6 DEF PointersOf
<1>8. tasks' \in [Tasks -> Row \cup {None}] /\ RowInv'
  BY <1>0, <1>2, <1>5, <1>6, <1>7, RowsWritten
<1>9. messages' \subseteq Message
  BY <1>0, <1>2, <1>4 DEF TypeOK
<1>10. tasks[t] = None
  BY <1>0, <1>1 DEF RowInv
<1>11. tasks'[t] = row /\ \A u \in Tasks \ {t} : tasks'[u] = tasks[u]
  BY <1>0, <1>2 DEF TypeOK
<1> QED
  BY <1>1, <1>2, <1>3, <1>4, <1>6, <1>8, <1>9, <1>10, <1>11

LEMMA InsertTaskKeeps ==
  ASSUME IInv, NEW t \in Tasks, InsertTask(t)
  PROVE  IInv'
<1> DEFINE Req == [at : {"idle"} \cup Early \cup Late, ws : Workspaces \cup {None}, session : Sessions \cup {None},
                   global : Globals \cup {None}, parent : Tasks \cup {None}]
<1>0. TypeOK /\ request \in [Tasks -> Req] /\ RequestOk(t, request[t], born, worker[t])
  BY DEF IInv, TypeOK, RequestInv, Early, Late
<1>1. At(t, "insert") /\ UNCHANGED <<workspaces, sessions, globals, contexts, opening, deleting, memory, upsets>>
  BY DEF InsertTask
<1>2. ContextHasGlobal' /\ ArchiveInv'
  BY <1>1, ArchiveKept DEF IInv, ContextHasGlobal, memory
<1>3. CASE Refused(t) /\ UNCHANGED <<tasks, messages, born>>
  <2>1. request' = [request EXCEPT ![t] = Idle] /\ Idle \in Req
    BY <1>3 DEF Refused, Idle, Early, Late
  <2>2. RequestOk(t, Idle, born, worker[t])
    BY <1>0, <1>1 DEF RequestOk, Early, Late, Idle, At
  <2>3. request' \in [Tasks -> Req]
    BY <1>0, <2>1
  <2>4. TypeOK'
    BY <1>0, <1>1, <1>3, <2>3 DEF TypeOK, memory, Early, Late
  <2>5. TalkInv' /\ RowInv'
    BY <1>3, TalkKept, RowsKept DEF IInv, SameRow
  <2>6. RequestInv'
    BY <1>0, <1>1, <1>3, <2>1, <2>2, RequestMoves DEF IInv, memory
  <2> QED
    BY <1>2, <2>4, <2>5, <2>6 DEF IInv
<1>4. CASE Asked(t)
  <2> DEFINE r == [request[t] EXCEPT !.at = "mark"]
  <2>1. r \in Req /\ r.at = "mark" /\ r.ws = request[t].ws /\ r.session = request[t].session
        /\ r.global = request[t].global
    BY <1>0 DEF Early, Late
  <2>2. request' = [request EXCEPT ![t] = r]
    BY <1>0, <1>4 DEF Asked, Goes
  <2> HIDE DEF r
  <2>3. request' \in [Tasks -> Req]
    BY <1>0, <2>1, <2>2
  <2>4. /\ TalkInv' /\ RowInv' /\ tasks' \in [Tasks -> Row \cup {None}] /\ messages' \subseteq Message
        /\ born' = born \cup {t}
    BY <1>1, <1>4, AskedIs
  <2>5. TypeOK'
    BY <1>0, <1>1, <2>3, <2>4 DEF TypeOK, memory, Early, Late
  <2>6. RequestOk(t, r, born', worker'[t])
    BY <1>0, <1>1, <2>1, <2>4 DEF RequestOk, Early, Late, At, memory
  <2>7. RequestInv'
    BY <1>0, <1>1, <2>2, <2>4, <2>6, RequestMoves DEF IInv, memory
  <2> QED
    BY <1>2, <2>4, <2>5, <2>7 DEF IInv
<1> QED
  BY <1>3, <1>4 DEF InsertTask
-----------------------------------------------------------------------------
(* A task is marked, started, and deleted.                                     *)

LEMMA MarkRunningKeeps ==
  ASSUME IInv, NEW t \in Tasks, MarkRunning(t)
  PROVE  IInv'
<1> DEFINE Req == [at : {"idle"} \cup Early \cup Late, ws : Workspaces \cup {None}, session : Sessions \cup {None},
                   global : Globals \cup {None}, parent : Tasks \cup {None}]
           r == [request[t] EXCEPT !.at = "start"]
<1>0. TypeOK /\ request \in [Tasks -> Req] /\ RequestOk(t, request[t], born, worker[t])
  BY DEF IInv, TypeOK, RequestInv, Early, Late
<1>1. /\ At(t, "mark") /\ tasks' = WithStatus(t, "running") /\ request' = [request EXCEPT ![t] = r]
      /\ UNCHANGED <<workspaces, sessions, globals, messages, contexts, born, opening, deleting, memory, upsets>>
  BY <1>0 DEF MarkRunning, Goes
<1>2. /\ r \in Req /\ r.at = "start" /\ r.ws = request[t].ws /\ r.session = request[t].session
      /\ r.global = request[t].global
  BY <1>0 DEF Early, Late
<1> HIDE DEF r
<1>3. request' \in [Tasks -> Req]
  BY <1>0, <1>1, <1>2
<1>4. tasks' \in [Tasks -> Row \cup {None}] /\ \A u \in Tasks : SameRow(tasks[u], tasks'[u])
  BY <1>0, <1>1, StatusSet
<1>5. TypeOK'
  BY <1>0, <1>1, <1>3, <1>4 DEF TypeOK, memory, Early, Late
<1>6. TalkInv' /\ RowInv'
  BY <1>1, <1>4, TalkKept, RowsKept DEF IInv
<1>7. RequestOk(t, r, born, worker[t])
  BY <1>0, <1>1, <1>2 DEF RequestOk, Early, Late, At
<1>8. RequestInv' /\ ArchiveInv' /\ ContextHasGlobal'
  BY <1>0, <1>1, <1>7, RequestMoves, ArchiveKept DEF IInv, memory, ContextHasGlobal
<1> QED
  BY <1>5, <1>6, <1>8 DEF IInv

LEMMA StartTaskKeeps ==
  ASSUME IInv, NEW t \in Tasks, StartTask(t)
  PROVE  IInv'
<1> DEFINE Req == [at : {"idle"} \cup Early \cup Late, ws : Workspaces \cup {None}, session : Sessions \cup {None},
                   global : Globals \cup {None}, parent : Tasks \cup {None}]
<1>0. TypeOK /\ request \in [Tasks -> Req] /\ RequestOk(t, request[t], born, worker[t])
  BY DEF IInv, TypeOK, RequestInv, Early, Late
<1>1. /\ At(t, "start") /\ request' = [request EXCEPT ![t] = Idle]
      /\ home' = [home EXCEPT ![t] = Resolved(request[t].global)]
      /\ active' = [active EXCEPT ![t] = "running"] /\ worker' = [worker EXCEPT ![t] = "running"]
      /\ UNCHANGED <<workspaces, sessions, globals, tasks, messages, contexts, born, opening, deleting,
                     result, todo, defaultId, upsets>>
  BY DEF StartTask, store
<1>2. t \in born /\ worker[t] = "none" /\ request[t].global \in Globals
  BY <1>0, <1>1 DEF RequestOk, At, Early, Late
<1>3. Resolved(request[t].global) \in Globals
  BY <1>0, <1>2 DEF Resolved, TypeOK
<1>4. Idle \in Req /\ request' \in [Tasks -> Req]
  <2>1. Idle \in Req
    BY DEF Idle, Early, Late
  <2> QED
    BY <1>0, <1>1, <2>1
<1>5. TypeOK'
  <2>1. home' \in [Tasks -> Globals \cup {None}]
    BY <1>0, <1>1, <1>3 DEF TypeOK
  <2>2. active' \in [Tasks -> {"none", "running", "ended", "cancelled"}]
    BY <1>0, <1>1 DEF TypeOK
  <2>3. worker' \in [Tasks -> {"none", "running", "answer", "archive", "cleanup", "done", "lost"}]
    BY <1>0, <1>1 DEF TypeOK
  <2> QED
    BY <1>0, <1>1, <1>4, <2>1, <2>2, <2>3 DEF TypeOK, Early, Late
<1>6. TalkInv' /\ RowInv'
  BY <1>1, TalkKept, RowsKept DEF IInv, SameRow
<1>7. worker'[t] = "running" /\ \A u \in Tasks \ {t} : worker'[u] = worker[u] /\ home'[u] = home[u]
  BY <1>0, <1>1 DEF TypeOK
<1>8. RequestInv'
  <2>1. RequestOk(t, Idle, born', worker'[t])
    BY <1>1, <1>2, <1>7 DEF RequestOk, Idle, Early, Late
  <2> QED
    BY <1>0, <1>1, <1>7, <2>1, RequestMoves DEF IInv
<1>9. ArchiveInv'
  <2>1. ArchiveOk(t, contexts, home[t], worker[t], result[t], todo[t])
    BY DEF IInv, ArchiveInv
  <2>2. \A c \in contexts : c.task # t
    <3>1. result[t] = {} /\ \A a \in PartNames : ~\E c \in contexts : c.task = t /\ c.part = a
      BY <1>2, <2>1 DEF ArchiveOk
    <3>2. \A c \in contexts : c.part \in PartNames
      BY <1>0 DEF TypeOK, Context, PartNames
    <3> QED
      BY <3>1, <3>2
  <2>3. ArchiveOk(t, contexts', home'[t], worker'[t], result'[t], todo'[t])
    BY <1>1, <1>2, <1>7, <2>1, <2>2 DEF ArchiveOk
  <2> QED
    BY <1>1, <1>7, <2>3, ArchiveMoves DEF IInv
<1>10. ContextHasGlobal'
  BY <1>1 DEF IInv, ContextHasGlobal
<1> QED
  BY <1>5, <1>6, <1>8, <1>9, <1>10 DEF IInv

LEMMA DeletesKeep ==
  ASSUME IInv, NEW t \in Tasks, BeginDelete(t) \/ DeleteTask(t)
  PROVE  IInv'
<1>0. TypeOK
  BY DEF IInv
<1>1. UNCHANGED <<workspaces, sessions, globals, messages, contexts, born, opening, request, memory>>
  BY DEF BeginDelete, DeleteTask, store
<1>2. tasks' = tasks \/ tasks' = [tasks EXCEPT ![t] = None]
  BY DEF BeginDelete, DeleteTask, store
<1>3. tasks' \in [Tasks -> Row \cup {None}] /\ \A u \in Tasks : tasks'[u] = None \/ SameRow(tasks[u], tasks'[u])
  BY <1>0, <1>2 DEF TypeOK, SameRow
<1>4. TypeOK'
  <2>1. deleting' \subseteq Tasks /\ upsets' \in 0..MaxUpsets
    BY <1>0, BoundAssumption DEF BeginDelete, DeleteTask, Upset, TypeOK
  <2> QED
    BY <1>0, <1>1, <1>3, <2>1 DEF TypeOK, memory
<1>5. TalkInv' /\ RowInv'
  BY <1>1, <1>3, TalkKept, RowsKept DEF IInv
<1>6. RequestInv' /\ ArchiveInv' /\ ContextHasGlobal'
  BY <1>1, RequestsKept, ArchiveKept DEF IInv, memory, ContextHasGlobal
<1> QED
  BY <1>4, <1>5, <1>6 DEF IInv

-----------------------------------------------------------------------------
(* A task is cancelled, or its thread gets to the end of it.                   *)

LEMMA CancelKeeps ==
  ASSUME IInv, NEW t \in Tasks, Cancel(t)
  PROVE  IInv'
<1>0. TypeOK
  BY DEF IInv
<1>1. /\ tasks' = WithStatus(t, "cancelled") /\ active' = [active EXCEPT ![t] = "cancelled"]
      /\ UNCHANGED <<workspaces, sessions, globals, messages, contexts, born, opening, request, deleting,
                     worker, home, result, todo, defaultId>>
  BY DEF Cancel, calls
<1>2. tasks' \in [Tasks -> Row \cup {None}] /\ \A u \in Tasks : SameRow(tasks[u], tasks'[u])
  BY <1>0, <1>1, StatusSet
<1>3. TypeOK'
  <2>1. upsets' \in 0..MaxUpsets
    BY <1>0, BoundAssumption DEF Cancel, Upset, TypeOK
  <2>2. active' \in [Tasks -> {"none", "running", "ended", "cancelled"}]
    BY <1>0, <1>1 DEF TypeOK
  <2> QED
    BY <1>0, <1>1, <1>2, <2>1, <2>2 DEF TypeOK
<1>4. TalkInv' /\ RowInv'
  BY <1>1, <1>2, TalkKept, RowsKept DEF IInv
<1>5. RequestInv' /\ ArchiveInv' /\ ContextHasGlobal'
  BY <1>1, RequestsKept, ArchiveKept DEF IInv, ContextHasGlobal
<1> QED
  BY <1>3, <1>4, <1>5 DEF IInv

LEMMA ClaimKeeps ==
  ASSUME IInv, NEW t \in Tasks, Claim(t)
  PROVE  IInv'
<1>0. TypeOK
  BY DEF IInv
<1>1. /\ worker[t] = "running"
      /\ UNCHANGED <<workspaces, sessions, globals, messages, contexts, born, opening, request, deleting,
                     home, defaultId, upsets>>
  BY DEF Claim, calls
<1> DEFINE Won(parts) == /\ tasks' = WithStatus(t, "ended") /\ active' = [active EXCEPT ![t] = "ended"]
                         /\ worker' = [worker EXCEPT ![t] = "answer"]
                         /\ result' = [result EXCEPT ![t] = parts] /\ todo' = [todo EXCEPT ![t] = parts]
           Lost == worker' = [worker EXCEPT ![t] = "cleanup"] /\ UNCHANGED <<tasks, active, result, todo>>
<1>2. Lost \/ \E parts \in Results : Won(parts)
  BY DEF Claim
<1>3. \A parts \in Results : parts \subseteq PartNames
  BY ResultsAssumption DEF PartNames
<1>4. tasks' \in [Tasks -> Row \cup {None}] /\ \A u \in Tasks : SameRow(tasks[u], tasks'[u])
  <2>1. CASE Lost
    BY <1>0, <2>1 DEF TypeOK, SameRow
  <2>2. CASE tasks' = WithStatus(t, "ended")
    BY <1>0, <2>2, StatusSet
  <2> QED
    BY <1>2, <2>1, <2>2
<1>5. TypeOK'
  <2>1. worker' \in [Tasks -> {"none", "running", "answer", "archive", "cleanup", "done", "lost"}]
    BY <1>0, <1>2 DEF TypeOK
  <2>2. active' \in [Tasks -> {"none", "running", "ended", "cancelled"}]
    BY <1>0, <1>2 DEF TypeOK
  <2>3. result' \in [Tasks -> SUBSET PartNames] /\ todo' \in [Tasks -> SUBSET PartNames]
    BY <1>0, <1>2, <1>3 DEF TypeOK, PartNames
  <2> QED
    BY <1>0, <1>1, <1>4, <2>1, <2>2, <2>3 DEF TypeOK, PartNames
<1>6. TalkInv' /\ RowInv'
  BY <1>1, <1>4, TalkKept, RowsKept DEF IInv
<1>7. RequestInv'
  <2>1. \A u \in Tasks : worker[u] # "none" \/ worker'[u] = worker[u]
    BY <1>0, <1>1, <1>2 DEF TypeOK
  <2> QED
    BY <1>1, <2>1, RequestsKept DEF IInv
<1>8. ArchiveInv'
  <2>1. ArchiveOk(t, contexts, home[t], "running", {}, todo[t]) /\ result[t] = {}
    BY <1>1 DEF IInv, ArchiveInv, ArchiveOk
  <2>2. todo[t] = {}
    BY <2>1 DEF ArchiveOk
  <2>3. \A u \in Tasks \ {t} : worker'[u] = worker[u] /\ result'[u] = result[u] /\ todo'[u] = todo[u]
    BY <1>0, <1>2 DEF TypeOK
  <2>4. ArchiveOk(t, contexts', home'[t], worker'[t], result'[t], todo'[t])
    <3>1. CASE Lost
      <4>1. worker'[t] = "cleanup" /\ result'[t] = {} /\ todo'[t] = {}
        BY <1>0, <2>1, <2>2, <3>1 DEF TypeOK
      <4> QED
        BY <1>1, <2>1, <2>2, <4>1 DEF ArchiveOk
    <3>2. ASSUME NEW parts \in Results, Won(parts)
          PROVE  ArchiveOk(t, contexts', home'[t], worker'[t], result'[t], todo'[t])
      <4>1. worker'[t] = "answer" /\ result'[t] = parts /\ todo'[t] = parts
        BY <1>0, <3>2 DEF TypeOK
      <4> QED
        BY <1>1, <2>1, <2>2, <4>1 DEF ArchiveOk
    <3> QED
      BY <1>2, <3>1, <3>2
  <2> QED
    BY <1>1, <2>3, <2>4, ArchiveMoves DEF IInv
<1>9. ContextHasGlobal'
  BY <1>1 DEF IInv, ContextHasGlobal
<1> QED
  BY <1>5, <1>6, <1>7, <1>8, <1>9 DEF IInv
\* The answer of a task that has a row and no answer yet.
Answers(t) == "output" \in result[t] /\ FinalAnswer(t) = {} /\ tasks[t] # None

LEMMA AnsweredIs ==
  ASSUME IInv, NEW t \in Tasks, StoreAnswer(t), Answers(t)
  PROVE  /\ TalkInv' /\ RowInv'
         /\ tasks' \in [Tasks -> Row \cup {None}] /\ messages' \subseteq Message
         /\ \A u \in Tasks : tasks[u] = None <=> tasks'[u] = None
         /\ \E s \in Sessions : /\ \E q \in messages : q.session = s /\ q.task = t /\ q.role = "user"
                                /\ Talk(s)' = Append(Talk(s), [task |-> t, role |-> "assistant"])
                                /\ \A x \in Sessions \ {s} : Talk(x)' = Talk(x)
<1>0. TypeOK /\ TalkInv /\ RowInv
  BY DEF IInv
<1>1. tasks[t] \in Row /\ t \in born /\ PointersOf(t, tasks[t], messages)
  <2>1. tasks \in [Tasks -> Row \cup {None}] /\ tasks[t] # None
    BY <1>0 DEF TypeOK, Answers
  <2> QED
    BY <1>0, <2>1, PointersAre DEF RowInv
<1>2. tasks[t].session \in Sessions
  BY <1>1 DEF Row
<1> PICK s \in Sessions : s = tasks[t].session
  BY <1>2
<1> DEFINE m == NewMessage(s, t, "assistant")
           row == [tasks[t] EXCEPT !.answer = m.no]
<1>3. /\ messages' = messages \cup {m} /\ tasks' = [tasks EXCEPT ![t] = row]
      /\ born' = born
  BY <1>0 DEF StoreAnswer, Answers, TypeOK
<1>4. \A q \in messages : ~(q.task = t /\ q.role = "assistant")
  BY DEF Answers, FinalAnswer
<1>5. /\ TalkInv' /\ m \in Message /\ m.no \in Nat \ {0}
      /\ \A q \in messages : q.session = s => q.no < m.no
      /\ Talk(s)' = Append(Talk(s), [task |-> t, role |-> "assistant"])
      /\ \A x \in Sessions \ {s} : Talk(x)' = Talk(x)
  BY <1>0, <1>1, <1>3, <1>4, Says
<1>6. m.session = s /\ m.task = t /\ m.role = "assistant"
  BY DEF NewMessage
<1> HIDE DEF m
<1>7. row \in Row /\ row.session = s /\ row.question = tasks[t].question /\ row.answer = m.no
  BY <1>1, <1>5 DEF Row
<1> HIDE DEF row
<1>8. PICK q \in messages : q.task = t /\ q.role = "user" /\ q.session = s /\ q.no = tasks[t].question
  BY <1>1 DEF PointersOf
<1>9. PointersOf(t, row, messages')
  BY <1>3, <1>4, <1>5, <1>6, <1>7, <1>8 DEF PointersOf
<1>10. tasks' \in [Tasks -> Row \cup {None}] /\ RowInv'
  BY <1>0, <1>1, <1>3, <1>6, <1>7, <1>9, RowsWritten
<1>11. messages' \subseteq Message
  BY <1>0, <1>3, <1>5 DEF TypeOK
<1>12. \A u \in Tasks : tasks[u] = None <=> tasks'[u] = None
  BY <1>0, <1>1, <1>3, <1>7, NoneAssumption DEF TypeOK
<1> QED
  BY <1>5, <1>8, <1>10, <1>11, <1>12

LEMMA StoreAnswerKeeps ==
  ASSUME IInv, NEW t \in Tasks, StoreAnswer(t)
  PROVE  IInv'
<1>0. TypeOK
  BY DEF IInv
<1>1. /\ worker[t] = "answer" /\ worker' = [worker EXCEPT ![t] = "archive"]
      /\ UNCHANGED <<workspaces, sessions, globals, contexts, born, opening, request, deleting,
                     active, home, result, todo, defaultId, upsets>>
  BY DEF StoreAnswer, calls
<1>2. /\ TalkInv' /\ RowInv'
      /\ tasks' \in [Tasks -> Row \cup {None}] /\ messages' \subseteq Message
  <2>1. CASE Answers(t)
    BY <2>1, AnsweredIs
  <2>2. CASE ~Answers(t)
    <3>1. UNCHANGED <<messages, tasks>>
      BY <2>2 DEF StoreAnswer, Answers
    <3>2. TalkInv' /\ RowInv'
      BY <1>1, <3>1, TalkKept, RowsKept DEF IInv, SameRow
    <3> QED
      BY <1>0, <3>1, <3>2 DEF TypeOK
  <2> QED
    BY <2>1, <2>2
<1>3. worker'[t] = "archive" /\ \A u \in Tasks \ {t} : worker'[u] = worker[u]
  BY <1>0, <1>1 DEF TypeOK
<1>4. TypeOK'
  <2>1. worker' \in [Tasks -> {"none", "running", "answer", "archive", "cleanup", "done", "lost"}]
    BY <1>0, <1>1 DEF TypeOK
  <2> QED
    BY <1>0, <1>1, <1>2, <2>1 DEF TypeOK
<1>5. RequestInv'
  <2>1. \A u \in Tasks : worker[u] # "none" \/ worker'[u] = worker[u]
    BY <1>1, <1>3
  <2> QED
    BY <1>1, <2>1, RequestsKept DEF IInv
<1>6. ArchiveInv'
  <2>1. ArchiveOk(t, contexts, home[t], "answer", result[t], todo[t])
    BY <1>1 DEF IInv, ArchiveInv
  <2>2. ArchiveOk(t, contexts', home'[t], worker'[t], result'[t], todo'[t])
    BY <1>1, <1>3, <2>1 DEF ArchiveOk
  <2> QED
    BY <1>1, <1>3, <2>2, ArchiveMoves DEF IInv
<1>7. ContextHasGlobal'
  BY <1>1 DEF IInv, ContextHasGlobal
<1> QED
  BY <1>2, <1>4, <1>5, <1>6, <1>7 DEF IInv

\* The part saved next is one that is still to save.
LEMMA NextIsToDo ==
  ASSUME TypeOK, NEW t \in Tasks, todo[t] # {}
  PROVE  NextPart(t) \in todo[t] /\ NextPart(t) \in PartNames
<1> DEFINE First(i) == Parts[i] \in todo[t] /\ \A j \in 1..(i - 1) : Parts[j] \notin todo[t]
<1>1. todo[t] \subseteq PartNames
  BY DEF TypeOK, PartNames
<1>2. Parts[1] = "summary" /\ Parts[2] = "plan" /\ Parts[3] = "output"
  BY DEF Parts
<1>3. Parts[1] \in todo[t] \/ Parts[2] \in todo[t] \/ Parts[3] \in todo[t]
  BY <1>1, <1>2 DEF PartNames
<1>4. \E i \in 1..3 : First(i)
  <2>1. CASE Parts[1] \in todo[t]
    <3>1. First(1)
      BY <2>1
    <3> QED
      BY <3>1
  <2>2. CASE Parts[1] \notin todo[t] /\ Parts[2] \in todo[t]
    <3>1. \A j \in 1..(2 - 1) : j = 1
      OBVIOUS
    <3>2. First(2)
      BY <2>2, <3>1
    <3> QED
      BY <3>2
  <2>3. CASE Parts[1] \notin todo[t] /\ Parts[2] \notin todo[t]
    <3>1. \A j \in 1..(3 - 1) : j = 1 \/ j = 2
      OBVIOUS
    <3>2. First(3)
      BY <1>3, <2>3, <3>1
    <3> QED
      BY <3>2
  <2> QED
    BY <2>1, <2>2, <2>3
<1> DEFINE k == CHOOSE i \in 1..3 : First(i)
<1>5. k \in 1..3 /\ First(k)
  <2> HIDE DEF First
  <2> QED
    BY <1>4
<1>6. NextPart(t) = Parts[k]
  BY DEF NextPart
<1> HIDE DEF k
<1> QED
  BY <1>1, <1>5, <1>6

LEMMA ArchiveKeeps ==
  ASSUME IInv, NEW t \in Tasks, Archive(t)
  PROVE  IInv'
<1> DEFINE a == NextPart(t)
           c == [global |-> home[t], task |-> t, part |-> a]
<1>0. TypeOK
  BY DEF IInv
<1>1. /\ worker[t] = "archive" /\ todo[t] # {} /\ home[t] \in globals
      /\ contexts' = contexts \cup {c} /\ todo' = [todo EXCEPT ![t] = todo[t] \ {a}]
      /\ UNCHANGED <<workspaces, sessions, globals, tasks, messages, born, opening, request, deleting,
                     active, worker, home, result, defaultId, upsets>>
  BY DEF Archive, ContextSaved, HasGlobal, calls
<1>2. a \in todo[t] /\ a \in PartNames
  BY <1>0, <1>1, NextIsToDo
<1> HIDE DEF a
<1>3. c \in Context /\ c.global = home[t] /\ c.task = t /\ c.part = a
  BY <1>0, <1>1, <1>2 DEF Context, TypeOK, PartNames
<1> HIDE DEF c
<1>4. TypeOK'
  <2>1. contexts' \subseteq Context
    BY <1>0, <1>1, <1>3 DEF TypeOK
  <2>2. todo' \in [Tasks -> SUBSET {"summary", "plan", "output"}]
    BY <1>0, <1>1 DEF TypeOK
  <2> QED
    BY <1>0, <1>1, <2>1, <2>2 DEF TypeOK
<1>5. TalkInv' /\ RowInv' /\ RequestInv'
  BY <1>1, TalkKept, RowsKept, RequestsKept DEF IInv, SameRow
<1>6. ArchiveInv'
  <2>1. ArchiveOk(t, contexts, home[t], "archive", result[t], todo[t])
    BY <1>1 DEF IInv, ArchiveInv
  <2>2. todo'[t] = todo[t] \ {a} /\ \A u \in Tasks \ {t} : todo'[u] = todo[u]
    BY <1>0, <1>1 DEF TypeOK
  <2>3. ArchiveOk(t, contexts', home[t], "archive", result[t], todo'[t])
    BY <1>1, <1>2, <1>3, <2>1, <2>2 DEF ArchiveOk
  <2>4. \A u \in Tasks \ {t} : \A d : d.task = u => (d \in contexts' <=> d \in contexts)
    BY <1>1, <1>3
  <2>5. ArchiveOk(t, contexts', home'[t], worker'[t], result'[t], todo'[t])
    BY <1>1, <2>3
  <2> QED
    BY <1>1, <2>2, <2>4, <2>5, ArchiveMoves DEF IInv
<1>7. ContextHasGlobal'
  BY <1>1, <1>3 DEF IInv, ContextHasGlobal
<1> QED
  BY <1>4, <1>5, <1>6, <1>7 DEF IInv
LEMMA CleanupKeeps ==
  ASSUME IInv, NEW t \in Tasks, Cleanup(t)
  PROVE  IInv'
<1>0. TypeOK /\ ArchiveOk(t, contexts, home[t], worker[t], result[t], todo[t])
  BY DEF IInv, ArchiveInv
<1>1. /\ worker[t] = "cleanup" \/ (worker[t] = "archive" /\ todo[t] = {})
      /\ worker' = [worker EXCEPT ![t] = "done"] /\ active' = [active EXCEPT ![t] = "none"]
      /\ UNCHANGED <<workspaces, sessions, globals, tasks, messages, contexts, born, opening, request, deleting,
                     home, result, todo, defaultId, upsets>>
  BY DEF Cleanup, store, calls
<1>2. worker'[t] = "done" /\ \A u \in Tasks \ {t} : worker'[u] = worker[u]
  BY <1>0, <1>1 DEF TypeOK
<1>3. TypeOK'
  <2>1. worker' \in [Tasks -> {"none", "running", "answer", "archive", "cleanup", "done", "lost"}]
    BY <1>0, <1>1 DEF TypeOK
  <2>2. active' \in [Tasks -> {"none", "running", "ended", "cancelled"}]
    BY <1>0, <1>1 DEF TypeOK
  <2> QED
    BY <1>0, <1>1, <2>1, <2>2 DEF TypeOK
<1>4. TalkInv' /\ RowInv'
  BY <1>1, TalkKept, RowsKept DEF IInv, SameRow
<1>5. RequestInv'
  <2>1. \A u \in Tasks : worker[u] # "none" \/ worker'[u] = worker[u]
    BY <1>1, <1>2
  <2> QED
    BY <1>1, <2>1, RequestsKept DEF IInv
<1>6. ArchiveInv'
  <2>1. ArchiveOk(t, contexts', home'[t], worker'[t], result'[t], todo'[t])
    BY <1>0, <1>1, <1>2 DEF ArchiveOk
  <2> QED
    BY <1>1, <1>2, <2>1, ArchiveMoves DEF IInv
<1>7. ContextHasGlobal'
  BY <1>1 DEF IInv, ContextHasGlobal
<1> QED
  BY <1>3, <1>4, <1>5, <1>6, <1>7 DEF IInv

\* The process dies and comes back: rows stay, threads and requests are gone.
LEMMA ArchiveThrowsKeeps ==
  ASSUME IInv, NEW t \in Tasks, ArchiveThrows(t)
  PROVE  IInv'
<1>0. TypeOK
  BY DEF IInv
<1>1. /\ \E g \in Globals : globals' = globals \cup {g} /\ defaultId' = g
      /\ tasks' = [u \in Tasks |-> IF tasks[u] # None /\ tasks[u].status \in {"created", "running"}
                                   THEN [tasks[u] EXCEPT !.status = "interrupted"] ELSE tasks[u]]
      /\ worker' = [u \in Tasks |-> IF worker[u] \in {"none", "done"} THEN worker[u] ELSE "lost"]
      /\ active' = [u \in Tasks |-> "none"] /\ request' = [u \in Tasks |-> Idle]
      /\ opening' = [s \in Sessions |-> None] /\ deleting' = {}
      /\ UNCHANGED <<workspaces, sessions, messages, contexts, born, home, result, todo, upsets>>
  BY DEF ArchiveThrows, EnsureDefaultGlobal, GlobalAdded
<1>2. tasks' \in [Tasks -> Row \cup {None}] /\ \A u \in Tasks : SameRow(tasks[u], tasks'[u])
  <2>1. ASSUME NEW row \in Row
        PROVE  [row EXCEPT !.status = "interrupted"] \in Row /\ SameRow(row, [row EXCEPT !.status = "interrupted"])
    BY DEF Row, SameRow
  <2>2. \A u \in Tasks : tasks[u] = None \/ tasks[u] \in Row
    BY <1>0 DEF TypeOK
  <2>3. \A u \in Tasks : tasks'[u] = tasks[u] \/ (tasks[u] \in Row /\ tasks'[u] = [tasks[u] EXCEPT !.status = "interrupted"])
    BY <1>1, <2>2
  <2>4. \A u \in Tasks : tasks'[u] \in Row \cup {None} /\ SameRow(tasks[u], tasks'[u])
    BY <2>1, <2>2, <2>3 DEF SameRow
  <2>5. tasks' = [u \in Tasks |-> tasks'[u]]
    BY <1>1
  <2> QED
    BY <2>4, <2>5
<1>3. \A u \in Tasks : worker'[u] \in {worker[u], "lost"} /\ (worker[u] = "none" => worker'[u] = "none")
  BY <1>1
<1>4. TypeOK'
  <2>1. worker' \in [Tasks -> {"none", "running", "answer", "archive", "cleanup", "done", "lost"}]
    BY <1>0, <1>1 DEF TypeOK
  <2>2. request' \in [Tasks -> [at : {"idle", "parent", "session", "global", "insert", "mark", "start"},
                                ws : Workspaces \cup {None}, session : Sessions \cup {None},
                                global : Globals \cup {None}, parent : Tasks \cup {None}]]
    BY <1>1 DEF Idle
  <2>3. globals' \subseteq Globals /\ defaultId' \in Globals
    BY <1>0, <1>1 DEF TypeOK
  <2> QED
    BY <1>0, <1>1, <1>2, <2>1, <2>2, <2>3 DEF TypeOK
<1>5. TalkInv' /\ RowInv'
  BY <1>1, <1>2, TalkKept, RowsKept DEF IInv
<1>6. RequestInv'
  <2> SUFFICES ASSUME NEW u \in Tasks PROVE RequestOk(u, Idle, born, worker'[u])
    BY <1>1 DEF RequestInv
  <2>1. worker'[u] # "none" => u \in born
    <3>1. RequestOk(u, request[u], born, worker[u])
      BY DEF IInv, RequestInv
    <3> QED
      BY <1>3, <3>1 DEF RequestOk
  <2> QED
    BY <2>1 DEF RequestOk, Idle, Early, Late
<1>7. ArchiveInv'
  BY <1>1, <1>3, ArchiveKept DEF IInv
<1>8. ContextHasGlobal'
  BY <1>1 DEF IInv, ContextHasGlobal
<1> QED
  BY <1>4, <1>5, <1>6, <1>7, <1>8 DEF IInv

-----------------------------------------------------------------------------
(* The invariant holds, and what follows from it.                              *)

LEMMA InitInv ==
  Init => IInv
<1> SUFFICES ASSUME Init PROVE IInv
  OBVIOUS
<1> USE DEF Init
<1>1. TypeOK
  BY NamesAssumption, BoundAssumption DEF TypeOK, Idle
<1>2. TalkInv
  <2>1. \A s \in Sessions : Rows(messages, s) = {}
    BY DEF Rows
  <2>2. Numbers({}, 0)
    BY DEF Numbers
  <2> QED
    BY <2>1, <2>2, FS_EmptySet DEF TalkInv
<1>3. RowInv
  BY DEF RowInv, PointersResolve, TasksOf
<1>4. RequestInv
  <2>1. \A t \in Tasks : t \notin born
    BY NamesAssumption, IdsAssumption
  <2> QED
    BY <2>1 DEF RequestInv, RequestOk, Idle, Early, Late
<1>5. ArchiveInv
  BY DEF ArchiveInv, ArchiveOk
<1>6. ContextHasGlobal
  BY DEF ContextHasGlobal
<1> QED
  BY <1>1, <1>2, <1>3, <1>4, <1>5, <1>6 DEF IInv

LEMMA NextInv ==
  IInv /\ [Next]_vars => IInv'
<1> SUFFICES ASSUME IInv, [Next]_vars PROVE IInv'
  OBVIOUS
<1>1. CASE StoreStep
  BY <1>1, StoreStepKeeps
<1>2. ASSUME NEW t \in Tasks, RequestStep(t) PROVE IInv'
  BY <1>2, ChecksKeep, InsertTaskKeeps, MarkRunningKeeps, StartTaskKeeps, DeletesKeep DEF RequestStep
<1>3. ASSUME NEW t \in Tasks, WorkerStep(t) PROVE IInv'
  BY <1>3, CancelKeeps, ClaimKeeps, StoreAnswerKeeps, ArchiveKeeps, ArchiveThrowsKeeps, CleanupKeeps DEF WorkerStep
<1>4. CASE UNCHANGED vars
  <2>1. UNCHANGED <<workspaces, sessions, globals, tasks, messages, contexts, born, opening, request, deleting,
                    active, worker, home, result, todo, defaultId, upsets>>
    BY <1>4 DEF vars, store, calls, memory
  <2>2. TypeOK'
    BY <2>1 DEF IInv, TypeOK
  <2> QED
    BY <2>1, <2>2, TalkKept, RowsKept, RequestsKept, ArchiveKept DEF IInv, SameRow, ContextHasGlobal
<1> QED
  BY <1>1, <1>2, <1>3, <1>4 DEF Next

THEOREM Invariance ==
  Spec => []IInv
BY InitInv, NextInv, PTL DEF Spec

\* The rows that name each other agree: no session has two messages with one number, or a gap;
\* the ids in a task's row are those of its question and its answer; an archive that is finished
\* is whole and in one place.  MAX + 1 under the lock, the transaction of the question, and the
\* foreign key of global_context, against every deletion, move and cancellation in between.
THEOREM RowsAlwaysAgree ==
  Spec => []RowsAgree
<1>1. IInv => RowsAgree
  <2> SUFFICES ASSUME IInv PROVE RowsAgree
    OBVIOUS
  <2>1. Numbered
    BY DEF IInv, TalkInv, Numbered, NoOf, Rows, Numbers
  <2>2. ArchiveWhole
    <3> SUFFICES ASSUME NEW t \in Tasks, worker[t] = "done"
                 PROVE  /\ {c.part : c \in {d \in ContextOf(home[t]) : d.task = t}} = result[t]
                        /\ \A c \in contexts : c.task = t => c.global = home[t]
      BY DEF ArchiveWhole
    <3>1. ArchiveOk(t, contexts, home[t], "done", result[t], todo[t]) /\ TypeOK
      BY DEF IInv, ArchiveInv
    <3>2. \A c \in contexts : c.part \in PartNames
      BY <3>1 DEF TypeOK, Context, PartNames
    <3>3. result[t] \subseteq PartNames /\ todo[t] = {}
      BY <3>1 DEF TypeOK, PartNames, ArchiveOk
    <3>4. \A c \in contexts : c.task = t => c.global = home[t]
      BY <3>1 DEF ArchiveOk
    <3>5. \A a \in PartNames : a \in result[t] <=> \E c \in contexts : c.task = t /\ c.part = a
      BY <3>1, <3>3 DEF ArchiveOk
    <3>6. {c.part : c \in {d \in ContextOf(home[t]) : d.task = t}} = {c.part : c \in {d \in contexts : d.task = t}}
      BY <3>4 DEF ContextOf
    <3>7. {c.part : c \in {d \in contexts : d.task = t}} = result[t]
      BY <3>2, <3>3, <3>5
    <3> QED
      BY <3>4, <3>6, <3>7
  <2> QED
    BY <2>1, <2>2 DEF RowsAgree, IInv, RowInv
<1> QED
  BY <1>1, Invariance, PTL
-----------------------------------------------------------------------------
(* What the readers see is the ledger.                                         *)

Talks == [s \in Sessions |-> Talk(s)]

\* The ledger's "said" is a row of messages.
LEMMA SaidIs ==
  ASSUME TypeOK, TalkInv, NEW t \in Tasks, NEW r
  PROVE  Ledger!Said(t, r) <=> \E s \in Sessions : \E m \in messages : m.session = s /\ m.task = t /\ m.role = r
BY Heard DEF Ledger!Said

\* A talk that gets one entry, the others as they were.
LEMMA OneTalkGrows ==
  ASSUME NEW s \in Sessions, NEW e, Talk(s)' = Append(Talk(s), e),
         \A x \in Sessions \ {s} : Talk(x)' = Talk(x)
  PROVE  Talks' = [Talks EXCEPT ![s] = Append(@, e)]
<1>1. Talks' = [x \in Sessions |-> Talk(x)']
  BY DEF Talks
<1>2. Talks = [x \in Sessions |-> Talk(x)]
  BY DEF Talks
<1>3. [Talks EXCEPT ![s] = Append(@, e)] = [x \in Sessions |-> IF x = s THEN Append(Talk(s), e) ELSE Talk(x)]
  BY <1>2
<1> QED
  BY <1>1, <1>3

LEMMA TalksKept ==
  ASSUME messages' = messages
  PROVE  Talks' = Talks
<1>1. \A s \in Sessions : Talk(s)' = Talk(s)
  BY TalkIs
<1>2. Talks' = [x \in Sessions |-> Talk(x)']
  BY DEF Talks
<1> QED
  BY <1>1, <1>2 DEF Talks

LEMMA InsertTaskAsks ==
  ASSUME IInv, NEW t \in Tasks, InsertTask(t)
  PROVE  messages' = messages \/ \E s \in Sessions : Ledger!Ask(s, t)
<1>1. CASE Refused(t) /\ UNCHANGED <<tasks, messages, born>>
  BY <1>1
<1>2. CASE Asked(t)
  <2>1. At(t, "insert") /\ workspaces' = workspaces
    BY DEF InsertTask
  <2>2. \A q \in messages : q.task # t
    BY <1>2, <2>1, AskedIs
  <2>3. PICK s \in Sessions : /\ Talk(s)' = Append(Talk(s), [task |-> t, role |-> "user"])
                              /\ \A x \in Sessions \ {s} : Talk(x)' = Talk(x)
    BY <1>2, <2>1, AskedIs
  <2>4. Talks' = [Talks EXCEPT ![s] = Append(@, [task |-> t, role |-> "user"])]
    BY <2>3, OneTalkGrows
  <2>5. ~Ledger!Said(t, "user")
    BY <2>2, SaidIs DEF IInv
  <2> QED
    BY <2>4, <2>5 DEF Ledger!Ask, Talks
<1> QED
  BY <1>1, <1>2 DEF InsertTask

LEMMA StoreAnswerAnswers ==
  ASSUME IInv, NEW t \in Tasks, StoreAnswer(t)
  PROVE  messages' = messages \/ \E s \in Sessions : Ledger!Answer(s, t)
<1>1. CASE ~Answers(t)
  BY <1>1 DEF StoreAnswer, Answers
<1>2. CASE Answers(t)
  <2>1. PICK s \in Sessions : /\ \E q \in messages : q.session = s /\ q.task = t /\ q.role = "user"
                              /\ Talk(s)' = Append(Talk(s), [task |-> t, role |-> "assistant"])
                              /\ \A x \in Sessions \ {s} : Talk(x)' = Talk(x)
    BY <1>2, AnsweredIs
  <2>2. Talks' = [Talks EXCEPT ![s] = Append(@, [task |-> t, role |-> "assistant"])]
    BY <2>1, OneTalkGrows
  <2>3. ~Ledger!Said(t, "assistant")
    BY <1>2, SaidIs DEF IInv, Answers, FinalAnswer
  <2>4. \E i \in DOMAIN Talk(s) : Talk(s)[i] = [task |-> t, role |-> "user"]
    <3>1. TypeOK /\ TalkInv
      BY DEF IInv
    <3>2. (\E i \in DOMAIN Talk(s) : Talk(s)[i] = [task |-> t, role |-> "user"])
            <=> \E m \in messages : m.session = s /\ m.task = t /\ m.role = "user"
      BY <3>1, Heard
    <3> QED
      BY <2>1, <3>2
  <2>5. Talks[s] = Talk(s)
    BY DEF Talks
  <2> QED
    BY <2>2, <2>3, <2>4, <2>5 DEF Ledger!Answer, Talks
<1> QED
  BY <1>1, <1>2

\* One growing sequence per session, one question and at most one answer per task, in that order
\* and in that session, whatever is deleted or moved: what MAX + 1 under one lock, the transaction
\* of the question and the check for a stored answer are for.
THEOREM StoreKeepsLedger ==
  Spec => LedgerSpec
<1>1. Init => Ledger!LedgerInit
  <2> SUFFICES ASSUME Init PROVE Ledger!LedgerInit
    OBVIOUS
  <2>1. ASSUME NEW s \in Sessions PROVE Talk(s) = <<>>
    <3>1. Rows(messages, s) = {}
      BY DEF Init, Rows
    <3>2. TalkOf({}) = <<>>
      BY FS_EmptySet DEF TalkOf
    <3> QED
      BY <3>1, <3>2, TalkIs
  <2> QED
    BY <2>1 DEF Ledger!LedgerInit
<1>2. IInv /\ [Next]_vars => [Ledger!LedgerNext]_Talks
  <2> SUFFICES ASSUME IInv, [Next]_vars PROVE Ledger!LedgerNext \/ messages' = messages
    BY TalksKept
  <2>1. CASE StoreStep
    BY <2>1 DEF StoreStep, CreateWorkspace, DeleteWorkspace, BeginSession, UpdateSession, InsertSession,
                DeleteSession, CreateGlobal, DeleteGlobal, store
  <2>2. ASSUME NEW t \in Tasks, RequestStep(t) PROVE Ledger!LedgerNext \/ messages' = messages
    <3>1. CASE InsertTask(t)
      BY <3>1, InsertTaskAsks DEF Ledger!LedgerNext
    <3>2. CASE ~InsertTask(t)
      BY <2>2, <3>2 DEF RequestStep, BeginCreate, BeginContinue, ReadParent, CheckSession, CheckGlobal,
                        MarkRunning, StartTask, BeginDelete, DeleteTask, store
    <3> QED
      BY <3>1, <3>2
  <2>3. ASSUME NEW t \in Tasks, WorkerStep(t) PROVE Ledger!LedgerNext \/ messages' = messages
    <3>1. CASE StoreAnswer(t)
      BY <3>1, StoreAnswerAnswers DEF Ledger!LedgerNext
    <3>2. CASE ~StoreAnswer(t)
      BY <2>3, <3>2 DEF WorkerStep, Cancel, Claim, Archive, ArchiveThrows, Cleanup, store
    <3> QED
      BY <3>1, <3>2
  <2>4. CASE UNCHANGED vars
    BY <2>4 DEF vars, store
  <2> QED
    BY <2>1, <2>2, <2>3, <2>4 DEF Next
<1>3. [Ledger!LedgerNext]_Talks => [Ledger!LedgerNext]_([s \in Sessions |-> Talk(s)])
  BY DEF Talks
<1> QED
  BY <1>1, <1>2, <1>3, Invariance, PTL DEF Spec, LedgerSpec, Ledger!LedgerSpec

-----------------------------------------------------------------------------
(* Nothing is born under something that is gone.                               *)

\* The checks of createTask, continueTask and createSession may all be out of date when the row is
\* written: those made under the lock of the write decide, and they are enough.
THEOREM AlwaysBornAtHome ==
  Spec => BornAtHome
<1>1. IInv /\ [Next]_vars => [\A t \in Tasks : tasks[t] = None /\ tasks'[t] # None =>
                                /\ tasks'[t].ws \in workspaces
                                /\ sessions[tasks'[t].session] = tasks'[t].ws]_vars
  <2> SUFFICES ASSUME IInv, Next, NEW t \in Tasks, tasks[t] = None, tasks'[t] # None
               PROVE  tasks'[t].ws \in workspaces /\ sessions[tasks'[t].session] = tasks'[t].ws
    OBVIOUS
  <2>0. TypeOK
    BY DEF IInv
  <2>1. CASE StoreStep
    <3>1. tasks' = tasks
      BY <2>1 DEF StoreStep, CreateWorkspace, DeleteWorkspace, BeginSession, UpdateSession, InsertSession,
                  DeleteSession, CreateGlobal, DeleteGlobal, store
    <3> QED
      BY <3>1
  <2>2. ASSUME NEW u \in Tasks, InsertTask(u)
        PROVE  tasks'[t].ws \in workspaces /\ sessions[tasks'[t].session] = tasks'[t].ws
    <3>1. Asked(u) /\ At(u, "insert") /\ workspaces' = workspaces
      BY <2>2 DEF InsertTask
    <3>2. HasWorkspace(request[u].ws) /\ SessionIsIn(request[u].session, request[u].ws)
      BY <2>2 DEF InsertTask
    <3>3. /\ tasks'[u].ws = request[u].ws /\ tasks'[u].session = request[u].session
          /\ \A x \in Tasks \ {u} : tasks'[x] = tasks[x]
      BY <3>1, AskedIs
    <3>4. t = u
      BY <3>3
    <3> QED
      BY <3>2, <3>3, <3>4 DEF HasWorkspace, SessionIsIn
  <2>3. ASSUME NEW u \in Tasks, RequestStep(u), ~InsertTask(u) PROVE FALSE
    <3>1. tasks' = tasks \/ tasks' = [tasks EXCEPT ![u] = None] \/ tasks' = WithStatus(u, "running")
      BY <2>3 DEF RequestStep, BeginCreate, BeginContinue, ReadParent, CheckSession, CheckGlobal,
                  MarkRunning, StartTask, BeginDelete, DeleteTask, store
    <3> QED
      BY <2>0, <3>1 DEF WithStatus, TypeOK
  <2>4. ASSUME NEW u \in Tasks, WorkerStep(u) PROVE FALSE
    <3>1. CASE StoreAnswer(u)
      <4>1. CASE Answers(u)
        BY <3>1, <4>1, AnsweredIs
      <4>2. CASE ~Answers(u)
        <5>1. tasks' = tasks
          BY <3>1, <4>2 DEF StoreAnswer, Answers
        <5> QED
          BY <5>1
      <4> QED
        BY <4>1, <4>2
    <3>2. CASE ArchiveThrows(u)
      BY <3>2 DEF ArchiveThrows
    <3>3. CASE Cancel(u) \/ Claim(u) \/ Archive(u) \/ Cleanup(u)
      <4>1. tasks' = tasks \/ tasks' = WithStatus(u, "cancelled") \/ tasks' = WithStatus(u, "ended")
        BY <3>3 DEF Cancel, Claim, Archive, Cleanup, store
      <4> QED
        BY <2>0, <4>1 DEF WithStatus, TypeOK
    <3> QED
      BY <2>4, <3>1, <3>2, <3>3 DEF WorkerStep
  <2> QED
    BY <2>1, <2>2, <2>3, <2>4 DEF Next
<1>2. IInv /\ [Next]_vars => [\A s \in Sessions : s \notin born /\ s \in born' => sessions'[s] \in workspaces]_vars
  <2> SUFFICES ASSUME IInv, Next, NEW s \in Sessions, s \notin born, s \in born' PROVE sessions'[s] \in workspaces
    OBVIOUS
  <2>0. TypeOK
    BY DEF IInv
  <2>1. ASSUME NEW x \in Sessions, InsertSession(x) PROVE sessions'[s] \in workspaces
    <3>1. CASE HasWorkspace(opening[x])
      <4>1. SessionAdded(x, opening[x])
        BY <2>1, <3>1 DEF InsertSession
      <4>2. s = x /\ sessions' = [sessions EXCEPT ![x] = opening[x]]
        BY <4>1 DEF SessionAdded
      <4> QED
        BY <2>0, <3>1, <4>2 DEF TypeOK, HasWorkspace
    <3>2. CASE ~HasWorkspace(opening[x])
      <4>1. born' = born
        BY <2>1, <3>2 DEF InsertSession
      <4> QED
        BY <4>1
    <3> QED
      BY <3>1, <3>2
  <2>2. ASSUME StoreStep, ~\E x \in Sessions : InsertSession(x) PROVE FALSE
    <3>1. \E x \in Workspaces \cup Globals : born' = born \/ born' = born \cup {x}
      <4>1. DefaultGlobal \in Globals
        BY NamesAssumption
      <4> QED
        BY <2>2, <4>1 DEF StoreStep, CreateWorkspace, DeleteWorkspace, BeginSession, UpdateSession,
                          DeleteSession, CreateGlobal, DeleteGlobal, store
    <3> QED
      BY <3>1, IdsAssumption
  <2>3. ASSUME NEW t \in Tasks, RequestStep(t) \/ WorkerStep(t) PROVE FALSE
    <3>1. born' = born \/ born' = born \cup {t}
      BY <2>3 DEF RequestStep, BeginCreate, BeginContinue, ReadParent, CheckSession, CheckGlobal, InsertTask, Asked,
                  MarkRunning, StartTask, BeginDelete, DeleteTask, WorkerStep, Cancel, Claim, StoreAnswer,
                  Archive, ArchiveThrows, Cleanup, store
    <3> QED
      BY <3>1, IdsAssumption
  <2> QED
    BY <2>1, <2>2, <2>3 DEF Next
<1> QED
  BY <1>1, <1>2, Invariance, PTL DEF Spec, BornAtHome, TasksAreBornAtHome, SessionsAreBornAtHome
=============================================================================
