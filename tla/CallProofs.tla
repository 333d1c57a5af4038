----------------------------- MODULE CallProofs -----------------------------
(***************************************************************************)
(* Proofs about a tool call and the question it may have to ask first.     *)
(*                                                                         *)
(* ToolCalls, for any number of tasks, tools and commands and every        *)
(* configuration and policy: what the user and the administrator ordered   *)
(* is obeyed however their requests fall between the steps of a call, and  *)
(* history and statistics agree on the number of calls.                    *)
(*                                                                         *)
(* PermissionGate, for every set of workers and of handlers and every      *)
(* number of requests, whatever numbers generateId hands out: no yes       *)
(* crosses from one id to another, the first answer to a request stands,   *)
(* and the status of a request that shares its id with no other is true.   *)
(***************************************************************************)
EXTENDS ToolCalls, PermissionGate, FiniteSetTheorems, WellFoundedInduction, TLAPS

----------------------------------------------------------------------------
(* Sums over the commands of a tool.  Counted folds a set; the fold of every *)
(* finite set exists, and what it yields after one number changed is shown    *)
(* of the smallest set of which it would be wrong.                            *)

\* A set of numbers that is not empty has a least one.
LEMMA LeastNumber ==
  ASSUME NEW S \in SUBSET Nat, S # {}
  PROVE  \E x \in S : \A y \in S : x <= y
<1>1. PICK x \in S : \A y \in S : ~ <<y, x>> \in OpToRel(<, Nat)
  BY NatLessThanWellFounded, WFMin, Zenon
<1>2. ASSUME NEW y \in S PROVE x <= y
  <2>1. ~ (y < x)
    <3>1. <<y, x>> \in OpToRel(<, Nat) <=> y < x
      BY DEF OpToRel
    <3> QED
      BY <1>1, <3>1
  <2> QED
    BY <2>1
<1> QED
  BY <1>2

\* The fold of Counted: what it makes of a set, given what it makes of the smaller ones.
First(s) == CHOOSE x \in s : TRUE
Adds(h, f, D) ==
    f = [s \in D |-> IF s = {} THEN 0 ELSE h[First(s)].count + f[s \ {First(s)}]]
Fold(h, S) == CHOOSE f : Adds(h, f, SUBSET S)

\* Counted is what its fold yields for the whole set.
LEMMA CountedIsFold ==
    ASSUME NEW h, NEW S
    PROVE  Counted(h, S) = Fold(h, S)[S]
BY DEF Counted, MapThenSumSet, MapThenFoldSet, Fold, Adds, First

\* The subsets up to a size.
UpTo(S, n) == {s \in SUBSET S : Cardinality(s) <= n}

\* Without its first element a set is smaller by one.
LEMMA FirstRemoved ==
    ASSUME NEW S, IsFiniteSet(S), NEW s \in SUBSET S, s # {}
    PROVE  /\ First(s) \in s /\ s \ {First(s)} \in SUBSET S
           /\ Cardinality(s) \in Nat /\ Cardinality(s) > 0
           /\ Cardinality(s \ {First(s)}) = Cardinality(s) - 1
<1>1. First(s) \in s
    BY DEF First
<1>2. IsFiniteSet(s)
    BY FS_Subset
<1>3. Cardinality(s) \in Nat /\ Cardinality(s) # 0
    BY <1>2, FS_CardinalityType, FS_EmptySet
<1>4. Cardinality(s \ {First(s)}) = Cardinality(s) - 1
    BY <1>1, <1>2, FS_RemoveElement
<1> QED BY <1>1, <1>3, <1>4

\* Every finite set has the fold: the empty subset has one, and from one of the
\* subsets up to a size comes one of those up to the next.
LEMMA FoldExists ==
    ASSUME NEW S, IsFiniteSet(S), NEW h
    PROVE  Adds(h, Fold(h, S), SUBSET S)
<1> DEFINE Bad == {n \in Nat : ~ \E f : Adds(h, f, UpTo(S, n))}
<1>1. 0 \notin Bad
    <2> DEFINE f == [s \in UpTo(S, 0) |-> 0]
    <2>1. \A s \in UpTo(S, 0) : s = {}
        <3> SUFFICES ASSUME NEW s \in UpTo(S, 0), s # {} PROVE FALSE
            OBVIOUS
        <3>1. Cardinality(s) <= 0 /\ s \in SUBSET S
            BY DEF UpTo
        <3>2. Cardinality(s) \in Nat /\ Cardinality(s) > 0
            BY <3>1, FirstRemoved
        <3> QED BY <3>1, <3>2
    <2>2. Adds(h, f, UpTo(S, 0))
        <3>1. f = [s \in UpTo(S, 0) |->
                     IF s = {} THEN 0 ELSE h[First(s)].count + f[s \ {First(s)}]]
            BY <2>1
        <3> QED BY <3>1 DEF Adds
    <2> HIDE DEF f
    <2> QED BY <2>2
<1>2. ASSUME NEW n \in Nat, n \notin Bad PROVE n + 1 \notin Bad
    <2>1. PICK f : Adds(h, f, UpTo(S, n))
        BY <1>2
    <2> DEFINE g == [s \in UpTo(S, n + 1) |->
                       IF s = {} THEN 0 ELSE h[First(s)].count + f[s \ {First(s)}]]
    <2>2. ASSUME NEW s \in UpTo(S, n + 1), s # {}
          PROVE  g[s \ {First(s)}] = f[s \ {First(s)}]
        <3> DEFINE d == s \ {First(s)}
        <3>1. d \in UpTo(S, n)
            BY <2>2, FirstRemoved DEF UpTo
        <3>2. f[d] = IF d = {} THEN 0 ELSE h[First(d)].count + f[d \ {First(d)}]
            <4> HIDE DEF d
            <4> QED BY <2>1, <3>1 DEF Adds
        <3>3. d \in UpTo(S, n + 1)
            <4>1. Cardinality(d) \in Nat /\ Cardinality(d) <= n /\ d \in SUBSET S
                BY <3>1, FS_Subset, FS_CardinalityType DEF UpTo
            <4> HIDE DEF d
            <4> QED BY <4>1 DEF UpTo
        <3>4. g[d] = IF d = {} THEN 0 ELSE h[First(d)].count + f[d \ {First(d)}]
            <4> HIDE DEF d
            <4> QED BY <3>3
        <3> QED BY <3>2, <3>4
    <2>3. g = [s \in UpTo(S, n + 1) |->
                 IF s = {} THEN 0 ELSE h[First(s)].count + g[s \ {First(s)}]]
        BY <2>2
    <2> HIDE DEF g
    <2>4. Adds(h, g, UpTo(S, n + 1))
        BY <2>3 DEF Adds
    <2> QED BY <2>4
<1>3. Bad = {}
    <2> SUFFICES ASSUME Bad # {} PROVE FALSE
        OBVIOUS
    <2>1. Bad \in SUBSET Nat
        OBVIOUS
    <2> HIDE DEF Bad
    <2>2. PICK n \in Bad : \A m \in Bad : n <= m
        BY <2>1, LeastNumber
    <2>3. n \in Nat /\ n # 0
        BY <1>1, <2>1, <2>2
    <2>4. n - 1 \in Nat /\ ~(n <= n - 1) /\ (n - 1) + 1 = n
        BY <2>3
    <2>5. n - 1 \notin Bad
        BY <2>2, <2>4
    <2> QED BY <1>2, <2>2, <2>4, <2>5
<1>4. Cardinality(S) \in Nat
    BY FS_CardinalityType
<1>5. UpTo(S, Cardinality(S)) = SUBSET S
    BY FS_Subset DEF UpTo
<1>6. \E f : Adds(h, f, SUBSET S)
    <2>1. \E f : Adds(h, f, UpTo(S, Cardinality(S)))
        BY <1>3, <1>4
    <2> QED BY <1>5, <2>1
<1> QED BY <1>6 DEF Fold

\* Two folds, of numbers that differ by d in one place, differ by d on the sets
\* that have it.
Raised(h, k, S, r, d) ==
    \A x \in S : h[x].count \in Nat /\ k[x].count = h[x].count + IF x = r THEN d ELSE 0
Grown(f, g, s, r, d) == f[s] \in Nat /\ g[s] = f[s] + IF r \in s THEN d ELSE 0

LEMMA FoldGrows ==
    ASSUME NEW S, IsFiniteSet(S), NEW h, NEW k, NEW f, NEW g, NEW r, NEW d \in Nat,
           Adds(h, f, SUBSET S), Adds(k, g, SUBSET S),
           Raised(h, k, S, r, d)
    PROVE  \A s \in SUBSET S : Grown(f, g, s, r, d)
<1> DEFINE Right(s) == f[s] \in Nat /\ g[s] = f[s] + IF r \in s THEN d ELSE 0
           Bad == {n \in Nat : \E s \in SUBSET S : Cardinality(s) = n /\ ~Right(s)}
<1>1. \A s \in SUBSET S :
          /\ f[s] = IF s = {} THEN 0 ELSE h[First(s)].count + f[s \ {First(s)}]
          /\ g[s] = IF s = {} THEN 0 ELSE k[First(s)].count + g[s \ {First(s)}]
    BY DEF Adds
<1>2. Bad = {}
    <2> SUFFICES ASSUME Bad # {} PROVE FALSE
        OBVIOUS
    <2>1. PICK n \in Bad : \A m \in Bad : n <= m
        <3>1. Bad \in SUBSET Nat
            OBVIOUS
        <3> HIDE DEF Bad
        <3> QED BY <3>1, LeastNumber
    <2>2. PICK s \in SUBSET S : Cardinality(s) = n /\ ~Right(s)
        BY <2>1
    <2>3. s # {}
        <3>1. s = {} => f[s] = 0 /\ g[s] = 0 /\ r \notin s
            BY <1>1
        <3> QED BY <2>2, <3>1
    <2> DEFINE x == First(s)
               e == s \ {x}
    <2>4. x \in s /\ e \in SUBSET S /\ n \in Nat /\ Cardinality(e) = n - 1 /\ n - 1 \in Nat
        BY <2>2, <2>3, FirstRemoved
    <2>5. Right(e)
        <3>1. n - 1 \notin Bad
            <4>1. ~(n <= n - 1)
                BY <2>4
            <4> HIDE DEF Bad
            <4> QED BY <2>1, <4>1
        <3> HIDE DEF Right, e
        <3> QED BY <2>4, <3>1
    <2>6. f[s] = h[x].count + f[e] /\ g[s] = k[x].count + g[e]
        BY <1>1, <2>3
    <2>7. x \in S /\ h[x].count \in Nat /\ k[x].count = h[x].count + IF x = r THEN d ELSE 0
        BY <2>4 DEF Raised
    <2>8. r \in s <=> r = x \/ r \in e
        BY <2>4
    <2>9. ~(r = x /\ r \in e)
        OBVIOUS
    <2>10. Right(s)
        <3> HIDE DEF x, e, Bad
        <3> QED BY <2>5, <2>6, <2>7, <2>8, <2>9
    <2> QED BY <2>2, <2>10
<1>3. ASSUME NEW s \in SUBSET S PROVE Right(s)
    <2>1. Cardinality(s) \in Nat
        BY FS_Subset, FS_CardinalityType
    <2> HIDE DEF Right
    <2> QED BY <1>2, <2>1
<1> QED BY <1>3 DEF Grown

\* d more in one number is d more in the sum, if the set has it.
LEMMA CountedGrows ==
    ASSUME NEW S, IsFiniteSet(S), NEW h, NEW k, NEW r, NEW d \in Nat,
           Raised(h, k, S, r, d)
    PROVE  Counted(h, S) \in Nat /\ Counted(k, S) = Counted(h, S) + IF r \in S THEN d ELSE 0
<1> DEFINE f == Fold(h, S)
           g == Fold(k, S)
<1>1. Adds(h, f, SUBSET S) /\ Adds(k, g, SUBSET S)
    BY FoldExists
<1>2. Counted(h, S) = f[S] /\ Counted(k, S) = g[S]
    BY CountedIsFold
<1> HIDE DEF f, g
<1>3. \A s \in SUBSET S : Grown(f, g, s, r, d)
    BY <1>1, FoldGrows
<1> QED BY <1>2, <1>3 DEF Grown

\* The sum of zeros is zero.
LEMMA CountedNone ==
    ASSUME NEW S, IsFiniteSet(S), NEW h, \A x \in S : h[x].count = 0
    PROVE  Counted(h, S) = 0
<1> DEFINE f == Fold(h, S)
           g == [s \in SUBSET S |-> 0]
<1>1. Adds(h, f, SUBSET S)
    BY FoldExists
<1>2. \A s \in SUBSET S : s # {} => h[First(s)].count = 0 /\ g[s \ {First(s)}] = 0
    BY FirstRemoved
<1>3. g = [s \in SUBSET S |-> IF s = {} THEN 0 ELSE h[First(s)].count + g[s \ {First(s)}]]
    BY <1>2
<1>4. g[S] = 0 /\ Counted(h, S) = f[S]
    BY CountedIsFold
<1> HIDE DEF f, g
<1>5. Adds(h, g, SUBSET S)
    BY <1>3 DEF Adds
<1>6. Raised(h, h, S, S, 0)
    BY DEF Raised
<1>7. \A s \in SUBSET S : Grown(f, g, s, S, 0)
    BY <1>1, <1>5, <1>6, FoldGrows
<1>8. f[S] \in Nat /\ g[S] = f[S]
    BY <1>7 DEF Grown
<1> QED BY <1>4, <1>8

----------------------------------------------------------------------------
(* The inductive invariant.  What is said of a worker is said of where it   *)
(* is (p), the locals of its call (c), its debug session (s), its cancel    *)
(* flag (x) and the overrides (o).                                          *)

StartedAt(p) == p = "count" \/ p \in InCall
Cleared(p)   == p \in {"poll", "begin"} \/ StartedAt(p)

\* What the level made of the request is kept until the tool starts.
FloorOk(t, p, c) ==
    c.route = "ask" =>
        /\ p = "wait" \/ Cleared(p) =>
              (c.req.tool = ShellRun => c.req.detected # "blocked")
        /\ Cleared(p) =>
              /\ c.req.tool = ShellRun /\ c.req.detected = "dangerous" => c.approved
              /\ c.req.tool \in FileWrites /\ Options[t].askWrites => c.approved

\* A yes for a disabled tool gets no further than callTool's own look.
OffOk(p, c, o) == c.off => ~o[c.req.tool].enabled /\ ~StartedAt(p)

\* A cancelled chain gets no further than its next look at the flag.
LateOk(p, c, x) == c.late => x /\ p \notin {"level", "begin"} /\ ~StartedAt(p)

\* The session's skip belongs to the pause the worker is in.
SkipOk(p, c, s) ==
    /\ c.ran => c.at = "after"
    /\ c.skipAsked = "heard" =>
          ~c.ran /\ p \in {"paused", "return"} /\ (p = "paused" => s.skip /\ c.at = "before")
    /\ p \in {"ready", "paused"} /\ c.at = "before" /\ s.skip => c.skipAsked # "no"

\* So do its arguments.
EditOk(p, c, s) ==
    /\ c.args = "edited" => c.editAsked
    /\ p \in {"ready", "paused"} /\ c.at = "before" /\ s.args = "edited" => c.editAsked

WorkerOk(t, p, c, s, x, o) ==
    FloorOk(t, p, c) /\ OffOk(p, c, o) /\ LateOk(p, c, x) /\ SkipOk(p, c, s) /\ EditOk(p, c, s)

WorkersOk ==
    \A t \in Tasks : WorkerOk(t, pc[t], call[t], session[t], cancelled[t], overrides)

\* A failure in the history is one that happened, and the statistics add up.
BooksOk ==
    /\ \A r \in Requests : ~history[r].lastSuccess => r \in failedOnce
    /\ \A tool \in Tools : stats[tool].calls = stats[tool].ok + stats[tool].failed
    /\ WarnedAfterFailure

IInv == TypeOK /\ WorkersOk /\ BooksOk

----------------------------------------------------------------------------
(* The worker.                                                              *)

\* A new call, and none, have the types of a call.
LEMMA NewCallType ==
    /\ NoCall \in CallType
    /\ \A r \in Requests : NewCall(r) \in CallType
<1>1. \A r \in Requests : NewCall(r) \in CallType
    BY DEF NewCall, CallType, Points
<1>2. (CHOOSE r \in Requests : TRUE) \in Requests
    BY RequestsAssumption
<1> QED BY <1>1, <1>2 DEF NoCall

\* A call that is over, or has just begun, owes nobody anything.
LEMMA FreshOk ==
    ASSUME NEW t, NEW r, NEW s, NEW x, NEW o
    PROVE  /\ WorkerOk(t, "policy", NewCall(r), s, x, o)
           /\ WorkerOk(t, "idle", NoCall, s, x, o)
           /\ WorkerOk(t, "stopped", NoCall, s, x, o)
BY DEF WorkerOk, FloorOk, OffOk, LateOk, SkipOk, EditOk, NoCall, NewCall, Cleared, StartedAt, InCall

\* A worker's step as far as the other tasks are concerned.
Moves(t, p, c, s) ==
    /\ pc' = [pc EXCEPT ![t] = p]
    /\ call' = [call EXCEPT ![t] = c]
    /\ session' = [session EXCEPT ![t] = s]

LEMMA OneWorker ==
    ASSUME IInv, NEW t \in Tasks, NEW p \in Labels, NEW c \in CallType, NEW s \in SessionType,
           Moves(t, p, c, s), UNCHANGED <<cancelled, overrides, armed, disarming>>,
           WorkerOk(t, p, c, s, cancelled[t], overrides), p = "stopped" => cancelled[t]
    PROVE  /\ pc' \in [Tasks -> Labels] /\ call' \in [Tasks -> CallType]
           /\ session' \in [Tasks -> SessionType]
           /\ \A u \in Tasks : pc'[u] = "stopped" => cancelled'[u]
           /\ WorkersOk'
<1>1. pc' \in [Tasks -> Labels] /\ call' \in [Tasks -> CallType] /\ session' \in [Tasks -> SessionType]
    BY DEF Moves, IInv, TypeOK
<1>2. ASSUME NEW u \in Tasks
      PROVE  /\ pc'[u] = IF u = t THEN p ELSE pc[u]
             /\ call'[u] = IF u = t THEN c ELSE call[u]
             /\ session'[u] = IF u = t THEN s ELSE session[u]
    BY DEF Moves, IInv, TypeOK
<1>3. \A u \in Tasks : pc'[u] = "stopped" => cancelled'[u]
    BY <1>2 DEF IInv, TypeOK
<1>4. \A u \in Tasks : WorkerOk(u, pc'[u], call'[u], session'[u], cancelled'[u], overrides')
    BY <1>2 DEF IInv, WorkersOk
<1> QED BY <1>1, <1>3, <1>4 DEF WorkersOk

\* Steps that leave the books alone.
LEMMA Unbooked ==
    ASSUME IInv, UNCHANGED books, WorkersOk', TypeOK',
           \A t \in Tasks : pc'[t] \in InCall =>
               pc[t] \in InCall /\ call'[t].req = call[t].req /\ call'[t].dup = call[t].dup
    PROVE  IInv'
<1>1. WarnedAfterFailure'
    BY DEF IInv, BooksOk, WarnedAfterFailure, books
<1> QED BY <1>1 DEF IInv, BooksOk, books

\* A worker's step that books nothing.
LEMMA QuietWorker ==
    ASSUME IInv, NEW t \in Tasks, NEW p \in Labels, NEW c \in CallType, NEW s \in SessionType,
           Moves(t, p, c, s), KeepWorld, KeepBooks, issued' \in [Tasks -> 0 .. MaxCalls],
           WorkerOk(t, p, c, s, cancelled[t], overrides), p = "stopped" => cancelled[t],
           p \in InCall => pc[t] \in InCall /\ c.req = call[t].req /\ c.dup = call[t].dup
    PROVE  IInv'
<1>1. /\ pc' \in [Tasks -> Labels] /\ call' \in [Tasks -> CallType]
      /\ session' \in [Tasks -> SessionType]
      /\ \A u \in Tasks : pc'[u] = "stopped" => cancelled'[u]
      /\ WorkersOk'
    BY OneWorker DEF KeepWorld, debugVars
<1>2. TypeOK'
    BY <1>1 DEF IInv, TypeOK, KeepWorld, KeepBooks, debugVars, books
<1>3. \A u \in Tasks : pc'[u] \in InCall =>
          pc[u] \in InCall /\ call'[u].req = call[u].req /\ call'[u].dup = call[u].dup
    BY DEF Moves, IInv, TypeOK
<1> QED BY <1>1, <1>2, <1>3, Unbooked DEF KeepBooks
\* A worker's step that only moves it.
LEMMA JustMoves ==
    ASSUME IInv, NEW t \in Tasks, NEW p \in Labels, Goto(t, p), UNCHANGED <<call, session, issued>>,
           KeepWorld, KeepBooks,
           WorkerOk(t, p, call[t], session[t], cancelled[t], overrides), p = "stopped" => cancelled[t],
           p \in InCall => pc[t] \in InCall
    PROVE  IInv'
<1>1. call[t] \in CallType /\ session[t] \in SessionType /\ issued' \in [Tasks -> 0 .. MaxCalls]
    BY DEF IInv, TypeOK
<1>2. Moves(t, p, call[t], session[t])
    BY DEF Moves, Goto, IInv, TypeOK
<1> QED BY <1>1, <1>2, QuietWorker

\* The steps of a call up to its history entry.
LEMMA BeforeTheTool ==
    ASSUME IInv, NEW t \in Tasks,
           Command(t) \/ ReadPolicy(t) \/ CheckEnabled(t) \/ Assess(t) \/ Answered(t) \/ Poll(t) \/ Begin(t)
    PROVE  IInv'
<1> DEFINE c == call[t]
           s == session[t]
           x == cancelled[t]
<1>1. /\ c \in CallType /\ s \in SessionType /\ x \in BOOLEAN /\ c.req \in Requests /\ c.req.tool \in Tools
      /\ c.req.detected \in Levels /\ issued \in [Tasks -> 0 .. MaxCalls]
      /\ WorkerOk(t, pc[t], c, s, x, overrides)
    BY RequestsAssumption DEF IInv, TypeOK, CallType, WorkersOk
<1>2. session' = session => session' = [session EXCEPT ![t] = s]
    BY DEF IInv, TypeOK
<1>3. ASSUME NEW l \in {"idle", "stopped"}, Ends(t, l), l = "stopped" => x, UNCHANGED <<session, issued>>,
             KeepWorld, KeepBooks
      PROVE  IInv'
    <2>1. Moves(t, l, NoCall, s) /\ NoCall \in CallType /\ l \in Labels /\ l \notin InCall
        BY <1>2, <1>3, NewCallType DEF Moves, Ends, Goto, Set, Labels, InCall
    <2>2. WorkerOk(t, l, NoCall, s, x, overrides)
        BY <1>3, FreshOk
    <2> QED BY <1>1, <1>3, <2>1, <2>2, QuietWorker
<1>4. CASE Command(t)
    <2>1. CASE x
        <3>1. Goto(t, "stopped") /\ UNCHANGED <<call, session, issued>> /\ KeepWorld /\ KeepBooks /\ pc[t] = "idle"
            BY <1>4, <2>1 DEF Command
        <3>2. WorkerOk(t, "stopped", c, s, x, overrides)
            BY <1>1, <3>1 DEF WorkerOk, FloorOk, OffOk, LateOk, SkipOk, EditOk, Cleared, StartedAt, InCall
        <3> QED BY <2>1, <3>1, <3>2, JustMoves DEF Labels, InCall
    <2>2. CASE ~x
        <3>1. PICK r \in Requests : Goto(t, "policy") /\ Set(t, NewCall(r))
            BY <1>4, <2>2 DEF Command
        <3>2. issued' \in [Tasks -> 0 .. MaxCalls]
            BY <1>1, <1>4, <2>2, MaxCallsAssumption DEF Command
        <3>3. Moves(t, "policy", NewCall(r), s) /\ KeepWorld /\ KeepBooks /\ NewCall(r) \in CallType
            BY <1>2, <1>4, <3>1, NewCallType DEF Command, Moves, Goto, Set
        <3>4. WorkerOk(t, "policy", NewCall(r), s, x, overrides)
            BY FreshOk
        <3> QED BY <1>1, <3>2, <3>3, <3>4, QuietWorker DEF Labels, InCall
    <2> QED BY <2>1, <2>2
<1>5. CASE ReadPolicy(t)
    <2>1. pc[t] = "policy" /\ KeepWorld /\ KeepBooks /\ UNCHANGED <<session, issued>>
        BY <1>5 DEF ReadPolicy
    <2>2. PICK policy \in Policies :
              CASE policy[ToolOf(t)] = "deny" -> Goto(t, "denied") /\ UNCHANGED call
                [] policy[ToolOf(t)] = "auto" ->
                       Goto(t, "poll") /\ Set(t, [call[t] EXCEPT !.route = "auto"])
                [] policy[ToolOf(t)] = "ask" -> Goto(t, "check") /\ UNCHANGED call
        BY <1>5 DEF ReadPolicy
    <2>3. policy[ToolOf(t)] \in {"ask", "auto", "deny"}
        BY <1>1, PoliciesAssumption DEF ToolOf
    <2>4. CASE policy[ToolOf(t)] \in {"deny", "ask"}
        <3>1. PICK l \in {"denied", "check"} : Goto(t, l) /\ UNCHANGED call
            BY <2>2, <2>4
        <3>2. WorkerOk(t, l, c, s, x, overrides)
            BY <1>1, <2>1 DEF WorkerOk, FloorOk, OffOk, LateOk, SkipOk, EditOk, Cleared, StartedAt, InCall
        <3> QED BY <2>1, <3>1, <3>2, JustMoves DEF Labels, InCall
    <2>5. CASE policy[ToolOf(t)] = "auto"
        <3> DEFINE d == [c EXCEPT !.route = "auto"]
        <3>1. Moves(t, "poll", d, s)
            BY <1>2, <2>1, <2>2, <2>5 DEF Moves, Goto, Set
        <3>2. d \in CallType
            BY <1>1 DEF CallType
        <3>3. WorkerOk(t, "poll", d, s, x, overrides)
            BY <1>1, <2>1 DEF CallType, WorkerOk, FloorOk, OffOk, LateOk, SkipOk, EditOk, Cleared, StartedAt, InCall
        <3> QED BY <1>1, <2>1, <3>1, <3>2, <3>3, QuietWorker DEF Labels, InCall
    <2> QED BY <2>3, <2>4, <2>5
<1>6. CASE CheckEnabled(t)
    <2>1. pc[t] = "check" /\ KeepWorld /\ KeepBooks /\ UNCHANGED <<session, issued>>
        BY <1>6 DEF CheckEnabled
    <2>2. CASE x
        BY <1>3, <1>6, <2>1, <2>2 DEF CheckEnabled
    <2>3. CASE ~x
        <3>1. PICK l \in {"level", "return"} : Goto(t, l) /\ UNCHANGED call
            BY <1>6, <2>3 DEF CheckEnabled
        <3>2. WorkerOk(t, l, c, s, x, overrides)
            BY <1>1, <2>1, <2>3 DEF WorkerOk, FloorOk, OffOk, LateOk, SkipOk, EditOk, Cleared, StartedAt, InCall
        <3> QED BY <2>1, <3>1, <3>2, JustMoves DEF Labels, InCall
    <2> QED BY <2>2, <2>3
<1>7. CASE Assess(t)
    <2> DEFINE r == c.req
               v == Level(r, t)
    <2>1. pc[t] = "level" /\ KeepWorld /\ KeepBooks /\ UNCHANGED <<session, issued, call>>
          /\ Goto(t, IF v = "blocked" THEN "return" ELSE IF RequiresPermission(v) THEN "wait" ELSE "begin")
        BY <1>7 DEF Assess
    <2>2. v # "blocked" /\ r.tool = ShellRun => r.detected # "blocked"
        BY ShellAssumption DEF Level, Floored
    <2>3. ~RequiresPermission(v) /\ v # "blocked" =>
              /\ ~(r.tool = ShellRun /\ r.detected = "dangerous")
              /\ ~(r.tool \in FileWrites /\ Options[t].askWrites)
        BY ShellAssumption DEF Level, Floored, RequiresPermission
    <2> HIDE DEF v
    <2>4. PICK l \in {"return", "wait", "begin"} :
              /\ Goto(t, l)
              /\ l # "return" => v # "blocked"
              /\ l = "begin" => ~RequiresPermission(v)
        BY <2>1
    <2>5. WorkerOk(t, l, c, s, x, overrides)
        BY <1>1, <2>1, <2>2, <2>3, <2>4
        DEF WorkerOk, FloorOk, OffOk, LateOk, SkipOk, EditOk, Cleared, StartedAt, InCall
    <2> QED BY <2>1, <2>4, <2>5, JustMoves DEF Labels, InCall
<1>8. CASE Answered(t)
    <2>1. pc[t] = "wait" /\ KeepWorld /\ KeepBooks /\ UNCHANGED <<session, issued>>
        BY <1>8 DEF Answered
    <2>2. CASE x
        BY <1>3, <1>8, <2>1, <2>2 DEF Answered
    <2>3. CASE ~x /\ Goto(t, "denied") /\ UNCHANGED call
        <3>1. WorkerOk(t, "denied", c, s, x, overrides)
            BY <1>1, <2>1 DEF WorkerOk, FloorOk, OffOk, LateOk, SkipOk, EditOk, Cleared, StartedAt, InCall
        <3> QED BY <2>1, <2>3, <3>1, JustMoves DEF Labels, InCall
    <2>4. CASE ~x /\ Goto(t, "poll") /\ Set(t, [c EXCEPT !.approved = TRUE, !.off = ~Enabled(ToolOf(t))])
        <3> DEFINE d == [c EXCEPT !.approved = TRUE, !.off = ~Enabled(ToolOf(t))]
        <3>1. Moves(t, "poll", d, s)
            BY <1>2, <2>1, <2>4 DEF Moves, Goto, Set
        <3>2. Enabled(ToolOf(t)) \in BOOLEAN
            BY <1>1 DEF Enabled, ToolOf, IInv, TypeOK, Override
        <3>3. d \in CallType
            BY <1>1, <3>2 DEF CallType
        <3>4. WorkerOk(t, "poll", d, s, x, overrides)
            BY <1>1, <2>1 DEF CallType, Enabled, ToolOf,
                WorkerOk, FloorOk, OffOk, LateOk, SkipOk, EditOk, Cleared, StartedAt, InCall
        <3> QED BY <1>1, <2>1, <3>1, <3>3, <3>4, QuietWorker DEF Labels, InCall
    <2> QED BY <1>8, <2>2, <2>3, <2>4 DEF Answered
<1>9. CASE Poll(t)
    <2>1. pc[t] = "poll" /\ KeepWorld /\ KeepBooks /\ UNCHANGED <<session, issued>>
        BY <1>9 DEF Poll
    <2>2. CASE x
        BY <1>3, <1>9, <2>1, <2>2 DEF Poll
    <2>3. CASE ~x
        <3>1. Goto(t, "begin") /\ UNCHANGED call
            BY <1>9, <2>3 DEF Poll
        <3>2. WorkerOk(t, "begin", c, s, x, overrides)
            BY <1>1, <2>1, <2>3 DEF WorkerOk, FloorOk, OffOk, LateOk, SkipOk, EditOk, Cleared, StartedAt, InCall
        <3> QED BY <2>1, <3>1, <3>2, JustMoves DEF Labels, InCall
    <2> QED BY <2>2, <2>3
<1>10. CASE Begin(t)
    <2>1. pc[t] = "begin" /\ KeepWorld /\ KeepBooks /\ UNCHANGED <<session, issued, call>>
        BY <1>10 DEF Begin
    <2>2. PICK l \in {"count", "return"} : Goto(t, l) /\ (l = "count" => Enabled(ToolOf(t)))
        BY <1>10 DEF Begin
    <2>3. WorkerOk(t, l, c, s, x, overrides)
        BY <1>1, <2>1, <2>2 DEF Enabled, ToolOf,
            WorkerOk, FloorOk, OffOk, LateOk, SkipOk, EditOk, Cleared, StartedAt, InCall
    <2> QED BY <2>1, <2>2, <2>3, JustMoves DEF Labels, InCall
<1> QED BY <1>4, <1>5, <1>6, <1>7, <1>8, <1>9, <1>10
\* The steps around the tool, from the first breakpoint to the return.
LEMMA AroundTheTool ==
    ASSUME IInv, NEW t \in Tasks,
           Break(t) \/ GetSession(t) \/ Prepare(t) \/ Publish(t) \/ Wake(t) \/ Run(t) \/ Return(t)
    PROVE  IInv'
<1> DEFINE c == call[t]
           s == session[t]
           x == cancelled[t]
<1>1. /\ c \in CallType /\ s \in SessionType /\ x \in BOOLEAN
      /\ issued \in [Tasks -> 0 .. MaxCalls]
      /\ WorkerOk(t, pc[t], c, s, x, overrides)
    BY DEF IInv, TypeOK, WorkersOk
<1>2. /\ session' = session => session' = [session EXCEPT ![t] = s]
      /\ call' = call => call' = [call EXCEPT ![t] = c]
    BY DEF IInv, TypeOK
<1>3. CASE Break(t)
    <2>1. pc[t] = "break" /\ KeepWorld /\ KeepBooks /\ UNCHANGED <<session, issued, call>>
        BY <1>3 DEF Break
    <2>2. PICK l \in {"session", "run", "finish"} : Goto(t, l)
        BY <1>3 DEF Break
    <2>3. WorkerOk(t, l, c, s, x, overrides)
        BY <1>1, <2>1 DEF WorkerOk, FloorOk, OffOk, LateOk, SkipOk, EditOk, Cleared, StartedAt, InCall
    <2> QED BY <2>1, <2>2, <2>3, JustMoves DEF Labels, InCall
<1>4. ASSUME NEW l \in {"reset", "ready", "paused"}, NEW d \in SessionType, pc[t] \in InCall,
             Goto(t, l), SetSession(t, d), UNCHANGED <<call, issued>>, KeepWorld, KeepBooks,
             WorkerOk(t, l, c, d, x, overrides)
      PROVE  IInv'
    <2>1. Moves(t, l, c, d)
        BY <1>2, <1>4 DEF Moves, Goto, SetSession
    <2> QED BY <1>1, <1>4, <2>1, QuietWorker DEF Labels, InCall
<1>5. CASE GetSession(t)
    <2> DEFINE d == IF s.mapped THEN s ELSE FreshSession
    <2>1. pc[t] = "session" /\ KeepWorld /\ KeepBooks /\ UNCHANGED <<call, issued>>
          /\ Goto(t, "reset") /\ SetSession(t, d)
        BY <1>5 DEF GetSession
    <2>2. d \in SessionType
        BY <1>1 DEF FreshSession, SessionType
    <2> HIDE DEF d
    <2>3. WorkerOk(t, "reset", c, d, x, overrides)
        BY <1>1, <2>1 DEF WorkerOk, FloorOk, OffOk, LateOk, SkipOk, EditOk, Cleared, StartedAt, InCall
    <2> QED BY <1>4, <2>1, <2>2, <2>3 DEF InCall
<1>6. CASE Prepare(t)
    <2> DEFINE a == IF c.at = "before" THEN "own" ELSE s.args
               d == [s EXCEPT !.args = a, !.skip = FALSE]
    <2>1. pc[t] = "reset" /\ KeepWorld /\ KeepBooks /\ UNCHANGED <<call, issued>> /\ Goto(t, "ready")
        BY <1>6 DEF Prepare
    <2>2. a \in {"own", "edited"}
        BY <1>1 DEF SessionType
    <2>3. d \in SessionType /\ d.skip = FALSE /\ d.args = a
        BY <1>1, <2>2 DEF SessionType
    <2>4. SetSession(t, d)
        BY <1>1, <1>6 DEF Prepare, SetSession, SessionType
    <2>5. WorkerOk(t, "ready", c, d, x, overrides)
        <3> HIDE DEF d
        <3> QED BY <1>1, <2>1, <2>3
                DEF WorkerOk, FloorOk, OffOk, LateOk, SkipOk, EditOk, Cleared, StartedAt, InCall
    <2> QED BY <1>4, <2>1, <2>3, <2>4, <2>5 DEF InCall
<1>7. CASE Publish(t)
    <2> DEFINE d == [s EXCEPT !.resolved = FALSE]
    <2>1. pc[t] = "ready" /\ KeepWorld /\ KeepBooks /\ UNCHANGED <<call, issued>>
          /\ Goto(t, "paused") /\ SetSession(t, d)
        BY <1>7 DEF Publish
    <2>2. d \in SessionType /\ d.skip = s.skip /\ d.args = s.args
        BY <1>1 DEF SessionType
    <2>3. WorkerOk(t, "paused", c, d, x, overrides)
        <3> HIDE DEF d
        <3> QED BY <1>1, <2>1, <2>2
                DEF WorkerOk, FloorOk, OffOk, LateOk, SkipOk, EditOk, Cleared, StartedAt, InCall
    <2> QED BY <1>4, <2>1, <2>2, <2>3 DEF InCall
<1>8. CASE Wake(t)
    <2>1. pc[t] = "paused" /\ KeepWorld /\ UNCHANGED <<session, issued, history, stats, failedOnce>>
        BY <1>8 DEF Wake
    <2>2. \E l \in {"finish", "return", "run"}, d \in CallType :
              /\ Moves(t, l, d, s)
              /\ d.req = c.req /\ d.dup = c.dup
              /\ WorkerOk(t, l, d, s, x, overrides)
              /\ l # "return" => KeepBooks
              /\ skips' \in [Tools -> Nat]
        <3>1. CASE c.at = "after"
            <4>1. PICK ok \in BOOLEAN : Set(t, [c EXCEPT !.ok = ok])
                BY <1>8, <3>1 DEF Wake
            <4> DEFINE d == [c EXCEPT !.ok = ok]
            <4>2. d \in CallType /\ d.req = c.req /\ d.dup = c.dup /\ d.route = c.route
                  /\ d.approved = c.approved /\ d.off = c.off /\ d.late = c.late /\ d.ran = c.ran
                  /\ d.at = c.at /\ d.skipAsked = c.skipAsked /\ d.args = c.args /\ d.editAsked = c.editAsked
                BY <1>1 DEF CallType
            <4>3. Moves(t, "finish", d, s) /\ KeepBooks /\ skips' = skips
                BY <1>2, <1>8, <2>1, <3>1, <4>1 DEF Wake, Moves, Goto, Set, KeepBooks, books
            <4> HIDE DEF d
            <4>4. WorkerOk(t, "finish", d, s, x, overrides)
                BY <1>1, <2>1, <3>1, <4>2
                DEF WorkerOk, FloorOk, OffOk, LateOk, SkipOk, EditOk, Cleared, StartedAt, InCall
            <4> QED BY <4>2, <4>3, <4>4 DEF IInv, TypeOK
        <3>2. CASE c.at # "after" /\ s.skip
            <4>1. Goto(t, "return") /\ UNCHANGED call /\ skips' = [skips EXCEPT ![ToolOf(t)] = @ + 1]
                BY <1>8, <3>2 DEF Wake
            <4>2. skips' \in [Tools -> Nat]
                BY <1>1, <4>1, RequestsAssumption DEF IInv, TypeOK, CallType, ToolOf
            <4>3. Moves(t, "return", c, s)
                BY <1>2, <2>1, <4>1 DEF Moves, Goto
            <4>4. WorkerOk(t, "return", c, s, x, overrides)
                BY <1>1, <2>1 DEF WorkerOk, FloorOk, OffOk, LateOk, SkipOk, EditOk, Cleared, StartedAt, InCall
            <4> QED BY <1>1, <4>2, <4>3, <4>4
        <3>3. CASE c.at # "after" /\ ~s.skip
            <4> DEFINE d == [c EXCEPT !.args = s.args]
            <4>1. Goto(t, "run") /\ Set(t, d) /\ UNCHANGED skips
                BY <1>8, <3>3 DEF Wake
            <4>2. s.args \in {"own", "edited"}
                BY <1>1 DEF SessionType
            <4>3. d \in CallType /\ d.req = c.req /\ d.dup = c.dup /\ d.route = c.route
                  /\ d.approved = c.approved /\ d.off = c.off /\ d.late = c.late /\ d.ran = c.ran
                  /\ d.at = c.at /\ d.skipAsked = c.skipAsked /\ d.args = s.args /\ d.editAsked = c.editAsked
                BY <1>1, <4>2 DEF CallType
            <4>4. Moves(t, "run", d, s) /\ KeepBooks
                BY <1>2, <2>1, <4>1 DEF Moves, Goto, Set, KeepBooks, books
            <4> HIDE DEF d
            <4>5. c.at = "before"
                BY <1>1, <3>3 DEF CallType, Points
            <4>6. WorkerOk(t, "run", d, s, x, overrides)
                BY <1>1, <2>1, <3>3, <4>3, <4>5
                DEF WorkerOk, FloorOk, OffOk, LateOk, SkipOk, EditOk, Cleared, StartedAt, InCall
            <4> QED BY <4>1, <4>3, <4>4, <4>6 DEF IInv, TypeOK
        <3> QED BY <1>1, <3>1, <3>2, <3>3 DEF SessionType
    <2>3. PICK l \in {"finish", "return", "run"}, d \in CallType :
              /\ Moves(t, l, d, s)
              /\ d.req = c.req /\ d.dup = c.dup
              /\ WorkerOk(t, l, d, s, x, overrides)
              /\ l # "return" => KeepBooks
              /\ skips' \in [Tools -> Nat]
        BY <2>2
    <2>4. /\ pc' \in [Tasks -> Labels] /\ call' \in [Tasks -> CallType]
          /\ session' \in [Tasks -> SessionType]
          /\ \A u \in Tasks : pc'[u] = "stopped" => cancelled'[u]
          /\ WorkersOk'
        BY <1>1, <2>1, <2>3, OneWorker DEF Labels, KeepWorld, debugVars
    <2>5. TypeOK'
        BY <2>1, <2>3, <2>4 DEF IInv, TypeOK, KeepWorld, debugVars
    <2>6. \A u \in Tasks : pc'[u] \in InCall =>
              pc[u] \in InCall /\ call'[u].req = call[u].req /\ call'[u].dup = call[u].dup
        BY <2>1, <2>3 DEF Moves, InCall, IInv, TypeOK
    <2>7. BooksOk'
        BY <2>1, <2>6 DEF IInv, BooksOk, WarnedAfterFailure
    <2> QED BY <2>4, <2>5, <2>7 DEF IInv
<1>9. CASE Run(t)
    <2>1. pc[t] = "run" /\ KeepWorld /\ KeepBooks /\ UNCHANGED <<session, issued>> /\ Goto(t, "break")
        BY <1>9 DEF Run, KeepBooks
    <2>2. PICK ok \in BOOLEAN : Set(t, [c EXCEPT !.ran = TRUE, !.ok = ok, !.at = "after"])
        BY <1>9 DEF Run
    <2> DEFINE d == [c EXCEPT !.ran = TRUE, !.ok = ok, !.at = "after"]
    <2>3. d \in CallType /\ d.req = c.req /\ d.dup = c.dup /\ d.route = c.route
          /\ d.approved = c.approved /\ d.off = c.off /\ d.late = c.late
          /\ d.at = "after" /\ d.skipAsked = c.skipAsked /\ d.args = c.args /\ d.editAsked = c.editAsked
        BY <1>1 DEF CallType, Points
    <2>4. Moves(t, "break", d, s)
        BY <1>2, <2>1, <2>2 DEF Moves, Goto, Set
    <2> HIDE DEF d
    <2>5. WorkerOk(t, "break", d, s, x, overrides)
        BY <1>1, <2>1, <2>3 DEF WorkerOk, FloorOk, OffOk, LateOk, SkipOk, EditOk, Cleared, StartedAt, InCall
    <2> QED BY <1>1, <2>1, <2>3, <2>4, <2>5, QuietWorker DEF Labels, InCall
<1>10. CASE Return(t)
    <2>1. PICK l \in {"idle", "stopped"} : Ends(t, l) /\ (l = "stopped" => x)
        BY <1>10 DEF Return
    <2>2. KeepWorld /\ KeepBooks /\ UNCHANGED <<session, issued>>
        BY <1>10 DEF Return
    <2>3. Moves(t, l, NoCall, s) /\ NoCall \in CallType /\ l \in Labels /\ l \notin InCall
        BY <1>2, <2>1, <2>2, NewCallType DEF Moves, Ends, Goto, Set, Labels, InCall
    <2>4. WorkerOk(t, l, NoCall, s, x, overrides)
        BY <2>1, FreshOk
    <2> QED BY <1>1, <2>1, <2>2, <2>3, <2>4, QuietWorker
<1> QED BY <1>3, <1>5, <1>6, <1>7, <1>8, <1>9, <1>10

\* The two steps that write the books.
LEMMA Bookings ==
    ASSUME IInv, NEW t \in Tasks, Count(t) \/ Finish(t)
    PROVE  IInv'
<1> DEFINE c == call[t]
           s == session[t]
           x == cancelled[t]
           r == c.req
<1>1. /\ c \in CallType /\ s \in SessionType /\ x \in BOOLEAN /\ r \in Requests /\ r.tool \in Tools
      /\ c.ok \in BOOLEAN /\ history[r].count \in Nat /\ history[r].lastSuccess \in BOOLEAN
      /\ WorkerOk(t, pc[t], c, s, x, overrides)
    BY RequestsAssumption DEF IInv, TypeOK, CallType, WorkersOk
<1>2. /\ session' = session => session' = [session EXCEPT ![t] = s]
      /\ call' = call => call' = [call EXCEPT ![t] = c]
    BY DEF IInv, TypeOK
<1>3. CASE Count(t)
    <2> DEFINE n == history[r].count + 1
               b == n >= WarnAfter /\ ~history[r].lastSuccess
               d == [c EXCEPT !.dup = b]
    <2>1. /\ pc[t] = "count" /\ KeepWorld /\ UNCHANGED <<session, issued, stats, failedOnce, skips>>
          /\ history' = [history EXCEPT ![r] = [history[r] EXCEPT !.count = n]]
          /\ Goto(t, "break") /\ Set(t, d)
        BY <1>3 DEF Count
    <2>2. d \in CallType /\ d.req = c.req /\ d.dup = b /\ d.route = c.route
          /\ d.approved = c.approved /\ d.off = c.off /\ d.late = c.late /\ d.ran = c.ran
          /\ d.at = c.at /\ d.skipAsked = c.skipAsked /\ d.args = c.args /\ d.editAsked = c.editAsked
        BY <1>1 DEF CallType
    <2>3. Moves(t, "break", d, s)
        BY <1>2, <2>1 DEF Moves, Goto, Set
    <2> HIDE DEF d
    <2>4. WorkerOk(t, "break", d, s, x, overrides)
        BY <1>1, <2>1, <2>2 DEF WorkerOk, FloorOk, OffOk, LateOk, SkipOk, EditOk, Cleared, StartedAt, InCall
    <2>5. /\ pc' \in [Tasks -> Labels] /\ call' \in [Tasks -> CallType]
          /\ session' \in [Tasks -> SessionType]
          /\ \A u \in Tasks : pc'[u] = "stopped" => cancelled'[u]
          /\ WorkersOk'
        BY <1>1, <2>1, <2>2, <2>3, <2>4, OneWorker DEF Labels, KeepWorld, debugVars
    <2>6. \A q \in Requests : /\ history'[q].lastSuccess = history[q].lastSuccess
                              /\ history'[q].count >= history[q].count
                              /\ history'[q].count \in Nat
                              /\ q = r => history'[q].count = n
        BY <1>1, <2>1 DEF IInv, TypeOK
    <2>7. history' \in [Requests -> [count : Nat, lastSuccess : BOOLEAN]]
        BY <1>1, <2>1 DEF IInv, TypeOK
    <2>8. TypeOK'
        BY <2>1, <2>5, <2>7 DEF IInv, TypeOK, KeepWorld, debugVars
    <2>9. WarnedAfterFailure'
        <3> SUFFICES ASSUME NEW u \in Tasks, pc'[u] \in InCall, call'[u].dup
                     PROVE  call'[u].req \in failedOnce' /\ history'[call'[u].req].count >= WarnAfter
            BY DEF WarnedAfterFailure
        <3>1. CASE u = t
            <4>1. call'[u] = d
                BY <2>3, <3>1 DEF Moves, IInv, TypeOK
            <4>2. n >= WarnAfter /\ ~history[r].lastSuccess
                BY <2>2, <4>1
            <4> QED BY <1>1, <2>1, <2>2, <2>6, <4>1, <4>2 DEF IInv, BooksOk
        <3>2. CASE u # t
            <4>1. call'[u] = call[u] /\ pc'[u] = pc[u] /\ call[u].req \in Requests
                BY <2>3, <3>2 DEF Moves, IInv, TypeOK, CallType
            <4>2. call[u].req \in failedOnce /\ history[call[u].req].count >= WarnAfter
                BY <4>1 DEF IInv, BooksOk, WarnedAfterFailure
            <4>3. history[call[u].req].count \in Nat /\ WarnAfter \in Nat
                BY <4>1, MaxCallsAssumption DEF IInv, TypeOK
            <4> QED BY <2>1, <2>6, <4>1, <4>2, <4>3
        <3> QED BY <3>1, <3>2
    <2> QED BY <2>1, <2>5, <2>6, <2>8, <2>9 DEF IInv, BooksOk
<1>4. CASE Finish(t)
    <2> DEFINE ok == c.ok
               e == [calls  |-> stats[r.tool].calls + 1,
                     ok     |-> stats[r.tool].ok + IF ok THEN 1 ELSE 0,
                     failed |-> stats[r.tool].failed + IF ok THEN 0 ELSE 1]
    <2>1. /\ pc[t] = "finish" /\ KeepWorld /\ UNCHANGED <<session, issued, call, skips>>
          /\ history' = [history EXCEPT ![r] = [history[r] EXCEPT !.lastSuccess = ok]]
          /\ stats' = [stats EXCEPT ![r.tool] = e]
          /\ failedOnce' = IF ok THEN failedOnce ELSE failedOnce \cup {r}
          /\ Goto(t, "return")
        BY <1>4 DEF Finish
    <2>2. Moves(t, "return", c, s)
        BY <1>2, <2>1 DEF Moves, Goto
    <2>3. WorkerOk(t, "return", c, s, x, overrides)
        BY <1>1, <2>1 DEF WorkerOk, FloorOk, OffOk, LateOk, SkipOk, EditOk, Cleared, StartedAt, InCall
    <2>4. /\ pc' \in [Tasks -> Labels] /\ call' \in [Tasks -> CallType]
          /\ session' \in [Tasks -> SessionType]
          /\ \A u \in Tasks : pc'[u] = "stopped" => cancelled'[u]
          /\ WorkersOk'
        BY <1>1, <2>1, <2>2, <2>3, OneWorker DEF Labels, KeepWorld, debugVars
    <2>5. \A q \in Requests : /\ history'[q].lastSuccess = IF q = r THEN ok ELSE history[q].lastSuccess
                              /\ history'[q].count = history[q].count
        BY <1>1, <2>1 DEF IInv, TypeOK
    <2>6. history' \in [Requests -> [count : Nat, lastSuccess : BOOLEAN]]
        BY <1>1, <2>1 DEF IInv, TypeOK
    <2>7. stats[r.tool] \in Stats /\ stats[r.tool].calls = stats[r.tool].ok + stats[r.tool].failed
        BY <1>1 DEF IInv, TypeOK, BooksOk
    <2>8. e \in Stats /\ e.calls = e.ok + e.failed
        <3>1. CASE ok
            BY <2>7, <3>1 DEF Stats
        <3>2. CASE ~ok
            BY <2>7, <3>2 DEF Stats
        <3> QED BY <3>1, <3>2
    <2> HIDE DEF e
    <2>9. stats' \in [Tools -> Stats]
          /\ \A tool \in Tools : stats'[tool].calls = stats'[tool].ok + stats'[tool].failed
        BY <1>1, <2>1, <2>8 DEF IInv, TypeOK, BooksOk
    <2>10. failedOnce' \subseteq Requests /\ failedOnce \subseteq failedOnce' /\ (~ok => r \in failedOnce')
        BY <1>1, <2>1 DEF IInv, TypeOK
    <2>11. TypeOK'
        BY <2>1, <2>4, <2>6, <2>9, <2>10 DEF IInv, TypeOK, KeepWorld, debugVars
    <2>12. WarnedAfterFailure'
        <3>1. \A u \in Tasks : pc'[u] \in InCall => pc[u] \in InCall
            BY <2>2 DEF Moves, InCall, IInv, TypeOK
        <3>2. \A u \in Tasks : call'[u] = call[u] /\ call[u].req \in Requests
            BY <2>1 DEF IInv, TypeOK, CallType
        <3> QED BY <2>5, <2>10, <3>1, <3>2 DEF IInv, BooksOk, WarnedAfterFailure
    <2>13. \A q \in Requests : ~history'[q].lastSuccess => q \in failedOnce'
        BY <2>5, <2>10 DEF IInv, BooksOk
    <2> QED BY <2>4, <2>9, <2>11, <2>12, <2>13 DEF IInv, BooksOk
<1> QED BY <1>3, <1>4
----------------------------------------------------------------------------
(* The HTTP threads.                                                        *)

\* A request that moves no worker and books nothing.
LEMMA RequestKeeps ==
    ASSUME IInv, UNCHANGED <<pc, issued, books>>, overrides' \in [Tools -> Override],
           armed' \in BOOLEAN, disarming' \in BOOLEAN, session' \in [Tasks -> SessionType],
           call' \in [Tasks -> CallType], cancelled' \in [Tasks -> BOOLEAN],
           \A t \in Tasks :
               /\ cancelled[t] => cancelled'[t]
               /\ call'[t].req = call[t].req /\ call'[t].dup = call[t].dup
               /\ WorkerOk(t, pc[t], call'[t], session'[t], cancelled'[t], overrides')
    PROVE  IInv'
<1>1. TypeOK'
    BY DEF IInv, TypeOK, books
<1> QED BY <1>1, Unbooked DEF WorkersOk, books

LEMMA HttpKeeps ==
    ASSUME IInv, Reload \/ Arm \/ Disarm \/ ClearSessions
                 \/ \E t \in Tasks : Cancel(t) \/ DebugRequest(t)
    PROVE  IInv'
<1>1. \A t \in Tasks : /\ call[t] \in CallType /\ session[t] \in SessionType /\ cancelled[t] \in BOOLEAN
                       /\ call[t].req \in Requests /\ call[t].req.tool \in Tools
                       /\ WorkerOk(t, pc[t], call[t], session[t], cancelled[t], overrides)
    BY RequestsAssumption DEF IInv, TypeOK, CallType, WorkersOk
<1>2. /\ overrides \in [Tools -> Override] /\ armed \in BOOLEAN /\ disarming \in BOOLEAN
      /\ session \in [Tasks -> SessionType] /\ call \in [Tasks -> CallType]
      /\ cancelled \in [Tasks -> BOOLEAN]
    BY DEF IInv, TypeOK
<1>3. CASE Reload
    <2>1. UNCHANGED <<pc, cancelled, issued, books, debugVars, session>> /\ overrides' \in [Tools -> Override]
        BY <1>3, ConfigsAssumption DEF Reload, KeepWorkers
    <2>2. ASSUME NEW t \in Tasks
          PROVE  /\ call'[t] \in CallType
                 /\ call'[t].req = call[t].req /\ call'[t].dup = call[t].dup
                 /\ WorkerOk(t, pc[t], call'[t], session[t], cancelled[t], overrides')
        <3> DEFINE c == call[t]
                   b == c.off /\ ~overrides'[c.req.tool].enabled
                   d == [c EXCEPT !.off = b]
        <3>1. call'[t] = d
            BY <1>3 DEF Reload, ToolOf
        <3>2. d \in CallType /\ d.req = c.req /\ d.dup = c.dup /\ d.route = c.route
              /\ d.approved = c.approved /\ d.off = b /\ d.late = c.late /\ d.ran = c.ran
              /\ d.at = c.at /\ d.skipAsked = c.skipAsked /\ d.args = c.args /\ d.editAsked = c.editAsked
            BY <1>1 DEF CallType
        <3> HIDE DEF d
        <3>3. WorkerOk(t, pc[t], d, session[t], cancelled[t], overrides')
            BY <1>1, <3>2 DEF WorkerOk, FloorOk, OffOk, LateOk, SkipOk, EditOk
        <3> QED BY <3>1, <3>2, <3>3
    <2>3. call' \in [Tasks -> CallType]
        BY <1>3, <2>2 DEF Reload
    <2> QED BY <1>2, <2>1, <2>2, <2>3, RequestKeeps DEF debugVars, books
<1>4. CASE Arm \/ Disarm
    <2>1. UNCHANGED <<pc, cancelled, issued, books, session, call, overrides>>
          /\ armed' \in BOOLEAN /\ disarming' \in BOOLEAN
        BY <1>2, <1>4 DEF Arm, Disarm, KeepWorkers
    <2> QED BY <1>1, <1>2, <2>1, RequestKeeps DEF books
<1>5. CASE ClearSessions
    <2>1. UNCHANGED <<pc, cancelled, issued, books, call, overrides, armed>> /\ disarming' \in BOOLEAN
        BY <1>5 DEF ClearSessions, KeepWorkers
    <2>2. ASSUME NEW t \in Tasks
          PROVE  /\ session'[t] \in SessionType
                 /\ WorkerOk(t, pc[t], call[t], session'[t], cancelled[t], overrides)
        <3>1. session'[t] \in SessionType /\ session'[t].skip = session[t].skip /\ session'[t].args = session[t].args
            BY <1>1, <1>5 DEF ClearSessions, SessionType
        <3> QED BY <1>1, <3>1 DEF WorkerOk, FloorOk, OffOk, LateOk, SkipOk, EditOk
    <2>3. session' \in [Tasks -> SessionType]
        BY <1>5, <2>2 DEF ClearSessions
    <2> QED BY <1>1, <1>2, <2>1, <2>2, <2>3, RequestKeeps DEF books
<1>6. ASSUME NEW t \in Tasks, NEW d \in CallType, NEW s \in SessionType, NEW x \in BOOLEAN,
             call' = [call EXCEPT ![t] = d], session' = [session EXCEPT ![t] = s],
             cancelled' = [cancelled EXCEPT ![t] = x], cancelled[t] => x,
             UNCHANGED <<pc, issued, books, overrides, debugVars>>,
             d.req = call[t].req, d.dup = call[t].dup,
             WorkerOk(t, pc[t], d, s, x, overrides)
      PROVE  IInv'
    <2>1. call' \in [Tasks -> CallType] /\ session' \in [Tasks -> SessionType]
          /\ cancelled' \in [Tasks -> BOOLEAN]
        BY <1>2, <1>6
    <2>2. \A u \in Tasks : /\ call'[u] = IF u = t THEN d ELSE call[u]
                           /\ session'[u] = IF u = t THEN s ELSE session[u]
                           /\ cancelled'[u] = IF u = t THEN x ELSE cancelled[u]
        BY <1>2, <1>6
    <2>3. ASSUME NEW u \in Tasks
          PROVE  /\ cancelled[u] => cancelled'[u]
                 /\ call'[u].req = call[u].req /\ call'[u].dup = call[u].dup
                 /\ WorkerOk(u, pc[u], call'[u], session'[u], cancelled'[u], overrides)
        BY <1>1, <1>6, <2>2
    <2> QED BY <1>2, <1>6, <2>1, <2>3, RequestKeeps DEF debugVars, books
<1>7. ASSUME NEW t \in Tasks, Cancel(t) PROVE IInv'
    <2> DEFINE c == call[t]
               l == c.late \/ pc[t] \in {"policy", "check", "wait", "poll"}
               d == [c EXCEPT !.late = l]
    <2>1. d \in CallType /\ d.req = c.req /\ d.dup = c.dup /\ d.route = c.route
          /\ d.approved = c.approved /\ d.off = c.off /\ d.late = l /\ d.ran = c.ran
          /\ d.at = c.at /\ d.skipAsked = c.skipAsked /\ d.args = c.args /\ d.editAsked = c.editAsked
        BY <1>1 DEF CallType
    <2>2. call' = [call EXCEPT ![t] = d]
        <3>1. CASE pc[t] \in {"policy", "check", "wait", "poll"}
            <4>1. l = TRUE /\ call' = [call EXCEPT ![t] = [c EXCEPT !.late = TRUE]]
                BY <1>7, <3>1 DEF Cancel, Set
            <4> HIDE DEF l
            <4> QED BY <4>1
        <3>2. CASE pc[t] \notin {"policy", "check", "wait", "poll"}
            <4>1. call' = call /\ d = c
                BY <1>1, <1>7, <3>2 DEF Cancel, CallType
            <4> HIDE DEF d
            <4> QED BY <1>2, <4>1
        <3> QED BY <3>1, <3>2
    <2>3. cancelled' = [cancelled EXCEPT ![t] = TRUE] /\ session' = [session EXCEPT ![t] = session[t]]
          /\ UNCHANGED <<pc, issued, books, overrides, debugVars>>
        BY <1>2, <1>7 DEF Cancel
    <2> HIDE DEF d
    <2>4. WorkerOk(t, pc[t], d, session[t], TRUE, overrides)
        BY <1>1, <2>1 DEF WorkerOk, FloorOk, OffOk, LateOk, SkipOk, EditOk, StartedAt, InCall
    <2> QED BY <1>1, <1>6, <2>1, <2>2, <2>3, <2>4
<1>8. ASSUME NEW t \in Tasks, DebugRequest(t) PROVE IInv'
    <2> DEFINE c == call[t]
               s == session[t]
    <2>1. /\ cancelled' = [cancelled EXCEPT ![t] = cancelled[t]]
          /\ UNCHANGED <<pc, issued, books, overrides, debugVars>>
          /\ call' = call => call' = [call EXCEPT ![t] = c]
        BY <1>2, <1>8 DEF DebugRequest, Continue, Skip, ModifyArguments, KeepWorkers
    <2>2. CASE Continue(t)
        <3> DEFINE e == [s EXCEPT !.resolved = TRUE]
        <3>1. e \in SessionType /\ e.skip = s.skip /\ e.args = s.args
            BY <1>1 DEF SessionType
        <3>2. session' = [session EXCEPT ![t] = e] /\ call' = call
            BY <2>2 DEF Continue, SetSession
        <3>3. WorkerOk(t, pc[t], c, e, cancelled[t], overrides)
            <4> HIDE DEF e
            <4> QED BY <1>1, <3>1 DEF WorkerOk, FloorOk, OffOk, LateOk, SkipOk, EditOk
        <3> QED BY <1>1, <1>6, <2>1, <3>1, <3>2, <3>3
    <2>3. CASE Skip(t)
        <3> DEFINE e == [s EXCEPT !.resolved = TRUE, !.skip = TRUE]
                   a == IF Pausing(t) /\ c.at = "before"
                        THEN IF pc[t] = "paused" THEN "heard" ELSE "early" ELSE c.skipAsked
                   d == [c EXCEPT !.skipAsked = a]
        <3>1. e \in SessionType /\ e.skip = TRUE /\ e.args = s.args
            BY <1>1 DEF SessionType
        <3>2. a \in {"no", "early", "heard"}
            BY <1>1 DEF CallType
        <3>3. d \in CallType /\ d.req = c.req /\ d.dup = c.dup /\ d.route = c.route
              /\ d.approved = c.approved /\ d.off = c.off /\ d.late = c.late /\ d.ran = c.ran
              /\ d.at = c.at /\ d.skipAsked = a /\ d.args = c.args /\ d.editAsked = c.editAsked
            <4> HIDE DEF a
            <4> QED BY <1>1, <3>2 DEF CallType
        <3>4. session' = [session EXCEPT ![t] = e] /\ call' = [call EXCEPT ![t] = d]
            <4>1. session' = [session EXCEPT ![t] = e]
                BY <2>3 DEF Skip, SetSession
            <4>2. CASE Pausing(t) /\ c.at = "before"
                BY <2>3, <4>1, <4>2 DEF Skip, Set
            <4>3. CASE ~(Pausing(t) /\ c.at = "before")
                <5>1. call' = call /\ d = c
                    BY <1>1, <2>3, <4>3 DEF Skip, CallType
                <5> HIDE DEF d
                <5> QED BY <2>1, <4>1, <5>1
            <4> QED BY <4>2, <4>3
        <3> HIDE DEF d, e
        <3>5. WorkerOk(t, pc[t], d, e, cancelled[t], overrides)
            BY <1>1, <3>1, <3>3 DEF WorkerOk, FloorOk, OffOk, LateOk, SkipOk, EditOk, Pausing, CallType, Points
        <3> QED BY <1>1, <1>6, <2>1, <3>1, <3>3, <3>4, <3>5
    <2>4. CASE ModifyArguments(t)
        <3> DEFINE e == [s EXCEPT !.args = "edited"]
                   b == c.editAsked \/ Pausing(t)
                   d == [c EXCEPT !.editAsked = b]
        <3>1. e \in SessionType /\ e.skip = s.skip /\ e.args = "edited"
            BY <1>1 DEF SessionType
        <3>2. d \in CallType /\ d.req = c.req /\ d.dup = c.dup /\ d.route = c.route
              /\ d.approved = c.approved /\ d.off = c.off /\ d.late = c.late /\ d.ran = c.ran
              /\ d.at = c.at /\ d.skipAsked = c.skipAsked /\ d.args = c.args /\ d.editAsked = b
            BY <1>1 DEF CallType, Pausing
        <3>3. session' = [session EXCEPT ![t] = e] /\ call' = [call EXCEPT ![t] = d]
            <4>1. session' = [session EXCEPT ![t] = e]
                BY <2>4 DEF ModifyArguments, SetSession
            <4>2. CASE Pausing(t)
                BY <1>1, <2>4, <4>1, <4>2 DEF ModifyArguments, Set
            <4>3. CASE ~Pausing(t)
                <5>1. call' = call /\ d = c
                    BY <1>1, <2>4, <4>3 DEF ModifyArguments, CallType
                <5> HIDE DEF d
                <5> QED BY <2>1, <4>1, <5>1
            <4> QED BY <4>2, <4>3
        <3> HIDE DEF d, e
        <3>4. WorkerOk(t, pc[t], d, e, cancelled[t], overrides)
            BY <1>1, <3>1, <3>2 DEF WorkerOk, FloorOk, OffOk, LateOk, SkipOk, EditOk, Pausing
        <3> QED BY <1>1, <1>6, <2>1, <3>1, <3>2, <3>3, <3>4
    <2> QED BY <1>8, <2>2, <2>3, <2>4 DEF DebugRequest
<1> QED BY <1>3, <1>4, <1>5, <1>7, <1>8

----------------------------------------------------------------------------
(* The invariant, and what follows from it.                                 *)

LEMMA InitOk == Init => IInv
<1> SUFFICES ASSUME Init PROVE IInv
    OBVIOUS
<1>1. TypeOK
    <2>1. session \in [Tasks -> SessionType] /\ call \in [Tasks -> CallType]
        BY NewCallType DEF Init, FreshSession, SessionType
    <2>2. overrides \in [Tools -> Override] /\ issued \in [Tasks -> 0 .. MaxCalls]
        BY ConfigsAssumption, MaxCallsAssumption DEF Init
    <2>3. history \in [Requests -> [count : Nat, lastSuccess : BOOLEAN]] /\ stats \in [Tools -> Stats]
        BY DEF Init, Stats
    <2> QED BY <2>1, <2>2, <2>3 DEF Init, TypeOK, Labels
<1>2. WorkersOk
    BY FreshOk DEF Init, WorkersOk
<1>3. BooksOk
    BY DEF Init, BooksOk, WarnedAfterFailure, InCall
<1> QED BY <1>1, <1>2, <1>3 DEF IInv

LEMMA StepOk ==
    ASSUME IInv, [Next]_vars
    PROVE  IInv'
<1>1. CASE UNCHANGED vars
    <2>1. TypeOK' /\ WorkersOk' /\ UNCHANGED books
        BY <1>1 DEF vars, IInv, TypeOK, WorkersOk, books
    <2> QED BY <1>1, <2>1, Unbooked DEF vars
<1>2. ASSUME NEW t \in Tasks, Worker(t) PROVE IInv'
    BY <1>2, BeforeTheTool, AroundTheTool, Bookings DEF Worker
<1> QED BY <1>1, <1>2, HttpKeeps DEF Next

LEMMA InvariantHolds == Spec => []IInv
<1> QED BY InitOk, StepOk, PTL DEF Spec

\* A pause ends in the return only for a skip that was sent during it.
LEMMA SkipStep ==
    ASSUME IInv, [Next]_vars, NEW t \in Tasks, pc[t] = "paused", pc'[t] = "return"
    PROVE  call[t].skipAsked # "no"
<1>1. CASE UNCHANGED vars
    BY <1>1 DEF vars
<1>2. CASE Reload \/ Arm \/ Disarm \/ ClearSessions \/ \E u \in Tasks : Cancel(u) \/ DebugRequest(u)
    <2>1. pc' = pc
        BY <1>2 DEF Reload, Arm, Disarm, ClearSessions, Cancel, DebugRequest, Continue, Skip,
            ModifyArguments, KeepWorkers
    <2> QED BY <2>1
<1>3. ASSUME NEW u \in Tasks, Worker(u) PROVE call[t].skipAsked # "no"
    <2>1. PICK l : Goto(u, l)
        <3>1. CASE ReadPolicy(u)
            <4>1. pc[u] # "paused" /\ ToolOf(u) \in Tools
                BY <3>1, RequestsAssumption DEF ReadPolicy, ToolOf, IInv, TypeOK, CallType
            <4>2. \A policy \in Policies : policy[ToolOf(u)] \in {"ask", "auto", "deny"}
                BY <4>1, PoliciesAssumption
            <4> QED BY <3>1, <4>2 DEF ReadPolicy
        <3>2. CASE Command(u)
            BY <3>2 DEF Command
        <3>3. CASE CheckEnabled(u)
            BY <3>3 DEF CheckEnabled, Ends
        <3>4. CASE Assess(u)
            BY <3>4 DEF Assess
        <3>5. CASE Answered(u)
            BY <3>5 DEF Answered, Ends
        <3>6. CASE Poll(u)
            BY <3>6 DEF Poll, Ends
        <3>7. CASE Begin(u)
            BY <3>7 DEF Begin
        <3>8. CASE Count(u)
            BY <3>8 DEF Count
        <3>9. CASE Break(u)
            BY <3>9 DEF Break
        <3>10. CASE GetSession(u)
            BY <3>10 DEF GetSession
        <3>11. CASE Prepare(u)
            BY <3>11 DEF Prepare
        <3>12. CASE Publish(u)
            BY <3>12 DEF Publish
        <3>13. CASE Wake(u)
            BY <3>13 DEF Wake
        <3>14. CASE Run(u)
            BY <3>14 DEF Run
        <3>15. CASE Finish(u)
            BY <3>15 DEF Finish
        <3>16. CASE Return(u)
            BY <3>16 DEF Return, Ends
        <3> QED BY <1>3, <3>1, <3>2, <3>3, <3>4, <3>5, <3>6, <3>7, <3>8, <3>9, <3>10, <3>11, <3>12, <3>13, <3>14, <3>15, <3>16 DEF Worker
    <2>2. u = t
        BY <2>1 DEF Goto, IInv, TypeOK
    <2>3. Wake(t)
        BY <1>3, <2>2 DEF Worker, Command, ReadPolicy, CheckEnabled, Assess, Answered, Poll, Begin, Count, Break,
            GetSession, Prepare, Publish, Run, Finish, Return
    <2>4. call[t].at = "before" /\ session[t].skip
        BY <2>3 DEF Wake, Goto, IInv, TypeOK, CallType, Points
    <2> QED BY <2>4 DEF IInv, WorkersOk, WorkerOk, SkipOk
<1> QED BY <1>1, <1>2, <1>3 DEF Next

\* callToolWithPermission's floor: where the policy asks, no dangerous shell command and
\* no write that wants to be asked about starts without the user's yes, and no blocked
\* command starts, whatever configuration is loaded at any moment.
THEOREM Floor == Spec => []FloorHolds
<1>1. IInv => FloorHolds
    BY DEF IInv, WorkersOk, WorkerOk, FloorOk, FloorHolds, Started, StartedAt, Cleared
<1> QED BY <1>1, InvariantHolds, PTL

\* Disable, cancel, skip and edit reach the call they are meant for and only that,
\* between whichever of its steps the HTTP threads send them.
THEOREM Obedience == Spec => OrdersAreObeyed
<1>1. IInv => DisabledStaysOut /\ CancelHonoured
    BY DEF IInv, WorkersOk, WorkerOk, OffOk, LateOk, DisabledStaysOut, CancelHonoured, Started, StartedAt
<1>2. IInv => SkipIsFinal /\ EditWasAsked
    BY DEF IInv, WorkersOk, WorkerOk, SkipOk, EditOk, SkipIsFinal, EditWasAsked
<1>3. IInv /\ [Next]_vars =>
          [\A t \in Tasks :
             pc[t] = "paused" /\ pc'[t] = "return" => call[t].skipAsked # "no"]_vars
    BY SkipStep
<1> QED BY <1>1, <1>2, <1>3, InvariantHolds, PTL DEF Spec, OrdersAreObeyed, SkipWasAsked

----------------------------------------------------------------------------
(* The sum in the books.  A step that books nothing keeps both sides of it,  *)
(* a call that is counted enters the calls under way, and one that ends      *)
(* leaves them for the statistics or for the skips.                          *)

SumsUp ==
    \A tool \in Tools :
        Counted(history, OfTool(tool))
            = stats[tool].calls + skips[tool] + Cardinality(Underway(tool))

\* Both sides of the balance are numbers.
LEMMA BalanceTypes ==
    ASSUME TypeOK, NEW tool \in Tools
    PROVE  /\ IsFiniteSet(OfTool(tool)) /\ OfTool(tool) \subseteq Requests
           /\ IsFiniteSet(Underway(tool)) /\ Cardinality(Underway(tool)) \in Nat
           /\ stats[tool].calls \in Nat /\ skips[tool] \in Nat
<1>1. OfTool(tool) \in SUBSET Requests /\ Underway(tool) \in SUBSET Tasks
    BY DEF OfTool, Underway
<1>2. IsFiniteSet(OfTool(tool)) /\ IsFiniteSet(Underway(tool))
    BY <1>1, FiniteAssumption, FS_Subset
<1>3. Cardinality(Underway(tool)) \in Nat
    BY <1>2, FS_CardinalityType
<1> QED BY <1>1, <1>2, <1>3 DEF TypeOK, Stats

\* A history that has counted one call of r more, or none.
LEMMA HistoryGrows ==
    ASSUME TypeOK, NEW tool \in Tools, NEW r \in Requests, NEW d \in Nat,
           \A q \in Requests : history'[q].count = history[q].count + IF q = r THEN d ELSE 0
    PROVE  /\ Counted(history, OfTool(tool)) \in Nat
           /\ Counted(history', OfTool(tool))
                 = Counted(history, OfTool(tool)) + IF r.tool = tool THEN d ELSE 0
<1> DEFINE S == OfTool(tool)
<1>1. IsFiniteSet(S) /\ S \subseteq Requests
    BY BalanceTypes
<1>2. r \in S <=> r.tool = tool
    BY DEF OfTool
<1> HIDE DEF S
<1>3. Raised(history, history', S, r, d)
    BY <1>1 DEF TypeOK, Raised
<1>4. Counted(history, S) \in Nat
      /\ Counted(history', S) = Counted(history, S) + IF r \in S THEN d ELSE 0
    BY <1>1, <1>3, CountedGrows
<1> QED BY <1>2, <1>4 DEF S

\* Nobody enters or leaves the calls under way.
SameCalls ==
    \A t \in Tasks : /\ pc'[t] \in InCall <=> pc[t] \in InCall
                     /\ pc'[t] \in InCall => call'[t].req = call[t].req

\* A step that books nothing and moves no call in or out.
LEMMA SameBalance ==
    ASSUME TypeOK, SumsUp, UNCHANGED <<stats, skips, history>>, SameCalls
    PROVE  SumsUp'
<1>1. \A tool \in Tools : Underway(tool)' = Underway(tool)
    BY DEF Underway, ToolOf, SameCalls
<1> QED BY <1>1 DEF SumsUp

\* The HTTP threads are such steps.
LEMMA RequestsBalance ==
    ASSUME TypeOK, Reload \/ Arm \/ Disarm \/ ClearSessions
                   \/ \E t \in Tasks : Cancel(t) \/ DebugRequest(t)
    PROVE  SameCalls /\ UNCHANGED <<stats, skips, history>>
<1>1. \A t \in Tasks : call[t] \in CallType
    BY DEF TypeOK
<1>2. pc' = pc /\ UNCHANGED books
    BY DEF Reload, Arm, Disarm, ClearSessions, Cancel, DebugRequest, Continue, Skip,
        ModifyArguments, KeepWorkers
<1>3. CASE Reload
    <2>1. \A t \in Tasks : call'[t].req = call[t].req
        BY <1>1, <1>3 DEF Reload, CallType
    <2> QED BY <1>2, <2>1 DEF SameCalls, books
<1>4. CASE Arm \/ Disarm \/ ClearSessions
    <2>1. call' = call
        BY <1>4 DEF Arm, Disarm, ClearSessions
    <2> QED BY <1>2, <2>1 DEF SameCalls, books
<1>5. ASSUME NEW t \in Tasks, Cancel(t) \/ DebugRequest(t) PROVE \A u \in Tasks : call'[u].req = call[u].req
    <2>1. PICK d : d.req = call[t].req /\ (call' = call \/ call' = [call EXCEPT ![t] = d])
        <3>1. CASE Continue(t)
            BY <3>1 DEF Continue
        <3>2. CASE Cancel(t)
            <4>1. [call[t] EXCEPT !.late = TRUE].req = call[t].req
                BY <1>1 DEF CallType
            <4> QED BY <3>2, <4>1 DEF Cancel, Set
        <3>3. CASE Skip(t)
            <4> DEFINE d(a) == [call[t] EXCEPT !.skipAsked = a]
            <4>1. \A a : d(a).req = call[t].req
                BY <1>1 DEF CallType
            <4>2. call' = call \/ \E a : call' = [call EXCEPT ![t] = d(a)]
                BY <3>3 DEF Skip, Set
            <4> HIDE DEF d
            <4> QED BY <4>1, <4>2
        <3>4. CASE ModifyArguments(t)
            <4>1. [call[t] EXCEPT !.editAsked = TRUE].req = call[t].req
                BY <1>1 DEF CallType
            <4> QED BY <3>4, <4>1 DEF ModifyArguments, Set
        <3> QED BY <1>5, <3>1, <3>2, <3>3, <3>4 DEF DebugRequest
    <2> QED BY <2>1 DEF TypeOK
<1>6. CASE \E t \in Tasks : Cancel(t) \/ DebugRequest(t)
    BY <1>2, <1>5, <1>6 DEF SameCalls, books
<1> QED BY <1>3, <1>4, <1>6

\* The steps of a worker, seen from the calls under way.
StaysOut(t, p) == pc' = [pc EXCEPT ![t] = p] /\ pc[t] \notin InCall /\ p \notin InCall
StaysIn(t, p) == pc' = [pc EXCEPT ![t] = p] /\ pc[t] \in InCall /\ p \in InCall

\* A step from outside a call to outside one, and one inside a call.
LEMMA OutBalance ==
    ASSUME TypeOK, NEW t \in Tasks, NEW p, StaysOut(t, p),
           call' = call \/ \E c : call' = [call EXCEPT ![t] = c]
    PROVE  SameCalls
<1>1. \A u \in Tasks : pc'[u] = IF u = t THEN p ELSE pc[u]
    BY DEF TypeOK, StaysOut
<1>2. \A u \in Tasks : u # t => call'[u] = call[u]
    BY DEF TypeOK
<1> QED BY <1>1, <1>2 DEF SameCalls, StaysOut

LEMMA InBalance ==
    ASSUME TypeOK, NEW t \in Tasks, NEW p, StaysIn(t, p), NEW c, c.req = call[t].req,
           call' = call \/ call' = [call EXCEPT ![t] = c]
    PROVE  SameCalls
<1>1. \A u \in Tasks : pc'[u] = IF u = t THEN p ELSE pc[u]
    BY DEF TypeOK, StaysIn
<1>2. \A u \in Tasks : call'[u].req = call[u].req
    BY DEF TypeOK
<1> QED BY <1>1, <1>2 DEF SameCalls, StaysIn

\* The steps before the history entry and after the statistics.
LEMMA OutOfTheCall ==
    ASSUME TypeOK, NEW t \in Tasks,
           \/ Command(t) \/ ReadPolicy(t) \/ CheckEnabled(t) \/ Assess(t)
           \/ Answered(t) \/ Poll(t) \/ Begin(t) \/ Return(t)
    PROVE  SameCalls /\ UNCHANGED <<stats, skips, history>>
<1>1. UNCHANGED books
    BY DEF Command, ReadPolicy, CheckEnabled, Assess, Answered, Poll, Begin, Return, KeepBooks
<1>2. call' = call \/ \E c : call' = [call EXCEPT ![t] = c]
    <2>1. CASE Command(t)
        <3>1. call' = call \/ \E r \in Requests : Set(t, NewCall(r))
            BY <2>1 DEF Command
        <3> QED BY <3>1 DEF Set
    <2>2. CASE ReadPolicy(t)
        <3>1. call' = call \/ Set(t, [call[t] EXCEPT !.route = "auto"])
            <4>1. ToolOf(t) \in Tools
                BY RequestsAssumption DEF ToolOf, TypeOK, CallType
            <4>2. \A policy \in Policies : policy[ToolOf(t)] \in {"ask", "auto", "deny"}
                BY <4>1, PoliciesAssumption
            <4> QED BY <2>2, <4>2 DEF ReadPolicy
        <3> QED BY <3>1 DEF Set
    <2>3. CASE CheckEnabled(t) \/ Poll(t) \/ Return(t)
        <3>1. call' = call \/ Set(t, NoCall)
            BY <2>3 DEF CheckEnabled, Poll, Return, Ends
        <3> QED BY <3>1 DEF Set
    <2>4. CASE Answered(t)
        <3>1. call' = call \/ Set(t, NoCall)
              \/ Set(t, [call[t] EXCEPT !.approved = TRUE, !.off = ~Enabled(ToolOf(t))])
            BY <2>4 DEF Answered, Ends
        <3> QED BY <3>1 DEF Set
    <2>5. CASE Assess(t) \/ Begin(t)
        BY <2>5 DEF Assess, Begin
    <2> QED BY <2>1, <2>2, <2>3, <2>4, <2>5
<1>3. \E p : StaysOut(t, p)
    <2>1. CASE ReadPolicy(t)
        <3>1. ToolOf(t) \in Tools /\ pc[t] = "policy"
            BY <2>1, RequestsAssumption DEF ReadPolicy, ToolOf, TypeOK, CallType
        <3>2. \A policy \in Policies : policy[ToolOf(t)] \in {"ask", "auto", "deny"}
            BY <3>1, PoliciesAssumption
        <3>3. \E p \in {"denied", "poll", "check"} : Goto(t, p)
            BY <2>1, <3>2 DEF ReadPolicy
        <3> QED BY <3>1, <3>3 DEF StaysOut, Goto, InCall
    <2>2. CASE Command(t)
        BY <2>2 DEF Command, StaysOut, Goto, InCall
    <2>3. CASE CheckEnabled(t)
        BY <2>3 DEF CheckEnabled, Ends, StaysOut, Goto, InCall
    <2>4. CASE Assess(t)
        <3>1. PICK p \in {"return", "wait", "begin"} : Goto(t, p)
            BY <2>4 DEF Assess
        <3> QED BY <2>4, <3>1 DEF Assess, StaysOut, Goto, InCall
    <2>5. CASE Answered(t)
        BY <2>5 DEF Answered, Ends, StaysOut, Goto, InCall
    <2>6. CASE Poll(t)
        BY <2>6 DEF Poll, Ends, StaysOut, Goto, InCall
    <2>7. CASE Begin(t)
        <3>1. PICK p \in {"return", "count"} : Goto(t, p)
            BY <2>7 DEF Begin
        <3> QED BY <2>7, <3>1 DEF Begin, StaysOut, Goto, InCall
    <2>8. CASE Return(t)
        <3>1. PICK p \in {"stopped", "idle"} : Goto(t, p)
            BY <2>8 DEF Return, Ends
        <3> QED BY <2>8, <3>1 DEF Return, StaysOut, Goto, InCall
    <2> QED BY <2>1, <2>2, <2>3, <2>4, <2>5, <2>6, <2>7, <2>8
<1> QED BY <1>1, <1>2, <1>3, OutBalance DEF books

\* A wake that is no skip, and the other steps inside a call.
LEMMA InsideTheCall ==
    ASSUME TypeOK, NEW t \in Tasks,
           \/ Break(t) \/ GetSession(t) \/ Prepare(t) \/ Publish(t) \/ Run(t)
           \/ Wake(t) /\ pc'[t] # "return"
    PROVE  SameCalls /\ UNCHANGED <<stats, skips, history>>
<1>1. call[t] \in CallType
    BY DEF TypeOK
<1>2. CASE Break(t) \/ GetSession(t) \/ Prepare(t) \/ Publish(t)
    <2>1. UNCHANGED books /\ call' = call
        BY <1>2 DEF Break, GetSession, Prepare, Publish, KeepBooks
    <2>2. \E p : StaysIn(t, p)
        BY <1>2 DEF Break, GetSession, Prepare, Publish, StaysIn, Goto, InCall
    <2> QED BY <2>1, <2>2, InBalance DEF books
<1>3. CASE Run(t)
    <2>1. UNCHANGED books /\ StaysIn(t, "break")
        BY <1>3 DEF Run, StaysIn, Goto, InCall
    <2>2. PICK ok \in BOOLEAN :
              call' = [call EXCEPT ![t] = [call[t] EXCEPT !.ran = TRUE, !.ok = ok, !.at = "after"]]
        BY <1>3 DEF Run, Set
    <2> DEFINE d == [call[t] EXCEPT !.ran = TRUE, !.ok = ok, !.at = "after"]
    <2>3. d.req = call[t].req
        BY <1>1 DEF CallType
    <2> QED BY <2>1, <2>2, <2>3, InBalance DEF books
<1>4. CASE Wake(t) /\ pc'[t] # "return"
    <2>1. pc[t] = "paused" /\ pc \in [Tasks -> Labels] /\ UNCHANGED <<history, stats>>
        BY <1>4 DEF Wake, TypeOK
    <2>2. ~(Goto(t, "return"))
        BY <1>4, <2>1 DEF Goto
    <2>3. CASE call[t].at = "after"
        <3>1. StaysIn(t, "finish") /\ UNCHANGED skips
            BY <1>4, <2>1, <2>3 DEF Wake, StaysIn, Goto, InCall
        <3>2. PICK ok \in BOOLEAN : call' = [call EXCEPT ![t] = [call[t] EXCEPT !.ok = ok]]
            BY <1>4, <2>3 DEF Wake, Set
        <3> DEFINE d == [call[t] EXCEPT !.ok = ok]
        <3>3. d.req = call[t].req
            BY <1>1 DEF CallType
        <3> QED BY <2>1, <3>1, <3>2, <3>3, InBalance
    <2>4. CASE call[t].at # "after"
        <3> DEFINE d == [call[t] EXCEPT !.args = session[t].args]
        <3>1. ~session[t].skip
            BY <1>4, <2>2, <2>4 DEF Wake
        <3>2. StaysIn(t, "run") /\ UNCHANGED skips /\ call' = [call EXCEPT ![t] = d]
            BY <1>4, <2>1, <2>4, <3>1 DEF Wake, StaysIn, Goto, Set, InCall
        <3>3. d.req = call[t].req
            BY <1>1 DEF CallType
        <3> QED BY <2>1, <3>2, <3>3, InBalance
    <2> QED BY <2>3, <2>4
<1> QED BY <1>2, <1>3, <1>4

\* The calls under way when one begins, and when one ends.
LEMMA OneEnters ==
    ASSUME TypeOK, NEW t \in Tasks, NEW p \in InCall, pc[t] \notin InCall,
           pc' = [pc EXCEPT ![t] = p], NEW c, c.req = call[t].req,
           call' = [call EXCEPT ![t] = c], NEW tool \in Tools
    PROVE  Cardinality(Underway(tool)')
               = Cardinality(Underway(tool)) + IF call[t].req.tool = tool THEN 1 ELSE 0
<1>1. \A u \in Tasks : /\ pc'[u] = IF u = t THEN p ELSE pc[u]
                       /\ call'[u].req = call[u].req
    BY DEF TypeOK
<1>2. IsFiniteSet(Underway(tool)) /\ t \notin Underway(tool)
    BY BalanceTypes DEF Underway
<1>3. CASE call[t].req.tool = tool
    <2>1. Underway(tool)' = Underway(tool) \cup {t}
        BY <1>1, <1>3 DEF Underway, ToolOf
    <2> QED BY <1>2, <1>3, <2>1, FS_AddElement
<1>4. CASE call[t].req.tool # tool
    <2>1. Underway(tool)' = Underway(tool)
        BY <1>1, <1>4 DEF Underway, ToolOf
    <2>2. Cardinality(Underway(tool)) \in Nat
        BY BalanceTypes
    <2> QED BY <1>4, <2>1, <2>2
<1> QED BY <1>3, <1>4

LEMMA OneLeaves ==
    ASSUME TypeOK, NEW t \in Tasks, NEW p, p \notin InCall, pc[t] \in InCall,
           pc' = [pc EXCEPT ![t] = p], UNCHANGED call, NEW tool \in Tools
    PROVE  Cardinality(Underway(tool)')
               = Cardinality(Underway(tool)) - IF call[t].req.tool = tool THEN 1 ELSE 0
<1>1. \A u \in Tasks : pc'[u] = IF u = t THEN p ELSE pc[u]
    BY DEF TypeOK
<1>2. IsFiniteSet(Underway(tool)) /\ Cardinality(Underway(tool)) \in Nat
    BY BalanceTypes
<1>3. CASE call[t].req.tool = tool
    <2>1. Underway(tool)' = Underway(tool) \ {t} /\ t \in Underway(tool)
        BY <1>1, <1>3 DEF Underway, ToolOf
    <2> QED BY <1>2, <1>3, <2>1, FS_RemoveElement
<1>4. CASE call[t].req.tool # tool
    <2>1. Underway(tool)' = Underway(tool)
        BY <1>1, <1>4 DEF Underway, ToolOf
    <2> QED BY <1>2, <1>4, <2>1
<1> QED BY <1>3, <1>4

\* The history entry.
LEMMA CountBalances ==
    ASSUME TypeOK, SumsUp, NEW t \in Tasks, Count(t)
    PROVE  SumsUp'
<1> DEFINE r == call[t].req
           n == history[r].count + 1
           d == [call[t] EXCEPT !.dup = n >= WarnAfter /\ ~history[r].lastSuccess]
<1>1. call[t] \in CallType /\ r \in Requests
    BY DEF TypeOK, CallType
<1>2. /\ pc[t] = "count" /\ pc' = [pc EXCEPT ![t] = "break"] /\ UNCHANGED <<stats, skips>>
      /\ call' = [call EXCEPT ![t] = d]
      /\ history' = [history EXCEPT ![r] = [history[r] EXCEPT !.count = n]]
    BY DEF Count, Goto, Set
<1>3. d.req = r
    BY <1>1 DEF CallType
<1>4. \A q \in Requests : history'[q].count = history[q].count + IF q = r THEN 1 ELSE 0
    BY <1>1, <1>2 DEF TypeOK
<1> HIDE DEF d
<1>5. ASSUME NEW tool \in Tools
      PROVE  Counted(history', OfTool(tool))
                 = stats'[tool].calls + skips'[tool] + Cardinality(Underway(tool)')
    <2>1. Cardinality(Underway(tool)')
              = Cardinality(Underway(tool)) + IF r.tool = tool THEN 1 ELSE 0
        <3>1. "break" \in InCall /\ pc[t] \notin InCall
            BY <1>2 DEF InCall
        <3> QED BY <1>2, <1>3, <3>1, OneEnters
    <2>2. /\ Counted(history, OfTool(tool)) \in Nat
          /\ Counted(history', OfTool(tool))
                = Counted(history, OfTool(tool)) + IF r.tool = tool THEN 1 ELSE 0
        <3> HIDE DEF r
        <3> QED BY <1>1, <1>4, HistoryGrows
    <2>3. stats[tool].calls \in Nat /\ skips[tool] \in Nat /\ Cardinality(Underway(tool)) \in Nat
        BY BalanceTypes
    <2>4. Counted(history, OfTool(tool))
              = stats[tool].calls + skips[tool] + Cardinality(Underway(tool))
        BY DEF SumsUp
    <2> QED BY <1>2, <2>1, <2>2, <2>3, <2>4
<1> QED BY <1>5 DEF SumsUp, OfTool

\* The statistics, and the skip that takes their place.
LEMMA EndBalances ==
    ASSUME TypeOK, SumsUp, NEW t \in Tasks, Finish(t) \/ (Wake(t) /\ pc'[t] = "return")
    PROVE  SumsUp'
<1> DEFINE r == call[t].req
<1>1. call[t] \in CallType /\ r \in Requests /\ r.tool \in Tools /\ history[r] \in [count : Nat, lastSuccess : BOOLEAN]
    BY RequestsAssumption DEF TypeOK, CallType
<1>2. /\ pc' = [pc EXCEPT ![t] = "return"] /\ pc[t] \in InCall /\ "return" \notin InCall /\ UNCHANGED call
      /\ \A q \in Requests : history'[q].count = history[q].count
      /\ \A tool \in Tools : stats'[tool].calls + skips'[tool]
             = stats[tool].calls + skips[tool] + IF r.tool = tool THEN 1 ELSE 0
    <2>1. CASE Finish(t)
        <3>1. pc' = [pc EXCEPT ![t] = "return"] /\ pc[t] = "finish" /\ UNCHANGED <<call, skips>>
            BY <2>1 DEF Finish, Goto
        <3>2. \A q \in Requests : history'[q].count = history[q].count
            BY <1>1, <2>1 DEF Finish, TypeOK
        <3>3. \A tool \in Tools : stats'[tool].calls = stats[tool].calls + IF r.tool = tool THEN 1 ELSE 0
            BY <1>1, <2>1 DEF Finish, TypeOK, Stats
        <3>4. \A tool \in Tools : stats[tool].calls \in Nat /\ skips[tool] \in Nat
            BY BalanceTypes
        <3> QED BY <3>1, <3>2, <3>3, <3>4 DEF InCall
    <2>2. CASE Wake(t) /\ pc'[t] = "return"
        <3>1. pc[t] = "paused" /\ pc \in [Tasks -> Labels]
            BY <2>2 DEF Wake, TypeOK
        <3>2. ~Goto(t, "finish") /\ ~Goto(t, "run")
            BY <2>2, <3>1 DEF Goto
        <3>3. /\ Goto(t, "return") /\ UNCHANGED <<call, history, stats>>
              /\ skips' = [skips EXCEPT ![r.tool] = @ + 1]
            BY <2>2, <3>2 DEF Wake, ToolOf
        <3>4. \A tool \in Tools : skips'[tool] = skips[tool] + IF r.tool = tool THEN 1 ELSE 0
            BY <1>1, <3>3 DEF TypeOK
        <3>5. \A tool \in Tools : stats[tool].calls \in Nat /\ skips[tool] \in Nat
            BY BalanceTypes
        <3> QED BY <3>1, <3>3, <3>4, <3>5 DEF InCall, Goto
    <2> QED BY <2>1, <2>2
<1>3. ASSUME NEW tool \in Tools
      PROVE  Counted(history', OfTool(tool))
                 = stats'[tool].calls + skips'[tool] + Cardinality(Underway(tool)')
    <2>1. Cardinality(Underway(tool)')
              = Cardinality(Underway(tool)) - IF r.tool = tool THEN 1 ELSE 0
        BY <1>2, OneLeaves
    <2>2. Counted(history', OfTool(tool)) = Counted(history, OfTool(tool))
        <3>1. \A q \in Requests : history'[q].count = history[q].count + IF q = r THEN 0 ELSE 0
            BY <1>2 DEF TypeOK
        <3> HIDE DEF r
        <3>2. /\ Counted(history, OfTool(tool)) \in Nat
              /\ Counted(history', OfTool(tool))
                    = Counted(history, OfTool(tool)) + IF r.tool = tool THEN 0 ELSE 0
            BY <1>1, <3>1, HistoryGrows
        <3> QED BY <3>2
    <2>3. stats[tool].calls \in Nat /\ skips[tool] \in Nat /\ Cardinality(Underway(tool)) \in Nat
        BY BalanceTypes
    <2>4. Counted(history, OfTool(tool))
              = stats[tool].calls + skips[tool] + Cardinality(Underway(tool))
        BY DEF SumsUp
    <2>5. stats'[tool].calls + skips'[tool]
              = stats[tool].calls + skips[tool] + IF r.tool = tool THEN 1 ELSE 0
        BY <1>2
    <2> HIDE DEF r
    <2> QED BY <2>1, <2>2, <2>3, <2>4, <2>5
<1> QED BY <1>3 DEF SumsUp, OfTool

\* Every step keeps the balance, and it holds at first.
LEMMA StepBalances ==
    ASSUME TypeOK, SumsUp, [Next]_vars
    PROVE  SumsUp'
<1>1. CASE UNCHANGED vars
    BY <1>1, SameBalance DEF vars, SameCalls
<1>2. ASSUME NEW t \in Tasks, Worker(t) PROVE SumsUp'
    <2>1. CASE Count(t)
        BY <2>1, CountBalances
    <2>2. CASE Finish(t) \/ (Wake(t) /\ pc'[t] = "return")
        BY <2>2, EndBalances
    <2>3. CASE \/ Break(t) \/ GetSession(t) \/ Prepare(t) \/ Publish(t) \/ Run(t)
               \/ Wake(t) /\ pc'[t] # "return"
        BY <2>3, InsideTheCall, SameBalance
    <2>4. CASE \/ Command(t) \/ ReadPolicy(t) \/ CheckEnabled(t) \/ Assess(t)
               \/ Answered(t) \/ Poll(t) \/ Begin(t) \/ Return(t)
        BY <2>4, OutOfTheCall, SameBalance
    <2>5. CASE Wake(t)
        BY <2>2, <2>3, <2>5
    <2> QED BY <1>2, <2>1, <2>2, <2>3, <2>4, <2>5 DEF Worker
<1>3. CASE Reload \/ Arm \/ Disarm \/ ClearSessions \/ \E t \in Tasks : Cancel(t) \/ DebugRequest(t)
    BY <1>3, RequestsBalance, SameBalance
<1> QED BY <1>1, <1>2, <1>3 DEF Next

LEMMA InitBalances == Init => SumsUp
<1> SUFFICES ASSUME Init, NEW tool \in Tools
             PROVE  Counted(history, OfTool(tool))
                        = stats[tool].calls + skips[tool] + Cardinality(Underway(tool))
    BY DEF SumsUp
<1>1. IsFiniteSet(OfTool(tool)) /\ OfTool(tool) \subseteq Requests
    BY InitOk, BalanceTypes DEF IInv
<1>2. \A q \in OfTool(tool) : history[q].count = 0
    BY <1>1 DEF Init
<1>3. Counted(history, OfTool(tool)) = 0
    BY <1>1, <1>2, CountedNone
<1>4. Underway(tool) = {}
    BY DEF Init, Underway, InCall
<1> QED BY <1>3, <1>4, FS_EmptySet DEF Init

\* The history counts a call when it starts and the statistics when it ends: at
\* every moment the first is the second with the calls skipped and under way, for
\* every tool and whoever calls it; and a warning is given of a call that has
\* failed before.
THEOREM Books == Spec => []BooksAreTrue
<1>1. Init => IInv /\ SumsUp
    BY InitOk, InitBalances
<1>2. IInv /\ SumsUp /\ [Next]_vars => (IInv /\ SumsUp)'
    BY StepOk, StepBalances DEF IInv
<1>3. IInv /\ SumsUp => BooksAreTrue
    BY DEF IInv, BooksOk, SumsUp, BooksAreTrue, BooksBalance
<1> QED BY <1>1, <1>2, <1>3, PTL DEF Spec

-----------------------------------------------------------------------------
(***************************************************************************)
(* PermissionGate.  Two invariants.  Sound holds of every request however  *)
(* many share an id: entries and waiters are filed under the id their      *)
(* request drew, and a yes that was heard was given under it.  Serial is   *)
(* about a request whose id nobody else drew: its entry, its waiter, its   *)
(* verdict and its fate belong together, and one worker owns it.           *)
(***************************************************************************)
Active(w) == worker[w].at \notin {"idle", "stopped"}

WorkerType == [at : WorkerSteps, id : 0 .. MaxRequests,
               ticket : 0 .. MaxRequests, seat : 0 .. MaxRequests]
CallerType == [at : {"idle", "checked", "claimed"}, id : 0 .. MaxRequests, answer : Answers]
EntryType  == [ticket : 0 .. MaxRequests, status : Statuses]

\* Ids are at most as many as the calls, and a request that was not made has no trace.
Drawn(k) ==
  /\ drawn[k] <= created
  /\ drawn[k] = 0 <=> k > created
  /\ drawn[k] = 0 => consent[k] = "none" /\ heard[k] = "nothing" /\ outcome[k] = "open"

\* A request has one owner.
OwnerInv ==
  \A v, w \in Workers : v # w /\ Active(v) /\ Active(w) => worker[v].ticket # worker[w].ticket

\* No entry of the table is that of request k.
Unlisted(k) == \A i \in Tickets : requests[i].ticket # k

\* What a worker knows of its request k.
Asks(w, k) ==
  /\ k # 0 /\ k <= created /\ worker[w].id = drawn[k] /\ outcome[k] = "open"
  /\ worker[w].at \in {"id", "insert"} => consent[k] = "none" /\ Unlisted(k)
  /\ worker[w].seat # 0 => drawn[worker[w].seat] = drawn[k]
  /\ At(w, "granted") => Approved(drawn[k])

\* Entry and waiter of an id are those of requests that drew it.
Listed(i) ==
  /\ requests[i].ticket # 0 => drawn[requests[i].ticket] = i
  /\ waiters[i] # 0 => drawn[waiters[i]] = i
  /\ IsPending(i) => consent[requests[i].ticket] = "none"

\* A yes that was heard, or acted on, was given under the request's id.
YesOk(k) ==
  /\ heard[k] = "approved" => Approved(drawn[k])
  /\ outcome[k] = "ran" => Approved(drawn[k])

\* A handler past its first look holds the id of an entry.
Handles(c) ==
  caller[c].at # "idle" =>
    /\ caller[c].id # 0 /\ requests[caller[c].id].ticket # 0
    /\ caller[c].at = "claimed" /\ caller[c].answer = "approved" => Approved(caller[c].id)

Sound ==
  /\ GateTypeOK /\ nextId <= created + 1 /\ OwnerInv
  /\ \A w \in Workers : Active(w) => Asks(w, worker[w].ticket)
  /\ \A k \in Tickets : Drawn(k) /\ YesOk(k)
  /\ \A i \in Tickets : Listed(i)
  /\ \A c \in Callers : Handles(c)

\* The type invariant with its record sets named.
LEMMA GateTyped ==
  GateTypeOK <=>
    /\ nextId \in 1 .. MaxRequests + 1 /\ created \in 0 .. MaxRequests
    /\ drawn \in [Tickets -> 0 .. MaxRequests]
    /\ requests \in [Tickets -> EntryType]
    /\ waiters \in [Tickets -> 0 .. MaxRequests]
    /\ heard \in [Tickets -> Answers \cup {"nothing"}]
    /\ consent \in [Tickets -> Answers \cup {"none"}]
    /\ outcome \in [Tickets -> {"open", "ran", "denied", "dropped"}]
    /\ worker \in [Workers -> WorkerType]
    /\ flag \in [Workers -> BOOLEAN]
    /\ caller \in [Callers -> CallerType]
BY DEF GateTypeOK, EntryType, WorkerType, CallerType

\* Free workers, handlers and entries are typed.
LEMMA FreeTypes ==
  /\ \A s \in WorkerSteps : Free(s) \in WorkerType
  /\ NoAnswer \in CallerType /\ NoEntry \in EntryType
BY BoundAssumption DEF Free, NoAnswer, NoEntry, WorkerType, CallerType, EntryType, Answers, Statuses

\* Nothing has been asked yet.
LEMMA InitSound == GateInit => Sound
<1> SUFFICES ASSUME GateInit PROVE Sound
  OBVIOUS
<1>1. /\ "idle" \in WorkerSteps /\ \A w \in Workers : worker[w] = Free("idle")
      /\ \A c \in Callers : caller[c] = NoAnswer
  BY DEF GateInit, WorkerSteps
<1>2. GateTypeOK
  BY <1>1, FreeTypes, GateTyped, BoundAssumption DEF GateInit, FirstId, Tickets
<1>3. OwnerInv /\ \A w \in Workers : ~Active(w)
  BY <1>1 DEF OwnerInv, Active, Free
<1>4. \A k \in Tickets : Drawn(k) /\ YesOk(k)
  BY BoundAssumption DEF GateInit, Drawn, YesOk, Tickets
<1>5. \A i \in Tickets : Listed(i)
  BY DEF GateInit, Listed, NoEntry, IsPending
<1>6. \A c \in Callers : Handles(c)
  BY <1>1 DEF Handles, NoAnswer
<1>7. nextId <= created + 1
  BY DEF GateInit, FirstId
<1> QED BY <1>2, <1>3, <1>4, <1>5, <1>6, <1>7 DEF Sound

\* What was approved stays approved.
LEMMA ApprovedKept ==
  ASSUME \A k \in Tickets : drawn[k] # 0 => drawn'[k] = drawn[k] /\ consent'[k] = consent[k],
         NEW i, i # 0, Approved(i)
  PROVE  Approved(i)'
BY DEF Approved

\* What an active worker knows of itself.
LEMMA AsksFacts ==
  ASSUME Sound, NEW w \in Workers, Active(w), NEW k, k = worker[w].ticket
  PROVE  /\ k \in Tickets /\ k # 0 /\ k <= created /\ Asks(w, k)
         /\ worker[w].id = drawn[k] /\ drawn[k] \in Tickets /\ drawn[k] # 0
         /\ outcome[k] = "open" /\ worker[w] \in WorkerType /\ worker[w].seat \in 0 .. MaxRequests
<1>1. worker[w] \in WorkerType /\ created \in 0 .. MaxRequests /\ Asks(w, k)
      /\ drawn \in [Tickets -> 0 .. MaxRequests]
  BY GateTyped DEF Sound
<1>2. k \in 0 .. MaxRequests /\ worker[w].seat \in 0 .. MaxRequests
  BY <1>1 DEF WorkerType
<1>3. k # 0 /\ k <= created /\ worker[w].id = drawn[k] /\ outcome[k] = "open"
  BY <1>1 DEF Asks
<1>4. k \in Tickets
  BY <1>2, <1>3, BoundAssumption DEF Tickets
<1>5. Drawn(k)
  BY <1>4 DEF Sound
<1>6. drawn[k] \in 0 .. MaxRequests /\ drawn[k] # 0
  BY <1>1, <1>3, <1>4, <1>5, BoundAssumption DEF Drawn, Tickets
<1>7. drawn[k] \in Tickets
  BY <1>6, BoundAssumption DEF Tickets
<1> QED BY <1>1, <1>2, <1>3, <1>4, <1>6, <1>7

\* The record of a worker after it went on to step s.
LEMMA GoesFacts ==
  ASSUME GateTypeOK, NEW w \in Workers, NEW s \in WorkerSteps, Goes(w, s)
  PROVE  /\ worker' \in [Workers -> WorkerType]
         /\ worker'[w] = [at |-> s, id |-> worker[w].id, ticket |-> worker[w].ticket,
                          seat |-> worker[w].seat]
         /\ \A v \in Workers \ {w} : worker'[v] = worker[v]
<1>1. worker[w] \in WorkerType /\ worker \in [Workers -> WorkerType]
      /\ worker' = [worker EXCEPT ![w] = [worker[w] EXCEPT !.at = s]]
  BY GateTyped DEF Goes
<1>2. /\ [worker[w] EXCEPT !.at = s] \in WorkerType
      /\ [worker[w] EXCEPT !.at = s] = [at |-> s, id |-> worker[w].id,
            ticket |-> worker[w].ticket, seat |-> worker[w].seat]
  BY <1>1 DEF WorkerType
<1> QED BY <1>1, <1>2

\* The record of a worker after it took the waiter x, or none.
LEMMA SitsFacts ==
  ASSUME GateTypeOK, NEW w \in Workers, NEW s \in WorkerSteps, NEW x \in 0 .. MaxRequests, Sits(w, s, x)
  PROVE  /\ worker' \in [Workers -> WorkerType]
         /\ worker'[w] = [at |-> s, id |-> worker[w].id, ticket |-> worker[w].ticket, seat |-> x]
         /\ \A v \in Workers \ {w} : worker'[v] = worker[v]
<1>1. worker[w] \in WorkerType /\ worker \in [Workers -> WorkerType]
  BY GateTyped
<1>2. [at |-> s, id |-> worker[w].id, ticket |-> worker[w].ticket, seat |-> x] \in WorkerType
  BY <1>1 DEF WorkerType
<1> QED BY <1>1, <1>2 DEF Sits

\* A worker that closed its request.
LEMMA ClosesFacts ==
  ASSUME GateTypeOK, NEW w \in Workers, worker[w].ticket \in Tickets, NEW s \in {"idle", "stopped"},
         NEW o \in {"ran", "denied", "dropped"}, Closes(w, o, s)
  PROVE  /\ worker' \in [Workers -> WorkerType] /\ ~Active(w)'
         /\ \A v \in Workers \ {w} : worker'[v] = worker[v]
         /\ outcome' \in [Tickets -> {"open", "ran", "denied", "dropped"}]
         /\ outcome'[worker[w].ticket] = o
         /\ \A k \in Tickets \ {worker[w].ticket} : outcome'[k] = outcome[k]
<1>1. s \in WorkerSteps /\ Free(s) \in WorkerType /\ Free(s).at = s
  BY FreeTypes DEF WorkerSteps, Free
<1>2. worker \in [Workers -> WorkerType] /\ outcome \in [Tickets -> {"open", "ran", "denied", "dropped"}]
  BY GateTyped
<1>3. /\ worker' = [worker EXCEPT ![w] = Free(s)]
      /\ outcome' = [outcome EXCEPT ![worker[w].ticket] = o]
  BY DEF Closes
<1> HIDE DEF Free
<1>4. worker'[w] = Free(s) /\ \A v \in Workers \ {w} : worker'[v] = worker[v]
  BY <1>2, <1>3
<1>5. worker' \in [Workers -> WorkerType]
  BY <1>1, <1>2, <1>3
<1>6. ~Active(w)'
  BY <1>1, <1>4 DEF Active
<1> QED BY <1>2, <1>3, <1>4, <1>5, <1>6

-----------------------------------------------------------------------------
(* The steps of a worker that has drawn its id: it works on its own request *)
(* k, on what is filed under its id, and on the waiter it finds there.      *)
OnlyOwn(w, k) ==
  /\ drawn' = drawn /\ created' = created /\ consent' = consent /\ caller' = caller
  /\ \A v \in Workers \ {w} : worker'[v] = worker[v]
  /\ Active(w)' => worker'[w].ticket = k
  /\ \A j \in Tickets \ {k} : outcome'[j] = outcome[j]
  /\ \A i \in Tickets : requests'[i].ticket \in {requests[i].ticket, k}
  /\ \A i \in Tickets \ {drawn[k]} : requests'[i] = requests[i] /\ waiters'[i] = waiters[i]
  /\ \A j \in Tickets : drawn[j] # drawn[k] => heard'[j] = heard[j]

LEMMA WorkerStepSound ==
  ASSUME Sound, NEW w \in Workers, Active(w), NEW k, k = worker[w].ticket, OnlyOwn(w, k),
         GateTypeOK', nextId' <= created' + 1, Active(w)' => Asks(w, k)',
         YesOk(k)', NEW i, i = drawn[k], Listed(i)',
         \A j \in Tickets : heard'[j] = "approved" => Approved(drawn[j])
  PROVE  Sound' /\ OnlyOwn(w, worker[w].ticket)
<1>1. /\ k \in Tickets /\ k # 0 /\ i \in Tickets /\ i # 0 /\ k <= created
  BY AsksFacts
<1>2. drawn' = drawn /\ created' = created /\ consent' = consent /\ caller' = caller
  BY DEF OnlyOwn
<1>3. OwnerInv'
  <2>1. \A v \in Workers \ {w} : Active(v) => worker[v].ticket # k
    BY DEF Sound, OwnerInv
  <2> QED BY <2>1 DEF Sound, OwnerInv, OnlyOwn, Active
<1>4. ASSUME NEW v \in Workers PROVE (Active(v) => Asks(v, worker[v].ticket))'
  <2>1. CASE v = w
    BY <2>1 DEF OnlyOwn, Asks, At
  <2>2. CASE v # w /\ Active(v)
    <3>1. worker'[v] = worker[v]
      BY <2>2 DEF OnlyOwn
    <3>2. PICK j : j = worker[v].ticket
      OBVIOUS
    <3>3. j \in Tickets /\ Asks(v, j) /\ j # k
      BY <2>2, <3>2, AsksFacts DEF Sound, OwnerInv
    <3>4. outcome'[j] = outcome[j]
      BY <3>3 DEF OnlyOwn
    <3>5. Unlisted(j) => Unlisted(j)'
      BY <3>3 DEF Unlisted, OnlyOwn
    <3>6. Asks(v, j)'
      BY <1>2, <3>1, <3>3, <3>4, <3>5 DEF Asks, At, Approved
    <3> QED BY <3>1, <3>2, <3>6 DEF Asks, At, Approved, Unlisted
  <2>3. CASE v # w /\ ~Active(v)
    BY <2>3 DEF OnlyOwn, Active
  <2> QED BY <2>1, <2>2, <2>3
<1>5. ASSUME NEW j \in Tickets PROVE Drawn(j)' /\ YesOk(j)'
  <2>1. Drawn(j) /\ YesOk(j)
    BY DEF Sound
  <2>2. j # k => outcome'[j] = outcome[j]
    BY DEF OnlyOwn
  <2>3. drawn[j] = 0 => heard'[j] = heard[j] /\ j # k
    BY <1>1, <2>1 DEF OnlyOwn
  <2>4. Drawn(j)'
    BY <1>2, <2>1, <2>2, <2>3 DEF Drawn
  <2>5. j # k => YesOk(j)'
    BY <1>2, <2>1, <2>2 DEF YesOk, Approved
  <2> QED BY <2>4, <2>5
<1>6. ASSUME NEW l \in Tickets PROVE Listed(l)'
  <2>1. l # i => requests'[l] = requests[l] /\ waiters'[l] = waiters[l] /\ Listed(l)
    BY DEF Sound, OnlyOwn
  <2> QED BY <1>2, <2>1 DEF Listed, IsPending
<1>7. ASSUME NEW c \in Callers PROVE Handles(c)'
  <2>1. Handles(c) /\ caller[c] \in CallerType
    BY GateTyped DEF Sound
  <2>2. caller[c].id # 0 => caller[c].id \in Tickets
    BY <2>1, BoundAssumption DEF CallerType, Tickets
  <2>3. caller[c].id \in Tickets /\ requests[caller[c].id].ticket # 0 => requests'[caller[c].id].ticket # 0
    BY <1>1 DEF OnlyOwn
  <2> QED BY <1>2, <2>1, <2>2, <2>3 DEF Handles, Approved
<1> QED BY <1>3, <1>4, <1>5, <1>6, <1>7 DEF Sound
\* The next number, whoever else is reading it: a request that was not made.
LEMMA ReadIdSound ==
  ASSUME Sound, NEW w \in Workers, ReadId(w)
  PROVE  Sound'
<1>0. created + 1 \in Tickets /\ created \in 0 .. MaxRequests /\ nextId \in 1 .. MaxRequests /\ nextId <= created + 1
  BY BoundAssumption DEF ReadId, Sound, GateTypeOK, Tickets
<1>1. PICK k \in Tickets : k = created + 1 /\ k > created /\ k # 0
  BY <1>0
<1>2. /\ nextId' = nextId /\ requests' = requests /\ waiters' = waiters /\ heard' = heard
      /\ consent' = consent /\ outcome' = outcome /\ flag' = flag /\ caller' = caller
      /\ created' = k /\ drawn' = [drawn EXCEPT ![k] = nextId]
      /\ worker' = [worker EXCEPT ![w] = [at |-> "id", id |-> nextId, ticket |-> k, seat |-> 0]]
  BY <1>1 DEF ReadId
<1>3. /\ drawn \in [Tickets -> 0 .. MaxRequests] /\ worker \in [Workers -> WorkerType]
      /\ Drawn(k) /\ YesOk(k)
  BY GateTyped DEF Sound
<1>4. /\ drawn'[k] = nextId /\ \A j \in Tickets \ {k} : drawn'[j] = drawn[j]
  BY <1>2, <1>3
<1>5. drawn[k] = 0 /\ consent[k] = "none" /\ heard[k] = "nothing" /\ outcome[k] = "open"
  BY <1>1, <1>3 DEF Drawn
<1>6. /\ worker'[w] = [at |-> "id", id |-> nextId, ticket |-> k, seat |-> 0]
      /\ \A v \in Workers \ {w} : worker'[v] = worker[v]
  BY <1>2, <1>3
<1>7. GateTypeOK'
  <2>1. [at |-> "id", id |-> nextId, ticket |-> k, seat |-> 0] \in WorkerType
    BY <1>0, BoundAssumption DEF WorkerType, WorkerSteps, Tickets
  <2>2. worker' \in [Workers -> WorkerType] /\ drawn' \in [Tickets -> 0 .. MaxRequests]
    BY <1>0, <1>2, <1>3, <2>1
  <2> QED BY <1>0, <1>1, <1>2, <2>2, BoundAssumption DEF Sound, GateTypeOK, WorkerType, Tickets
<1>8. nextId' <= created' + 1
  BY <1>0, <1>1, <1>2
<1>9. \A v \in Workers : Active(v) => worker[v].ticket # k /\ worker[v].ticket \in Tickets
  <2>1. ASSUME NEW v \in Workers, Active(v) PROVE worker[v].ticket # k /\ worker[v].ticket \in Tickets
    <3>1. PICK j : j = worker[v].ticket
      OBVIOUS
    <3>2. j \in Tickets /\ drawn[j] # 0
      BY <2>1, <3>1, AsksFacts
    <3> QED BY <1>5, <3>1, <3>2
  <2> QED BY <2>1
<1>10. OwnerInv'
  BY <1>6, <1>9 DEF Sound, OwnerInv, Active
<1>11. \A i \in Tickets : /\ requests[i].ticket # k /\ (waiters[i] # 0 => waiters[i] # k)
  BY <1>1, <1>5, BoundAssumption DEF Sound, Listed, Tickets
<1>12. ASSUME NEW v \in Workers PROVE (Active(v) => Asks(v, worker[v].ticket))'
  <2>1. CASE v = w
    <3>1. worker'[v].ticket = k /\ worker'[v].at = "id" /\ worker'[v].id = nextId /\ worker'[v].seat = 0
      BY <1>6, <2>1
    <3>2. k <= created' /\ Unlisted(k)'
      BY <1>0, <1>1, <1>2, <1>11 DEF Unlisted
    <3>3. Asks(v, k)'
      BY <1>1, <1>2, <1>4, <1>5, <3>1, <3>2 DEF Asks, At
    <3> QED BY <3>1, <3>3 DEF Asks, At, Unlisted, Approved
  <2>2. CASE v # w /\ Active(v)
    <3>1. PICK j : j = worker[v].ticket
      OBVIOUS
    <3>2. j \in Tickets /\ j # k /\ Asks(v, j) /\ j <= created /\ worker[v].seat \in 0 .. MaxRequests
          /\ drawn[j] # 0 /\ drawn'[j] = drawn[j]
      BY <1>4, <1>9, <2>2, <3>1, AsksFacts
    <3>3. worker[v].seat # 0 => worker[v].seat \in Tickets /\ worker[v].seat # k
          /\ drawn'[worker[v].seat] = drawn[worker[v].seat]
      BY <1>4, <1>5, <3>2, BoundAssumption DEF Asks, Tickets
    <3>4. Approved(drawn[j]) => \E m \in Tickets : drawn'[m] = drawn[j] /\ consent[m] = "approved"
      BY <1>4, <1>5 DEF Approved
    <3>5. Asks(v, j)'
      <4>1. worker'[v] = worker[v] /\ j <= created'
        BY <1>0, <1>1, <1>2, <1>6, <2>2, <3>2
      <4>2. At(v, "granted")' => Approved(drawn[j])'
        BY <1>2, <3>2, <3>4, <4>1 DEF Asks, At, Approved
      <4>3. At(v, "granted") <=> At(v, "granted")'
        BY <4>1 DEF At
      <4>4. worker'[v].at \in {"id", "insert"} => consent'[j] = "none" /\ Unlisted(j)'
        BY <1>2, <3>2, <4>1 DEF Asks, Unlisted
      <4> QED BY <1>2, <3>2, <3>3, <4>1, <4>2, <4>4 DEF Asks
    <3> QED BY <1>6, <2>2, <3>1, <3>5 DEF Asks, At, Approved, Unlisted
  <2>3. CASE v # w /\ ~Active(v)
    BY <1>6, <2>3 DEF Active
  <2> QED BY <2>1, <2>2, <2>3
<1>13. ASSUME NEW j \in Tickets PROVE Drawn(j)' /\ YesOk(j)'
  <2>1. CASE j = k
    BY <1>0, <1>1, <1>2, <1>4, <1>5, <2>1, BoundAssumption DEF Drawn, YesOk, Tickets
  <2>2. CASE j # k
    <3>1. drawn'[j] = drawn[j] /\ Drawn(j) /\ YesOk(j) /\ (j > created <=> j > created')
      BY <1>0, <1>1, <1>2, <1>4, <2>2, BoundAssumption DEF Sound, Tickets
    <3>2. Drawn(j)'
      BY <1>0, <1>1, <1>2, <1>3, <3>1, BoundAssumption DEF Drawn, Tickets
    <3>3. Approved(drawn[j]) => \E m \in Tickets : drawn'[m] = drawn[j] /\ consent[m] = "approved"
      BY <1>4, <1>5 DEF Approved
    <3> QED BY <1>2, <3>1, <3>2, <3>3 DEF YesOk, Approved
  <2> QED BY <2>1, <2>2
<1>14. ASSUME NEW i \in Tickets PROVE Listed(i)'
  <2>1. /\ requests[i].ticket # 0 => requests[i].ticket \in Tickets \ {k}
        /\ waiters[i] # 0 => waiters[i] \in Tickets \ {k}
    <3>1. requests[i] \in EntryType /\ waiters[i] \in 0 .. MaxRequests
      BY GateTyped DEF Sound
    <3> QED BY <1>11, <3>1, BoundAssumption DEF EntryType, Tickets
  <2> QED BY <1>2, <1>4, <2>1 DEF Sound, Listed, IsPending
<1>15. ASSUME NEW c \in Callers PROVE Handles(c)'
  <2>1. Approved(caller[c].id) => \E m \in Tickets : drawn'[m] = caller[c].id /\ consent[m] = "approved"
    BY <1>4, <1>5 DEF Approved
  <2> QED BY <1>2, <2>1 DEF Sound, Handles, Approved
<1> QED BY <1>7, <1>8, <1>10, <1>12, <1>13, <1>14, <1>15 DEF Sound

\* The counter becomes one more than the number this worker read.
LEMMA StoreIdSound ==
  ASSUME Sound, NEW w \in Workers, StoreId(w)
  PROVE  Sound' /\ OnlyOwn(w, worker[w].ticket)
<1>1. Active(w) /\ worker[w].at = "id" /\ "insert" \in WorkerSteps
  BY DEF StoreId, At, Active, WorkerSteps
<1>2. PICK k : k = worker[w].ticket
  OBVIOUS
<1>3. /\ k \in Tickets /\ k # 0 /\ k <= created /\ Asks(w, k) /\ worker[w].id = drawn[k]
      /\ drawn[k] \in Tickets /\ outcome[k] = "open" /\ drawn[k] <= created
  BY <1>1, <1>2, AsksFacts DEF Sound, Drawn
<1>4. /\ worker' \in [Workers -> WorkerType]
      /\ worker'[w] = [at |-> "insert", id |-> worker[w].id, ticket |-> worker[w].ticket,
                       seat |-> worker[w].seat]
      /\ \A v \in Workers \ {w} : worker'[v] = worker[v]
  BY <1>1, GoesFacts DEF StoreId, Sound
<1>5. OnlyOwn(w, k)
  BY <1>2, <1>4 DEF StoreId, OnlyOwn
<1>6. GateTypeOK' /\ nextId' <= created' + 1
  <2>1. nextId' \in 1 .. MaxRequests + 1 /\ nextId' <= created' + 1
    <3>1. created \in 0 .. MaxRequests /\ created' = created /\ nextId' = drawn[k] + 1
      BY <1>3 DEF StoreId, Sound, GateTypeOK
    <3>2. drawn[k] \in 1 .. MaxRequests /\ drawn[k] <= created
      BY <1>3, BoundAssumption DEF Tickets
    <3> QED BY <3>1, <3>2, BoundAssumption
  <2> QED BY <1>4, <2>1 DEF StoreId, Sound, GateTypeOK, WorkerType
<1>7. Asks(w, k)'
  BY <1>1, <1>2, <1>3, <1>4 DEF StoreId, Asks, At, Unlisted, Approved
<1>8. YesOk(k)' /\ \A j \in Tickets : heard'[j] = "approved" => Approved(drawn[j])
  BY <1>3 DEF StoreId, Sound, YesOk, Approved
<1>9. PICK i : i = drawn[k]
  OBVIOUS
<1>10. Listed(i)'
  BY <1>3, <1>9 DEF StoreId, Sound, Listed, IsPending
<1> QED BY <1>1, <1>2, <1>5, <1>6, <1>7, <1>8, <1>9, <1>10, WorkerStepSound

\* A fresh entry replaces whatever was filed under the id.
LEMMA InsertRequestSound ==
  ASSUME Sound, NEW w \in Workers, InsertRequest(w)
  PROVE  Sound' /\ OnlyOwn(w, worker[w].ticket)
<1>1. Active(w) /\ worker[w].at = "insert"
  BY DEF InsertRequest, At, Active
<1>2. PICK k : k = worker[w].ticket
  OBVIOUS
<1>3. /\ k \in Tickets /\ k # 0 /\ k <= created /\ Asks(w, k) /\ worker[w].id = drawn[k]
      /\ drawn[k] \in Tickets /\ outcome[k] = "open" /\ drawn[k] # 0 /\ k <= MaxRequests
      /\ worker[w] \in WorkerType /\ worker[w].seat \in 0 .. MaxRequests
  BY <1>1, <1>2, AsksFacts, BoundAssumption DEF Tickets
<1>4. PICK i : i = drawn[k]
  OBVIOUS
<1>5. /\ i \in Tickets /\ worker[w].id = i /\ i # 0 /\ Listed(i) /\ YesOk(k)
      /\ requests[i] \in EntryType /\ waiters[i] \in 0 .. MaxRequests
  BY <1>3, <1>4, GateTyped DEF Sound
<1>6. /\ worker' \in [Workers -> WorkerType]
      /\ worker'[w] = [at |-> "waiter", id |-> worker[w].id, ticket |-> worker[w].ticket,
                       seat |-> worker[w].seat]
      /\ \A v \in Workers \ {w} : worker'[v] = worker[v]
  <2>1. "waiter" \in WorkerSteps
    BY DEF WorkerSteps
  <2> QED BY <2>1, GoesFacts DEF InsertRequest, Sound
<1>7. OnlyOwn(w, k)
  BY <1>2, <1>3, <1>4, <1>5, <1>6 DEF InsertRequest, OnlyOwn
<1>8. GateTypeOK' /\ nextId' <= created' + 1
  <2>1. [ticket |-> k, status |-> "pending"] \in EntryType
    BY <1>3, BoundAssumption DEF EntryType, Statuses, Tickets
  <2>2. requests' \in [Tickets -> EntryType]
    BY <1>2, <1>5, <2>1, GateTyped DEF InsertRequest, Sound
  <2> QED BY <1>6, <2>2 DEF InsertRequest, Sound, GateTypeOK, WorkerType, EntryType
<1>9. (Active(w) => Asks(w, k))'
  BY <1>1, <1>2, <1>3, <1>5, <1>6 DEF InsertRequest, Asks, At, Approved
<1>10. YesOk(k)' /\ \A j \in Tickets : heard'[j] = "approved" => Approved(drawn[j])
  BY <1>5, <1>3 DEF InsertRequest, Sound, YesOk, Approved
<1>11. Listed(i)'
  <2>1. requests'[i] = [ticket |-> k, status |-> "pending"]
    BY <1>2, <1>5, GateTyped DEF InsertRequest, Sound
  <2> QED BY <1>1, <1>3, <1>4, <1>5, <2>1 DEF InsertRequest, Listed, IsPending, Asks
<1> QED BY <1>1, <1>2, <1>4, <1>7, <1>8, <1>9, <1>10, <1>11, WorkerStepSound

\* So does the waiter.
LEMMA InsertWaiterSound ==
  ASSUME Sound, NEW w \in Workers, InsertWaiter(w)
  PROVE  Sound' /\ OnlyOwn(w, worker[w].ticket)
<1>1. Active(w) /\ worker[w].at = "waiter"
  BY DEF InsertWaiter, At, Active
<1>2. PICK k : k = worker[w].ticket
  OBVIOUS
<1>3. /\ k \in Tickets /\ k # 0 /\ k <= created /\ Asks(w, k) /\ worker[w].id = drawn[k]
      /\ drawn[k] \in Tickets /\ outcome[k] = "open" /\ drawn[k] # 0 /\ k <= MaxRequests
      /\ worker[w] \in WorkerType /\ worker[w].seat \in 0 .. MaxRequests
  BY <1>1, <1>2, AsksFacts, BoundAssumption DEF Tickets
<1>4. PICK i : i = drawn[k]
  OBVIOUS
<1>5. /\ i \in Tickets /\ worker[w].id = i /\ i # 0 /\ Listed(i) /\ YesOk(k)
      /\ requests[i] \in EntryType /\ waiters[i] \in 0 .. MaxRequests
  BY <1>3, <1>4, GateTyped DEF Sound
<1>6. /\ worker' \in [Workers -> WorkerType]
      /\ worker'[w] = [at |-> "asked", id |-> worker[w].id, ticket |-> worker[w].ticket,
                       seat |-> worker[w].seat]
      /\ \A v \in Workers \ {w} : worker'[v] = worker[v]
  <2>1. "asked" \in WorkerSteps
    BY DEF WorkerSteps
  <2> QED BY <2>1, GoesFacts DEF InsertWaiter, Sound
<1>7. OnlyOwn(w, k)
  BY <1>2, <1>3, <1>4, <1>5, <1>6 DEF InsertWaiter, OnlyOwn
<1>8. GateTypeOK' /\ nextId' <= created' + 1
  <2>1. waiters' \in [Tickets -> 0 .. MaxRequests]
    BY <1>2, <1>3, <1>5, BoundAssumption, GateTyped DEF InsertWaiter, Sound, Tickets
  <2> QED BY <1>6, <2>1 DEF InsertWaiter, Sound, GateTypeOK, WorkerType
<1>9. (Active(w) => Asks(w, k))'
  BY <1>1, <1>2, <1>3, <1>5, <1>6 DEF InsertWaiter, Asks, At, Unlisted, Approved
<1>10. YesOk(k)' /\ \A j \in Tickets : heard'[j] = "approved" => Approved(drawn[j])
  BY <1>5, <1>3 DEF InsertWaiter, Sound, YesOk, Approved
<1>11. Listed(i)'
  <2>1. waiters'[i] = k
    BY <1>2, <1>5, GateTyped DEF InsertWaiter, Sound
  <2> QED BY <1>4, <1>5, <2>1 DEF InsertWaiter, Listed, IsPending
<1> QED BY <1>1, <1>2, <1>4, <1>7, <1>8, <1>9, <1>10, <1>11, WorkerStepSound

\* The entry under the id expires, whoever it belongs to.
LEMMA ExpireSound ==
  ASSUME Sound, NEW w \in Workers, Expire(w)
  PROVE  Sound' /\ OnlyOwn(w, worker[w].ticket)
<1>1. Active(w) /\ worker[w].at = "expire"
  BY DEF Expire, At, Active
<1>2. PICK k : k = worker[w].ticket
  OBVIOUS
<1>3. /\ k \in Tickets /\ k # 0 /\ k <= created /\ Asks(w, k) /\ worker[w].id = drawn[k]
      /\ drawn[k] \in Tickets /\ outcome[k] = "open" /\ drawn[k] # 0 /\ k <= MaxRequests
      /\ worker[w] \in WorkerType /\ worker[w].seat \in 0 .. MaxRequests
  BY <1>1, <1>2, AsksFacts, BoundAssumption DEF Tickets
<1>4. PICK i : i = drawn[k]
  OBVIOUS
<1>5. /\ i \in Tickets /\ worker[w].id = i /\ i # 0 /\ Listed(i) /\ YesOk(k)
      /\ requests[i] \in EntryType /\ waiters[i] \in 0 .. MaxRequests
  BY <1>3, <1>4, GateTyped DEF Sound
<1>6. /\ worker' \in [Workers -> WorkerType]
      /\ worker'[w] = [at |-> "sweep", id |-> worker[w].id, ticket |-> worker[w].ticket,
                       seat |-> worker[w].seat]
      /\ \A v \in Workers \ {w} : worker'[v] = worker[v]
  <2>1. "sweep" \in WorkerSteps
    BY DEF WorkerSteps
  <2> QED BY <2>1, GoesFacts DEF Expire, Sound
<1>7. OnlyOwn(w, k)
  BY <1>2, <1>3, <1>4, <1>5, <1>6 DEF Expire, OnlyOwn
<1>8. GateTypeOK' /\ nextId' <= created' + 1
  <2>1. requests' \in [Tickets -> EntryType]
    <3>1. [requests[i] EXCEPT !.status = "expired"] \in EntryType
      BY <1>5 DEF EntryType, Statuses
    <3>2. requests' = [requests EXCEPT ![i] = [requests[i] EXCEPT !.status = "expired"]]
      BY <1>5 DEF Expire
    <3> QED BY <1>5, <3>1, <3>2, GateTyped DEF Sound
  <2> QED BY <1>6, <2>1 DEF Expire, Sound, GateTypeOK, WorkerType, EntryType
<1>9. (Active(w) => Asks(w, k))'
  <2>1. Unlisted(k) => Unlisted(k)'
    BY <1>5, GateTyped DEF Expire, Sound, Unlisted, EntryType
  <2> QED BY <1>1, <1>2, <1>3, <1>5, <1>6, <2>1 DEF Expire, Asks, At, Approved
<1>10. YesOk(k)' /\ \A j \in Tickets : heard'[j] = "approved" => Approved(drawn[j])
  BY <1>5, <1>3 DEF Expire, Sound, YesOk, Approved
<1>11. Listed(i)'
  <2>1. requests'[i].ticket = requests[i].ticket /\ requests'[i].status = "expired"
    BY <1>5, GateTyped DEF Expire, Sound, EntryType
  <2> QED BY <1>5, <2>1 DEF Expire, Listed, IsPending
<1> QED BY <1>1, <1>2, <1>4, <1>7, <1>8, <1>9, <1>10, <1>11, WorkerStepSound

\* The waiter under the id hears a refusal.
LEMMA SweepSound ==
  ASSUME Sound, NEW w \in Workers, Sweep(w)
  PROVE  Sound' /\ OnlyOwn(w, worker[w].ticket)
<1>1. Active(w) /\ worker[w].at = "sweep"
  BY DEF Sweep, At, Active
<1>2. PICK k : k = worker[w].ticket
  OBVIOUS
<1>3. /\ k \in Tickets /\ k # 0 /\ k <= created /\ Asks(w, k) /\ worker[w].id = drawn[k]
      /\ drawn[k] \in Tickets /\ outcome[k] = "open" /\ drawn[k] # 0 /\ k <= MaxRequests
      /\ worker[w] \in WorkerType /\ worker[w].seat \in 0 .. MaxRequests
  BY <1>1, <1>2, AsksFacts, BoundAssumption DEF Tickets
<1>4. PICK i : i = drawn[k]
  OBVIOUS
<1>5. /\ i \in Tickets /\ worker[w].id = i /\ i # 0 /\ Listed(i) /\ YesOk(k)
      /\ requests[i] \in EntryType /\ waiters[i] \in 0 .. MaxRequests
  BY <1>3, <1>4, GateTyped DEF Sound
<1>6. /\ worker' \in [Workers -> WorkerType]
      /\ worker'[w] = [at |-> "erase", id |-> worker[w].id, ticket |-> worker[w].ticket,
                       seat |-> worker[w].seat]
      /\ \A v \in Workers \ {w} : worker'[v] = worker[v]
  <2>1. "erase" \in WorkerSteps
    BY DEF WorkerSteps
  <2> QED BY <2>1, GoesFacts DEF Sweep, Sound
<1>7. OnlyOwn(w, k)
  <2>1. \A j \in Tickets : j = waiters[i] => drawn[j] = i
    BY <1>5, BoundAssumption DEF Listed, Tickets
  <2>2. \A j \in Tickets : j # waiters[i] => heard'[j] = heard[j]
    BY <1>5 DEF Sweep
  <2> QED BY <1>2, <1>4, <1>6, <2>1, <2>2 DEF Sweep, OnlyOwn
<1>8. GateTypeOK' /\ nextId' <= created' + 1
  <2>1. heard' \in [Tickets -> Answers \cup {"nothing"}]
    BY GateTyped DEF Sweep, Sound, Answers
  <2> QED BY <1>6, <2>1 DEF Sweep, Sound, GateTypeOK, WorkerType
<1>9. (Active(w) => Asks(w, k))'
  BY <1>1, <1>2, <1>3, <1>5, <1>6 DEF Sweep, Asks, At, Unlisted, Approved
<1>10. YesOk(k)' /\ \A j \in Tickets : heard'[j] = "approved" => Approved(drawn[j])
  BY <1>5, <1>3 DEF Sweep, Sound, YesOk, Approved
<1>11. Listed(i)'
  BY <1>5 DEF Sweep, Listed, IsPending
<1> QED BY <1>1, <1>2, <1>4, <1>7, <1>8, <1>9, <1>10, <1>11, WorkerStepSound

\* Whoever's waiter it is leaves the table.
LEMMA EraseSound ==
  ASSUME Sound, NEW w \in Workers, Erase(w)
  PROVE  Sound' /\ OnlyOwn(w, worker[w].ticket)
<1>1. Active(w) /\ worker[w].at = "erase"
  BY DEF Erase, At, Active
<1>2. PICK k : k = worker[w].ticket
  OBVIOUS
<1>3. /\ k \in Tickets /\ k # 0 /\ k <= created /\ Asks(w, k) /\ worker[w].id = drawn[k]
      /\ drawn[k] \in Tickets /\ outcome[k] = "open" /\ drawn[k] # 0 /\ k <= MaxRequests
      /\ worker[w] \in WorkerType /\ worker[w].seat \in 0 .. MaxRequests
  BY <1>1, <1>2, AsksFacts, BoundAssumption DEF Tickets
<1>4. PICK i : i = drawn[k]
  OBVIOUS
<1>5. /\ i \in Tickets /\ worker[w].id = i /\ i # 0 /\ Listed(i) /\ YesOk(k)
      /\ requests[i] \in EntryType /\ waiters[i] \in 0 .. MaxRequests
  BY <1>3, <1>4, GateTyped DEF Sound
<1>6. /\ worker' \in [Workers -> WorkerType]
      /\ worker'[w] = [at |-> "answered", id |-> worker[w].id, ticket |-> worker[w].ticket, seat |-> 0]
      /\ \A v \in Workers \ {w} : worker'[v] = worker[v]
  <2>1. "answered" \in WorkerSteps /\ 0 \in 0 .. MaxRequests
    BY BoundAssumption DEF WorkerSteps
  <2> QED BY <2>1, SitsFacts DEF Erase, Sound
<1>7. OnlyOwn(w, k)
  BY <1>2, <1>3, <1>4, <1>5, <1>6 DEF Erase, OnlyOwn
<1>8. GateTypeOK' /\ nextId' <= created' + 1
  <2>1. waiters' \in [Tickets -> 0 .. MaxRequests]
    <3>1. 0 \in 0 .. MaxRequests
      BY BoundAssumption
    <3> QED BY <1>5, <3>1, GateTyped DEF Erase, Sound
  <2> QED BY <1>6, <2>1 DEF Erase, Sound, GateTypeOK, WorkerType
<1>9. (Active(w) => Asks(w, k))'
  BY <1>1, <1>2, <1>3, <1>5, <1>6 DEF Erase, Asks, At, Unlisted, Approved
<1>10. YesOk(k)' /\ \A j \in Tickets : heard'[j] = "approved" => Approved(drawn[j])
  BY <1>5, <1>3 DEF Erase, Sound, YesOk, Approved
<1>11. Listed(i)'
  <2>1. waiters'[i] = 0
    BY <1>5, GateTyped DEF Erase, Sound
  <2> QED BY <1>5, <2>1 DEF Erase, Listed, IsPending
<1> QED BY <1>1, <1>2, <1>4, <1>7, <1>8, <1>9, <1>10, <1>11, WorkerStepSound

\* The worker takes the waiter it finds under its id.
LEMMA FindWaiterSound ==
  ASSUME Sound, NEW w \in Workers, FindWaiter(w)
  PROVE  Sound' /\ OnlyOwn(w, worker[w].ticket)
<1>1. Active(w) /\ worker[w].at = "find"
  BY DEF FindWaiter, At, Active
<1>2. PICK k : k = worker[w].ticket
  OBVIOUS
<1>3. /\ k \in Tickets /\ k # 0 /\ k <= created /\ Asks(w, k) /\ worker[w].id = drawn[k]
      /\ drawn[k] \in Tickets /\ outcome[k] = "open" /\ drawn[k] # 0 /\ k <= MaxRequests
      /\ worker[w] \in WorkerType /\ worker[w].seat \in 0 .. MaxRequests
  BY <1>1, <1>2, AsksFacts, BoundAssumption DEF Tickets
<1>4. PICK i : i = drawn[k]
  OBVIOUS
<1>5. /\ i \in Tickets /\ worker[w].id = i /\ i # 0 /\ Listed(i) /\ YesOk(k)
      /\ requests[i] \in EntryType /\ waiters[i] \in 0 .. MaxRequests
  BY <1>3, <1>4, GateTyped DEF Sound
<1>6. \E s \in {"answered", "waiting"} :
      /\ worker' \in [Workers -> WorkerType]
      /\ worker'[w] = [at |-> s, id |-> worker[w].id, ticket |-> worker[w].ticket, seat |-> waiters[i]]
      /\ \A v \in Workers \ {w} : worker'[v] = worker[v]
  <2>1. PICK s \in {"answered", "waiting"} : Sits(w, s, waiters[i])
    BY <1>5 DEF FindWaiter
  <2>2. s \in WorkerSteps
    BY DEF WorkerSteps
  <2> QED BY <1>5, <2>1, <2>2, SitsFacts DEF Sound
<1>7. OnlyOwn(w, k)
  BY <1>2, <1>3, <1>4, <1>5, <1>6 DEF FindWaiter, OnlyOwn
<1>8. GateTypeOK' /\ nextId' <= created' + 1
  BY <1>6 DEF FindWaiter, Sound, GateTypeOK, WorkerType
<1>9. (Active(w) => Asks(w, k))'
  BY <1>1, <1>2, <1>3, <1>4, <1>5, <1>6 DEF FindWaiter, Asks, At, Listed, Unlisted, Approved
<1>10. YesOk(k)' /\ \A j \in Tickets : heard'[j] = "approved" => Approved(drawn[j])
  BY <1>5, <1>3 DEF FindWaiter, Sound, YesOk, Approved
<1>11. Listed(i)'
  BY <1>5 DEF FindWaiter, Listed, IsPending
<1> QED BY <1>1, <1>2, <1>4, <1>7, <1>8, <1>9, <1>10, <1>11, WorkerStepSound

\* The wait ends in one way or the other.
LEMMA StopWaitingSound ==
  ASSUME Sound, NEW w \in Workers, StopWaiting(w)
  PROVE  Sound' /\ OnlyOwn(w, worker[w].ticket)
<1>1. Active(w) /\ worker[w].at = "waiting"
  BY DEF StopWaiting, At, Active
<1>2. PICK k : k = worker[w].ticket
  OBVIOUS
<1>3. /\ k \in Tickets /\ k # 0 /\ k <= created /\ Asks(w, k) /\ worker[w].id = drawn[k]
      /\ drawn[k] \in Tickets /\ outcome[k] = "open" /\ drawn[k] # 0 /\ k <= MaxRequests
      /\ worker[w] \in WorkerType /\ worker[w].seat \in 0 .. MaxRequests
  BY <1>1, <1>2, AsksFacts, BoundAssumption DEF Tickets
<1>4. PICK i : i = drawn[k]
  OBVIOUS
<1>5. /\ i \in Tickets /\ worker[w].id = i /\ i # 0 /\ Listed(i) /\ YesOk(k)
      /\ requests[i] \in EntryType /\ waiters[i] \in 0 .. MaxRequests
  BY <1>3, <1>4, GateTyped DEF Sound
<1>6. \E s \in {"answered", "expire"} :
      /\ worker' \in [Workers -> WorkerType]
      /\ worker'[w] = [at |-> s, id |-> worker[w].id, ticket |-> worker[w].ticket,
                       seat |-> worker[w].seat]
      /\ \A v \in Workers \ {w} : worker'[v] = worker[v]
  <2>1. PICK s \in {"answered", "expire"} : Goes(w, s)
    BY DEF StopWaiting
  <2>2. s \in WorkerSteps
    BY DEF WorkerSteps
  <2> QED BY <2>1, <2>2, GoesFacts DEF Sound
<1>7. OnlyOwn(w, k)
  BY <1>2, <1>3, <1>4, <1>5, <1>6 DEF StopWaiting, OnlyOwn
<1>8. GateTypeOK' /\ nextId' <= created' + 1
  BY <1>6 DEF StopWaiting, Sound, GateTypeOK, WorkerType
<1>9. (Active(w) => Asks(w, k))'
  BY <1>1, <1>2, <1>3, <1>5, <1>6 DEF StopWaiting, Asks, At, Unlisted, Approved
<1>10. YesOk(k)' /\ \A j \in Tickets : heard'[j] = "approved" => Approved(drawn[j])
  BY <1>5, <1>3 DEF StopWaiting, Sound, YesOk, Approved
<1>11. Listed(i)'
  BY <1>5 DEF StopWaiting, Listed, IsPending
<1> QED BY <1>1, <1>2, <1>4, <1>7, <1>8, <1>9, <1>10, <1>11, WorkerStepSound

\* A request may be forgotten before its wait begins.
LEMMA AnnounceSound ==
  ASSUME Sound, NEW w \in Workers, Announce(w)
  PROVE  Sound' /\ OnlyOwn(w, worker[w].ticket)
<1>1. Active(w) /\ worker[w].at = "asked"
  BY DEF Announce, At, Active
<1>2. PICK k : k = worker[w].ticket
  OBVIOUS
<1>3. /\ k \in Tickets /\ k # 0 /\ k <= created /\ Asks(w, k) /\ worker[w].id = drawn[k]
      /\ drawn[k] \in Tickets /\ outcome[k] = "open" /\ drawn[k] # 0
      /\ worker[w] \in WorkerType /\ worker[w].seat \in 0 .. MaxRequests
  BY <1>1, <1>2, AsksFacts
<1>4. PICK i : i = drawn[k]
  OBVIOUS
<1>5. /\ i \in Tickets /\ worker[w].id = i /\ i # 0 /\ Listed(i) /\ YesOk(k) /\ GateTypeOK
      /\ requests[i] \in EntryType /\ waiters[i] \in 0 .. MaxRequests
  BY <1>3, <1>4, GateTyped DEF Sound
<1>6. /\ nextId' = nextId /\ created' = created /\ drawn' = drawn /\ requests' = requests
      /\ heard' = heard /\ consent' = consent /\ flag' = flag /\ caller' = caller
      /\ waiters' \in [Tickets -> 0 .. MaxRequests]
      /\ waiters'[i] \in {0, waiters[i]} /\ \A j \in Tickets \ {i} : waiters'[j] = waiters[j]
  BY <1>5, GateTyped DEF Announce, Sound
<1>7. ASSUME NEW s \in {"idle", "stopped"}, NEW o \in {"dropped"}, Closes(w, o, s), o = "ran" => Approved(i)
      PROVE  Sound' /\ OnlyOwn(w, worker[w].ticket)
  <2>1. /\ worker' \in [Workers -> WorkerType] /\ ~Active(w)'
        /\ \A v \in Workers \ {w} : worker'[v] = worker[v]
        /\ outcome' \in [Tickets -> {"open", "ran", "denied", "dropped"}]
        /\ outcome'[k] = o
        /\ \A j \in Tickets \ {k} : outcome'[j] = outcome[j]
    <3>1. worker[w].ticket \in Tickets /\ s \in {"idle", "stopped"} /\ o \in {"ran", "denied", "dropped"}
      BY <1>2, <1>3
    <3> QED BY <1>2, <1>5, <1>7, <3>1, ClosesFacts
  <2>2. OnlyOwn(w, k)
    BY <1>2, <1>4, <1>6, <2>1 DEF OnlyOwn
  <2>3. GateTypeOK' /\ nextId' <= created' + 1
    BY <1>5, <1>6, <2>1 DEF Sound, GateTypeOK, WorkerType
  <2>4. YesOk(k)' /\ \A j \in Tickets : heard'[j] = "approved" => Approved(drawn[j])
    BY <1>4, <1>5, <1>6, <1>7, <2>1 DEF Sound, YesOk, Approved
  <2>5. Listed(i)'
    BY <1>5, <1>6 DEF Listed, IsPending
  <2> QED BY <1>1, <1>2, <1>4, <2>1, <2>2, <2>3, <2>4, <2>5, WorkerStepSound
<1>8. ASSUME Goes(w, "find"), outcome' = outcome
      PROVE  Sound' /\ OnlyOwn(w, worker[w].ticket)
  <2>1. /\ worker' \in [Workers -> WorkerType]
        /\ worker'[w] = [at |-> "find", id |-> worker[w].id, ticket |-> worker[w].ticket,
                         seat |-> worker[w].seat]
        /\ \A v \in Workers \ {w} : worker'[v] = worker[v]
    <3>1. "find" \in WorkerSteps
      BY DEF WorkerSteps
    <3> QED BY <1>5, <1>8, <3>1, GoesFacts
  <2>2. OnlyOwn(w, k)
    BY <1>2, <1>4, <1>6, <1>8, <2>1 DEF OnlyOwn
  <2>3. GateTypeOK' /\ nextId' <= created' + 1
    BY <1>5, <1>6, <1>8, <2>1 DEF Sound, GateTypeOK, WorkerType
  <2>4. (Active(w) => Asks(w, k))'
    BY <1>1, <1>2, <1>3, <1>4, <1>5, <1>6, <1>8, <2>1 DEF Asks, At, Unlisted, Approved
  <2>5. YesOk(k)' /\ \A j \in Tickets : heard'[j] = "approved" => Approved(drawn[j])
    BY <1>5, <1>6, <1>8 DEF Sound, YesOk, Approved
  <2>6. Listed(i)'
    BY <1>5, <1>6 DEF Listed, IsPending
  <2> QED BY <1>1, <1>2, <1>4, <2>2, <2>3, <2>4, <2>5, <2>6, WorkerStepSound
<1> QED BY <1>7, <1>8 DEF Announce

\* What was heard under the worker's seat decides.
LEMMA TakeAnswerSound ==
  ASSUME Sound, NEW w \in Workers, TakeAnswer(w)
  PROVE  Sound' /\ OnlyOwn(w, worker[w].ticket)
<1>1. Active(w) /\ worker[w].at = "answered"
  BY DEF TakeAnswer, At, Active
<1>2. PICK k : k = worker[w].ticket
  OBVIOUS
<1>3. /\ k \in Tickets /\ k # 0 /\ k <= created /\ Asks(w, k) /\ worker[w].id = drawn[k]
      /\ drawn[k] \in Tickets /\ outcome[k] = "open" /\ drawn[k] # 0
      /\ worker[w] \in WorkerType /\ worker[w].seat \in 0 .. MaxRequests
  BY <1>1, <1>2, AsksFacts
<1>4. PICK i : i = drawn[k]
  OBVIOUS
<1>5. /\ i \in Tickets /\ worker[w].id = i /\ i # 0 /\ Listed(i) /\ YesOk(k) /\ GateTypeOK
      /\ requests[i] \in EntryType /\ waiters[i] \in 0 .. MaxRequests
  BY <1>3, <1>4, GateTyped DEF Sound
<1>6. /\ nextId' = nextId /\ created' = created /\ drawn' = drawn /\ requests' = requests
      /\ heard' = heard /\ consent' = consent /\ flag' = flag /\ caller' = caller
      /\ waiters' \in [Tickets -> 0 .. MaxRequests]
      /\ waiters'[i] \in {0, waiters[i]} /\ \A j \in Tickets \ {i} : waiters'[j] = waiters[j]
  <2>1. waiters' = waiters \/ waiters' = [waiters EXCEPT ![i] = 0]
    BY <1>5 DEF TakeAnswer
  <2>2. 0 \in 0 .. MaxRequests
    BY BoundAssumption
  <2> QED BY <1>5, <2>1, <2>2, GateTyped DEF TakeAnswer
<1>7. ASSUME NEW s \in {"idle", "stopped"}, NEW o \in {"denied", "dropped"}, Closes(w, o, s), o = "ran" => Approved(i)
      PROVE  Sound' /\ OnlyOwn(w, worker[w].ticket)
  <2>1. /\ worker' \in [Workers -> WorkerType] /\ ~Active(w)'
        /\ \A v \in Workers \ {w} : worker'[v] = worker[v]
        /\ outcome' \in [Tickets -> {"open", "ran", "denied", "dropped"}]
        /\ outcome'[k] = o
        /\ \A j \in Tickets \ {k} : outcome'[j] = outcome[j]
    <3>1. worker[w].ticket \in Tickets /\ s \in {"idle", "stopped"} /\ o \in {"ran", "denied", "dropped"}
      BY <1>2, <1>3
    <3> QED BY <1>2, <1>5, <1>7, <3>1, ClosesFacts
  <2>2. OnlyOwn(w, k)
    BY <1>2, <1>4, <1>6, <2>1 DEF OnlyOwn
  <2>3. GateTypeOK' /\ nextId' <= created' + 1
    BY <1>5, <1>6, <2>1 DEF Sound, GateTypeOK, WorkerType
  <2>4. YesOk(k)' /\ \A j \in Tickets : heard'[j] = "approved" => Approved(drawn[j])
    BY <1>4, <1>5, <1>6, <1>7, <2>1 DEF Sound, YesOk, Approved
  <2>5. Listed(i)'
    BY <1>5, <1>6 DEF Listed, IsPending
  <2> QED BY <1>1, <1>2, <1>4, <2>1, <2>2, <2>3, <2>4, <2>5, WorkerStepSound
<1>8. ASSUME Goes(w, "granted"), outcome' = outcome, Approved(i)
      PROVE  Sound' /\ OnlyOwn(w, worker[w].ticket)
  <2>1. /\ worker' \in [Workers -> WorkerType]
        /\ worker'[w] = [at |-> "granted", id |-> worker[w].id, ticket |-> worker[w].ticket,
                         seat |-> worker[w].seat]
        /\ \A v \in Workers \ {w} : worker'[v] = worker[v]
    <3>1. "granted" \in WorkerSteps
      BY DEF WorkerSteps
    <3> QED BY <1>5, <1>8, <3>1, GoesFacts
  <2>2. OnlyOwn(w, k)
    BY <1>2, <1>4, <1>6, <1>8, <2>1 DEF OnlyOwn
  <2>3. GateTypeOK' /\ nextId' <= created' + 1
    BY <1>5, <1>6, <1>8, <2>1 DEF Sound, GateTypeOK, WorkerType
  <2>4. (Active(w) => Asks(w, k))'
    BY <1>1, <1>2, <1>3, <1>4, <1>5, <1>6, <1>8, <2>1 DEF Asks, At, Unlisted, Approved
  <2>5. YesOk(k)' /\ \A j \in Tickets : heard'[j] = "approved" => Approved(drawn[j])
    BY <1>5, <1>6, <1>8 DEF Sound, YesOk, Approved
  <2>6. Listed(i)'
    BY <1>5, <1>6 DEF Listed, IsPending
  <2> QED BY <1>1, <1>2, <1>4, <2>2, <2>3, <2>4, <2>5, <2>6, WorkerStepSound
<1>9. worker[w].seat # 0 /\ heard[worker[w].seat] = "approved" => Approved(i)
  <2>1. worker[w].seat # 0 => worker[w].seat \in Tickets /\ drawn[worker[w].seat] = i
    BY <1>3, <1>4, BoundAssumption DEF Asks, Tickets
  <2> QED BY <2>1 DEF Sound, YesOk
<1> QED BY <1>7, <1>8, <1>9 DEF TakeAnswer

\* A tool runs on the yes its worker heard.
LEMMA RunToolSound ==
  ASSUME Sound, NEW w \in Workers, RunTool(w)
  PROVE  Sound' /\ OnlyOwn(w, worker[w].ticket)
<1>1. Active(w) /\ worker[w].at = "granted"
  BY DEF RunTool, At, Active
<1>2. PICK k : k = worker[w].ticket
  OBVIOUS
<1>3. /\ k \in Tickets /\ k # 0 /\ k <= created /\ Asks(w, k) /\ worker[w].id = drawn[k]
      /\ drawn[k] \in Tickets /\ outcome[k] = "open" /\ drawn[k] # 0
      /\ worker[w] \in WorkerType /\ worker[w].seat \in 0 .. MaxRequests
  BY <1>1, <1>2, AsksFacts
<1>4. PICK i : i = drawn[k]
  OBVIOUS
<1>5. /\ i \in Tickets /\ worker[w].id = i /\ i # 0 /\ Listed(i) /\ YesOk(k) /\ GateTypeOK
      /\ requests[i] \in EntryType /\ waiters[i] \in 0 .. MaxRequests
  BY <1>3, <1>4, GateTyped DEF Sound
<1>6. /\ nextId' = nextId /\ created' = created /\ drawn' = drawn /\ requests' = requests
      /\ heard' = heard /\ consent' = consent /\ flag' = flag /\ caller' = caller
      /\ waiters' \in [Tickets -> 0 .. MaxRequests]
      /\ waiters'[i] \in {0, waiters[i]} /\ \A j \in Tickets \ {i} : waiters'[j] = waiters[j]
  BY <1>5, GateTyped DEF RunTool, Sound
<1>7. ASSUME NEW s \in {"idle", "stopped"}, NEW o \in {"ran", "dropped"}, Closes(w, o, s), o = "ran" => Approved(i)
      PROVE  Sound' /\ OnlyOwn(w, worker[w].ticket)
  <2>1. /\ worker' \in [Workers -> WorkerType] /\ ~Active(w)'
        /\ \A v \in Workers \ {w} : worker'[v] = worker[v]
        /\ outcome' \in [Tickets -> {"open", "ran", "denied", "dropped"}]
        /\ outcome'[k] = o
        /\ \A j \in Tickets \ {k} : outcome'[j] = outcome[j]
    <3>1. worker[w].ticket \in Tickets /\ s \in {"idle", "stopped"} /\ o \in {"ran", "denied", "dropped"}
      BY <1>2, <1>3
    <3> QED BY <1>2, <1>5, <1>7, <3>1, ClosesFacts
  <2>2. OnlyOwn(w, k)
    BY <1>2, <1>4, <1>6, <2>1 DEF OnlyOwn
  <2>3. GateTypeOK' /\ nextId' <= created' + 1
    BY <1>5, <1>6, <2>1 DEF Sound, GateTypeOK, WorkerType
  <2>4. YesOk(k)' /\ \A j \in Tickets : heard'[j] = "approved" => Approved(drawn[j])
    BY <1>4, <1>5, <1>6, <1>7, <2>1 DEF Sound, YesOk, Approved
  <2>5. Listed(i)'
    BY <1>5, <1>6 DEF Listed, IsPending
  <2> QED BY <1>1, <1>2, <1>4, <2>1, <2>2, <2>3, <2>4, <2>5, WorkerStepSound
<1>8. Approved(i)
  BY <1>1, <1>3, <1>4 DEF Asks, At
<1> QED BY <1>7, <1>8 DEF RunTool
-----------------------------------------------------------------------------
(* The steps of a handler.                                                   *)

\* A handler's step moves nothing but itself, and consent or what is heard.
LEMMA HandlerStepSound ==
  ASSUME Sound, NEW c \in Callers,
         UNCHANGED <<nextId, created, drawn, waiters, outcome, worker, flag>>,
         \A i \in Tickets : requests'[i].ticket = requests[i].ticket
           /\ (IsPending(i)' => IsPending(i) /\ consent'[requests[i].ticket] = consent[requests[i].ticket]),
         \A k \in Tickets : consent'[k] = consent[k] \/ (consent[k] = "none" /\ ~Unlisted(k) /\ drawn[k] # 0),
         \A k \in Tickets : heard'[k] # heard[k] =>
           drawn[k] # 0 /\ (heard'[k] = "approved" => Approved(drawn[k])),
         \A d \in Callers \ {c} : caller'[d] = caller[d],
         GateTypeOK', Handles(c)'
  PROVE  Sound'
<1>1. ASSUME NEW i, Approved(i) PROVE Approved(i)'
  BY <1>1 DEF Approved
<1>2. OwnerInv' /\ nextId' <= created' + 1
  BY DEF Sound, OwnerInv, Active
<1>3. ASSUME NEW w \in Workers PROVE (Active(w) => Asks(w, worker[w].ticket))'
  <2>1. CASE Active(w)
    <3>1. PICK k : k = worker[w].ticket
      OBVIOUS
    <3>2. k \in Tickets /\ Asks(w, k)
      BY <2>1, <3>1, AsksFacts
    <3>3. Unlisted(k) <=> Unlisted(k)'
      BY DEF Unlisted
    <3>4. PICK i : i = drawn[k]
      OBVIOUS
    <3>5. Asks(w, k)'
      BY <1>1, <3>2, <3>3, <3>4 DEF Asks, At, Approved
    <3> QED BY <3>1, <3>5 DEF Asks, At, Unlisted, Approved
  <2>2. CASE ~Active(w)
    BY <2>2 DEF Active
  <2> QED BY <2>1, <2>2
<1>4. ASSUME NEW k \in Tickets PROVE Drawn(k)' /\ YesOk(k)'
  <2>1. Drawn(k) /\ YesOk(k)
    BY DEF Sound
  <2>2. PICK i : i = drawn[k]
    OBVIOUS
  <2>3. Drawn(k)'
    BY <2>1 DEF Drawn
  <2>4. heard'[k] = "approved" \/ outcome'[k] = "ran" => Approved(i)
    BY <2>1, <2>2 DEF YesOk
  <2> QED BY <1>1, <2>2, <2>3, <2>4 DEF YesOk, Approved
<1>5. \A i \in Tickets : Listed(i)'
  BY DEF Sound, Listed
<1>6. ASSUME NEW d \in Callers \ {c} PROVE Handles(d)'
  <2>1. caller[d] \in CallerType /\ Handles(d) /\ caller'[d] = caller[d]
    BY GateTyped DEF Sound
  <2>2. PICK i : i = caller[d].id
    OBVIOUS
  <2>3. i # 0 => i \in Tickets
    BY <2>1, <2>2, BoundAssumption DEF CallerType, Tickets
  <2> QED BY <1>1, <2>1, <2>2, <2>3 DEF Handles, Approved
<1> QED BY <1>2, <1>3, <1>4, <1>5, <1>6 DEF Sound

\* What a handler past its first look knows.
LEMMA HandlesFacts ==
  ASSUME Sound, NEW c \in Callers, caller[c].at # "idle", NEW i, i = caller[c].id
  PROVE  /\ i \in Tickets /\ i # 0 /\ caller[c] \in CallerType /\ caller[c].answer \in Answers
         /\ requests[i].ticket \in Tickets /\ requests[i].ticket # 0 /\ requests[i] \in EntryType
         /\ drawn[requests[i].ticket] = i /\ Listed(i) /\ waiters[i] \in 0 .. MaxRequests
<1>1. caller[c] \in CallerType /\ Handles(c)
  BY GateTyped DEF Sound
<1>2. i \in Tickets /\ i # 0 /\ requests[i].ticket # 0
  BY <1>1, BoundAssumption DEF CallerType, Handles, Tickets
<1>3. requests[i] \in EntryType /\ waiters[i] \in 0 .. MaxRequests /\ Listed(i)
  BY <1>2, GateTyped DEF Sound
<1> QED BY <1>1, <1>2, <1>3, BoundAssumption DEF CallerType, EntryType, Listed, Tickets

\* A first look finds an entry.
LEMMA LookUpSound ==
  ASSUME Sound, NEW c \in Callers, LookUp(c)
  PROVE  Sound'
<1>1. PICK i \in Tickets, a \in Answers :
        /\ IsPending(i)
        /\ caller' = [caller EXCEPT ![c] = [at |-> "checked", id |-> i, answer |-> a]]
  BY DEF LookUp
<1>2. UNCHANGED <<nextId, created, drawn, requests, waiters, heard, consent, outcome, worker, flag>>
  BY DEF LookUp
<1>3. [at |-> "checked", id |-> i, answer |-> a] \in CallerType
  BY <1>1, BoundAssumption DEF CallerType, Tickets
<1>4. caller \in [Callers -> CallerType] /\ GateTypeOK
  BY GateTyped DEF Sound
<1>5. /\ caller' \in [Callers -> CallerType]
      /\ caller'[c] = [at |-> "checked", id |-> i, answer |-> a]
      /\ \A d \in Callers \ {c} : caller'[d] = caller[d]
  BY <1>1, <1>3, <1>4
<1>6. GateTypeOK'
  BY <1>2, <1>4, <1>5 DEF GateTypeOK, CallerType
<1>7. Handles(c)'
  BY <1>1, <1>2, <1>5, BoundAssumption DEF Handles, IsPending, Tickets
<1> QED BY <1>2, <1>5, <1>6, <1>7, HandlerStepSound DEF IsPending

\* The one call that finds the request pending writes the user's word beside it.
LEMMA ClaimSound ==
  ASSUME Sound, NEW c \in Callers, Claim(c)
  PROVE  Sound'
<1>0. caller[c].at = "checked"
  BY DEF Claim
<1>1. PICK i : i = caller[c].id
  OBVIOUS
<1>2. PICK t : t = requests[i].ticket
  OBVIOUS
<1>3. PICK a : a = caller[c].answer
  OBVIOUS
<1>4. /\ i \in Tickets /\ i # 0 /\ caller[c] \in CallerType /\ a \in Answers
      /\ t \in Tickets /\ t # 0 /\ requests[i] \in EntryType /\ drawn[t] = i /\ Listed(i)
  BY <1>0, <1>1, <1>2, <1>3, HandlesFacts
<1>5. /\ GateTypeOK /\ caller \in [Callers -> CallerType] /\ requests \in [Tickets -> EntryType]
      /\ consent \in [Tickets -> Answers \cup {"none"}]
  BY GateTyped DEF Sound
<1>6. UNCHANGED <<nextId, created, drawn, waiters, heard, outcome, worker, flag>>
  BY DEF Claim
<1>7. CASE IsPending(i)
  <2>1. /\ requests' = [requests EXCEPT ![i] = [requests[i] EXCEPT !.status = a]]
        /\ consent' = [consent EXCEPT ![t] = a]
        /\ caller' = [caller EXCEPT ![c] = [caller[c] EXCEPT !.at = "claimed"]]
    BY <1>1, <1>2, <1>3, <1>7 DEF Claim
  <2>2. /\ [requests[i] EXCEPT !.status = a] = [ticket |-> t, status |-> a]
        /\ [ticket |-> t, status |-> a] \in EntryType
    BY <1>2, <1>4 DEF EntryType, Statuses, Answers
  <2>3. /\ [caller[c] EXCEPT !.at = "claimed"] = [at |-> "claimed", id |-> i, answer |-> a]
        /\ [at |-> "claimed", id |-> i, answer |-> a] \in CallerType
    BY <1>1, <1>3, <1>4 DEF CallerType
  <2>4. /\ requests' \in [Tickets -> EntryType] /\ requests'[i] = [ticket |-> t, status |-> a]
        /\ \A l \in Tickets \ {i} : requests'[l] = requests[l]
        /\ consent' \in [Tickets -> Answers \cup {"none"}] /\ consent'[t] = a
        /\ \A k \in Tickets \ {t} : consent'[k] = consent[k]
        /\ caller' \in [Callers -> CallerType]
        /\ caller'[c] = [at |-> "claimed", id |-> i, answer |-> a]
        /\ \A d \in Callers \ {c} : caller'[d] = caller[d]
    BY <1>4, <1>5, <2>1, <2>2, <2>3
  <2>5. GateTypeOK'
    BY <1>5, <1>6, <2>4 DEF GateTypeOK, EntryType, CallerType
  <2>6. consent[t] = "none" /\ ~Unlisted(t)
    BY <1>2, <1>4, <1>7 DEF Listed, Unlisted
  <2>7. Handles(c)'
    BY <1>4, <1>6, <2>4 DEF Handles, Approved
  <2>8. ASSUME NEW l \in Tickets
        PROVE  requests'[l].ticket = requests[l].ticket
               /\ (IsPending(l)' => IsPending(l)
                   /\ consent'[requests[l].ticket] = consent[requests[l].ticket])
    <3>1. CASE l = i
      BY <1>2, <1>4, <2>4, <3>1 DEF IsPending, Answers
    <3>2. CASE l # i
      <4>1. requests[l] \in EntryType /\ Listed(l)
        BY <1>5 DEF Sound
      <4>2. requests[l].ticket # 0 => requests[l].ticket \in Tickets \ {t}
        BY <1>4, <3>2, <4>1, BoundAssumption DEF EntryType, Listed, Tickets
      <4> QED BY <2>4, <3>2, <4>2 DEF IsPending
    <3> QED BY <3>1, <3>2
  <2> QED BY <1>4, <1>6, <2>4, <2>5, <2>6, <2>7, <2>8, HandlerStepSound
<1>8. CASE ~IsPending(i)
  <2>1. UNCHANGED <<requests, consent>> /\ caller' = [caller EXCEPT ![c] = NoAnswer]
    BY <1>1, <1>8 DEF Claim
  <2>2. NoAnswer \in CallerType /\ NoAnswer.at = "idle"
    BY FreeTypes DEF NoAnswer
  <2>3. /\ caller' \in [Callers -> CallerType] /\ caller'[c].at = "idle"
        /\ \A d \in Callers \ {c} : caller'[d] = caller[d]
    BY <1>5, <2>1, <2>2
  <2>4. GateTypeOK'
    BY <1>5, <1>6, <2>1, <2>3 DEF GateTypeOK, CallerType
  <2>5. Handles(c)'
    BY <2>3 DEF Handles
  <2> QED BY <1>6, <2>1, <2>3, <2>4, <2>5, HandlerStepSound DEF IsPending
<1> QED BY <1>7, <1>8

\* The waiter under the id hears the answer.
LEMMA NotifySound ==
  ASSUME Sound, NEW c \in Callers, Notify(c)
  PROVE  Sound'
<1>0. caller[c].at = "claimed"
  BY DEF Notify
<1>1. PICK i : i = caller[c].id
  OBVIOUS
<1>2. /\ i \in Tickets /\ i # 0 /\ caller[c] \in CallerType /\ caller[c].answer \in Answers
      /\ Listed(i) /\ waiters[i] \in 0 .. MaxRequests
  BY <1>0, <1>1, HandlesFacts
<1>3. caller[c].answer = "approved" => Approved(i)
  BY <1>0, <1>1 DEF Sound, Handles
<1>4. /\ UNCHANGED <<nextId, created, drawn, requests, waiters, consent, outcome, worker, flag>>
      /\ caller' = [caller EXCEPT ![c] = NoAnswer]
      /\ heard' = [k \in Tickets |-> IF k = waiters[i] THEN caller[c].answer ELSE heard[k]]
  BY <1>1 DEF Notify
<1>5. /\ GateTypeOK /\ caller \in [Callers -> CallerType]
      /\ heard \in [Tickets -> Answers \cup {"nothing"}]
  BY GateTyped DEF Sound
<1>6. NoAnswer \in CallerType /\ NoAnswer.at = "idle"
  BY FreeTypes DEF NoAnswer
<1>7. /\ caller' \in [Callers -> CallerType] /\ caller'[c].at = "idle"
      /\ \A d \in Callers \ {c} : caller'[d] = caller[d]
  BY <1>4, <1>5, <1>6
<1>8. GateTypeOK'
  <2>1. heard' \in [Tickets -> Answers \cup {"nothing"}]
    BY <1>2, <1>4, <1>5
  <2> QED BY <1>4, <1>5, <1>7, <2>1 DEF GateTypeOK, CallerType
<1>9. Handles(c)'
  BY <1>7 DEF Handles
<1>10. ASSUME NEW k \in Tickets, heard'[k] # heard[k]
       PROVE  drawn[k] # 0 /\ (heard'[k] = "approved" => Approved(drawn[k]))
  <2>1. k = waiters[i] /\ k # 0 /\ heard'[k] = caller[c].answer
    BY <1>4, <1>10, BoundAssumption DEF Tickets
  <2> QED BY <1>2, <1>3, <2>1 DEF Listed
<1> QED BY <1>4, <1>7, <1>8, <1>9, <1>10, HandlerStepSound DEF IsPending

-----------------------------------------------------------------------------
\* A cancel only sets the flag.
LEMMA CancelSound ==
  ASSUME Sound, NEW w \in Workers, CancelTask(w)
  PROVE  Sound'
<1>1. UNCHANGED <<nextId, created, drawn, requests, waiters, heard, consent, outcome, worker, caller>>
  BY DEF CancelTask
<1>2. GateTypeOK'
  BY DEF CancelTask, Sound, GateTypeOK
<1> QED BY <1>1, <1>2 DEF Sound, OwnerInv, Active, Asks, At, Unlisted, Approved, Drawn, YesOk, Listed,
           IsPending, Handles

\* Every step keeps the invariant, whatever ids are drawn.
LEMMA StepSound == Sound /\ [GateNext]_gateVars => Sound'
<1> SUFFICES ASSUME Sound, [GateNext]_gateVars PROVE Sound'
  OBVIOUS
<1>1. ASSUME NEW w \in Workers, AskStep(w) PROVE Sound'
  BY <1>1, ReadIdSound, StoreIdSound, InsertRequestSound, InsertWaiterSound, AnnounceSound DEF AskStep
<1>2. ASSUME NEW w \in Workers, WaitStep(w) PROVE Sound'
  BY <1>2, FindWaiterSound, StopWaitingSound, ExpireSound, SweepSound, EraseSound, TakeAnswerSound,
     RunToolSound DEF WaitStep
<1>3. ASSUME NEW c \in Callers, CallerStep(c) PROVE Sound'
  BY <1>3, LookUpSound, ClaimSound, NotifySound DEF CallerStep
<1>4. CASE UNCHANGED gateVars
  BY <1>4 DEF gateVars, Sound, GateTypeOK, OwnerInv, Active, Asks, At, Unlisted, Approved, Drawn, YesOk,
     Listed, IsPending, Handles
<1> QED BY <1>1, <1>2, <1>3, <1>4, CancelSound DEF GateNext

\* The first invariant holds in every state.
THEOREM GateIsSound == GateSpec => []Sound
BY InitSound, StepSound, PTL DEF GateSpec

\* Type correctness of the permission gate.
THEOREM GateTypes == GateSpec => []GateTypeOK
<1>1. Sound => GateTypeOK
  BY DEF Sound
<1> QED BY <1>1, GateIsSound, PTL

\* No tool that waited for consent runs unless the user approved a request of its id,
\* however many workers and handlers race and however many requests share an id.
THEOREM NothingRunsUnasked == GateSpec => []ConsentToRun
<1>1. Sound => ConsentToRun
  BY DEF Sound, YesOk, ConsentToRun
<1> QED BY <1>1, GateIsSound, PTL

\* Of two handlers that race for a request one is told that it answered, and its
\* answer stands.
THEOREM OneAnswerPerRequest == GateSpec => FirstAnswerCounts
<1>1. ASSUME Sound, [GateNext]_gateVars, NEW k \in Tickets, consent[k] # "none"
      PROVE  consent'[k] = consent[k]
  <2>1. ASSUME NEW c \in Callers, Claim(c) PROVE consent'[k] = consent[k]
    <3>1. PICK i : i = caller[c].id
      OBVIOUS
    <3>2. caller[c].at # "idle"
      BY <2>1 DEF Claim
    <3>3. Listed(i) /\ requests[i].ticket \in Tickets /\ consent \in [Tickets -> Answers \cup {"none"}]
      BY <1>1, <3>1, <3>2, HandlesFacts, GateTyped DEF Sound
    <3>4. CASE IsPending(i)
      BY <1>1, <2>1, <3>1, <3>3, <3>4 DEF Claim, Listed
    <3>5. CASE ~IsPending(i)
      BY <2>1, <3>1, <3>5 DEF Claim
    <3> QED BY <3>4, <3>5
  <2>2. ASSUME NEW w \in Workers, AskStep(w) \/ WaitStep(w) \/ CancelTask(w) PROVE consent' = consent
    BY <2>2 DEF AskStep, WaitStep, CancelTask, ReadId, StoreId, InsertRequest, InsertWaiter, Announce,
       FindWaiter, StopWaiting, Expire, Sweep, Erase, TakeAnswer, RunTool
  <2>3. ASSUME NEW c \in Callers, LookUp(c) \/ Notify(c) PROVE consent' = consent
    BY <2>3 DEF LookUp, Notify
  <2> QED BY <1>1, <2>1, <2>2, <2>3 DEF GateNext, CallerStep, gateVars
<1>2. Sound /\ [GateNext]_gateVars => [\A k \in Tickets : consent[k] # "none" => consent'[k] = consent[k]]_gateVars
  BY <1>1
<1> QED BY <1>2, GateIsSound, PTL DEF GateSpec, FirstAnswerCounts
-----------------------------------------------------------------------------
(* The second invariant: request k drew the id i and nobody else did.        *)

\* What the worker of the request finds under the id.
OwnWorker(w, k, i) ==
  /\ worker[w].at \in {"waiter", "asked", "find", "waiting", "expire", "granted"} =>
       requests[i].ticket = k /\ requests[i].status # "expired"
  /\ worker[w].at \in {"sweep", "erase"} => requests[i].ticket = k /\ requests[i].status = "expired"
  /\ At(w, "answered") => /\ requests[i].ticket = k
                          /\ requests[i].status = "expired" <=> worker[w].seat = 0
                          /\ worker[w].seat # 0 => worker[w].seat = k /\ heard[k] # "nothing"
  /\ worker[w].at \in {"asked", "find", "waiting", "expire", "sweep", "erase"} => waiters[i] = k
  /\ worker[w].at \in {"waiting", "expire", "sweep", "erase", "granted"} => worker[w].seat = k
  /\ At(w, "granted") => heard[k] = "approved"

\* How what is filed under the request and under its id agree.
OwnRequest(k, i) ==
  /\ requests[i].ticket = 0 => consent[k] = "none" /\ heard[k] = "nothing" /\ outcome[k] = "open"
  /\ requests[i].ticket = k =>
       requests[i].status \in {"expired", IF consent[k] = "none" THEN "pending" ELSE consent[k]}
  /\ heard[k] = "approved" => consent[k] = "approved"
  /\ heard[k] = "rejected" => requests[i].status = "expired" \/ consent[k] = "rejected"
  /\ outcome[k] = "ran" => requests[i].status = "approved"
  /\ outcome[k] = "denied" => requests[i].status \in {"rejected", "expired"}

Own(k, i) ==
  /\ OwnRequest(k, i)
  /\ \A w \in Workers : Active(w) /\ worker[w].ticket = k => OwnWorker(w, k, i)
  /\ \A c \in Callers : caller[c].at = "claimed" /\ caller[c].id = i => consent[k] = caller[c].answer

Serial == \A k \in Tickets : drawn[k] # 0 /\ Unshared(k) => Own(k, drawn[k])

\* Nobody else's entry or waiter is filed under an id that one request drew.
LEMMA OwnFacts ==
  ASSUME Sound, NEW k \in Tickets, Unshared(k), NEW i, i = drawn[k], i # 0
  PROVE  /\ i \in Tickets /\ requests[i].ticket \in {0, k} /\ waiters[i] \in {0, k}
         /\ requests[i] \in EntryType /\ consent[k] \in Answers \cup {"none"}
         /\ heard[k] \in Answers \cup {"nothing"}
<1>1. /\ drawn[k] \in 0 .. MaxRequests /\ consent[k] \in Answers \cup {"none"}
      /\ heard[k] \in Answers \cup {"nothing"}
  BY GateTyped DEF Sound
<1>2. i \in Tickets
  BY <1>1, BoundAssumption DEF Tickets
<1>3. Listed(i) /\ requests[i] \in EntryType /\ waiters[i] \in 0 .. MaxRequests
  BY <1>2, GateTyped DEF Sound
<1>4. /\ requests[i].ticket # 0 => requests[i].ticket \in Tickets
      /\ waiters[i] # 0 => waiters[i] \in Tickets
  BY <1>3, BoundAssumption DEF EntryType, Tickets
<1> QED BY <1>1, <1>2, <1>3, <1>4 DEF Listed, Unshared

\* What belongs to the request is as it was.
SameRequest(k, i) ==
  /\ requests'[i] = requests[i] /\ waiters'[i] = waiters[i]
  /\ heard'[k] = heard[k] /\ consent'[k] = consent[k] /\ outcome'[k] = outcome[k]
  /\ \A w \in Workers : Active(w)' /\ worker'[w].ticket = k => worker'[w] = worker[w]
  /\ \A c \in Callers : caller'[c].at = "claimed" /\ caller'[c].id = i => caller'[c] = caller[c]

LEMMA OwnKept ==
  ASSUME NEW k, NEW i, Own(k, i), SameRequest(k, i)
  PROVE  Own(k, i)'
<1>1. OwnRequest(k, i)'
  BY DEF Own, SameRequest, OwnRequest
<1>2. ASSUME NEW w \in Workers, Active(w)', worker'[w].ticket = k PROVE OwnWorker(w, k, i)'
  <2>1. worker'[w] = worker[w]
    BY <1>2 DEF SameRequest
  <2>2. OwnWorker(w, k, i)
    BY <1>2, <2>1 DEF Own, Active
  <2> QED BY <2>1, <2>2 DEF OwnWorker, SameRequest, At
<1>3. ASSUME NEW c \in Callers, caller'[c].at = "claimed", caller'[c].id = i
      PROVE  consent'[k] = caller'[c].answer
  BY <1>3 DEF Own, SameRequest
<1> QED BY <1>1, <1>2, <1>3 DEF Own

\* The worker of another request does not come near.
LEMMA OtherStep ==
  ASSUME Sound, NEW w \in Workers, Active(w), OnlyOwn(w, worker[w].ticket),
         NEW k \in Tickets, worker[w].ticket # k, Unshared(k), NEW i, i = drawn[k], i # 0, Own(k, i)
  PROVE  Own(k, i)'
<1>1. PICK j : j = worker[w].ticket
  OBVIOUS
<1>2. j \in Tickets /\ j # k /\ drawn[j] # i /\ i \in Tickets
  BY <1>1, AsksFacts, OwnFacts DEF Unshared
<1>3. OnlyOwn(w, j)
  BY <1>1
<1>4. SameRequest(k, i)
  BY <1>2, <1>3 DEF OnlyOwn, SameRequest, Active
<1> QED BY <1>4, OwnKept

\* The request's own worker.
LEMMA OwnStep ==
  ASSUME Sound, NEW w \in Workers, Active(w), OnlyOwn(w, worker[w].ticket),
         NEW k, k = worker[w].ticket, NEW i, Own(k, i),
         OwnRequest(k, i)', Active(w)' => OwnWorker(w, k, i)'
  PROVE  Own(k, i)'
<1>1. OnlyOwn(w, k)
  OBVIOUS
<1>2. \A v \in Workers \ {w} : Active(v)' => worker'[v].ticket # k
  BY <1>1 DEF Sound, OwnerInv, OnlyOwn, Active
<1>3. \A c \in Callers : caller'[c].at = "claimed" /\ caller'[c].id = i => consent'[k] = caller'[c].answer
  BY <1>1 DEF OnlyOwn, Own
<1> QED BY <1>2, <1>3 DEF Own

\* Nothing is filed under the id yet.
LEMMA StoreIdOwn ==
  ASSUME Sound, NEW w \in Workers, StoreId(w), NEW k, k = worker[w].ticket, Unshared(k),
         NEW i, i = drawn[k], Own(k, i)
  PROVE  Own(k, i)'
<1>1. Active(w) /\ worker[w].at = "id"
  BY DEF StoreId, At, Active
<1>2. /\ k \in Tickets /\ k # 0 /\ i # 0 /\ worker[w].id = i /\ outcome[k] = "open" /\ Asks(w, k)
      /\ worker[w] \in WorkerType /\ worker[w].seat \in 0 .. MaxRequests
  BY <1>1, AsksFacts
<1>3. /\ i \in Tickets /\ requests[i].ticket \in {0, k} /\ waiters[i] \in {0, k}
      /\ requests[i] \in EntryType /\ consent[k] \in Answers \cup {"none"}
      /\ heard[k] \in Answers \cup {"nothing"}
  BY <1>2, OwnFacts
<1>4. OnlyOwn(w, worker[w].ticket) /\ GateTypeOK
  BY StoreIdSound DEF Sound
<1>5. OwnRequest(k, i) /\ OwnWorker(w, k, i)
  BY <1>1 DEF Own
<1>6. worker'[w] = [at |-> "insert", id |-> i, ticket |-> k, seat |-> worker[w].seat]
  <2>1. "insert" \in WorkerSteps
    BY DEF WorkerSteps
  <2> QED BY <1>2, <1>4, <2>1, GoesFacts DEF StoreId
<1>7. OwnRequest(k, i)'
  BY <1>1, <1>2, <1>3, <1>5, <1>6 DEF StoreId, OwnRequest, OwnWorker, Answers
<1>8. Active(w)' => OwnWorker(w, k, i)'
  BY <1>1, <1>2, <1>3, <1>5, <1>6 DEF StoreId, OwnRequest, OwnWorker, At, Answers
<1> QED BY <1>1, <1>4, <1>7, <1>8, OwnStep

\* The request is filed under an id that had no entry.
LEMMA InsertRequestOwn ==
  ASSUME Sound, NEW w \in Workers, InsertRequest(w), NEW k, k = worker[w].ticket, Unshared(k),
         NEW i, i = drawn[k], Own(k, i)
  PROVE  Own(k, i)'
<1>1. Active(w) /\ worker[w].at = "insert"
  BY DEF InsertRequest, At, Active
<1>2. /\ k \in Tickets /\ k # 0 /\ i # 0 /\ worker[w].id = i /\ outcome[k] = "open" /\ Asks(w, k)
      /\ worker[w] \in WorkerType /\ worker[w].seat \in 0 .. MaxRequests
  BY <1>1, AsksFacts
<1>3. /\ i \in Tickets /\ requests[i].ticket \in {0, k} /\ waiters[i] \in {0, k}
      /\ requests[i] \in EntryType /\ consent[k] \in Answers \cup {"none"}
      /\ heard[k] \in Answers \cup {"nothing"}
  BY <1>2, OwnFacts
<1>4. OnlyOwn(w, worker[w].ticket) /\ GateTypeOK
  BY InsertRequestSound DEF Sound
<1>5. OwnRequest(k, i) /\ OwnWorker(w, k, i)
  BY <1>1 DEF Own
<1>6. worker'[w] = [at |-> "waiter", id |-> i, ticket |-> k, seat |-> worker[w].seat]
  <2>1. "waiter" \in WorkerSteps
    BY DEF WorkerSteps
  <2> QED BY <1>2, <1>4, <2>1, GoesFacts DEF InsertRequest
<1>9. requests'[i] = [ticket |-> k, status |-> "pending"]
  BY <1>2, <1>3, GateTyped DEF InsertRequest, Sound
<1>10. requests[i].ticket = 0 /\ consent[k] = "none"
  BY <1>1, <1>2, <1>3 DEF Asks, Unlisted
<1>7. OwnRequest(k, i)'
  BY <1>1, <1>2, <1>3, <1>5, <1>6, <1>9, <1>10 DEF InsertRequest, OwnRequest, OwnWorker, Answers
<1>8. Active(w)' => OwnWorker(w, k, i)'
  BY <1>1, <1>2, <1>3, <1>5, <1>6, <1>9, <1>10 DEF InsertRequest, OwnRequest, OwnWorker, At, Answers
<1> QED BY <1>1, <1>4, <1>7, <1>8, OwnStep

\* So is its waiter.
LEMMA InsertWaiterOwn ==
  ASSUME Sound, NEW w \in Workers, InsertWaiter(w), NEW k, k = worker[w].ticket, Unshared(k),
         NEW i, i = drawn[k], Own(k, i)
  PROVE  Own(k, i)'
<1>1. Active(w) /\ worker[w].at = "waiter"
  BY DEF InsertWaiter, At, Active
<1>2. /\ k \in Tickets /\ k # 0 /\ i # 0 /\ worker[w].id = i /\ outcome[k] = "open" /\ Asks(w, k)
      /\ worker[w] \in WorkerType /\ worker[w].seat \in 0 .. MaxRequests
  BY <1>1, AsksFacts
<1>3. /\ i \in Tickets /\ requests[i].ticket \in {0, k} /\ waiters[i] \in {0, k}
      /\ requests[i] \in EntryType /\ consent[k] \in Answers \cup {"none"}
      /\ heard[k] \in Answers \cup {"nothing"}
  BY <1>2, OwnFacts
<1>4. OnlyOwn(w, worker[w].ticket) /\ GateTypeOK
  BY InsertWaiterSound DEF Sound
<1>5. OwnRequest(k, i) /\ OwnWorker(w, k, i)
  BY <1>1 DEF Own
<1>6. worker'[w] = [at |-> "asked", id |-> i, ticket |-> k, seat |-> worker[w].seat]
  <2>1. "asked" \in WorkerSteps
    BY DEF WorkerSteps
  <2> QED BY <1>2, <1>4, <2>1, GoesFacts DEF InsertWaiter
<1>9. waiters'[i] = k
  BY <1>2, <1>3, GateTyped DEF InsertWaiter, Sound
<1>7. OwnRequest(k, i)'
  BY <1>1, <1>2, <1>3, <1>5, <1>6, <1>9 DEF InsertWaiter, OwnRequest, OwnWorker, Answers
<1>8. Active(w)' => OwnWorker(w, k, i)'
  BY <1>1, <1>2, <1>3, <1>5, <1>6, <1>9 DEF InsertWaiter, OwnRequest, OwnWorker, At, Answers
<1> QED BY <1>1, <1>4, <1>7, <1>8, OwnStep

\* The request's own entry expires.
LEMMA ExpireOwn ==
  ASSUME Sound, NEW w \in Workers, Expire(w), NEW k, k = worker[w].ticket, Unshared(k),
         NEW i, i = drawn[k], Own(k, i)
  PROVE  Own(k, i)'
<1>1. Active(w) /\ worker[w].at = "expire"
  BY DEF Expire, At, Active
<1>2. /\ k \in Tickets /\ k # 0 /\ i # 0 /\ worker[w].id = i /\ outcome[k] = "open" /\ Asks(w, k)
      /\ worker[w] \in WorkerType /\ worker[w].seat \in 0 .. MaxRequests
  BY <1>1, AsksFacts
<1>3. /\ i \in Tickets /\ requests[i].ticket \in {0, k} /\ waiters[i] \in {0, k}
      /\ requests[i] \in EntryType /\ consent[k] \in Answers \cup {"none"}
      /\ heard[k] \in Answers \cup {"nothing"}
  BY <1>2, OwnFacts
<1>4. OnlyOwn(w, worker[w].ticket) /\ GateTypeOK
  BY ExpireSound DEF Sound
<1>5. OwnRequest(k, i) /\ OwnWorker(w, k, i)
  BY <1>1 DEF Own
<1>6. worker'[w] = [at |-> "sweep", id |-> i, ticket |-> k, seat |-> worker[w].seat]
  <2>1. "sweep" \in WorkerSteps
    BY DEF WorkerSteps
  <2> QED BY <1>2, <1>4, <2>1, GoesFacts DEF Expire
<1>9. requests'[i].ticket = requests[i].ticket /\ requests'[i].status = "expired"
  BY <1>2, <1>3, GateTyped DEF Expire, Sound, EntryType
<1>7. OwnRequest(k, i)'
  BY <1>1, <1>2, <1>3, <1>5, <1>6, <1>9 DEF Expire, OwnRequest, OwnWorker, Answers
<1>8. Active(w)' => OwnWorker(w, k, i)'
  BY <1>1, <1>2, <1>3, <1>5, <1>6, <1>9 DEF Expire, OwnRequest, OwnWorker, At, Answers
<1> QED BY <1>1, <1>4, <1>7, <1>8, OwnStep

\* The request's own waiter hears a refusal.
LEMMA SweepOwn ==
  ASSUME Sound, NEW w \in Workers, Sweep(w), NEW k, k = worker[w].ticket, Unshared(k),
         NEW i, i = drawn[k], Own(k, i)
  PROVE  Own(k, i)'
<1>1. Active(w) /\ worker[w].at = "sweep"
  BY DEF Sweep, At, Active
<1>2. /\ k \in Tickets /\ k # 0 /\ i # 0 /\ worker[w].id = i /\ outcome[k] = "open" /\ Asks(w, k)
      /\ worker[w] \in WorkerType /\ worker[w].seat \in 0 .. MaxRequests
  BY <1>1, AsksFacts
<1>3. /\ i \in Tickets /\ requests[i].ticket \in {0, k} /\ waiters[i] \in {0, k}
      /\ requests[i] \in EntryType /\ consent[k] \in Answers \cup {"none"}
      /\ heard[k] \in Answers \cup {"nothing"}
  BY <1>2, OwnFacts
<1>4. OnlyOwn(w, worker[w].ticket) /\ GateTypeOK
  BY SweepSound DEF Sound
<1>5. OwnRequest(k, i) /\ OwnWorker(w, k, i)
  BY <1>1 DEF Own
<1>6. worker'[w] = [at |-> "erase", id |-> i, ticket |-> k, seat |-> worker[w].seat]
  <2>1. "erase" \in WorkerSteps
    BY DEF WorkerSteps
  <2> QED BY <1>2, <1>4, <2>1, GoesFacts DEF Sweep
<1>9. heard'[k] = "rejected"
  BY <1>1, <1>2, <1>5 DEF Sweep, OwnWorker
<1>7. OwnRequest(k, i)'
  BY <1>1, <1>2, <1>3, <1>5, <1>6, <1>9 DEF Sweep, OwnRequest, OwnWorker, Answers
<1>8. Active(w)' => OwnWorker(w, k, i)'
  BY <1>1, <1>2, <1>3, <1>5, <1>6, <1>9 DEF Sweep, OwnRequest, OwnWorker, At, Answers
<1> QED BY <1>1, <1>4, <1>7, <1>8, OwnStep

\* The waiter leaves the table, and the worker goes on without it.
LEMMA EraseOwn ==
  ASSUME Sound, NEW w \in Workers, Erase(w), NEW k, k = worker[w].ticket, Unshared(k),
         NEW i, i = drawn[k], Own(k, i)
  PROVE  Own(k, i)'
<1>1. Active(w) /\ worker[w].at = "erase"
  BY DEF Erase, At, Active
<1>2. /\ k \in Tickets /\ k # 0 /\ i # 0 /\ worker[w].id = i /\ outcome[k] = "open" /\ Asks(w, k)
      /\ worker[w] \in WorkerType /\ worker[w].seat \in 0 .. MaxRequests
  BY <1>1, AsksFacts
<1>3. /\ i \in Tickets /\ requests[i].ticket \in {0, k} /\ waiters[i] \in {0, k}
      /\ requests[i] \in EntryType /\ consent[k] \in Answers \cup {"none"}
      /\ heard[k] \in Answers \cup {"nothing"}
  BY <1>2, OwnFacts
<1>4. OnlyOwn(w, worker[w].ticket) /\ GateTypeOK
  BY EraseSound DEF Sound
<1>5. OwnRequest(k, i) /\ OwnWorker(w, k, i)
  BY <1>1 DEF Own
<1>6. worker'[w] = [at |-> "answered", id |-> i, ticket |-> k, seat |-> 0]
  <2>1. "answered" \in WorkerSteps /\ 0 \in 0 .. MaxRequests
    BY BoundAssumption DEF WorkerSteps
  <2> QED BY <1>2, <1>4, <2>1, SitsFacts DEF Erase
<1>7. OwnRequest(k, i)'
  BY <1>1, <1>2, <1>3, <1>5, <1>6 DEF Erase, OwnRequest, OwnWorker, Answers
<1>8. Active(w)' => OwnWorker(w, k, i)'
  BY <1>1, <1>2, <1>3, <1>5, <1>6 DEF Erase, OwnRequest, OwnWorker, At, Answers
<1> QED BY <1>1, <1>4, <1>7, <1>8, OwnStep

\* The worker finds its own waiter.
LEMMA FindWaiterOwn ==
  ASSUME Sound, NEW w \in Workers, FindWaiter(w), NEW k, k = worker[w].ticket, Unshared(k),
         NEW i, i = drawn[k], Own(k, i)
  PROVE  Own(k, i)'
<1>1. Active(w) /\ worker[w].at = "find"
  BY DEF FindWaiter, At, Active
<1>2. /\ k \in Tickets /\ k # 0 /\ i # 0 /\ worker[w].id = i /\ outcome[k] = "open" /\ Asks(w, k)
      /\ worker[w] \in WorkerType /\ worker[w].seat \in 0 .. MaxRequests
  BY <1>1, AsksFacts
<1>3. /\ i \in Tickets /\ requests[i].ticket \in {0, k} /\ waiters[i] \in {0, k}
      /\ requests[i] \in EntryType /\ consent[k] \in Answers \cup {"none"}
      /\ heard[k] \in Answers \cup {"nothing"}
  BY <1>2, OwnFacts
<1>4. OnlyOwn(w, worker[w].ticket) /\ GateTypeOK
  BY FindWaiterSound DEF Sound
<1>5. OwnRequest(k, i) /\ OwnWorker(w, k, i)
  BY <1>1 DEF Own
<1>6. worker'[w] = [at |-> "waiting", id |-> i, ticket |-> k, seat |-> k]
  <2>1. "waiting" \in WorkerSteps /\ waiters[i] = k /\ k \in 0 .. MaxRequests
    BY <1>1, <1>2, <1>5, BoundAssumption DEF WorkerSteps, OwnWorker, Tickets
  <2>2. Sits(w, "waiting", k)
    BY <1>2, <2>1 DEF FindWaiter
  <2> QED BY <1>2, <1>4, <2>1, <2>2, SitsFacts
<1>7. OwnRequest(k, i)'
  BY <1>1, <1>2, <1>3, <1>5, <1>6 DEF FindWaiter, OwnRequest, OwnWorker, Answers
<1>8. Active(w)' => OwnWorker(w, k, i)'
  BY <1>1, <1>2, <1>3, <1>5, <1>6 DEF FindWaiter, OwnRequest, OwnWorker, At, Answers
<1> QED BY <1>1, <1>4, <1>7, <1>8, OwnStep

\* An answer that was heard, or the end of the wait.
LEMMA StopWaitingOwn ==
  ASSUME Sound, NEW w \in Workers, StopWaiting(w), NEW k, k = worker[w].ticket, Unshared(k),
         NEW i, i = drawn[k], Own(k, i)
  PROVE  Own(k, i)'
<1>1. Active(w) /\ worker[w].at = "waiting"
  BY DEF StopWaiting, At, Active
<1>2. /\ k \in Tickets /\ k # 0 /\ i # 0 /\ worker[w].id = i /\ outcome[k] = "open" /\ Asks(w, k)
      /\ worker[w] \in WorkerType /\ worker[w].seat \in 0 .. MaxRequests
  BY <1>1, AsksFacts
<1>3. /\ i \in Tickets /\ requests[i].ticket \in {0, k} /\ waiters[i] \in {0, k}
      /\ requests[i] \in EntryType /\ consent[k] \in Answers \cup {"none"}
      /\ heard[k] \in Answers \cup {"nothing"}
  BY <1>2, OwnFacts
<1>4. OnlyOwn(w, worker[w].ticket) /\ GateTypeOK
  BY StopWaitingSound DEF Sound
<1>5. OwnRequest(k, i) /\ OwnWorker(w, k, i)
  BY <1>1 DEF Own
<1>6. \E s \in {"answered", "expire"} :
      /\ worker'[w] = [at |-> s, id |-> i, ticket |-> k, seat |-> worker[w].seat]
      /\ s = "answered" => heard[worker[w].seat] # "nothing"
  <2>1. PICK s \in {"answered", "expire"} : Goes(w, s) /\ (s = "answered" => heard[worker[w].seat] # "nothing")
    BY DEF StopWaiting
  <2>2. s \in WorkerSteps
    BY DEF WorkerSteps
  <2> QED BY <1>2, <1>4, <2>1, <2>2, GoesFacts
<1>7. OwnRequest(k, i)'
  BY <1>1, <1>2, <1>3, <1>5, <1>6 DEF StopWaiting, OwnRequest, OwnWorker, Answers
<1>8. Active(w)' => OwnWorker(w, k, i)'
  BY <1>1, <1>2, <1>3, <1>5, <1>6 DEF StopWaiting, OwnRequest, OwnWorker, At, Answers
<1> QED BY <1>1, <1>4, <1>7, <1>8, OwnStep

\* A request that is forgotten stays as it is.
LEMMA AnnounceOwn ==
  ASSUME Sound, NEW w \in Workers, Announce(w), NEW k, k = worker[w].ticket, Unshared(k),
         NEW i, i = drawn[k], Own(k, i)
  PROVE  Own(k, i)'
<1>1. Active(w) /\ worker[w].at = "asked"
  BY DEF Announce, At, Active
<1>2. /\ k \in Tickets /\ k # 0 /\ i # 0 /\ worker[w].id = i /\ outcome[k] = "open" /\ Asks(w, k)
      /\ worker[w] \in WorkerType /\ worker[w].seat \in 0 .. MaxRequests
  BY <1>1, AsksFacts
<1>3. /\ i \in Tickets /\ requests[i].ticket \in {0, k} /\ waiters[i] \in {0, k}
      /\ requests[i] \in EntryType /\ consent[k] \in Answers \cup {"none"}
      /\ heard[k] \in Answers \cup {"nothing"}
  BY <1>2, OwnFacts
<1>4. OnlyOwn(w, worker[w].ticket) /\ GateTypeOK
  BY AnnounceSound DEF Sound
<1>5. OwnRequest(k, i) /\ OwnWorker(w, k, i)
  BY <1>1 DEF Own
<1>6. UNCHANGED <<requests, heard, consent>>
  BY DEF Announce
<1>9. ASSUME NEW s \in {"idle", "stopped"}, NEW o \in {"ran", "denied", "dropped"}, Closes(w, o, s)
      PROVE  ~Active(w)' /\ outcome'[k] = o
  BY <1>2, <1>4, <1>9, ClosesFacts
<1>7. OwnRequest(k, i)'
  <2>1. outcome'[k] \in {"open", "dropped"}
    <3>1. Closes(w, "dropped", "stopped") \/ Closes(w, "dropped", "idle") \/ outcome' = outcome
      BY DEF Announce
    <3>2. CASE Closes(w, "dropped", "stopped")
      BY <1>9, <3>2
    <3>3. CASE Closes(w, "dropped", "idle")
      BY <1>9, <3>3
    <3> QED BY <1>2, <3>1, <3>2, <3>3
  <2> QED BY <1>1, <1>2, <1>3, <1>5, <1>6, <2>1 DEF OwnRequest, OwnWorker, At
<1>8. Active(w)' => OwnWorker(w, k, i)'
  <2>1. CASE Goes(w, "find")
    <3>1. "find" \in WorkerSteps
      BY DEF WorkerSteps
    <3>2. worker'[w] = [at |-> "find", id |-> i, ticket |-> k, seat |-> worker[w].seat] /\ waiters' = waiters
      BY <1>2, <1>4, <2>1, <3>1, GoesFacts DEF Announce
    <3> QED BY <1>1, <1>5, <1>6, <3>2 DEF OwnWorker, At
  <2> QED BY <1>9, <2>1 DEF Announce
<1> QED BY <1>1, <1>4, <1>7, <1>8, OwnStep

\* What the worker heard is what the user said, unless the wait was given up.
LEMMA TakeAnswerOwn ==
  ASSUME Sound, NEW w \in Workers, TakeAnswer(w), NEW k, k = worker[w].ticket, Unshared(k),
         NEW i, i = drawn[k], Own(k, i)
  PROVE  Own(k, i)'
<1>1. Active(w) /\ worker[w].at = "answered"
  BY DEF TakeAnswer, At, Active
<1>2. /\ k \in Tickets /\ k # 0 /\ i # 0 /\ worker[w].id = i /\ outcome[k] = "open" /\ Asks(w, k)
      /\ worker[w] \in WorkerType /\ worker[w].seat \in 0 .. MaxRequests
  BY <1>1, AsksFacts
<1>3. /\ i \in Tickets /\ requests[i].ticket \in {0, k} /\ waiters[i] \in {0, k}
      /\ requests[i] \in EntryType /\ consent[k] \in Answers \cup {"none"}
      /\ heard[k] \in Answers \cup {"nothing"}
  BY <1>2, OwnFacts
<1>4. OnlyOwn(w, worker[w].ticket) /\ GateTypeOK
  BY TakeAnswerSound DEF Sound
<1>5. OwnRequest(k, i) /\ OwnWorker(w, k, i)
  BY <1>1 DEF Own
<1>6. UNCHANGED <<requests, heard, consent>>
  BY DEF TakeAnswer
<1>9. ASSUME NEW s \in {"idle", "stopped"}, NEW o \in {"ran", "denied", "dropped"}, Closes(w, o, s)
      PROVE  ~Active(w)' /\ outcome'[k] = o
  BY <1>2, <1>4, <1>9, ClosesFacts
<1>10. worker[w].seat \in {0, k}
  BY <1>1, <1>5 DEF OwnWorker, At
<1>11. Closes(w, "dropped", "stopped")
         \/ (Closes(w, "denied", "idle") /\ (worker[w].seat = 0 \/ heard[k] # "approved"))
         \/ (Goes(w, "granted") /\ outcome' = outcome /\ worker[w].seat = k /\ heard[k] = "approved")
  BY <1>2, <1>10 DEF TakeAnswer
<1>7. OwnRequest(k, i)'
  <2>1. CASE Closes(w, "dropped", "stopped")
    <3>1. outcome'[k] = "dropped"
      BY <1>9, <2>1
    <3> QED BY <1>1, <1>2, <1>3, <1>5, <1>6, <3>1 DEF OwnRequest, OwnWorker, At
  <2>2. CASE Closes(w, "denied", "idle") /\ (worker[w].seat = 0 \/ heard[k] # "approved")
    <3>1. outcome'[k] = "denied"
      BY <1>9, <2>2
    <3> QED BY <1>1, <1>2, <1>3, <1>5, <1>6, <2>2, <3>1 DEF OwnRequest, OwnWorker, At, Answers
  <2>3. CASE outcome' = outcome
    BY <1>5, <1>6, <2>3 DEF OwnRequest
  <2> QED BY <1>11, <2>1, <2>2, <2>3
<1>8. Active(w)' => OwnWorker(w, k, i)'
  <2>1. CASE Goes(w, "granted") /\ worker[w].seat = k /\ heard[k] = "approved"
    <3>1. "granted" \in WorkerSteps
      BY DEF WorkerSteps
    <3>2. worker'[w] = [at |-> "granted", id |-> i, ticket |-> k, seat |-> worker[w].seat]
      BY <1>2, <1>4, <2>1, <3>1, GoesFacts
    <3> QED BY <1>1, <1>2, <1>5, <1>6, <2>1, <3>2 DEF OwnWorker, At
  <2> QED BY <1>9, <1>11, <2>1
<1> QED BY <1>1, <1>4, <1>7, <1>8, OwnStep

\* The yes that was heard is the status of the request.
LEMMA RunToolOwn ==
  ASSUME Sound, NEW w \in Workers, RunTool(w), NEW k, k = worker[w].ticket, Unshared(k),
         NEW i, i = drawn[k], Own(k, i)
  PROVE  Own(k, i)'
<1>1. Active(w) /\ worker[w].at = "granted"
  BY DEF RunTool, At, Active
<1>2. /\ k \in Tickets /\ k # 0 /\ i # 0 /\ worker[w].id = i /\ outcome[k] = "open" /\ Asks(w, k)
      /\ worker[w] \in WorkerType /\ worker[w].seat \in 0 .. MaxRequests
  BY <1>1, AsksFacts
<1>3. /\ i \in Tickets /\ requests[i].ticket \in {0, k} /\ waiters[i] \in {0, k}
      /\ requests[i] \in EntryType /\ consent[k] \in Answers \cup {"none"}
      /\ heard[k] \in Answers \cup {"nothing"}
  BY <1>2, OwnFacts
<1>4. OnlyOwn(w, worker[w].ticket) /\ GateTypeOK
  BY RunToolSound DEF Sound
<1>5. OwnRequest(k, i) /\ OwnWorker(w, k, i)
  BY <1>1 DEF Own
<1>6. UNCHANGED <<requests, heard, consent>>
  BY DEF RunTool
<1>9. ASSUME NEW s \in {"idle", "stopped"}, NEW o \in {"ran", "denied", "dropped"}, Closes(w, o, s)
      PROVE  ~Active(w)' /\ outcome'[k] = o
  BY <1>2, <1>4, <1>9, ClosesFacts
<1>7. OwnRequest(k, i)'
  <2>1. outcome'[k] \in {"ran", "dropped"}
    BY <1>9 DEF RunTool
  <2> QED BY <1>1, <1>3, <1>5, <1>6, <2>1 DEF OwnRequest, OwnWorker, At, Answers
<1>8. Active(w)' => OwnWorker(w, k, i)'
  BY <1>9 DEF RunTool
<1> QED BY <1>1, <1>4, <1>7, <1>8, OwnStep

\* A step of a worker that has drawn its id: what another owns stays, what it owns agrees.
LEMMA WorkSerial ==
  ASSUME Sound, NEW w \in Workers,
         StoreId(w) \/ InsertRequest(w) \/ InsertWaiter(w) \/ Announce(w) \/ WaitStep(w),
         NEW k \in Tickets, Unshared(k), NEW i, i = drawn[k], i # 0, Own(k, i)
  PROVE  Own(k, i)'
<1>1. Active(w) /\ OnlyOwn(w, worker[w].ticket)
  <2>1. OnlyOwn(w, worker[w].ticket)
    BY StoreIdSound, InsertRequestSound, InsertWaiterSound, AnnounceSound, FindWaiterSound,
       StopWaitingSound, ExpireSound, SweepSound, EraseSound, TakeAnswerSound, RunToolSound DEF WaitStep
  <2>2. Active(w)
    BY DEF StoreId, InsertRequest, InsertWaiter, Announce, WaitStep, FindWaiter, StopWaiting, Expire,
       Sweep, Erase, TakeAnswer, RunTool, At, Active
  <2> QED BY <2>1, <2>2
<1>2. CASE worker[w].ticket = k
  BY <1>2, StoreIdOwn, InsertRequestOwn, InsertWaiterOwn, AnnounceOwn, FindWaiterOwn, StopWaitingOwn,
     ExpireOwn, SweepOwn, EraseOwn, TakeAnswerOwn, RunToolOwn DEF WaitStep
<1>3. CASE worker[w].ticket # k
  BY <1>1, <1>3, OtherStep
<1> QED BY <1>2, <1>3

\* A request that is made: a number nobody else drew has nothing filed under it.
LEMMA ReadIdSerial ==
  ASSUME Sound, Serial, NEW w \in Workers, ReadId(w)
  PROVE  Serial'
<1>0. created + 1 \in Tickets /\ nextId \in 1 .. MaxRequests + 1
  BY BoundAssumption DEF ReadId, Sound, GateTypeOK, Tickets
<1>1. PICK n \in Tickets : n = created + 1
  BY <1>0
<1>2. /\ requests' = requests /\ waiters' = waiters /\ heard' = heard /\ consent' = consent
      /\ outcome' = outcome /\ caller' = caller
      /\ drawn'[n] = nextId /\ \A j \in Tickets \ {n} : drawn'[j] = drawn[j]
      /\ worker'[w] = [at |-> "id", id |-> nextId, ticket |-> n, seat |-> 0]
      /\ \A v \in Workers \ {w} : worker'[v] = worker[v]
  BY <1>1, GateTyped DEF ReadId, Sound
<1>3. drawn[n] = 0 /\ consent[n] = "none" /\ heard[n] = "nothing" /\ outcome[n] = "open"
  <2>1. n > created
    BY <1>1, BoundAssumption DEF Sound, GateTypeOK
  <2> QED BY <2>1 DEF Sound, Drawn
<1>4. \A v \in Workers : Active(v) => worker[v].ticket # n
  BY <1>3, AsksFacts
<1>5. ASSUME NEW k \in Tickets, drawn'[k] # 0, Unshared(k)', NEW i, i = drawn'[k]
      PROVE  Own(k, i)'
  <2>1. CASE k # n
    <3>1. drawn[k] = i /\ i # 0
      BY <1>2, <1>5, <2>1
    <3>2. Unshared(k)
      BY <1>2, <1>3, <1>5, <2>1, <3>1 DEF Unshared
    <3>3. Own(k, i)
      BY <3>1, <3>2 DEF Serial
    <3>4. SameRequest(k, i)
      BY <1>2, <2>1 DEF SameRequest
    <3> QED BY <3>3, <3>4, OwnKept
  <2>2. CASE k = n
    <3>1. i = nextId /\ \A j \in Tickets : drawn[j] # i
      BY <1>0, <1>2, <1>3, <1>5, <2>2 DEF Unshared
    <3>2. i \in Tickets
      BY <1>0, <1>1, <3>1, BoundAssumption DEF Sound, GateTypeOK, Tickets
    <3>3. requests[i].ticket = 0
      <4>1. requests[i] \in EntryType /\ Listed(i)
        BY <3>2, GateTyped DEF Sound
      <4> QED BY <3>1, <4>1, BoundAssumption DEF EntryType, Listed, Tickets
    <3>4. ASSUME NEW c \in Callers, caller[c].at = "claimed" PROVE caller[c].id # i
      <4>1. PICK l : l = caller[c].id
        OBVIOUS
      <4>2. requests[l].ticket # 0
        BY <3>4, <4>1, HandlesFacts
      <4> QED BY <3>3, <4>1, <4>2
    <3>5. OwnRequest(k, i)'
      BY <1>2, <1>3, <2>2, <3>3, <1>0, <1>1, BoundAssumption DEF OwnRequest, Tickets
    <3>6. ASSUME NEW v \in Workers, Active(v)', worker'[v].ticket = k PROVE OwnWorker(v, k, i)'
      BY <1>2, <1>4, <2>2, <3>6 DEF OwnWorker, At, Active
    <3> QED BY <1>2, <3>4, <3>5, <3>6 DEF Own
  <2> QED BY <2>1, <2>2
<1> QED BY <1>5 DEF Serial

\* A first look changes nothing.
LEMMA LookUpOwn ==
  ASSUME Sound, NEW c \in Callers, LookUp(c), NEW k, NEW i, Own(k, i)
  PROVE  Own(k, i)'
<1>1. PICK b : b.at = "checked" /\ caller' = [caller EXCEPT ![c] = b]
  BY DEF LookUp
<1>2. \A d \in Callers : caller'[d].at = "claimed" => caller'[d] = caller[d]
  BY <1>1, GateTyped DEF Sound
<1>3. SameRequest(k, i)
  BY <1>2 DEF LookUp, SameRequest
<1> QED BY <1>3, OwnKept

\* The answer that is claimed for the request is written beside it, and no other was.
LEMMA ClaimOwn ==
  ASSUME Sound, NEW c \in Callers, Claim(c), NEW k \in Tickets, Unshared(k),
         NEW i, i = drawn[k], i # 0, Own(k, i)
  PROVE  Own(k, i)'
<1>1. caller[c].at = "checked"
  BY DEF Claim
<1>2. PICK l : l = caller[c].id
  OBVIOUS
<1>3. PICK t : t = requests[l].ticket
  OBVIOUS
<1>4. PICK a : a = caller[c].answer
  OBVIOUS
<1>5. /\ l \in Tickets /\ t \in Tickets /\ t # 0 /\ drawn[t] = l /\ a \in Answers /\ Listed(l)
      /\ requests[l] \in EntryType
  BY <1>1, <1>2, <1>3, <1>4, HandlesFacts
<1>6. /\ i \in Tickets /\ requests[i].ticket \in {0, k} /\ consent[k] \in Answers \cup {"none"}
  BY OwnFacts
<1>7. UNCHANGED <<waiters, heard, outcome, worker>>
  BY DEF Claim
<1>8. /\ caller \in [Callers -> CallerType] /\ requests \in [Tickets -> EntryType]
      /\ consent \in [Tickets -> Answers \cup {"none"}]
  BY GateTyped DEF Sound
<1>9. CASE ~IsPending(l)
  <2>1. UNCHANGED <<requests, consent>> /\ caller' = [caller EXCEPT ![c] = NoAnswer]
    BY <1>2, <1>9 DEF Claim
  <2>2. \A d \in Callers : caller'[d].at = "claimed" => caller'[d] = caller[d]
    BY <1>8, <2>1 DEF NoAnswer
  <2>3. SameRequest(k, i)
    BY <1>7, <2>1, <2>2 DEF SameRequest
  <2> QED BY <2>3, OwnKept
<1>10. CASE IsPending(l)
  <2>1. /\ requests' = [requests EXCEPT ![l] = [requests[l] EXCEPT !.status = a]]
        /\ consent' = [consent EXCEPT ![t] = a]
        /\ caller' = [caller EXCEPT ![c] = [caller[c] EXCEPT !.at = "claimed"]]
    BY <1>2, <1>3, <1>4, <1>10 DEF Claim
  <2>2. /\ requests'[l].ticket = t /\ requests'[l].status = a
        /\ \A j \in Tickets \ {l} : requests'[j] = requests[j]
        /\ consent'[t] = a /\ \A j \in Tickets \ {t} : consent'[j] = consent[j]
        /\ caller'[c].id = l /\ caller'[c].answer = a
        /\ \A d \in Callers \ {c} : caller'[d] = caller[d]
    BY <1>2, <1>3, <1>4, <1>5, <1>8, <2>1 DEF CallerType, EntryType
  <2>3. CASE l # i
    <3>1. t # k
      BY <1>5, <2>3
    <3>2. SameRequest(k, i)
      BY <1>6, <1>7, <2>2, <2>3, <3>1 DEF SameRequest
    <3> QED BY <3>2, OwnKept
  <2>4. CASE l = i
    <3>1. t = k /\ consent[k] = "none" /\ requests[i].ticket = k /\ requests[i].status = "pending"
      BY <1>3, <1>5, <1>6, <1>10, <2>4 DEF Listed, IsPending
    <3>2. OwnRequest(k, i) /\ consent'[k] = a /\ requests'[i].ticket = k /\ requests'[i].status = a
      BY <2>2, <2>4, <3>1 DEF Own
    <3>3. OwnRequest(k, i)'
      BY <1>5, <1>7, <3>1, <3>2, BoundAssumption DEF OwnRequest, Answers, Tickets
    <3>4. ASSUME NEW w \in Workers, Active(w)', worker'[w].ticket = k PROVE OwnWorker(w, k, i)'
      <4>1. OwnWorker(w, k, i)
        BY <1>7, <3>4 DEF Own, Active
      <4> QED BY <1>5, <1>7, <3>1, <3>2, <4>1 DEF OwnWorker, At, Answers
    <3>5. ASSUME NEW d \in Callers, caller'[d].at = "claimed", caller'[d].id = i
          PROVE  consent'[k] = caller'[d].answer
      <4>1. caller[d].at = "claimed" /\ caller[d].id = i => consent[k] \in Answers
        BY <1>8 DEF Own, CallerType
      <4> QED BY <2>2, <3>1, <3>2, <3>5, <4>1 DEF Answers
    <3> QED BY <3>3, <3>4, <3>5 DEF Own
  <2> QED BY <2>3, <2>4
<1> QED BY <1>9, <1>10

\* The request's waiter hears what the user was told to have said.
LEMMA NotifyOwn ==
  ASSUME Sound, NEW c \in Callers, Notify(c), NEW k \in Tickets, Unshared(k),
         NEW i, i = drawn[k], i # 0, Own(k, i)
  PROVE  Own(k, i)'
<1>1. caller[c].at = "claimed"
  BY DEF Notify
<1>2. PICK l : l = caller[c].id
  OBVIOUS
<1>3. PICK a : a = caller[c].answer
  OBVIOUS
<1>4. l \in Tickets /\ a \in Answers /\ Listed(l) /\ requests[l].ticket # 0
  BY <1>1, <1>2, <1>3, HandlesFacts
<1>5. /\ i \in Tickets /\ requests[i].ticket \in {0, k} /\ waiters[i] \in {0, k}
  BY OwnFacts
<1>6. UNCHANGED <<requests, waiters, consent, outcome, worker>>
  BY DEF Notify
<1>7. heard'[k] = IF k = waiters[l] THEN a ELSE heard[k]
  BY <1>2, <1>3 DEF Notify
<1>8. \A d \in Callers : caller'[d].at = "claimed" => caller'[d] = caller[d]
  BY GateTyped DEF Notify, Sound, NoAnswer
<1>9. CASE heard'[k] = heard[k]
  <2>1. SameRequest(k, i)
    BY <1>6, <1>8, <1>9 DEF SameRequest
  <2> QED BY <2>1, OwnKept
<1>10. CASE heard'[k] # heard[k]
  <2>1. k = waiters[l] /\ heard'[k] = a
    BY <1>7, <1>10
  <2>2. l = i /\ requests[i].ticket = k
    BY <1>4, <1>5, <2>1, BoundAssumption DEF Listed, Tickets
  <2>3. consent[k] = a
    BY <1>1, <1>2, <1>3, <2>2 DEF Own
  <2>4. OwnRequest(k, i)'
    BY <1>4, <1>6, <2>1, <2>2, <2>3, BoundAssumption DEF Own, OwnRequest, Answers, Tickets
  <2>5. ASSUME NEW w \in Workers, Active(w)', worker'[w].ticket = k PROVE OwnWorker(w, k, i)'
    <3>1. OwnWorker(w, k, i) /\ OwnRequest(k, i)
      BY <1>6, <2>5 DEF Own, Active
    <3> QED BY <1>4, <1>6, <2>1, <2>2, <2>3, <3>1 DEF OwnWorker, OwnRequest, At, Answers
  <2> QED BY <1>6, <1>8, <2>4, <2>5 DEF Own
<1> QED BY <1>9, <1>10

-----------------------------------------------------------------------------
\* The second invariant is kept while the first one holds.
LEMMA SerialStep == Sound /\ Serial /\ [GateNext]_gateVars => Serial'
<1> SUFFICES ASSUME Sound, Serial, [GateNext]_gateVars PROVE Serial'
  OBVIOUS
<1>1. ASSUME NEW w \in Workers, ReadId(w) PROVE Serial'
  BY <1>1, ReadIdSerial
<1>3. ASSUME NEW w \in Workers,
             StoreId(w) \/ InsertRequest(w) \/ InsertWaiter(w) \/ Announce(w) \/ WaitStep(w)
      PROVE  Serial'
  <2>1. ASSUME NEW k \in Tickets, drawn'[k] # 0, Unshared(k)', NEW i, i = drawn'[k] PROVE Own(k, i)'
    <3>1. drawn' = drawn
      BY <1>3, StoreIdSound, InsertRequestSound, InsertWaiterSound, AnnounceSound, FindWaiterSound,
         StopWaitingSound, ExpireSound, SweepSound, EraseSound, TakeAnswerSound, RunToolSound DEF WaitStep, OnlyOwn
    <3>2. i = drawn[k] /\ i # 0 /\ Unshared(k)
      BY <2>1, <3>1 DEF Unshared
    <3>3. Own(k, i)
      BY <3>2 DEF Serial
    <3> QED BY <1>3, <3>2, <3>3, WorkSerial
  <2> QED BY <2>1 DEF Serial
<1>4. ASSUME NEW c \in Callers, CallerStep(c) PROVE Serial'
  <2>1. ASSUME NEW k \in Tickets, drawn'[k] # 0, Unshared(k)', NEW i, i = drawn'[k] PROVE Own(k, i)'
    <3>1. drawn' = drawn
      BY <1>4 DEF CallerStep, LookUp, Claim, Notify
    <3>2. i = drawn[k] /\ i # 0 /\ Unshared(k)
      BY <2>1, <3>1 DEF Unshared
    <3>3. Own(k, i)
      BY <3>2 DEF Serial
    <3> QED BY <1>4, <3>2, <3>3, LookUpOwn, ClaimOwn, NotifyOwn DEF CallerStep
  <2> QED BY <2>1 DEF Serial
<1>5. ASSUME UNCHANGED <<drawn, requests, waiters, heard, consent, outcome, worker, caller>> PROVE Serial'
  BY <1>5 DEF Serial, Unshared, Own, OwnRequest, OwnWorker, At, Active
<1>6. ASSUME NEW w \in Workers, CancelTask(w) PROVE Serial'
  BY <1>5, <1>6 DEF CancelTask
<1>7. CASE UNCHANGED gateVars
  BY <1>5, <1>7 DEF gateVars
<1> QED BY <1>1, <1>3, <1>4, <1>6, <1>7 DEF GateNext, AskStep

\* What a client reads afterwards of a request whose id nobody else drew is what the
\* worker acted on.
THEOREM StatusIsTrue == GateSpec => []StatusTellsOutcome
<1>1. GateInit => Serial
  BY DEF GateInit, Serial
<1>2. GateSpec => []Serial
  BY <1>1, SerialStep, GateIsSound, PTL DEF GateSpec
<1>3. ASSUME Sound, Serial, NEW i \in Tickets, requests[i].ticket # 0, NEW k, k = requests[i].ticket, Unshared(k)
      PROVE  /\ outcome[k] = "ran" => requests[i].status = "approved"
             /\ outcome[k] = "denied" => requests[i].status \in {"rejected", "expired"}
  <2>1. Listed(i) /\ requests[i] \in EntryType
    BY <1>3, GateTyped DEF Sound
  <2>2. k \in Tickets /\ drawn[k] = i /\ i # 0
    BY <1>3, <2>1, BoundAssumption DEF EntryType, Listed, Tickets
  <2>3. Own(k, i)
    BY <1>3, <2>2 DEF Serial
  <2> QED BY <2>3 DEF Own, OwnRequest
<1>4. Sound /\ Serial => StatusTellsOutcome
  BY <1>3 DEF StatusTellsOutcome
<1> QED BY <1>2, <1>4, GateIsSound, PTL
=============================================================================
