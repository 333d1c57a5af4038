--------------------------- MODULE WorkspaceProofs ---------------------------
(***************************************************************************)
(* Proofs about what the tools of a chain work in.  WorkspaceRuntimes, for *)
(* any number of workspaces, chains and requests: a tool is alone in its   *)
(* workspace and stays in its directory, whoever looks the workspace up,   *)
(* moves it or deletes it.  WorkspaceFiles, for any tree, patch, page and  *)
(* number of editors: no tool or save loses a file, and listings, patches  *)
(* and saves do exactly what they are for.                                 *)
(***************************************************************************)
EXTENDS WorkspaceRuntimes, WorkspaceFiles, SequenceTheorems, WellFoundedInduction, TLAPS

----------------------------------------------------------------------------
(* The inductive invariant.                                                 *)

Places == Dirs \cup {NoDir}
Runtime == [ws : Workspaces, dir : Places, holder : Threads \cup {Nobody}]
Job == [ws : Workspaces, arg : Places, back : {"done", "start", "look", "tool"}, rt : Nat,
        path : Places, issued : Nat, gen : Nat, left : Int, limited : BOOLEAN]
Looking == {"find", "create", "relocate", "moving"}
Moving == {"relocate", "moving"}
WithTool == {"tool"} \cup InTool
Labels == Looking \cup WithTool
          \cup {"idle", "done", "start", "fallback", "look", "next", "reread", "invalidate"}

Types ==
    /\ row \in [Workspaces -> Places]
    /\ exists \subseteq Dirs
    /\ mapped \in [Workspaces -> Nat]
    /\ runtimes \in Seq(Runtime)
    /\ readers \subseteq Threads
    /\ writer \in Threads \cup {Nobody}
    /\ pc \in [Threads -> Labels]
    /\ job \in [Threads -> Job]
    /\ child \in [Chains -> {"none", "running", "detached", "exited"}]
    /\ paths \in [Workspaces -> SUBSET Dirs]
    /\ deletions \in [Workspaces -> Nat]

\* What a thread at p with the locals j relies on: M and R are the manager's table and
\* the runtimes, D counts the deletions, P has the paths.  While it moves a runtime
\* that one is in the table; the one it got a tool for is there, or was deleted since.
JobOk(p, j, M, R, D, P) ==
    /\ p \in Moving \cup WithTool \cup {"look"} => j.rt \in DOMAIN R /\ R[j.rt].ws = j.ws
    /\ p \in Moving => M[j.ws] = j.rt
    /\ p \in WithTool => j.gen <= D[j.ws] /\ (j.gen = D[j.ws] => M[j.ws] = j.rt)
    /\ p \in Looking /\ j.ws # Unnamed => j.arg \in P[j.ws]
    /\ p \in WithTool \cup {"next"} \/ (p \in Looking /\ j.back = "tool") => j.path \in P[j.ws]
    /\ p \in WithTool \cup {"start", "fallback", "look", "next"} \/ (p \in Looking /\ j.back # "done")
          => j.ws # Unnamed

JobsOk == \A t \in Threads : JobOk(pc[t], job[t], mapped, runtimes, deletions, paths)

\* Whoever moves a runtime or runs a tool in it holds its executionMutex.
Held == \A t \in Threads : pc[t] \in {"moving"} \cup InTool => runtimes[job[t].rt].holder = t

\* Between two deletions all tools of a workspace get the same runtime.
SameRuntime ==
    \A t, u \in Threads :
        pc[t] \in WithTool /\ pc[u] \in WithTool /\ job[t].ws = job[u].ws /\ job[t].gen = job[u].gen
        => job[t].rt = job[u].rt

\* A workspace has been where its row and its runtimes say it is.
AtHome ==
    /\ \A w \in Workspaces : row[w] # NoDir => row[w] \in paths[w]
    /\ \A r \in DOMAIN runtimes :
          runtimes[r].ws # Unnamed => runtimes[r].dir \in paths[runtimes[r].ws]

IInv == Types /\ TypeOK /\ JobsOk /\ Held /\ SameRuntime /\ AtHome

----------------------------------------------------------------------------
(* What a step of one thread may do to the others.                          *)

\* Runtimes are added and moved about; an entry of the table is filled in, or taken
\* out while nobody has the manager's lock.
Grown ==
    /\ mapped' \in [Workspaces -> Nat] /\ deletions' \in [Workspaces -> Nat]
    /\ paths' \in [Workspaces -> SUBSET Dirs] /\ runtimes' \in Seq(Runtime)
    /\ Len(runtimes) <= Len(runtimes')
    /\ \A r \in DOMAIN runtimes : runtimes'[r].ws = runtimes[r].ws
    /\ \A w \in Workspaces :
          /\ paths[w] \subseteq paths'[w]
          /\ \/ deletions'[w] = deletions[w] /\ (mapped'[w] = mapped[w] \/ mapped[w] = 0)
             \/ deletions'[w] = deletions[w] + 1 /\ readers = {} /\ writer = Nobody
          /\ mapped'[w] # 0 => mapped'[w] \in DOMAIN runtimes' /\ runtimes'[mapped'[w]].ws = w

\* What a thread relies on stays, unless it is moving a runtime that is taken out.
LEMMA JobKept ==
    ASSUME IInv, Grown, NEW u \in Threads
    PROVE  JobOk(pc[u], job[u], mapped', runtimes', deletions', paths')
<1> DEFINE p == pc[u]
           j == job[u]
           w == j.ws
<1>1. j \in Job /\ w \in Workspaces /\ j.gen \in Nat /\ JobOk(p, j, mapped, runtimes, deletions, paths)
    BY DEF IInv, Types, JobsOk, Job
<1>2. /\ DOMAIN runtimes = 1 .. Len(runtimes) /\ DOMAIN runtimes' = 1 .. Len(runtimes')
      /\ Len(runtimes) \in Nat /\ Len(runtimes') \in Nat /\ Len(runtimes) <= Len(runtimes')
    BY DEF IInv, Types, Grown
<1>3. paths[w] \subseteq paths'[w] /\ deletions[w] \in Nat /\ deletions'[w] \in Nat
      /\ \/ deletions'[w] = deletions[w] /\ (mapped'[w] = mapped[w] \/ mapped[w] = 0)
         \/ deletions'[w] = deletions[w] + 1 /\ readers = {} /\ writer = Nobody
    BY <1>1 DEF Grown, IInv, Types
<1>4. p \in Moving => deletions'[w] = deletions[w]
    BY <1>3, ThreadsAssumption DEF IInv, TypeOK, Moving, Threads
<1>5. p \in Moving \cup WithTool \cup {"look"} => j.rt \in DOMAIN runtimes' /\ runtimes'[j.rt].ws = j.ws /\ j.rt # 0
    <2>1. p \in Moving \cup WithTool \cup {"look"} => j.rt \in DOMAIN runtimes /\ runtimes[j.rt].ws = j.ws
        BY <1>1 DEF JobOk
    <2> QED BY <1>2, <2>1 DEF Grown
<1>6. p \in Moving => mapped'[w] = j.rt
    <2>1. p \in Moving => mapped[w] = j.rt
        BY <1>1 DEF JobOk
    <2> QED BY <1>3, <1>4, <1>5, <2>1
<1>7. p \in WithTool => j.gen <= deletions'[w] /\ (j.gen = deletions'[w] => mapped'[w] = j.rt)
    <2>1. p \in WithTool => j.gen <= deletions[w] /\ (j.gen = deletions[w] => mapped[w] = j.rt)
        BY <1>1 DEF JobOk
    <2> QED BY <1>1, <1>3, <1>5, <2>1
<1> QED BY <1>1, <1>3, <1>5, <1>6, <1>7 DEF JobOk

\* One thread moves to p with the locals j.
Moves(t, p, j) == pc' = [pc EXCEPT ![t] = p] /\ job' = [job EXCEPT ![t] = j]

\* The locks as the other threads find them, and as the thread leaves them.
LocksKept(t, p, j) ==
    /\ readers' \subseteq Threads /\ writer' \in Threads \cup {Nobody}
    /\ \A u \in Threads \ {t} : u \in readers' \cup {writer'} <=> u \in readers \cup {writer}
    /\ t \in readers' \cup {writer'} <=> p \in Moving
    /\ writer' # Nobody => readers' = {}
    /\ \A r \in DOMAIN runtimes : \A u \in Threads \ {t} :
          runtimes[r].holder = u => runtimes'[r].holder = u
    /\ p \in {"moving"} \cup InTool => runtimes'[j.rt].holder = t

LEMMA OneThread ==
    ASSUME IInv, NEW t \in Threads, NEW p \in Labels, NEW j \in Job, Moves(t, p, j),
           Grown, LocksKept(t, p, j), JobOk(p, j, mapped', runtimes', deletions', paths'),
           p \in WithTool => \/ j.gen = deletions'[j.ws]
                             \/ pc[t] \in WithTool /\ j.ws = job[t].ws /\ j.gen = job[t].gen /\ j.rt = job[t].rt,
           row' \in [Workspaces -> Places], exists' \subseteq Dirs, AtHome',
           child' \in [Chains -> {"none", "running", "detached", "exited"}],
           \A c \in Chains : child'[c] # "none" => pc'[c] = "await"
    PROVE  IInv'
<1>1. pc' \in [Threads -> Labels] /\ job' \in [Threads -> Job]
    BY DEF Moves, IInv, Types
<1>2. \A u \in Threads : pc'[u] = (IF u = t THEN p ELSE pc[u]) /\ job'[u] = (IF u = t THEN j ELSE job[u])
    BY DEF Moves, IInv, Types
<1>3. Types'
    BY <1>1 DEF Types, Grown, LocksKept
<1>4. \A u \in Threads : JobOk(pc'[u], job'[u], mapped', runtimes', deletions', paths')
    BY <1>2, JobKept
<1>5. TypeOK'
    <2>1. \A u \in Threads : u \in readers' \cup {writer'} <=> pc'[u] \in Moving
        BY <1>2 DEF LocksKept, IInv, TypeOK, Moving
    <2>2. mapped' \in [Workspaces -> 0 .. Len(runtimes')]
          /\ \A w \in Workspaces : mapped'[w] # 0 => runtimes'[mapped'[w]].ws = w
        <3>1. DOMAIN runtimes' = 1 .. Len(runtimes') /\ Len(runtimes') \in Nat
            BY DEF Grown
        <3> QED BY <3>1 DEF Grown
    <2>3. \A r \in DOMAIN runtimes' : runtimes'[r].holder \in Threads \cup {Nobody}
        <3> SUFFICES ASSUME NEW r \in DOMAIN runtimes' PROVE runtimes'[r] \in Runtime
            BY DEF Runtime
        <3> QED BY ElementOfSeq DEF Grown
    <2> QED BY <2>1, <2>2, <2>3 DEF TypeOK, LocksKept, Moving, Places
<1>6. Held'
    <2>1. ASSUME NEW u \in Threads \ {t}, pc[u] \in {"moving"} \cup InTool
          PROVE  runtimes'[job[u].rt].holder = u
        <3>1. job[u].rt \in DOMAIN runtimes
            BY <2>1 DEF IInv, JobsOk, JobOk, Moving, WithTool
        <3> QED BY <2>1, <3>1 DEF IInv, Held, LocksKept
    <2> QED BY <1>2, <2>1 DEF Held, LocksKept
<1>7. SameRuntime'
    <2>1. ASSUME NEW u \in Threads, u # t, pc[u] \in WithTool, p \in WithTool,
                 job[u].ws = j.ws, job[u].gen = j.gen
          PROVE  job[u].rt = j.rt
        <3>1. CASE j.gen = deletions'[j.ws]
            <4>1. JobOk(pc[u], job[u], mapped', runtimes', deletions', paths')
                BY JobKept
            <4> QED BY <2>1, <3>1, <4>1 DEF JobOk
        <3>2. CASE pc[t] \in WithTool /\ j.ws = job[t].ws /\ j.gen = job[t].gen /\ j.rt = job[t].rt
            BY <2>1, <3>2 DEF IInv, SameRuntime
        <3> QED BY <2>1, <3>1, <3>2
    <2> QED BY <1>2, <2>1 DEF IInv, SameRuntime
<1> QED BY <1>3, <1>4, <1>5, <1>6, <1>7 DEF IInv, JobsOk

\* Nothing changes but the thread, and what the tables say of where workspaces are.
DiskKept ==
    /\ row' \in [Workspaces -> Places] /\ exists' \subseteq Dirs /\ paths' \in [Workspaces -> SUBSET Dirs]
    /\ \A w \in Workspaces : paths[w] \subseteq paths'[w] /\ (row'[w] # NoDir => row'[w] \in paths'[w])

LEMMA DiskUnchanged ==
    ASSUME IInv, UNCHANGED <<row, exists, paths>>
    PROVE  DiskKept
BY DEF IInv, Types, AtHome, DiskKept

LEMMA TableGrown ==
    ASSUME IInv, DiskKept, UNCHANGED <<manager, runtimes>>
    PROVE  Grown /\ AtHome'
<1>1. \A w \in Workspaces : mapped[w] # 0 => mapped[w] \in DOMAIN runtimes /\ runtimes[mapped[w]].ws = w
    <2>1. DOMAIN runtimes = 1 .. Len(runtimes) /\ Len(runtimes) \in Nat
        BY DEF IInv, Types
    <2> QED BY <2>1 DEF IInv, TypeOK
<1>2. Grown
    <2>1. Len(runtimes) \in Nat
        BY DEF IInv, Types
    <2> QED BY <1>1, <2>1 DEF Grown, DiskKept, IInv, Types, manager
<1>3. AtHome'
    <2>1. \A r \in DOMAIN runtimes : runtimes[r].ws \in Workspaces
        <3> SUFFICES ASSUME NEW r \in DOMAIN runtimes PROVE runtimes[r] \in Runtime
            BY DEF Runtime
        <3> QED BY ElementOfSeq DEF IInv, Types
    <2> QED BY <2>1 DEF AtHome, DiskKept, IInv
<1> QED BY <1>2, <1>3

LEMMA ChildKept ==
    ASSUME IInv, NEW t \in Threads, NEW p, NEW j, Moves(t, p, j), pc[t] # "await", UNCHANGED child
    PROVE  /\ child' \in [Chains -> {"none", "running", "detached", "exited"}]
           /\ \A c \in Chains : child'[c] # "none" => pc'[c] = "await"
BY DEF IInv, Types, TypeOK, Moves, Threads

LEMMA ThreadOnly ==
    ASSUME IInv, NEW t \in Threads, NEW p \in Labels \ Moving, NEW j \in Job, Moves(t, p, j),
           DiskKept, UNCHANGED <<manager, runtimes>>, pc[t] \notin Moving,
           JobOk(p, j, mapped, runtimes, deletions, paths'),
           p \in WithTool => pc[t] \in WithTool /\ j.ws = job[t].ws /\ j.gen = job[t].gen /\ j.rt = job[t].rt,
           p \in InTool => runtimes[j.rt].holder = t,
           child' \in [Chains -> {"none", "running", "detached", "exited"}],
           \A c \in Chains : child'[c] # "none" => pc'[c] = "await"
    PROVE  IInv'
<1>1. Grown /\ AtHome'
    BY TableGrown
<1>2. LocksKept(t, p, j)
    BY DEF LocksKept, IInv, Types, TypeOK, manager, Moving
<1>3. JobOk(p, j, mapped', runtimes', deletions', paths')
    BY DEF manager
<1> QED BY <1>1, <1>2, <1>3, OneThread DEF DiskKept

LEMMA NewJobType == NewJob \in Job
BY UnnamedAssumption DEF NewJob, Job, Places

\* A thread that is done.
LEMMA DoneKeeps ==
    ASSUME IInv, NEW t \in Threads, Done(t), DiskKept, UNCHANGED <<manager, runtimes, child>>,
           pc[t] \notin Moving \cup {"await"}
    PROVE  IInv'
<1>1. Moves(t, "done", NewJob)
    BY DEF Done, Goto, SetJob, Moves
<1>2. JobOk("done", NewJob, mapped, runtimes, deletions, paths')
    BY DEF JobOk, Moving, Looking, WithTool, InTool
<1>3. "done" \in Labels \ Moving /\ "done" \notin WithTool
    BY DEF Labels, Moving, WithTool, InTool
<1> QED BY <1>1, <1>2, <1>3, NewJobType, ChildKept, ThreadOnly DEF WithTool

\* A thread that calls getOrCreate.
LEMMA CallKeeps ==
    ASSUME IInv, NEW t \in Threads, NEW w \in Workspaces, NEW a \in Places,
           NEW b \in {"done", "start", "look", "tool"}, NEW j \in Job, GetOrCreate(t, w, a, b, j),
           DiskKept, UNCHANGED <<manager, runtimes, child>>, pc[t] \notin Moving \cup {"await"},
           w # Unnamed => a \in paths'[w], b # "done" => w # Unnamed, b = "tool" => j.path \in paths'[w]
    PROVE  IInv'
<1> DEFINE d == [j EXCEPT !.ws = w, !.arg = a, !.back = b]
<1>1. Moves(t, "find", d)
    BY DEF GetOrCreate, Goto, SetJob, Moves
<1>2. d \in Job /\ d.ws = w /\ d.arg = a /\ d.back = b /\ d.path = j.path
    BY DEF Job
<1> HIDE DEF d
<1>3. JobOk("find", d, mapped, runtimes, deletions, paths')
    BY <1>2 DEF JobOk, Moving, Looking, WithTool, InTool
<1>4. "find" \in Labels \ Moving /\ "find" \notin WithTool
    BY DEF Labels, Looking, Moving, WithTool, InTool
<1> QED BY <1>1, <1>2, <1>3, <1>4, ChildKept, ThreadOnly DEF WithTool

----------------------------------------------------------------------------
(* getOrCreate.                                                             *)

\* The way back from getOrCreate, with the runtime that is in the table.
LEMMA Returned ==
    ASSUME IInv, NEW t \in Threads, pc[t] \in Looking, NEW r \in Nat, Return(t, r),
           r \in DOMAIN runtimes', runtimes'[r].ws = job[t].ws, mapped'[job[t].ws] = r,
           UNCHANGED <<deletions, paths>>
    PROVE  \E p \in {"done", "start", "look", "tool"}, j \in Job :
              /\ Moves(t, p, j)
              /\ JobOk(p, j, mapped', runtimes', deletions', paths')
              /\ p \in WithTool => j.gen = deletions'[j.ws]
<1>1. job[t] \in Job /\ job[t].ws \in Workspaces /\ deletions[job[t].ws] \in Nat
    BY DEF IInv, Types, Job
<1>2. CASE job[t].back = "done"
    <2>1. Moves(t, "done", NewJob)
        BY <1>2 DEF Return, Done, Goto, SetJob, Moves
    <2>2. JobOk("done", NewJob, mapped', runtimes', deletions', paths')
        BY DEF JobOk, Moving, Looking, WithTool, InTool
    <2> QED BY <2>1, <2>2, NewJobType DEF WithTool, InTool
<1>3. CASE job[t].back # "done"
    <2> DEFINE p == job[t].back
               d == [job[t] EXCEPT !.rt = r, !.gen = deletions[job[t].ws], !.arg = NoDir, !.back = "done"]
    <2>1. Moves(t, p, d) /\ p \in {"start", "look", "tool"}
        BY <1>1, <1>3 DEF Return, Goto, SetJob, Moves, Job
    <2>2. d \in Job /\ d.ws = job[t].ws /\ d.rt = r /\ d.gen = deletions[d.ws] /\ d.path = job[t].path
        BY <1>1 DEF Job, Places
    <2>3. job[t].ws # Unnamed /\ (p = "tool" => d.path \in paths[d.ws])
        BY <1>3, <2>2 DEF IInv, JobsOk, JobOk
    <2> HIDE DEF d
    <2>4. JobOk(p, d, mapped', runtimes', deletions', paths')
        BY <1>1, <2>1, <2>2, <2>3 DEF JobOk, Moving, Looking, WithTool, InTool
    <2> QED BY <2>1, <2>2, <2>4
<1> QED BY <1>2, <1>3

\* A return that leaves the locks of the others alone and gives its own back.
LEMMA ReturnKeeps ==
    ASSUME IInv, NEW t \in Threads, pc[t] \in Looking, NEW r \in Nat, Return(t, r),
           r \in DOMAIN runtimes', runtimes'[r].ws = job[t].ws, mapped'[job[t].ws] = r,
           Grown, AtHome', UNCHANGED <<deletions, row, exists, paths, child>>,
           readers' = readers \ {t}, writer' = (IF writer = t THEN Nobody ELSE writer),
           \A q \in DOMAIN runtimes : \A u \in Threads \ {t} :
               runtimes[q].holder = u => runtimes'[q].holder = u
    PROVE  IInv'
<1>1. PICK p \in {"done", "start", "look", "tool"}, j \in Job :
              /\ Moves(t, p, j)
              /\ JobOk(p, j, mapped', runtimes', deletions', paths')
              /\ p \in WithTool => j.gen = deletions'[j.ws]
    BY Returned
<1>2. p \in Labels /\ p \notin Moving /\ p \notin {"moving"} \cup InTool
    BY DEF Labels, WithTool, Moving, InTool
<1>3. LocksKept(t, p, j)
    BY <1>2, ThreadsAssumption DEF LocksKept, IInv, Types, TypeOK, Threads
<1>4. /\ child' \in [Chains -> {"none", "running", "detached", "exited"}]
      /\ \A c \in Chains : child'[c] # "none" => pc'[c] = "await"
    BY <1>1, ChildKept DEF Looking
<1> QED BY <1>1, <1>2, <1>3, <1>4, OneThread DEF IInv, Types

\* A thread that was found a runtime to move takes the manager's lock with it.
LEMMA FoundKeeps ==
    ASSUME IInv, NEW t \in Threads, pc[t] \in {"find", "create"}, NEW r \in Nat \ {0},
           r = mapped[job[t].ws], job[t].arg # NoDir, Found(t, r),
           UNCHANGED <<disk, mapped, runtimes, deletions, child>>, writer = Nobody,
           \/ readers' = readers \cup {t} /\ writer' = writer
           \/ readers = {} /\ readers' = readers /\ writer' = t
    PROVE  IInv'
<1> DEFINE d == [job[t] EXCEPT !.rt = r]
<1>1. Moves(t, "relocate", d)
    BY DEF Found, Goto, SetJob, Moves
<1>2. job[t] \in Job /\ d \in Job /\ d.ws = job[t].ws /\ d.rt = r /\ d.arg = job[t].arg
      /\ d.back = job[t].back /\ d.path = job[t].path /\ d.ws \in Workspaces
    BY DEF IInv, Types, Job
<1> HIDE DEF d
<1>3. DiskKept
    BY DiskUnchanged DEF disk
<1>4. Grown /\ AtHome'
    <2>1. DOMAIN runtimes = 1 .. Len(runtimes) /\ Len(runtimes) \in Nat
        BY DEF IInv, Types
    <2>2. Grown
        BY <1>3, <2>1 DEF Grown, DiskKept, IInv, Types, TypeOK
    <2> QED BY <2>2 DEF IInv, AtHome, disk
<1>5. JobOk("relocate", d, mapped', runtimes', deletions', paths')
    <2>1. JobOk(pc[t], job[t], mapped, runtimes, deletions, paths)
        BY DEF IInv, JobsOk
    <2>2. r \in DOMAIN runtimes /\ runtimes[r].ws = d.ws
        BY <1>2, <1>4 DEF Grown
    <2> QED BY <1>2, <2>1, <2>2 DEF JobOk, Moving, Looking, WithTool, InTool, disk
<1>6. LocksKept(t, "relocate", d)
    BY ThreadsAssumption DEF LocksKept, IInv, Types, TypeOK, Threads, Moving, InTool
<1>7. "relocate" \in Labels /\ "relocate" \notin WithTool
    BY DEF Labels, Looking, WithTool, InTool
<1> QED BY <1>1, <1>2, <1>3, <1>4, <1>5, <1>6, <1>7, ChildKept, OneThread DEF DiskKept

LEMMA LookupKeeps ==
    ASSUME IInv, NEW t \in Threads, Lookup(t)
    PROVE  IInv'
<1> DEFINE w == job[t].ws
           a == job[t].arg
<1>1. /\ job[t] \in Job /\ w \in Workspaces /\ a \in Places
      /\ DOMAIN runtimes = 1 .. Len(runtimes) /\ Len(runtimes) \in Nat
      /\ mapped[w] \in Nat /\ (mapped[w] # 0 => mapped[w] \in DOMAIN runtimes /\ runtimes[mapped[w]].ws = w)
      /\ JobOk(pc[t], job[t], mapped, runtimes, deletions, paths)
    BY DEF IInv, Types, TypeOK, Job, JobsOk
<1>2. CASE Find(t)
    <2>1. pc[t] = "find" /\ writer = Nobody /\ UNCHANGED <<disk, mapped, runtimes, writer, child, deletions>>
        BY <1>2 DEF Find
    <2>2. CASE mapped[w] = 0
        <3>1. Goto(t, "create") /\ UNCHANGED job /\ readers' = readers
            BY <1>2, <2>2 DEF Find
        <3>2. Moves(t, "create", job[t])
            BY <3>1 DEF Moves, Goto, IInv, Types
        <3>3. JobOk("create", job[t], mapped, runtimes, deletions, paths')
            BY <1>1, <2>1 DEF JobOk, Moving, Looking, WithTool, InTool, disk
        <3>4. DiskKept
            BY <2>1, DiskUnchanged DEF disk
        <3>5. "create" \in Labels \ Moving /\ "create" \notin WithTool /\ "create" \notin InTool
              /\ pc[t] \notin Moving /\ pc[t] # "await"
            BY <2>1 DEF Labels, Looking, Moving, WithTool, InTool
        <3> QED BY <1>1, <2>1, <3>1, <3>2, <3>3, <3>4, <3>5, ChildKept, ThreadOnly DEF manager
    <2>3. CASE mapped[w] # 0 /\ a = NoDir
        <3>1. Return(t, mapped[w]) /\ readers' = readers
            BY <1>2, <2>3 DEF Find, Found
        <3>2. t \notin readers \cup {writer} /\ pc[t] \in Looking
            BY <2>1 DEF IInv, TypeOK, Looking
        <3>3. Grown /\ AtHome'
            BY <2>1, <3>1, DiskUnchanged, TableGrown DEF disk, manager
        <3> QED BY <1>1, <2>1, <2>3, <3>1, <3>2, <3>3, ReturnKeeps DEF disk
    <2>4. CASE mapped[w] # 0 /\ a # NoDir
        <3>1. Found(t, mapped[w]) /\ readers' = readers \cup {t}
            BY <1>2, <2>4 DEF Find
        <3> QED BY <1>1, <2>1, <2>4, <3>1, FoundKeeps
    <2> QED BY <2>2, <2>3, <2>4
<1>3. CASE Create(t)
    <2>1. pc[t] = "create" /\ readers = {} /\ writer = Nobody /\ UNCHANGED <<disk, readers, child, deletions>>
        BY <1>3 DEF Create
    <2>2. t \notin readers \cup {writer} /\ pc[t] \in Looking
        BY <2>1 DEF IInv, TypeOK, Looking
    <2>3. CASE mapped[w] = 0
        <3> DEFINE n == Len(runtimes) + 1
                   e == NewRuntime(w, a)
        <3>1. /\ runtimes' = Append(runtimes, e) /\ mapped' = [mapped EXCEPT ![w] = Len(runtimes')]
              /\ Return(t, Len(runtimes')) /\ UNCHANGED writer
            BY <1>3, <2>3 DEF Create
        <3>2. e \in Runtime /\ e.ws = w /\ e.dir = a /\ e.holder = Nobody
            BY <1>1 DEF NewRuntime, Runtime
        <3> HIDE DEF e
        <3>3. /\ runtimes' \in Seq(Runtime) /\ Len(runtimes') = n /\ DOMAIN runtimes' = 1 .. n
              /\ runtimes'[n] = e /\ \A r \in DOMAIN runtimes : runtimes'[r] = runtimes[r]
            BY <1>1, <3>1, <3>2 DEF IInv, Types
        <3>4. \A v \in Workspaces : mapped'[v] = IF v = w THEN n ELSE mapped[v]
            BY <3>1, <3>3 DEF IInv, Types
        <3>5. Grown
            <4>1. mapped' \in [Workspaces -> Nat] /\ paths' = paths /\ deletions' = deletions
                BY <1>1, <2>1, <3>1, <3>3 DEF IInv, Types, disk
            <4>2. \A v \in Workspaces : mapped'[v] # 0 => mapped'[v] \in DOMAIN runtimes' /\ runtimes'[mapped'[v]].ws = v
                BY <1>1, <3>2, <3>3, <3>4 DEF IInv, TypeOK
            <4> QED BY <1>1, <2>3, <3>3, <3>4, <4>1, <4>2 DEF Grown, IInv, Types
        <3>6. AtHome'
            <4>1. w # Unnamed => a \in paths[w]
                BY <1>1, <2>2 DEF JobOk
            <4>2. ASSUME NEW r \in DOMAIN runtimes', runtimes'[r].ws # Unnamed
                  PROVE  runtimes'[r].dir \in paths[runtimes'[r].ws]
                <5>1. CASE r = n
                    BY <3>2, <3>3, <4>1, <4>2, <5>1
                <5>2. CASE r # n
                    BY <1>1, <3>3, <4>2, <5>2 DEF IInv, AtHome
                <5> QED BY <5>1, <5>2
            <4> QED BY <2>1, <4>2 DEF IInv, AtHome, disk
        <3>7. n \in Nat /\ n \in DOMAIN runtimes' /\ runtimes'[n].ws = w /\ mapped'[w] = n /\ Return(t, n)
            BY <1>1, <3>1, <3>2, <3>3, <3>4
        <3>8. \A q \in DOMAIN runtimes : runtimes'[q].holder = runtimes[q].holder
            BY <3>3
        <3>9. readers' = readers \ {t} /\ writer' = (IF writer = t THEN Nobody ELSE writer)
            BY <2>1, <2>2, <3>1
        <3> HIDE DEF n
        <3> QED BY <2>1, <2>2, <3>5, <3>6, <3>7, <3>8, <3>9, ReturnKeeps DEF disk
    <2>4. CASE mapped[w] # 0 /\ a = NoDir
        <3>1. Return(t, mapped[w]) /\ writer' = writer /\ UNCHANGED <<mapped, runtimes>>
            BY <1>3, <2>4 DEF Create, Found
        <3>2. Grown /\ AtHome'
            BY <2>1, <3>1, DiskUnchanged, TableGrown DEF disk, manager
        <3> QED BY <1>1, <2>1, <2>2, <2>4, <3>1, <3>2, ReturnKeeps DEF disk
    <2>5. CASE mapped[w] # 0 /\ a # NoDir
        <3>1. Found(t, mapped[w]) /\ writer' = t /\ UNCHANGED <<mapped, runtimes>>
            BY <1>3, <2>5 DEF Create
        <3> QED BY <1>1, <2>1, <2>5, <3>1, FoundKeeps
    <2> QED BY <2>3, <2>4, <2>5
<1> DEFINE r == job[t].rt
<1>4. ASSUME pc[t] \in Moving
      PROVE  /\ r \in DOMAIN runtimes /\ runtimes[r].ws = w /\ mapped[w] = r /\ runtimes[r] \in Runtime
             /\ w # Unnamed => a \in paths[w]
    <2>1. r \in DOMAIN runtimes
        BY <1>1, <1>4 DEF JobOk
    <2>2. runtimes[r] \in Runtime
        BY <1>1, <2>1, ElementOfSeq DEF IInv, Types
    <2> QED BY <1>1, <1>4, <2>1, <2>2 DEF JobOk, Moving, Looking
<1>5. CASE LockRuntime(t)
    <2>1. pc[t] = "relocate" /\ runtimes[r].holder = Nobody /\ UNCHANGED <<disk, manager, job, child>>
          /\ Goto(t, "moving") /\ runtimes' = [runtimes EXCEPT ![r].holder = t]
        BY <1>5 DEF LockRuntime, Free, SetHolder
    <2>2. r \in DOMAIN runtimes /\ runtimes[r] \in Runtime /\ pc[t] \in Moving
        BY <1>4, <2>1 DEF Moving
    <2>3. Moves(t, "moving", job[t])
        BY <2>1 DEF Moves, Goto, IInv, Types
    <2>4. /\ runtimes' \in Seq(Runtime) /\ Len(runtimes') = Len(runtimes) /\ DOMAIN runtimes' = DOMAIN runtimes
          /\ runtimes'[r].holder = t /\ runtimes'[r].ws = runtimes[r].ws /\ runtimes'[r].dir = runtimes[r].dir
          /\ \A q \in DOMAIN runtimes \ {r} : runtimes'[q] = runtimes[q]
        <3>1. [runtimes[r] EXCEPT !.holder = t] \in Runtime
            BY <2>2 DEF Runtime
        <3> QED BY <1>1, <2>1, <2>2, <3>1 DEF IInv, Types, Runtime
    <2>5. Grown
        <3>1. \A v \in Workspaces : mapped[v] # 0 => mapped[v] \in DOMAIN runtimes /\ runtimes[mapped[v]].ws = v
            BY <1>1 DEF IInv, TypeOK
        <3> QED BY <1>1, <2>1, <2>2, <2>4, <3>1 DEF Grown, IInv, Types, disk, manager
    <2>6. AtHome'
        BY <2>1, <2>2, <2>4 DEF IInv, AtHome, disk
    <2>7. LocksKept(t, "moving", job[t])
        <3>1. \A q \in DOMAIN runtimes : \A u \in Threads \ {t} :
                  runtimes[q].holder = u => runtimes'[q].holder = u
            BY <2>1, <2>2, <2>4, ThreadsAssumption DEF Threads
        <3> QED BY <2>1, <2>2, <2>4, <3>1 DEF LocksKept, IInv, Types, TypeOK, Moving, manager
    <2>8. JobOk("moving", job[t], mapped', runtimes', deletions', paths')
        BY <1>1, <2>1, <2>2, <2>4 DEF JobOk, Moving, Looking, WithTool, InTool, disk, manager
    <2>9. "moving" \in Labels /\ "moving" \notin WithTool /\ pc[t] # "await"
        BY <2>1 DEF Labels, Looking, WithTool, InTool
    <2> QED BY <1>1, <2>1, <2>3, <2>5, <2>6, <2>7, <2>8, <2>9, ChildKept, OneThread DEF IInv, Types, disk
<1>6. CASE Move(t)
    <2> DEFINE h == IF runtimes[r].holder = t THEN Nobody ELSE runtimes[r].holder
    <2>1. /\ pc[t] = "moving" /\ UNCHANGED <<disk, mapped, child, deletions>> /\ Return(t, r)
          /\ readers' = readers \ {t} /\ writer' = (IF writer = t THEN Nobody ELSE writer)
          /\ runtimes' = [runtimes EXCEPT ![r].dir = Target(t), ![r].holder = IF @ = t THEN Nobody ELSE @]
        BY <1>6 DEF Move
    <2>2. r \in DOMAIN runtimes /\ runtimes[r] \in Runtime /\ pc[t] \in Looking /\ runtimes[r].ws = w
          /\ mapped[w] = r /\ (w # Unnamed => a \in paths[w])
        BY <1>4, <2>1 DEF Moving, Looking
    <2>3. Target(t) \in Places /\ Target(t) \in {a, runtimes[r].dir} /\ h \in Threads \cup {Nobody}
        BY <1>1, <2>2 DEF Target, Runtime
    <2>4. /\ runtimes' \in Seq(Runtime) /\ Len(runtimes') = Len(runtimes) /\ DOMAIN runtimes' = DOMAIN runtimes
          /\ runtimes'[r].holder = h /\ runtimes'[r].ws = runtimes[r].ws /\ runtimes'[r].dir = Target(t)
          /\ \A q \in DOMAIN runtimes \ {r} : runtimes'[q] = runtimes[q]
        <3> DEFINE e == [runtimes[r] EXCEPT !.dir = Target(t), !.holder = h]
        <3>1. e \in Runtime /\ e.holder = h /\ e.ws = runtimes[r].ws /\ e.dir = Target(t)
            BY <2>2, <2>3 DEF Runtime
        <3>2. runtimes' = [runtimes EXCEPT ![r] = e]
            BY <1>1, <2>1, <2>2 DEF IInv, Types, Runtime
        <3> HIDE DEF e
        <3> QED BY <1>1, <2>2, <3>1, <3>2 DEF IInv, Types
    <2>5. Grown
        <3>1. \A v \in Workspaces : mapped[v] # 0 => mapped[v] \in DOMAIN runtimes /\ runtimes[mapped[v]].ws = v
            BY <1>1 DEF IInv, TypeOK
        <3> QED BY <1>1, <2>1, <2>2, <2>4, <3>1 DEF Grown, IInv, Types, disk
    <2>6. AtHome'
        BY <2>1, <2>2, <2>3, <2>4 DEF IInv, AtHome, disk
    <2>7. \A q \in DOMAIN runtimes : \A u \in Threads \ {t} :
              runtimes[q].holder = u => runtimes'[q].holder = u
        BY <2>2, <2>4
    <2>8. r \in Nat /\ r \in DOMAIN runtimes' /\ runtimes'[r].ws = w /\ mapped'[w] = r
        BY <1>1, <2>1, <2>2, <2>4
    <2> QED BY <2>1, <2>2, <2>5, <2>6, <2>7, <2>8, ReturnKeeps DEF disk
<1> QED BY <1>2, <1>3, <1>5, <1>6 DEF Lookup

----------------------------------------------------------------------------
(* The chains.                                                              *)

\* An executionMutex changes hands, and nothing else about the runtimes.
LEMMA HolderSet ==
    ASSUME IInv, NEW r \in DOMAIN runtimes, NEW h \in Threads \cup {Nobody}, SetHolder(r, h),
           UNCHANGED <<disk, manager>>
    PROVE  /\ Grown /\ AtHome'
           /\ DOMAIN runtimes' = DOMAIN runtimes /\ runtimes'[r].holder = h
           /\ \A q \in DOMAIN runtimes : runtimes'[q].ws = runtimes[q].ws /\ runtimes'[q].dir = runtimes[q].dir
           /\ \A q \in DOMAIN runtimes \ {r} : runtimes'[q] = runtimes[q]
<1>1. DOMAIN runtimes = 1 .. Len(runtimes) /\ Len(runtimes) \in Nat /\ runtimes[r] \in Runtime
    BY ElementOfSeq DEF IInv, Types
<1>2. [runtimes[r] EXCEPT !.holder = h] \in Runtime
    BY <1>1 DEF Runtime
<1>3. /\ runtimes' \in Seq(Runtime) /\ Len(runtimes') = Len(runtimes) /\ DOMAIN runtimes' = DOMAIN runtimes
      /\ runtimes'[r].holder = h /\ runtimes'[r].ws = runtimes[r].ws /\ runtimes'[r].dir = runtimes[r].dir
      /\ \A q \in DOMAIN runtimes \ {r} : runtimes'[q] = runtimes[q]
    BY <1>1, <1>2 DEF SetHolder, IInv, Types, Runtime
<1>4. Grown
    <2>1. \A v \in Workspaces : mapped[v] # 0 => mapped[v] \in DOMAIN runtimes /\ runtimes[mapped[v]].ws = v
        BY <1>1 DEF IInv, Types, TypeOK
    <2>2. /\ mapped' = mapped /\ deletions' = deletions /\ paths' = paths
          /\ mapped \in [Workspaces -> Nat] /\ deletions \in [Workspaces -> Nat]
          /\ paths \in [Workspaces -> SUBSET Dirs]
        BY DEF IInv, Types, disk, manager
    <2>3. \A q \in DOMAIN runtimes : runtimes'[q].ws = runtimes[q].ws
        BY <1>3
    <2>4. \A v \in Workspaces : mapped[v] # 0 => mapped[v] \in DOMAIN runtimes' /\ runtimes'[mapped[v]].ws = v
        BY <1>3, <2>1, <2>3
    <2>5. runtimes' \in Seq(Runtime) /\ Len(runtimes) <= Len(runtimes')
        BY <1>1, <1>3
    <2> QED BY <2>2, <2>3, <2>4, <2>5 DEF Grown
<1>5. AtHome'
    BY <1>3 DEF IInv, AtHome, disk
<1> QED BY <1>3, <1>4, <1>5

\* A chain takes or gives back the executionMutex of its tool's runtime.
LEMMA ToolLockKeeps ==
    ASSUME IInv, NEW c \in Chains, TakeRuntime(c) \/ Release(c)
    PROVE  IInv'
<1> DEFINE r == job[c].rt
<1>1. /\ c \in Threads /\ c # Nobody /\ job[c] \in Job /\ pc[c] \in {"tool", "release"}
      /\ UNCHANGED <<disk, manager, child>>
      /\ JobOk(pc[c], job[c], mapped, runtimes, deletions, paths)
    BY ThreadsAssumption DEF IInv, Types, Threads, TakeRuntime, Release, JobsOk
<1>2. pc[c] \in WithTool /\ pc[c] \notin Moving \cup {"await"} /\ r \in DOMAIN runtimes
      /\ c \notin readers \cup {writer}
    BY <1>1 DEF JobOk, WithTool, InTool, Moving, IInv, TypeOK
<1>3. readers \subseteq Threads /\ writer \in Threads \cup {Nobody} /\ (writer # Nobody => readers = {})
      /\ readers' = readers /\ writer' = writer
    BY <1>1 DEF IInv, Types, TypeOK, manager
<1>4. row' \in [Workspaces -> Places] /\ exists' \subseteq Dirs
    BY <1>1 DEF IInv, Types, disk
<1>5. CASE TakeRuntime(c)
    <2> DEFINE p == IF job[c].left = 0 THEN "release" ELSE "launch"
    <2>1. runtimes[r].holder = Nobody /\ SetHolder(r, c) /\ Goto(c, p) /\ UNCHANGED job
        BY <1>5 DEF TakeRuntime, Free
    <2>2. Moves(c, p, job[c])
        BY <2>1 DEF Moves, Goto, IInv, Types
    <2>3. p \in Labels /\ p \in WithTool /\ p \notin Moving /\ p \notin Looking /\ p \in InTool
        BY DEF Labels, WithTool, InTool, Moving, Looking
    <2> HIDE DEF p
    <2>4. /\ Grown /\ AtHome' /\ DOMAIN runtimes' = DOMAIN runtimes /\ runtimes'[r].holder = c
          /\ \A q \in DOMAIN runtimes : runtimes'[q].ws = runtimes[q].ws
          /\ \A q \in DOMAIN runtimes \ {r} : runtimes'[q] = runtimes[q]
        BY <1>1, <1>2, <2>1, HolderSet
    <2>5. JobOk(p, job[c], mapped', runtimes', deletions', paths')
        BY <1>1, <1>2, <2>3, <2>4 DEF JobOk, disk, manager
    <2>6. \A q \in DOMAIN runtimes : \A u \in Threads \ {c} :
              runtimes[q].holder = u => runtimes'[q].holder = u
        BY <1>2, <2>1, <2>4, ThreadsAssumption DEF Threads
    <2>7. LocksKept(c, p, job[c])
        BY <1>2, <1>3, <2>3, <2>4, <2>6 DEF LocksKept
    <2> QED BY <1>1, <1>2, <1>4, <2>2, <2>3, <2>4, <2>5, <2>7, ChildKept, OneThread
<1>6. CASE Release(c)
    <2> DEFINE d == [job[c] EXCEPT !.rt = 0, !.gen = 0, !.left = 0, !.limited = TRUE]
    <2>1. pc[c] = "release" /\ SetHolder(r, Nobody) /\ Moves(c, "next", d)
        BY <1>6 DEF Release, Goto, SetJob, Moves
    <2>2. d \in Job /\ d.ws = job[c].ws /\ d.path = job[c].path
        <3> DEFINE e == [job[c] EXCEPT !.rt = 0, !.gen = 0, !.left = 0]
        <3>1. e \in Job /\ e.ws = job[c].ws /\ e.path = job[c].path
            <4>1. [job[c] EXCEPT !.rt = 0] \in Job /\ 0 \in Nat /\ 0 \in Int
                BY <1>1 DEF Job
            <4>2. e.ws = job[c].ws /\ e.path = job[c].path
                BY <1>1 DEF Job
            <4>3. e \in Job
                BY <1>1, <4>1 DEF Job
            <4> QED BY <4>2, <4>3
        <3>2. d = [e EXCEPT !.limited = TRUE]
            BY <1>1 DEF Job
        <3> HIDE DEF d, e
        <3> QED BY <3>1, <3>2 DEF Job
    <2> HIDE DEF d
    <2>3. Grown /\ AtHome' /\ \A q \in DOMAIN runtimes \ {r} : runtimes'[q] = runtimes[q]
        BY <1>1, <1>2, <2>1, HolderSet
    <2>4. JobOk("next", d, mapped', runtimes', deletions', paths')
        BY <1>1, <1>2, <2>2 DEF JobOk, Moving, Looking, WithTool, InTool, disk
    <2>5. runtimes[r].holder = c
        BY <1>1, <2>1 DEF IInv, Held, InTool
    <2>6. "next" \in Labels /\ "next" \notin WithTool /\ "next" \notin Moving
          /\ "next" \notin {"moving"} \cup InTool
        BY DEF Labels, WithTool, InTool, Moving
    <2>7. LocksKept(c, "next", d)
        BY <1>2, <1>3, <2>3, <2>5, <2>6 DEF LocksKept
    <2> QED BY <1>1, <1>2, <1>4, <2>1, <2>2, <2>3, <2>4, <2>6, <2>7, ChildKept, OneThread
<1> QED BY <1>5, <1>6

\* A step of a tool's process, seen by its chain or not.
LEMMA ProcessKeeps ==
    ASSUME IInv, NEW c \in Chains, Launch(c) \/ Reap(c) \/ Timeout(c) \/ Exit(c) \/ Detach(c)
    PROVE  IInv'
<1>1. /\ c \in Threads /\ job[c] \in Job /\ UNCHANGED <<disk, manager, runtimes>>
      /\ child \in [Chains -> {"none", "running", "detached", "exited"}]
      /\ \A b \in Chains : child[b] # "none" => pc[b] = "await"
      /\ JobOk(pc[c], job[c], mapped, runtimes, deletions, paths)
      /\ DOMAIN pc = Threads /\ job = [job EXCEPT ![c] = job[c]]
    BY DEF IInv, Types, TypeOK, Threads, Launch, Reap, Timeout, Exit, Detach, JobsOk
<1>2. CASE Exit(c) \/ Detach(c)
    <2>1. UNCHANGED <<pc, job>> /\ pc[c] = "await"
          /\ \E v \in {"exited", "detached"} : child' = [child EXCEPT ![c] = v]
        BY <1>1, <1>2 DEF Exit, Detach
    <2>2. child' \in [Chains -> {"none", "running", "detached", "exited"}]
          /\ \A b \in Chains : child'[b] # "none" => pc[b] = "await"
        BY <1>1, <2>1
    <2> QED BY <1>1, <2>1, <2>2 DEF IInv, Types, TypeOK, JobsOk, Held, SameRuntime, AtHome, disk, manager
<1>3. ASSUME NEW p \in InTool, NEW j \in Job, Moves(c, p, j), pc[c] \in InTool,
             NEW v \in {"none", "running"}, child' = [child EXCEPT ![c] = v], v = "running" => p = "await",
             j.ws = job[c].ws, j.gen = job[c].gen, j.rt = job[c].rt, j.path = job[c].path
      PROVE  IInv'
    <2>1. p \in Labels \ Moving /\ p \in WithTool /\ p \notin Looking /\ pc[c] \notin Moving /\ pc[c] \in WithTool
        BY <1>3 DEF Labels, Moving, WithTool, InTool, Looking
    <2>2. JobOk(p, j, mapped, runtimes, deletions, paths')
        BY <1>1, <1>3, <2>1 DEF JobOk, disk
    <2>3. child' \in [Chains -> {"none", "running", "detached", "exited"}]
          /\ \A b \in Chains : child'[b] # "none" => pc'[b] = "await"
        BY <1>1, <1>3 DEF Moves
    <2>4. DiskKept
        BY <1>1, DiskUnchanged DEF disk
    <2>5. runtimes[j.rt].holder = c
        BY <1>1, <1>3 DEF IInv, Held
    <2> QED BY <1>1, <1>3, <2>1, <2>2, <2>3, <2>4, <2>5, ThreadOnly
<1>4. CASE Launch(c)
    <2>1. /\ pc[c] \in InTool /\ UNCHANGED job
          /\ \E p \in {"release", "await"}, v \in {"none", "running"} :
                Goto(c, p) /\ child' = [child EXCEPT ![c] = v] /\ (v = "running" => p = "await")
        BY <1>1, <1>4 DEF Launch, InTool
    <2>2. PICK p \in {"release", "await"}, v \in {"none", "running"} :
                Goto(c, p) /\ child' = [child EXCEPT ![c] = v] /\ (v = "running" => p = "await")
        BY <2>1
    <2>3. Moves(c, p, job[c]) /\ p \in InTool
        BY <1>1, <2>1, <2>2 DEF Moves, Goto, InTool
    <2> QED BY <1>1, <1>3, <2>1, <2>2, <2>3
<1>5. CASE Reap(c) \/ Timeout(c)
    <2>1. pc[c] \in InTool /\ child' = [child EXCEPT ![c] = "none"]
        BY <1>5 DEF Reap, Timeout, InTool
    <2>2. \E n \in Int, p \in {"launch", "release"} : Goto(c, p) /\ SetJob(c, [job[c] EXCEPT !.left = n])
        <3>1. CASE Timeout(c)
            <4>1. Goto(c, "release") /\ SetJob(c, [job[c] EXCEPT !.left = 0])
                BY <3>1 DEF Timeout
            <4>2. 0 \in Int /\ "release" \in {"launch", "release"}
                OBVIOUS
            <4> QED BY <4>1, <4>2
        <3>2. CASE Reap(c)
            <4>1. PICK success \in BOOLEAN :
                     /\ SetJob(c, [job[c] EXCEPT !.left = IF success THEN @ - 1 ELSE 0])
                     /\ Goto(c, IF success /\ job[c].left > 1 THEN "launch" ELSE "release")
                BY <3>2 DEF Reap
            <4> DEFINE n == IF success THEN job[c].left - 1 ELSE 0
                       p == IF success /\ job[c].left > 1 THEN "launch" ELSE "release"
            <4>2. n \in Int /\ p \in {"launch", "release"}
                BY <1>1 DEF Job
            <4>3. SetJob(c, [job[c] EXCEPT !.left = n]) /\ Goto(c, p)
                BY <1>1, <4>1 DEF Job
            <4> QED BY <4>2, <4>3
        <3> QED BY <1>5, <3>1, <3>2
    <2>3. PICK n \in Int, p \in {"launch", "release"} : Goto(c, p) /\ SetJob(c, [job[c] EXCEPT !.left = n])
        BY <2>2
    <2> DEFINE d == [job[c] EXCEPT !.left = n]
    <2>4. d \in Job /\ d.ws = job[c].ws /\ d.gen = job[c].gen /\ d.rt = job[c].rt /\ d.path = job[c].path
        BY <1>1 DEF Job
    <2>5. Moves(c, p, d) /\ p \in InTool
        BY <2>3 DEF Moves, Goto, SetJob, InTool
    <2> HIDE DEF d
    <2> QED BY <1>3, <2>1, <2>4, <2>5
<1> QED BY <1>2, <1>4, <1>5

\* The steps of a chain between its lookups.
LEMMA ChainKeeps ==
    ASSUME IInv, NEW c \in Chains, Admit(c) \/ Start(c) \/ Fallback(c) \/ Look(c) \/ Command(c)
    PROVE  IInv'
<1> DEFINE w == job[c].ws
<1>1. /\ c \in Threads /\ job[c] \in Job /\ w \in Workspaces /\ UNCHANGED <<disk, manager, runtimes, child>>
      /\ JobOk(pc[c], job[c], mapped, runtimes, deletions, paths) /\ paths' = paths
      /\ pc[c] \in {"idle", "start", "fallback", "look", "next"}
    BY DEF IInv, Types, Threads, Job, Admit, Start, Fallback, Look, Command, JobsOk, disk
<1>2. pc[c] \notin Moving \cup {"await"} /\ DiskKept
    BY <1>1, DiskUnchanged DEF Moving, disk
<1>3. pc[c] # "idle" => w # Unnamed
    BY <1>1 DEF JobOk
<1>4. \A v \in Workspaces : row[v] # NoDir => row[v] \in Places /\ row[v] \in paths'[v]
    BY <1>1 DEF IInv, Types, AtHome
<1>5. CASE Admit(c)
    <2>1. PICK v \in Named : IF row[v] = NoDir THEN Done(c) ELSE GetOrCreate(c, v, row[v], "start", job[c])
        BY <1>5 DEF Admit
    <2>2. v \in Workspaces /\ v # Unnamed
        BY DEF Named
    <2>3. CASE row[v] = NoDir
        BY <1>1, <1>2, <2>1, <2>3, DoneKeeps
    <2>4. CASE row[v] # NoDir
        BY <1>1, <1>2, <1>4, <2>1, <2>2, <2>4, CallKeeps
    <2> QED BY <2>3, <2>4
<1>6. CASE Start(c)
    <2>1. pc[c] = "start"
        BY <1>6 DEF Start
    <2>2. CASE mapped[w] # 0
        <3> DEFINE d == [job[c] EXCEPT !.rt = mapped[w]]
        <3>1. Moves(c, "look", d)
            BY <1>6, <2>2 DEF Start, Goto, SetJob, Moves
        <3>2. mapped[w] \in DOMAIN runtimes /\ runtimes[mapped[w]].ws = w /\ mapped[w] \in Nat
            BY <1>1, <2>2 DEF IInv, Types, TypeOK
        <3>3. d \in Job /\ d.ws = w /\ d.rt = mapped[w]
            BY <1>1, <3>2 DEF Job
        <3> HIDE DEF d
        <3>4. JobOk("look", d, mapped, runtimes, deletions, paths')
            BY <1>3, <2>1, <3>2, <3>3 DEF JobOk, Moving, Looking, WithTool, InTool
        <3>5. "look" \in Labels \ Moving /\ "look" \notin WithTool /\ "look" \notin InTool
            BY DEF Labels, Moving, WithTool, InTool
        <3> QED BY <1>1, <1>2, <3>1, <3>3, <3>4, <3>5, ChildKept, ThreadOnly
    <2>3. CASE mapped[w] = 0
        <3>1. Moves(c, "fallback", job[c])
            BY <1>6, <2>3 DEF Start, Goto, Moves, IInv, Types
        <3>2. JobOk("fallback", job[c], mapped, runtimes, deletions, paths')
            BY <1>3, <2>1 DEF JobOk, Moving, Looking, WithTool, InTool
        <3>3. "fallback" \in Labels \ Moving /\ "fallback" \notin WithTool /\ "fallback" \notin InTool
            BY DEF Labels, Moving, WithTool, InTool
        <3> QED BY <1>1, <1>2, <3>1, <3>2, <3>3, ChildKept, ThreadOnly
    <2> QED BY <2>2, <2>3
<1>7. CASE Fallback(c)
    <2>1. pc[c] = "fallback" /\ IF row[w] = NoDir THEN Done(c) ELSE GetOrCreate(c, w, row[w], "look", job[c])
        BY <1>7 DEF Fallback
    <2>2. CASE row[w] = NoDir
        BY <1>1, <1>2, <2>1, <2>2, DoneKeeps
    <2>3. CASE row[w] # NoDir
        BY <1>1, <1>2, <1>3, <1>4, <2>1, <2>3, CallKeeps
    <2> QED BY <2>2, <2>3
<1>8. CASE Look(c)
    <2> DEFINE r == job[c].rt
               seen == {runtimes[r].dir} \cup
                       {Target(t) : t \in {u \in Threads : pc[u] = "moving" /\ job[u].rt = r}}
    <2>1. pc[c] = "look" /\ r \in DOMAIN runtimes /\ runtimes[r].ws = w /\ w # Unnamed
        BY <1>1, <1>3, <1>8 DEF Look, JobOk
    <2>2. \A dir \in seen : dir \in paths[w]
        <3>1. runtimes[r].dir \in paths[w]
            BY <2>1 DEF IInv, AtHome
        <3>2. ASSUME NEW t \in Threads, pc[t] = "moving", job[t].rt = r PROVE Target(t) \in paths[w]
            <4>1. JobOk("moving", job[t], mapped, runtimes, deletions, paths)
                BY <3>2 DEF IInv, JobsOk
            <4>2. job[t].ws = w /\ job[t].arg \in paths[w]
                BY <2>1, <3>2, <4>1 DEF JobOk, Moving, Looking
            <4> QED BY <3>1, <3>2, <4>2 DEF Target
        <3> QED BY <3>1, <3>2
    <2>3. PICK dir \in seen : SetJob(c, [job[c] EXCEPT !.path = dir, !.rt = 0, !.gen = 0])
        BY <1>8 DEF Look
    <2>4. dir \in paths[w] /\ dir \in Places
        BY <1>1, <2>2, <2>3 DEF IInv, Types, Places
    <2> HIDE DEF seen
    <2> DEFINE d == [job[c] EXCEPT !.path = dir, !.rt = 0, !.gen = 0]
    <2>5. Moves(c, "next", d)
        BY <1>8, <2>3 DEF Look, Goto, SetJob, Moves
    <2>6. d \in Job /\ d.ws = w /\ d.path = dir
        <3>1. 0 \in Nat
            OBVIOUS
        <3> QED BY <1>1, <2>4, <3>1 DEF Job
    <2> HIDE DEF d
    <2>7. JobOk("next", d, mapped, runtimes, deletions, paths')
        BY <1>1, <2>1, <2>4, <2>6 DEF JobOk, Moving, Looking, WithTool, InTool
    <2>8. "next" \in Labels \ Moving /\ "next" \notin WithTool /\ "next" \notin InTool
        BY DEF Labels, Moving, WithTool, InTool
    <2> QED BY <1>1, <1>2, <2>5, <2>6, <2>7, <2>8, ChildKept, ThreadOnly
<1>9. CASE Command(c)
    <2>1. pc[c] = "next" /\ job[c].path \in paths'[w] /\ w # Unnamed /\ job[c].path \in Places
        BY <1>1, <1>3, <1>9 DEF Command, JobOk, Job
    <2>2. CASE Done(c)
        BY <1>1, <1>2, <2>2, DoneKeeps
    <2>3. ASSUME NEW left \in 0 .. 2, NEW limited \in BOOLEAN,
                 GetOrCreate(c, w, job[c].path, "tool",
                             [job[c] EXCEPT !.issued = @ + 1, !.left = left, !.limited = limited])
          PROVE  IInv'
        <3> DEFINE d == [job[c] EXCEPT !.issued = @ + 1, !.left = left, !.limited = limited]
        <3>1. d \in Job /\ d.path = job[c].path
            <4>1. job[c].issued + 1 \in Nat /\ left \in Int
                BY <1>1 DEF Job
            <4> QED BY <1>1, <4>1 DEF Job
        <3> HIDE DEF d
        <3> QED BY <1>1, <1>2, <2>1, <2>3, <3>1, CallKeeps DEF d
    <2> QED BY <1>9, <2>2, <2>3 DEF Command
<1> QED BY <1>5, <1>6, <1>7, <1>8, <1>9

----------------------------------------------------------------------------
(* The requests.                                                            *)

LEMMA RequestKeeps ==
    ASSUME IInv, NEW q \in Requests,
           CreateWorkspace(q) \/ UpdateWorkspace(q) \/ DeleteWorkspace(q) \/ Reread(q)
    PROVE  IInv'
<1>1. /\ q \in Threads /\ job[q] \in Job /\ UNCHANGED <<exists, manager, runtimes, child>>
      /\ pc[q] \notin Moving \cup {"await"}
      /\ row \in [Workspaces -> Places] /\ exists \subseteq Dirs /\ paths \in [Workspaces -> SUBSET Dirs]
      /\ \A v \in Workspaces : row[v] # NoDir => row[v] \in paths[v]
    BY DEF IInv, Types, AtHome, Threads, CreateWorkspace, UpdateWorkspace, DeleteWorkspace, Reread, Moving, disk
<1>2. ASSUME NEW w \in Workspaces, NEW dir \in exists, row' = [row EXCEPT ![w] = dir],
             paths' = [paths EXCEPT ![w] = paths[w] \cup {dir}]
      PROVE  DiskKept
    BY <1>1, <1>2 DEF DiskKept, Places
<1>3. UNCHANGED <<row, paths>> => DiskKept
    BY <1>1 DEF DiskKept
<1>4. ASSUME NEW p \in {"reread", "invalidate"}, NEW w \in Workspaces, NEW a \in Places, DiskKept,
             Goto(q, p), SetJob(q, [job[q] EXCEPT !.ws = w, !.arg = a])
      PROVE  IInv'
    <2> DEFINE d == [job[q] EXCEPT !.ws = w, !.arg = a]
    <2>1. d \in Job
        BY <1>1 DEF Job
    <2>2. Moves(q, p, d)
        BY <1>4 DEF Goto, SetJob, Moves
    <2> HIDE DEF d
    <2>3. JobOk(p, d, mapped, runtimes, deletions, paths')
        BY DEF JobOk, Moving, Looking, WithTool, InTool
    <2>4. p \in Labels \ Moving /\ p \notin WithTool /\ p \notin InTool
        BY DEF Labels, Moving, WithTool, InTool
    <2> QED BY <1>1, <1>4, <2>1, <2>2, <2>3, <2>4, ChildKept, ThreadOnly
<1>5. CASE CreateWorkspace(q)
    <2>1. PICK w \in Named, dir \in exists :
             \/ /\ paths[w] = {}
                /\ row' = [row EXCEPT ![w] = dir]
                /\ paths' = [paths EXCEPT ![w] = {dir}]
                /\ GetOrCreate(q, w, dir, "done", job[q])
             \/ /\ GetOrCreate(q, Unnamed, NoDir, "done", job[q])
                /\ UNCHANGED <<row, paths>>
        BY <1>5 DEF CreateWorkspace
    <2>2. w \in Workspaces /\ dir \in Places /\ NoDir \in Places /\ Unnamed \in Workspaces
        BY <1>1, UnnamedAssumption DEF Named, Places
    <2>3. CASE paths[w] = {} /\ row' = [row EXCEPT ![w] = dir] /\ paths' = [paths EXCEPT ![w] = {dir}]
               /\ GetOrCreate(q, w, dir, "done", job[q])
        <3>1. paths' = [paths EXCEPT ![w] = paths[w] \cup {dir}] /\ dir \in paths'[w]
            BY <1>1, <2>2, <2>3
        <3>2. DiskKept
            BY <1>2, <2>2, <2>3, <3>1
        <3> QED BY <1>1, <2>2, <2>3, <3>1, <3>2, CallKeeps
    <2>4. CASE GetOrCreate(q, Unnamed, NoDir, "done", job[q]) /\ UNCHANGED <<row, paths>>
        BY <1>1, <1>3, <2>2, <2>4, CallKeeps
    <2> QED BY <2>1, <2>3, <2>4
<1>6. CASE UpdateWorkspace(q)
    <2>1. PICK w \in Named, dir \in exists \cup {NoDir} :
             \/ Done(q) /\ UNCHANGED <<row, paths>>
             \/ /\ Goto(q, "reread")
                /\ SetJob(q, [job[q] EXCEPT !.ws = w, !.arg = dir])
                /\ IF dir # NoDir /\ row[w] # NoDir
                   THEN /\ row' = [row EXCEPT ![w] = dir]
                        /\ paths' = [paths EXCEPT ![w] = @ \cup {dir}]
                   ELSE UNCHANGED <<row, paths>>
        BY <1>6 DEF UpdateWorkspace
    <2>2. w \in Workspaces /\ dir \in Places
        BY <1>1 DEF Named, Places
    <2>3. CASE Done(q) /\ UNCHANGED <<row, paths>>
        BY <1>1, <1>3, <2>3, DoneKeeps
    <2>4. CASE /\ Goto(q, "reread")
               /\ SetJob(q, [job[q] EXCEPT !.ws = w, !.arg = dir])
               /\ IF dir # NoDir /\ row[w] # NoDir
                  THEN /\ row' = [row EXCEPT ![w] = dir]
                       /\ paths' = [paths EXCEPT ![w] = @ \cup {dir}]
                  ELSE UNCHANGED <<row, paths>>
        <3>1. DiskKept
            <4>1. CASE dir # NoDir /\ row[w] # NoDir
                <5>1. dir \in exists /\ row' = [row EXCEPT ![w] = dir] /\ paths' = [paths EXCEPT ![w] = @ \cup {dir}]
                    BY <2>4, <4>1
                <5>2. paths' = [paths EXCEPT ![w] = paths[w] \cup {dir}]
                    BY <1>1, <2>2, <5>1
                <5> QED BY <1>2, <2>2, <5>1, <5>2
            <4>2. CASE ~(dir # NoDir /\ row[w] # NoDir)
                BY <1>3, <2>4, <4>2
            <4> QED BY <4>1, <4>2
        <3> QED BY <1>4, <2>2, <2>4, <3>1
    <2> QED BY <2>1, <2>3, <2>4
<1>7. CASE DeleteWorkspace(q)
    <2>1. PICK w \in Named :
             \/ Done(q) /\ UNCHANGED row
             \/ /\ Goto(q, "invalidate")
                /\ SetJob(q, [job[q] EXCEPT !.ws = w])
                /\ row' = [row EXCEPT ![w] = NoDir]
        BY <1>7 DEF DeleteWorkspace
    <2>2. w \in Workspaces /\ paths' = paths
        BY <1>7 DEF Named, DeleteWorkspace
    <2>3. CASE Done(q) /\ UNCHANGED row
        BY <1>1, <1>3, <2>2, <2>3, DoneKeeps
    <2>4. CASE Goto(q, "invalidate") /\ SetJob(q, [job[q] EXCEPT !.ws = w]) /\ row' = [row EXCEPT ![w] = NoDir]
        <3>1. DiskKept
            BY <1>1, <2>2, <2>4 DEF DiskKept, Places
        <3>2. job[q].arg \in Places /\ [job[q] EXCEPT !.ws = w] = [job[q] EXCEPT !.ws = w, !.arg = job[q].arg]
            BY <1>1 DEF Job
        <3> QED BY <1>4, <2>2, <2>4, <3>1, <3>2
    <2> QED BY <2>1, <2>3, <2>4
<1>8. CASE Reread(q)
    <2> DEFINE w == job[q].ws
    <2>1. (IF row[w] = NoDir THEN Done(q) ELSE GetOrCreate(q, w, row[w], "done", job[q]))
          /\ UNCHANGED <<row, paths>> /\ w \in Workspaces
        BY <1>1, <1>8 DEF Reread, disk, Job
    <2>2. CASE row[w] = NoDir
        BY <1>1, <1>3, <2>1, <2>2, DoneKeeps
    <2>3. CASE row[w] # NoDir
        BY <1>1, <1>3, <2>1, <2>3, CallKeeps
    <2> QED BY <2>2, <2>3
<1> QED BY <1>5, <1>6, <1>7, <1>8

\* A runtime is taken out of the table while nobody has the manager's lock: a chain that
\* has it for its tool keeps it.
LEMMA InvalidateKeeps ==
    ASSUME IInv, NEW q \in Requests, Invalidate(q)
    PROVE  IInv'
<1> DEFINE w == job[q].ws
<1>1. /\ q \in Threads /\ w \in Workspaces /\ pc[q] = "invalidate" /\ readers = {} /\ writer = Nobody
      /\ UNCHANGED <<disk, runtimes, readers, writer, child>>
      /\ mapped' = [mapped EXCEPT ![w] = 0] /\ deletions' = [deletions EXCEPT ![w] = @ + 1]
      /\ Moves(q, "done", NewJob)
    BY DEF Invalidate, Done, Goto, SetJob, Moves, Threads, IInv, Types, Job
<1>2. "done" \in Labels /\ "done" \notin Moving /\ "done" \notin WithTool /\ "done" \notin {"moving"} \cup InTool
    BY DEF Labels, Moving, WithTool, InTool
<1>3. Grown
    <2>1. DOMAIN runtimes = 1 .. Len(runtimes) /\ Len(runtimes) \in Nat
        BY DEF IInv, Types
    <2>2. mapped' \in [Workspaces -> Nat] /\ deletions' \in [Workspaces -> Nat] /\ paths' = paths
        BY <1>1 DEF IInv, Types, disk
    <2>3. \A v \in Workspaces : mapped'[v] # 0 => mapped'[v] \in DOMAIN runtimes /\ runtimes[mapped'[v]].ws = v
        BY <1>1, <2>1 DEF IInv, Types, TypeOK
    <2>4. \A v \in Workspaces : \/ deletions'[v] = deletions[v] /\ mapped'[v] = mapped[v]
                                \/ deletions'[v] = deletions[v] + 1
        BY <1>1 DEF IInv, Types
    <2> QED BY <1>1, <2>1, <2>2, <2>3, <2>4 DEF Grown, IInv, Types
<1>4. AtHome'
    BY <1>1 DEF IInv, AtHome, disk
<1>5. JobOk("done", NewJob, mapped', runtimes', deletions', paths')
    BY DEF JobOk, Moving, Looking, WithTool, InTool
<1>6. LocksKept(q, "done", NewJob)
    BY <1>1, <1>2, ThreadsAssumption DEF LocksKept, Threads
<1> QED BY <1>1, <1>2, <1>3, <1>4, <1>5, <1>6, NewJobType, ChildKept, OneThread DEF IInv, Types, disk

----------------------------------------------------------------------------
(* The invariant.                                                           *)

LEMMA InitOk == Init => IInv
<1> SUFFICES ASSUME Init PROVE IInv
    OBVIOUS
<1>1. Types
    BY NewJobType DEF Init, Types, Places, Labels
<1>2. TypeOK
    BY ThreadsAssumption DEF Init, TypeOK, Places, Threads
<1>3. JobsOk /\ Held /\ SameRuntime
    BY DEF Init, JobsOk, JobOk, Held, SameRuntime, Moving, Looking, WithTool, InTool
<1>4. AtHome
    BY DEF Init, AtHome
<1> QED BY <1>1, <1>2, <1>3, <1>4 DEF IInv

LEMMA VanishKeeps ==
    ASSUME IInv, NEW dir \in Dirs, Vanish(dir)
    PROVE  IInv'
<1>1. UNCHANGED <<row, paths, manager, runtimes, pc, job, child>> /\ exists' \subseteq exists
    BY DEF Vanish
<1> QED BY <1>1 DEF IInv, Types, TypeOK, JobsOk, Held, SameRuntime, AtHome, manager

LEMMA StepOk == IInv /\ [Next]_vars => IInv'
<1> SUFFICES ASSUME IInv, [Next]_vars PROVE IInv'
    OBVIOUS
<1>1. ASSUME NEW c \in Chains, Admit(c) \/ Chain(c) \/ Exit(c) \/ Detach(c) PROVE IInv'
    <2>1. c \in Threads
        BY DEF Threads
    <2>2. CASE Lookup(c)
        BY <2>1, <2>2, LookupKeeps
    <2>3. CASE Admit(c) \/ Start(c) \/ Fallback(c) \/ Look(c) \/ Command(c)
        BY <2>3, ChainKeeps
    <2>4. CASE TakeRuntime(c) \/ Release(c)
        BY <2>4, ToolLockKeeps
    <2>5. CASE Launch(c) \/ Reap(c) \/ Timeout(c) \/ Exit(c) \/ Detach(c)
        BY <2>5, ProcessKeeps
    <2> QED BY <1>1, <2>2, <2>3, <2>4, <2>5 DEF Chain
<1>2. ASSUME NEW q \in Requests,
             CreateWorkspace(q) \/ UpdateWorkspace(q) \/ DeleteWorkspace(q) \/ Request(q)
      PROVE  IInv'
    <2>1. q \in Threads
        BY DEF Threads
    <2>2. CASE Lookup(q)
        BY <2>1, <2>2, LookupKeeps
    <2>3. CASE CreateWorkspace(q) \/ UpdateWorkspace(q) \/ DeleteWorkspace(q) \/ Reread(q)
        BY <2>3, RequestKeeps
    <2>4. CASE Invalidate(q)
        BY <2>4, InvalidateKeeps
    <2> QED BY <1>2, <2>2, <2>3, <2>4 DEF Request
<1>3. CASE UNCHANGED vars
    BY <1>3 DEF vars, IInv, Types, TypeOK, JobsOk, Held, SameRuntime, AtHome
<1> QED BY <1>1, <1>2, <1>3, VanishKeeps DEF Next

\* The types of the tables and of every thread's locals, and what the threads rely on:
\* who moves a runtime or runs a tool in it holds its executionMutex, and the tools of a
\* workspace that started between the same two deletions have the same runtime.
THEOREM Reliance == Spec => []IInv
<1>1. Init => IInv
    BY InitOk
<1>2. IInv /\ [Next]_vars => IInv'
    BY StepOk
<1> QED BY <1>1, <1>2, PTL DEF Spec

----------------------------------------------------------------------------
(* What it is for.                                                          *)

\* Two tools with one runtime would both hold its executionMutex.
LEMMA SerialHolds == IInv => Serial
<1> SUFFICES ASSUME IInv, NEW c \in Chains, NEW d \in Chains, c # d, Running(c), Running(d),
                    job[c].ws = job[d].ws, job[c].gen = job[d].gen
             PROVE  FALSE
    BY DEF Serial
<1>1. c \in Threads /\ d \in Threads /\ pc[c] \in InTool /\ pc[d] \in InTool
      /\ pc[c] \in WithTool /\ pc[d] \in WithTool
    BY DEF Threads, Running, WithTool
<1>2. job[c].rt = job[d].rt
    BY <1>1 DEF IInv, SameRuntime
<1>3. runtimes[job[c].rt].holder = c /\ runtimes[job[d].rt].holder = d
    BY <1>1 DEF IInv, Held
<1> QED BY <1>2, <1>3

\* A tool runs where the row of its workspace has been, whether or not the path was
\* ever changed.
LEMMA RunsAtHome ==
    ASSUME IInv, NEW c \in Chains, Running(c)
    PROVE  runtimes[job[c].rt].dir \in paths[job[c].ws]
<1>1. c \in Threads /\ pc[c] \in WithTool
    BY DEF Threads, Running, WithTool
<1>2. job[c].rt \in DOMAIN runtimes /\ runtimes[job[c].rt].ws = job[c].ws /\ job[c].ws # Unnamed
    BY <1>1 DEF IInv, JobsOk, JobOk
<1> QED BY <1>2 DEF IInv, AtHome

\* Only relocate changes a directory, and not that of a runtime whose executionMutex a
\* tool holds.
LEMMA DirStays ==
    ASSUME IInv, [Next]_vars, NEW c \in Chains, Running(c)
    PROVE  runtimes'[job[c].rt].dir = runtimes[job[c].rt].dir
<1> DEFINE r == job[c].rt
<1>1. c \in Threads /\ pc[c] \in InTool /\ runtimes[r].holder = c /\ r \in DOMAIN runtimes
      /\ DOMAIN runtimes = 1 .. Len(runtimes) /\ Len(runtimes) \in Nat
    BY DEF Threads, Running, WithTool, IInv, JobsOk, JobOk, Held, Types
<1>2. ASSUME NEW t \in Threads, Lookup(t) PROVE runtimes'[r].dir = runtimes[r].dir
    <2>1. CASE Find(t)
        BY <2>1 DEF Find
    <2>2. CASE Create(t)
        <3>1. \/ runtimes' = runtimes
              \/ runtimes' = Append(runtimes, NewRuntime(job[t].ws, job[t].arg))
            BY <2>2 DEF Create
        <3> QED BY <1>1, <3>1 DEF IInv, Types
    <2>3. CASE LockRuntime(t)
        <3>1. job[t].rt # r
            BY <1>1, <2>3, ThreadsAssumption DEF LockRuntime, Free, Threads
        <3>2. runtimes'[r] = runtimes[r]
            BY <1>1, <2>3, <3>1 DEF LockRuntime, SetHolder
        <3> QED BY <3>2
    <2>4. CASE Move(t)
        <3>1. runtimes[job[t].rt].holder = t /\ pc[t] = "moving"
            BY <2>4 DEF Move, IInv, Held
        <3>2. job[t].rt # r
            BY <1>1, <3>1 DEF InTool
        <3>3. runtimes' = [runtimes EXCEPT ![job[t].rt].dir = Target(t),
                                           ![job[t].rt].holder = IF @ = t THEN Nobody ELSE @]
            BY <2>4 DEF Move
        <3> QED BY <1>1, <3>2, <3>3
    <2> QED BY <1>2, <2>1, <2>2, <2>3, <2>4 DEF Lookup
<1>3. ASSUME NEW d \in Chains, Admit(d) \/ Chain(d) \/ Exit(d) \/ Detach(d)
      PROVE  runtimes'[r].dir = runtimes[r].dir
    <2>1. d \in Threads
        BY DEF Threads
    <2>2. CASE TakeRuntime(d) \/ Release(d)
        <3>1. PICK h : SetHolder(job[d].rt, h)
            BY <2>2 DEF TakeRuntime, Release
        <3> QED BY <1>1, <3>1 DEF SetHolder
    <2>3. CASE \/ Admit(d) \/ Start(d) \/ Fallback(d) \/ Look(d) \/ Command(d) \/ Launch(d)
               \/ Reap(d) \/ Timeout(d) \/ Exit(d) \/ Detach(d)
        <3>1. runtimes' = runtimes
            BY <2>3 DEF Admit, Start, Fallback, Look, Command, Launch, Reap, Timeout, Exit, Detach
        <3> QED BY <3>1
    <2> QED BY <1>2, <1>3, <2>1, <2>2, <2>3 DEF Chain
<1>4. ASSUME NEW q \in Requests,
             CreateWorkspace(q) \/ UpdateWorkspace(q) \/ DeleteWorkspace(q) \/ Request(q)
      PROVE  runtimes'[r].dir = runtimes[r].dir
    <2>1. q \in Threads
        BY DEF Threads
    <2>2. CASE \/ CreateWorkspace(q) \/ UpdateWorkspace(q) \/ DeleteWorkspace(q) \/ Reread(q)
               \/ Invalidate(q)
        <3>1. runtimes' = runtimes
            BY <2>2 DEF CreateWorkspace, UpdateWorkspace, DeleteWorkspace, Reread, Invalidate
        <3> QED BY <3>1
    <2> QED BY <1>2, <1>4, <2>1, <2>2 DEF Request
<1>5. ASSUME NEW dir \in Dirs, Vanish(dir) PROVE runtimes'[r].dir = runtimes[r].dir
    BY <1>5 DEF Vanish
<1>6. CASE UNCHANGED vars
    BY <1>6 DEF vars
<1> QED BY <1>3, <1>4, <1>5, <1>6 DEF Next

\* The directory of a running tool is never outside the paths its workspace has had, be
\* the workspace renamed, moved, deleted or made again meanwhile.
THEOREM AtHomeAlways == Spec => [](\A c \in Chains : Running(c) => runtimes[job[c].rt].dir \in paths[job[c].ws])
<1>1. IInv => \A c \in Chains : Running(c) => runtimes[job[c].rt].dir \in paths[job[c].ws]
    BY RunsAtHome
<1> QED BY <1>1, Reliance, PTL

\* From its start to its end a tool is alone in its workspace, in one directory and the
\* workspace's own: for any number of workspaces, directories, chains and requests.
THEOREM InPlace == Spec => RunsInPlace
<1>1. IInv => TypeOK /\ Serial /\ HomeDirectory
    BY SerialHolds, RunsAtHome DEF IInv, HomeDirectory
<1>2. IInv /\ [Next]_vars =>
          [\A c \in Chains : Running(c) => runtimes'[job[c].rt].dir = runtimes[job[c].rt].dir]_vars
    BY DirStays
<1> QED BY <1>1, <1>2, Reliance, PTL DEF Spec, RunsInPlace, StaysPut

----------------------------------------------------------------------------
(* Paths.                                                                   *)

\* A set of numbers that is not empty has a least one.
LEMMA LeastNumber ==
  ASSUME NEW S \in SUBSET Nat, S # {}
  PROVE  \E x \in S : \A y \in S : x <= y
<1>1. PICK x \in S : \A y \in S : ~ <<y, x>> \in OpToRel(<, Nat)
  BY NatLessThanWellFounded, WFMin, Zenon
<1>2. ASSUME NEW y \in S PROVE x <= y
  <2>1. ~ (y < x)
    <3>1. <<y, x>> \in OpToRel(<, Nat) <=> y < x
      BY DEF OpToRel
    <3> QED
      BY <1>1, <3>1
  <2> QED
    BY <2>1
<1> QED
  BY <1>2

\* Min is what its name says.
LEMMA MinIsLeast ==
  ASSUME NEW S \in SUBSET Nat, S # {}
  PROVE  Min(S) \in S /\ \A y \in S : Min(S) <= y
BY LeastNumber DEF Min

\* Two paths with the same names in the same places are one.
LEMMA SamePath ==
  ASSUME NEW p \in Seq(Names), NEW q \in Seq(Names), Len(p) = Len(q),
         \A i \in 1 .. Len(p) : p[i] = q[i]
  PROVE  p = q
BY SeqEqual

\* A path is under another one that it begins with.
LEMMA UnderIs ==
  ASSUME NEW p \in Seq(Names), NEW q \in Seq(Names)
  PROVE  Under(p, q) <=> Len(p) <= Len(q) /\ \A i \in 1 .. Len(p) : p[i] = q[i]
<1> SUFFICES ASSUME Len(p) <= Len(q)
    PROVE SubSeq(p, 1, Len(p)) = SubSeq(q, 1, Len(p)) <=> \A i \in 1 .. Len(p) : p[i] = q[i]
  BY DEF Under, IsPrefix
<1>1. SubSeq(p, 1, Len(p)) = p
  BY SubSeqFull
<1> DEFINE r == SubSeq(q, 1, Len(p))
<1>2. \A i \in 1 .. Len(p) : q[i] \in Names
  BY ElementOfSeq
<1>3. /\ r \in Seq(Names) /\ Len(r) = Len(p)
      /\ \A i \in 1 .. Len(p) : r[i] = q[i]
  BY <1>2, SubSeqProperties
<1> HIDE DEF r
<1>4. p = r <=> \A i \in 1 .. Len(p) : p[i] = r[i]
  BY <1>3, SamePath
<1> QED
  BY <1>1, <1>3, <1>4 DEF r

LEMMA FrontIs ==
  ASSUME NEW p \in Seq(Names), p # <<>>
  PROVE  /\ Len(p) > 0 /\ Front(p) \in Seq(Names) /\ Len(Front(p)) = Len(p) - 1
         /\ \A i \in 1 .. Len(p) - 1 : Front(p)[i] = p[i]
<1> DEFINE n == Len(p) - 1
<1>1. Len(p) \in Nat /\ Len(p) > 0 /\ n \in Nat /\ n + 1 = Len(p)
  BY EmptySeq
<1>2. \A i \in 1 .. n : p[i] \in Names
  BY ElementOfSeq, <1>1
<1>3. Front(p) = SubSeq(p, 1, n)
  BY DEF Front
<1> HIDE DEF n
<1>4. /\ SubSeq(p, 1, n) \in Seq(Names)
      /\ Len(SubSeq(p, 1, n)) = IF 1 <= n THEN n - 1 + 1 ELSE 0
      /\ \A i \in 1 .. n - 1 + 1 : SubSeq(p, 1, n)[i] = p[1 + i - 1]
  BY <1>1, <1>2, SubSeqProperties
<1>5. Len(SubSeq(p, 1, n)) = n
  BY <1>1, <1>4
<1>6. ASSUME NEW i \in 1 .. n PROVE SubSeq(p, 1, n)[i] = p[i]
  <2>1. i \in 1 .. n - 1 + 1 /\ 1 + i - 1 = i
    BY <1>1
  <2> QED
    BY <1>4, <2>1
<1> QED
  BY <1>1, <1>3, <1>4, <1>5, <1>6 DEF n

\* What is under a path is the path itself or lies in a directory under it.
LEMMA UnderFront ==
  ASSUME NEW p \in Seq(Names), NEW q \in Seq(Names), q # <<>>
  PROVE  Under(p, q) <=> p = q \/ Under(p, Front(q))
<1>1. /\ Len(q) > 0 /\ Front(q) \in Seq(Names) /\ Len(Front(q)) = Len(q) - 1
      /\ \A i \in 1 .. Len(q) - 1 : Front(q)[i] = q[i]
  BY FrontIs
<1>2. CASE Len(p) >= Len(q)
  <2>1. p = q <=> Len(p) = Len(q) /\ \A i \in 1 .. Len(p) : p[i] = q[i]
    BY SamePath
  <2> QED
    BY <1>1, <1>2, <2>1, UnderIs
<1>3. CASE Len(p) < Len(q)
  <2>1. Len(p) \in Nat /\ Len(q) \in Nat /\ p # q
    BY <1>3
  <2>2. Len(p) <= Len(Front(q)) /\ Len(p) <= Len(q)
    BY <1>1, <1>3, <2>1
  <2>3. \A i \in 1 .. Len(p) : Front(q)[i] = q[i]
    BY <1>1, <1>3, <2>1
  <2>4. Under(p, q) <=> \A i \in 1 .. Len(p) : p[i] = q[i]
    BY <2>2, UnderIs
  <2>5. Under(p, Front(q)) <=> \A i \in 1 .. Len(p) : p[i] = Front(q)[i]
    BY <1>1, <2>2, UnderIs
  <2> QED
    BY <2>1, <2>3, <2>4, <2>5
<1> QED
  BY <1>1, <1>2, <1>3

LEMMA UnderOrder ==
  ASSUME NEW p \in Seq(Names), NEW q \in Seq(Names), NEW r \in Seq(Names)
  PROVE  /\ Under(p, p) /\ Under(<<>>, p)
         /\ Under(p, q) /\ Under(q, r) => Under(p, r)
         /\ Under(p, q) /\ Under(q, p) => p = q
         /\ Under(p, r) /\ Under(q, r) => Under(p, q) \/ Under(q, p)
<1>1. <<>> \in Seq(Names) /\ Len(<<>>) = 0
  BY EmptySeq
<1>2. Len(p) \in Nat /\ Len(q) \in Nat /\ Len(r) \in Nat
  OBVIOUS
<1>3. Under(p, p) /\ Under(<<>>, p)
  <2>1. Under(p, p)
    BY <1>2, UnderIs
  <2> DEFINE e == <<>>
  <2>2. e \in Seq(Names) /\ Len(e) = 0
    BY <1>1
  <2> HIDE DEF e
  <2>3. Under(e, p)
    <3>1. Len(e) <= Len(p) /\ 1 .. Len(e) = {}
      BY <1>2, <2>2
    <3> QED
      BY <2>2, <3>1, UnderIs
  <2> QED
    BY <2>1, <2>3 DEF e
<1>4. Under(p, q) /\ Under(q, r) => Under(p, r)
  BY <1>2, UnderIs
<1>5. Under(p, q) /\ Under(q, p) => p = q
  BY <1>2, UnderIs, SamePath
<1>6. Under(p, r) /\ Under(q, r) => Under(p, q) \/ Under(q, p)
  BY <1>2, UnderIs
<1> QED
  BY <1>3, <1>4, <1>5, <1>6

LEMMA PathsAreSequences == Paths \subseteq Seq(Names)
BY PathsAssumption

\* A path that moves along with a directory.
LEMMA RebasedIs ==
  ASSUME NEW s \in Seq(Names), NEW d \in Seq(Names), NEW q \in Seq(Names), Under(s, q)
  PROVE  /\ Rebased(q, s, d) \in Seq(Names)
         /\ Len(Rebased(q, s, d)) = Len(d) + Len(q) - Len(s)
         /\ \A i \in 1 .. Len(d) : Rebased(q, s, d)[i] = d[i]
         /\ \A i \in Len(d) + 1 .. Len(d) + Len(q) - Len(s) :
                Rebased(q, s, d)[i] = q[i - Len(d) + Len(s)]
<1> DEFINE t == SubSeq(q, Len(s) + 1, Len(q))
<1>1. Len(s) <= Len(q) /\ Len(s) \in Nat /\ Len(q) \in Nat /\ Len(d) \in Nat
  BY UnderIs
<1>2. \A i \in Len(s) + 1 .. Len(q) : q[i] \in Names
  BY <1>1, ElementOfSeq
<1>3. /\ t \in Seq(Names)
      /\ Len(t) = IF Len(s) + 1 <= Len(q) THEN Len(q) - (Len(s) + 1) + 1 ELSE 0
      /\ \A i \in 1 .. Len(q) - (Len(s) + 1) + 1 : t[i] = q[Len(s) + 1 + i - 1]
  BY <1>1, <1>2, SubSeqProperties
<1> HIDE DEF t
<1>4. /\ d \o t \in Seq(Names) /\ Len(d \o t) = Len(d) + Len(t)
      /\ \A i \in 1 .. Len(d) + Len(t) :
            (d \o t)[i] = IF i <= Len(d) THEN d[i] ELSE t[i - Len(d)]
  BY <1>3, ConcatProperties
<1>5. Rebased(q, s, d) = d \o t
  BY DEF Rebased, t
<1>6. Len(t) = Len(q) - Len(s)
  BY <1>1, <1>3
<1>7. ASSUME NEW i \in Len(d) + 1 .. Len(d) + Len(q) - Len(s)
      PROVE  (d \o t)[i] = q[i - Len(d) + Len(s)]
  <2>1. (d \o t)[i] = t[i - Len(d)]
    BY <1>1, <1>4, <1>6
  <2>2. /\ i - Len(d) \in 1 .. Len(q) - (Len(s) + 1) + 1
        /\ Len(s) + 1 + (i - Len(d)) - 1 = i - Len(d) + Len(s)
    BY <1>1
  <2> QED
    BY <2>1, <2>2, <1>3
<1>8. \A i \in 1 .. Len(d) : (d \o t)[i] = d[i]
  BY <1>1, <1>4, <1>6
<1> QED
  BY <1>1, <1>4, <1>5, <1>6, <1>7, <1>8

LEMMA RebasedBack ==
  ASSUME NEW s \in Seq(Names), NEW d \in Seq(Names), NEW q \in Seq(Names), Under(s, q)
  PROVE  /\ Under(d, Rebased(q, s, d))
         /\ Rebased(Rebased(q, s, d), d, s) = q
         /\ q = s <=> Rebased(q, s, d) = d
<1> DEFINE r == Rebased(q, s, d)
<1>1. /\ r \in Seq(Names) /\ Len(r) = Len(d) + Len(q) - Len(s)
      /\ \A i \in 1 .. Len(d) : r[i] = d[i]
      /\ \A i \in Len(d) + 1 .. Len(d) + Len(q) - Len(s) : r[i] = q[i - Len(d) + Len(s)]
  BY RebasedIs
<1>2. Len(s) <= Len(q) /\ \A i \in 1 .. Len(s) : s[i] = q[i]
  BY UnderIs
<1> HIDE DEF r
<1>3. Under(d, r)
  BY <1>1, <1>2, UnderIs
<1> DEFINE b == Rebased(r, d, s)
<1>4. /\ b \in Seq(Names) /\ Len(b) = Len(s) + Len(r) - Len(d)
      /\ \A i \in 1 .. Len(s) : b[i] = s[i]
      /\ \A i \in Len(s) + 1 .. Len(s) + Len(r) - Len(d) : b[i] = r[i - Len(s) + Len(d)]
  BY <1>1, <1>3, RebasedIs
<1> HIDE DEF b
<1>5. Len(b) = Len(q) /\ \A i \in 1 .. Len(b) : b[i] = q[i]
  <2>1. Len(b) = Len(q)
    BY <1>1, <1>4
  <2>2. ASSUME NEW i \in 1 .. Len(b) PROVE b[i] = q[i]
    <3>1. CASE i <= Len(s)
      BY <1>2, <1>4, <2>1, <3>1
    <3>2. CASE i > Len(s)
      <4>1. b[i] = r[i - Len(s) + Len(d)]
        BY <1>4, <3>2, <1>1
      <4>2. i - Len(s) + Len(d) \in Len(d) + 1 .. Len(d) + Len(q) - Len(s)
        BY <3>2, <2>1
      <4>3. (i - Len(s) + Len(d)) - Len(d) + Len(s) = i
        BY <1>2
      <4> QED
        BY <4>1, <4>2, <4>3, <1>1
    <3> QED
      BY <3>1, <3>2
  <2> QED
    BY <2>1, <2>2
<1>6. b = q
  BY <1>4, <1>5, SamePath
<1>7. q = s <=> r = d
  <2>1. r = d => Len(q) = Len(s)
    BY <1>1
  <2>2. q = s => Len(r) = Len(d) /\ \A i \in 1 .. Len(r) : r[i] = d[i]
    BY <1>1
  <2> QED
    BY <2>1, <2>2, <1>1, <1>2, SamePath
<1> QED
  BY <1>3, <1>6, <1>7 DEF r, b

LEMMA RebasedFront ==
  ASSUME NEW s \in Seq(Names), NEW d \in Seq(Names), NEW q \in Seq(Names),
         Under(s, q), q # s
  PROVE  /\ q # <<>> /\ Under(s, Front(q))
         /\ Rebased(q, s, d) # <<>>
         /\ Front(Rebased(q, s, d)) = Rebased(Front(q), s, d)
<1>0. Len(s) < Len(q) /\ q # <<>>
  <2>1. Len(s) <= Len(q) /\ (Len(s) = Len(q) => s = q)
    BY UnderIs, SamePath
  <2> QED
    BY <2>1, EmptySeq
<1>1. Under(s, Front(q)) /\ Front(q) \in Seq(Names)
  BY <1>0, UnderFront, FrontIs
<1> DEFINE r == Rebased(q, s, d)  f == Rebased(Front(q), s, d)
<1>2. /\ r \in Seq(Names) /\ Len(r) = Len(d) + Len(q) - Len(s)
      /\ \A i \in 1 .. Len(d) : r[i] = d[i]
      /\ \A i \in Len(d) + 1 .. Len(d) + Len(q) - Len(s) : r[i] = q[i - Len(d) + Len(s)]
  BY RebasedIs
<1>3. /\ f \in Seq(Names) /\ Len(f) = Len(d) + Len(Front(q)) - Len(s)
      /\ \A i \in 1 .. Len(d) : f[i] = d[i]
      /\ \A i \in Len(d) + 1 .. Len(d) + Len(Front(q)) - Len(s) :
            f[i] = Front(q)[i - Len(d) + Len(s)]
  BY <1>1, RebasedIs
<1>4. Len(Front(q)) = Len(q) - 1 /\ \A i \in 1 .. Len(q) - 1 : Front(q)[i] = q[i]
  BY <1>0, FrontIs
<1> HIDE DEF r, f
<1>5. r # <<>>
  BY <1>0, <1>2, EmptySeq
<1>6. /\ Front(r) \in Seq(Names) /\ Len(Front(r)) = Len(r) - 1
      /\ \A i \in 1 .. Len(r) - 1 : Front(r)[i] = r[i]
  BY <1>2, <1>5, FrontIs
<1>7. Len(f) = Len(Front(r)) /\ \A i \in 1 .. Len(f) : f[i] = Front(r)[i]
  <2>1. Len(f) = Len(r) - 1
    BY <1>2, <1>3, <1>4
  <2>2. ASSUME NEW i \in 1 .. Len(f) PROVE f[i] = r[i]
    <3>1. CASE i <= Len(d)
      BY <1>2, <1>3, <3>1
    <3>2. CASE i > Len(d)
      <4>1. f[i] = Front(q)[i - Len(d) + Len(s)] /\ r[i] = q[i - Len(d) + Len(s)]
        BY <1>2, <1>3, <1>4, <2>1, <3>2
      <4>2. i - Len(d) + Len(s) \in 1 .. Len(q) - 1
        BY <1>2, <2>1, <3>2
      <4> QED
        BY <4>1, <4>2, <1>4
    <3> QED
      BY <3>1, <3>2
  <2> QED
    BY <2>1, <2>2, <1>6
<1>8. f = Front(r)
  BY <1>3, <1>6, <1>7, SamePath
<1> QED
  BY <1>0, <1>1, <1>5, <1>8 DEF r, f

----------------------------------------------------------------------------
(* Recursion over the lines of a file or of a patch.                        *)

\* A step from each number to the next can be taken N times.
Iterates(f, N, X, b, G) ==
    /\ f \in [0 .. N -> X] /\ f[0] = b
    /\ \A n \in 1 .. N : f[n] = G[n][f[n - 1]]
Steps(N, X) == [1 .. N -> [X -> X]]

LEMMA IterationExists ==
  ASSUME NEW N \in Nat, NEW X, NEW b \in X, NEW G \in Steps(N, X)
  PROVE  \E f : Iterates(f, N, X, b, G)
<1> USE DEF Iterates, Steps
<1> DEFINE Reaches(m) ==
       \E f : Iterates(f, m, X, b, G)
<1> DEFINE Bad == {m \in Nat : m \in 0 .. N /\ ~Reaches(m)}
<1>1. Bad = {}
  <2> SUFFICES ASSUME Bad # {} PROVE FALSE
    OBVIOUS
  <2>1. PICK m \in Bad : \A k \in Bad : m <= k
    BY LeastNumber
  <2>2. m \in 0 .. N /\ ~Reaches(m)
    BY <2>1
  <2>3. m # 0
    <3>1. [k \in 0 .. 0 |-> b] \in [0 .. 0 -> X] /\ [k \in 0 .. 0 |-> b][0] = b
      OBVIOUS
    <3>2. \A n \in 1 .. 0 : FALSE
      OBVIOUS
    <3>3. Reaches(0)
      BY <3>1, <3>2
    <3> QED
      BY <2>2, <3>3
  <2>4. Reaches(m - 1)
    <3>1. m - 1 \in Nat /\ m - 1 \in 0 .. N /\ ~(m <= m - 1)
      BY <2>2, <2>3
    <3> QED
      BY <2>1, <3>1
  <2>5. PICK f : Iterates(f, m - 1, X, b, G)
    BY <2>4
  <2> DEFINE x == G[m][f[m - 1]]
             g == [k \in 0 .. m |-> IF k = m THEN x ELSE f[k]]
  <2>6. x \in X
    <3>1. m \in 1 .. N /\ m - 1 \in 0 .. m - 1
      BY <2>2, <2>3
    <3>2. f[m - 1] \in X
      BY <2>5, <3>1
    <3> QED
      BY <3>1, <3>2
  <2> HIDE DEF x
  <2>7. g \in [0 .. m -> X] /\ g[0] = b
    BY <2>2, <2>3, <2>5, <2>6
  <2>8. ASSUME NEW n \in 1 .. m PROVE g[n] = G[n][g[n - 1]]
    <3>1. n - 1 \in 0 .. m - 1 /\ n - 1 # m /\ n \in 0 .. m /\ n - 1 \in 0 .. m
      BY <2>2
    <3>2. g[n - 1] = f[n - 1]
      BY <3>1
    <3>3. CASE n = m
      BY <3>1, <3>2, <3>3 DEF x
    <3>4. CASE n # m
      <4>1. n \in 1 .. m - 1 /\ g[n] = f[n]
        BY <2>2, <3>1, <3>4
      <4> QED
        BY <2>5, <3>2, <4>1
    <3> QED
      BY <3>3, <3>4
  <2> QED
    BY <2>2, <2>7, <2>8
<1> HIDE DEF Reaches
<1>2. Reaches(N)
  <2>1. N \in Nat /\ N \in 0 .. N
    OBVIOUS
  <2> QED
    BY <1>1, <2>1
<1> QED
  BY <1>2 DEF Reaches

\* ... and in one way only.
LEMMA IterationIsOne ==
  ASSUME NEW N \in Nat, NEW X, NEW b, NEW G, NEW f, Iterates(f, N, X, b, G), NEW k,
         k[0] = f[0],
         \A n \in 1 .. N : k[n - 1] \in X => k[n] = G[n][k[n - 1]]
  PROVE  \A n \in 0 .. N : k[n] = f[n]
<1> USE DEF Iterates
<1> DEFINE Bad == {n \in Nat : n \in 0 .. N /\ k[n] # f[n]}
<1> SUFFICES ASSUME Bad # {} PROVE FALSE
  OBVIOUS
<1>1. PICK n \in Bad : \A m \in Bad : n <= m
  BY LeastNumber
<1>2. n \in 0 .. N /\ k[n] # f[n] /\ n # 0
  BY <1>1
<1>3. n \in 1 .. N /\ n - 1 \in 0 .. N /\ ~(n <= n - 1)
  BY <1>2
<1>4. k[n - 1] = f[n - 1]
  BY <1>1, <1>3
<1>5. f[n - 1] \in X
  BY <1>3
<1> QED
  BY <1>2, <1>3, <1>4, <1>5

\* What Without collects, line by line.
LEMMA WithoutIs ==
  ASSUME NEW lines \in Seq(Lines), NEW some
  PROVE  \E k \in [0 .. Len(lines) -> Seq(Lines)] :
            /\ k[0] = <<>>
            /\ \A n \in 1 .. Len(lines) :
                  k[n] = IF lines[n] \in some THEN k[n - 1] ELSE Append(k[n - 1], lines[n])
            /\ Without(lines, some) = k[Len(lines)]
<1> DEFINE N == Len(lines)
           S == Seq(Lines)
           G == [n \in 1 .. N |-> [s \in S |->
                   IF lines[n] \in some THEN s ELSE Append(s, lines[n])]]
           E(h) == [n \in 0 .. Len(lines) |->
                      IF n = 0 THEN <<>>
                      ELSE IF lines[n] \in some THEN h[n - 1] ELSE Append(h[n - 1], lines[n])]
           kept == CHOOSE h : h = E(h)
           b == <<>>
<1>1. N \in Nat /\ b \in S
  BY EmptySeq
<1>2. G \in Steps(N, S)
  <2> SUFFICES ASSUME NEW n \in 1 .. N, NEW s \in S
        PROVE (IF lines[n] \in some THEN s ELSE Append(s, lines[n])) \in S
    BY DEF Steps
  <2>1. lines[n] \in Lines
    BY ElementOfSeq
  <2>2. Append(s, lines[n]) \in S
    BY <2>1, AppendProperties
  <2> QED
    BY <2>2
<1>3. \A n \in 1 .. N, s \in S :
         G[n][s] = IF lines[n] \in some THEN s ELSE Append(s, lines[n])
  OBVIOUS
<1> HIDE DEF G, N, S, b
<1>4a. PICK f : Iterates(f, N, S, b, G)
  BY <1>1, <1>2, IterationExists
<1>4. f \in [0 .. N -> S] /\ f[0] = b /\ \A n \in 1 .. N : f[n] = G[n][f[n - 1]]
  BY <1>4a DEF Iterates
<1> USE DEF N, S, b
<1>5. \A n \in 1 .. N : n - 1 \in 0 .. N /\ n \in 0 .. N /\ n # 0
  BY <1>1
<1>6. \A n \in 1 .. N : f[n] = IF lines[n] \in some THEN f[n - 1] ELSE Append(f[n - 1], lines[n])
  BY <1>3, <1>4, <1>5
<1>7. f = E(f)
  <2>1. \A n \in 0 .. N : f[n] = E(f)[n]
    <3> SUFFICES ASSUME NEW n \in 0 .. N PROVE f[n] = E(f)[n]
      OBVIOUS
    <3>1. CASE n = 0
      BY <1>4, <3>1
    <3>2. CASE n # 0
      <4>1. n \in 1 .. N
        BY <1>1, <3>2
      <4> QED
        BY <1>6, <3>2, <4>1
    <3> QED
      BY <3>1, <3>2
  <2> QED
    BY <1>4, <2>1
<1>8. kept = E(kept)
  BY <1>7
<1>9. Without(lines, some) = kept[N]
  BY DEF Without
<1> HIDE DEF kept
<1>10. kept[0] = f[0] /\ \A n \in 1 .. N : kept[n - 1] \in S => kept[n] = G[n][kept[n - 1]]
  <2>1. kept[0] = <<>>
    BY <1>1, <1>8
  <2>2. ASSUME NEW n \in 1 .. N, kept[n - 1] \in S PROVE kept[n] = G[n][kept[n - 1]]
    <3>1. kept[n] = IF lines[n] \in some THEN kept[n - 1] ELSE Append(kept[n - 1], lines[n])
      BY <1>5, <1>8
    <3> QED
      BY <1>3, <2>2, <3>1
  <2> QED
    BY <1>4, <2>1, <2>2
<1> HIDE DEF N, S
<1>11. \A n \in 0 .. N : kept[n] = f[n]
  BY <1>1, <1>4a, <1>10, IterationIsOne
<1> USE DEF N, S
<1>12. Without(lines, some) = f[N]
  BY <1>1, <1>9, <1>11
<1> QED
  BY <1>4, <1>6, <1>12

LEMMA WithoutType ==
  ASSUME NEW lines \in Seq(Lines), NEW some
  PROVE  Without(lines, some) \in Seq(Lines)
BY WithoutIs

LEMMA WithoutAppend ==
  ASSUME NEW s \in Seq(Lines), NEW e \in Lines, NEW some
  PROVE  Without(Append(s, e), some) =
            IF e \in some THEN Without(s, some) ELSE Append(Without(s, some), e)
<1> DEFINE t == Append(s, e)
           N == Len(s)
<1>1. /\ t \in Seq(Lines) /\ Len(t) = N + 1 /\ t[N + 1] = e
      /\ \A n \in 1 .. N : t[n] = s[n]
  BY AppendProperties
<1> HIDE DEF t
<1>2. PICK j \in [0 .. N -> Seq(Lines)] :
         /\ j[0] = <<>>
         /\ \A n \in 1 .. N : j[n] = IF s[n] \in some THEN j[n - 1] ELSE Append(j[n - 1], s[n])
         /\ Without(s, some) = j[N]
  BY WithoutIs
<1>3. PICK k \in [0 .. Len(t) -> Seq(Lines)] :
         /\ k[0] = <<>>
         /\ \A n \in 1 .. Len(t) : k[n] = IF t[n] \in some THEN k[n - 1] ELSE Append(k[n - 1], t[n])
         /\ Without(t, some) = k[Len(t)]
  BY <1>1, WithoutIs
<1>4. \A n \in 0 .. N : k[n] = j[n]
  <2> DEFINE Bad == {n \in Nat : n \in 0 .. N /\ k[n] # j[n]}
  <2> SUFFICES ASSUME Bad # {} PROVE FALSE
    OBVIOUS
  <2>1. PICK n \in Bad : \A m \in Bad : n <= m
    BY LeastNumber
  <2>2. n \in 0 .. N /\ k[n] # j[n] /\ n # 0
    BY <1>2, <1>3, <2>1
  <2>3. n \in 1 .. N /\ n - 1 \in 0 .. N /\ ~(n <= n - 1) /\ n \in 1 .. Len(t)
    BY <1>1, <2>2
  <2>4. k[n - 1] = j[n - 1]
    BY <2>1, <2>3
  <2>5. t[n] = s[n]
    BY <1>1, <2>3
  <2> QED
    BY <1>2, <1>3, <2>2, <2>3, <2>4, <2>5
<1>5. k[N + 1] = IF e \in some THEN k[N] ELSE Append(k[N], e)
  <2>1. N + 1 \in 1 .. Len(t) /\ (N + 1) - 1 = N
    BY <1>1
  <2> QED
    BY <1>1, <1>3, <2>1
<1>6. k[N] = Without(s, some)
  BY <1>2, <1>4
<1> QED
  BY <1>1, <1>3, <1>5, <1>6 DEF t

LEMMA WithoutEmpty ==
  ASSUME NEW some
  PROVE  Without(<<>>, some) = <<>>
<1> DEFINE e == <<>>
<1>1. e \in Seq(Lines) /\ Len(e) = 0
  BY EmptySeq
<1> HIDE DEF e
<1>2. PICK k \in [0 .. Len(e) -> Seq(Lines)] :
         /\ k[0] = <<>>
         /\ \A n \in 1 .. Len(e) :
               k[n] = IF e[n] \in some THEN k[n - 1] ELSE Append(k[n - 1], e[n])
         /\ Without(e, some) = k[Len(e)]
  BY <1>1, WithoutIs, Zenon
<1> QED
  BY <1>1, <1>2 DEF e

LEMMA ConcatAppend ==
  ASSUME NEW s \in Seq(Lines), NEW t \in Seq(Lines), NEW e \in Lines
  PROVE  s \o Append(t, e) = Append(s \o t, e)
OBVIOUS

LEMMA WithoutConcat ==
  ASSUME NEW s \in Seq(Lines), NEW t \in Seq(Lines), NEW some
  PROVE  Without(s \o t, some) = Without(s, some) \o Without(t, some)
<1> DEFINE Bad == {n \in Nat : \E u \in Seq(Lines) :
                     Len(u) = n /\ Without(s \o u, some) # Without(s, some) \o Without(u, some)}
<1> SUFFICES ASSUME Bad # {} PROVE FALSE
  <2>1. Len(t) \in Nat
    OBVIOUS
  <2> QED
    BY <2>1
<1>1. PICK n \in Bad : \A m \in Bad : n <= m
  BY LeastNumber
<1>2. PICK u \in Seq(Lines) :
         Len(u) = n /\ Without(s \o u, some) # Without(s, some) \o Without(u, some)
  BY <1>1
<1> DEFINE W == Without(s, some)
<1>3. W \in Seq(Lines)
  BY WithoutType
<1>4. u # <<>>
  <2>1. s \o <<>> = s /\ W \o <<>> = W
    BY <1>3, ConcatEmptySeq
  <2> QED
    BY <1>2, <2>1, WithoutEmpty
<1>5. PICK v \in Seq(Lines), e \in Lines : u = Append(v, e)
  BY <1>4, SequenceEmptyOrAppend
<1>6. Len(v) = n - 1 /\ Len(v) \in Nat /\ n \in Nat
  BY <1>2, <1>5, AppendProperties
<1>7. Without(s \o v, some) = W \o Without(v, some)
  <2>1. Len(v) \notin Bad
    BY <1>1, <1>6
  <2> QED
    BY <1>6, <2>1
<1>8. s \o u = Append(s \o v, e) /\ s \o v \in Seq(Lines)
  BY <1>5
<1>9. Without(v, some) \in Seq(Lines)
  BY WithoutType
<1>10. W \o Append(Without(v, some), e) = Append(W \o Without(v, some), e)
  BY <1>3, <1>9, ConcatAppend
<1>11. /\ Without(Append(s \o v, e), some)
            = IF e \in some THEN Without(s \o v, some) ELSE Append(Without(s \o v, some), e)
       /\ Without(u, some) = IF e \in some THEN Without(v, some) ELSE Append(Without(v, some), e)
  BY <1>5, <1>8, WithoutAppend
<1> HIDE DEF W
<1>12. CASE e \in some
  BY <1>2, <1>7, <1>8, <1>11, <1>12 DEF W
<1>13. CASE e \notin some
  BY <1>2, <1>7, <1>8, <1>10, <1>11, <1>13 DEF W
<1> QED
  BY <1>12, <1>13

LEMMA WithoutTwice ==
  ASSUME NEW s \in Seq(Lines), NEW A, NEW B, A \subseteq B
  PROVE  Without(Without(s, A), B) = Without(s, B)
<1> DEFINE Bad == {n \in Nat : \E u \in Seq(Lines) :
                     Len(u) = n /\ Without(Without(u, A), B) # Without(u, B)}
<1> SUFFICES ASSUME Bad # {} PROVE FALSE
  <2>1. Len(s) \in Nat
    OBVIOUS
  <2> QED
    BY <2>1
<1>1. PICK n \in Bad : \A m \in Bad : n <= m
  BY LeastNumber
<1>2. PICK u \in Seq(Lines) : Len(u) = n /\ Without(Without(u, A), B) # Without(u, B)
  BY <1>1
<1>3. u # <<>>
  BY <1>2, WithoutEmpty
<1>4. PICK v \in Seq(Lines), e \in Lines : u = Append(v, e)
  BY <1>3, SequenceEmptyOrAppend
<1>5. Len(v) = n - 1 /\ Len(v) \in Nat /\ n \in Nat
  BY <1>2, <1>4, AppendProperties
<1>6. Without(Without(v, A), B) = Without(v, B)
  <2>1. Len(v) \notin Bad
    BY <1>1, <1>5
  <2> QED
    BY <1>5, <2>1
<1>7. Without(v, A) \in Seq(Lines)
  BY WithoutType
<1>8. /\ Without(u, A) = IF e \in A THEN Without(v, A) ELSE Append(Without(v, A), e)
      /\ Without(u, B) = IF e \in B THEN Without(v, B) ELSE Append(Without(v, B), e)
      /\ Without(Append(Without(v, A), e), B)
            = IF e \in B THEN Without(Without(v, A), B) ELSE Append(Without(Without(v, A), B), e)
  BY <1>4, <1>7, WithoutAppend
<1>9. CASE e \in A
  BY <1>2, <1>6, <1>8, <1>9
<1>10. CASE e \notin A
  BY <1>2, <1>6, <1>8, <1>10
<1> QED
  BY <1>9, <1>10

----------------------------------------------------------------------------
(* Patches.                                                                 *)

\* A file is what comes before a line, the line, and what comes after it.
LEMMA Spliced ==
  ASSUME NEW s \in Seq(Lines), NEW i \in 1 .. Len(s), NEW x \in Lines
  PROVE  /\ SubSeq(s, 1, i - 1) \in Seq(Lines) /\ SubSeq(s, i + 1, Len(s)) \in Seq(Lines)
         /\ s[i] \in Lines
         /\ s = (SubSeq(s, 1, i - 1) \o <<s[i]>>) \o SubSeq(s, i + 1, Len(s))
         /\ [s EXCEPT ![i] = x] = (SubSeq(s, 1, i - 1) \o <<x>>) \o SubSeq(s, i + 1, Len(s))
<1> DEFINE a == SubSeq(s, 1, i - 1)
           c == SubSeq(s, i + 1, Len(s))
           n == Len(s)
<1>1. /\ n \in Nat /\ i \in 1 .. n /\ i \in Int
      /\ \A j \in 1 .. n : s[j] \in Lines
  BY ElementOfSeq
<1>2. a \in Seq(Lines) /\ Len(a) = i - 1 /\ \A j \in 1 .. i - 1 : a[j] = s[j]
  <2>1. \A j \in 1 .. i - 1 : s[j] \in Lines
    BY <1>1
  <2>2. /\ a \in Seq(Lines) /\ Len(a) = IF 1 <= i - 1 THEN (i - 1) - 1 + 1 ELSE 0
        /\ \A j \in 1 .. (i - 1) - 1 + 1 : a[j] = s[1 + j - 1]
    BY <1>1, <2>1, SubSeqProperties
  <2>3. Len(a) = i - 1
    BY <1>1, <2>2
  <2>4. ASSUME NEW j \in 1 .. i - 1 PROVE a[j] = s[j]
    <3>1. j \in 1 .. (i - 1) - 1 + 1 /\ 1 + j - 1 = j
      BY <1>1
    <3> QED
      BY <2>2, <3>1
  <2> QED
    BY <2>2, <2>3, <2>4
<1>3. c \in Seq(Lines) /\ Len(c) = n - i /\ \A j \in 1 .. n - i : c[j] = s[i + j]
  <2>1. \A j \in i + 1 .. n : s[j] \in Lines
    BY <1>1
  <2>2. /\ c \in Seq(Lines) /\ Len(c) = IF i + 1 <= n THEN n - (i + 1) + 1 ELSE 0
        /\ \A j \in 1 .. n - (i + 1) + 1 : c[j] = s[(i + 1) + j - 1]
    BY <1>1, <2>1, SubSeqProperties
  <2>3. Len(c) = n - i
    BY <1>1, <2>2
  <2>4. ASSUME NEW j \in 1 .. n - i PROVE c[j] = s[i + j]
    <3>1. j \in 1 .. n - (i + 1) + 1 /\ (i + 1) + j - 1 = i + j
      BY <1>1
    <3> QED
      BY <2>2, <3>1
  <2> QED
    BY <2>2, <2>3, <2>4
<1> HIDE DEF a, c
<1>4. ASSUME NEW y \in Lines, NEW t \in Seq(Lines), Len(t) = n, t[i] = y,
             \A j \in 1 .. n : j # i => t[j] = s[j]
      PROVE  t = (a \o <<y>>) \o c
  <2> DEFINE ab == a \o <<y>>
  <2>0. /\ <<y>> \in Seq(Lines) /\ Len(<<y>>) = 1 /\ <<y>>[1] = y
    OBVIOUS
  <2>1. /\ ab \in Seq(Lines) /\ Len(ab) = i
        /\ \A j \in 1 .. i - 1 : ab[j] = s[j]
        /\ ab[i] = y
    <3>1. /\ ab \in Seq(Lines) /\ Len(ab) = Len(a) + 1
          /\ \A j \in 1 .. Len(a) + 1 : ab[j] = IF j <= Len(a) THEN a[j] ELSE <<y>>[j - Len(a)]
      BY <1>2, <2>0, ConcatProperties
    <3>2. Len(ab) = i /\ ab[i] = <<y>>[1]
      BY <1>1, <1>2, <3>1
    <3> QED
      BY <1>1, <1>2, <2>0, <3>1, <3>2
  <2> HIDE DEF ab
  <2>2. /\ ab \o c \in Seq(Lines) /\ Len(ab \o c) = n
        /\ \A j \in 1 .. n : (ab \o c)[j] = IF j <= i THEN ab[j] ELSE c[j - i]
    <3>1. /\ ab \o c \in Seq(Lines) /\ Len(ab \o c) = Len(ab) + Len(c)
          /\ \A j \in 1 .. Len(ab) + Len(c) : (ab \o c)[j] = IF j <= Len(ab) THEN ab[j] ELSE c[j - Len(ab)]
      BY <1>3, <2>1, ConcatProperties
    <3>2. Len(ab) + Len(c) = n
      BY <1>1, <1>3, <2>1
    <3> QED
      BY <2>1, <3>1, <3>2
  <2>3. ASSUME NEW j \in 1 .. n PROVE t[j] = (ab \o c)[j]
    <3>1. CASE j < i
      BY <1>1, <1>4, <2>1, <2>2, <3>1
    <3>2. CASE j = i
      BY <1>1, <1>4, <2>1, <2>2, <3>2
    <3>3. CASE j > i
      <4>1. (ab \o c)[j] = c[j - i]
        BY <1>1, <2>2, <3>3
      <4>2. j - i \in 1 .. n - i /\ i + (j - i) = j
        BY <1>1, <3>3
      <4> QED
        BY <1>3, <1>4, <3>3, <4>1, <4>2
    <3>4. j < i \/ j = i \/ j > i
      BY <1>1
    <3> QED
      BY <3>1, <3>2, <3>3, <3>4
  <2>4. t = ab \o c
    BY <1>4, <2>2, <2>3, SeqEqual
  <2> QED
    BY <2>4 DEF ab
<1>5. s = (a \o <<s[i]>>) \o c
  BY <1>1, <1>4
<1>6. [s EXCEPT ![i] = x] = (a \o <<x>>) \o c
  <2> DEFINE t == [s EXCEPT ![i] = x]
  <2>1. t \in Seq(Lines) /\ Len(t) = n /\ t[i] = x /\ \A j \in 1 .. n : j # i => t[j] = s[j]
    BY <1>1, ExceptSeq
  <2> HIDE DEF t
  <2>2. t = (a \o <<x>>) \o c
    BY <1>4, <2>1
  <2> QED
    BY <2>2 DEF t
<1> QED
  BY <1>1, <1>2, <1>3, <1>5, <1>6 DEF a, c

\* A line more, or another one in its place, among the lines that are not kept.
Splice(a, x, c) == (a \o <<x>>) \o c
Joined(a, c) == a \o c

LEMMA WithoutOne ==
  ASSUME NEW a \in Seq(Lines), NEW c \in Seq(Lines), NEW x \in Lines, NEW some, x \in some
  PROVE  /\ Splice(a, x, c) \in Seq(Lines)
         /\ Without(Splice(a, x, c), some) = Without(Joined(a, c), some)
<1>1. a \o <<x>> = Append(a, x) /\ a \o <<x>> \in Seq(Lines)
  BY AppendProperties, AppendIsConcat
<1>2. Without(Append(a, x), some) = Without(a, some)
  BY WithoutAppend
<1> DEFINE ax == a \o <<x>>
<1>3. ax \in Seq(Lines) /\ Without(ax, some) = Without(a, some)
  BY <1>1, <1>2
<1> HIDE DEF ax
<1>4. ax \o c \in Seq(Lines)
  BY <1>3, ConcatProperties
<1>5. Without(ax \o c, some) = Without(ax, some) \o Without(c, some)
  BY <1>3, WithoutConcat
<1>6. Without(a \o c, some) = Without(a, some) \o Without(c, some)
  BY WithoutConcat
<1> QED
  BY <1>3, <1>4, <1>5, <1>6 DEF ax, Splice, Joined

Cursor == [at : Nat \ {0}, lines : Seq(Lines)]

\* One line of a patch touches only lines with its own text, and blank ones.
LEMMA PatchLineAt ==
  ASSUME NEW k \in Nat, k > 0, NEW L \in Seq(Lines), NEW line \in PatchLines,
         NEW s, s = [at |-> k, lines |-> L]
  PROVE  /\ PatchLine(s, line) \in Cursor
         /\ \A some : /\ Blank \in some
                      /\ line.sign \in {"-", "+"} => Plain(line.text) \in some
                      => Without(PatchLine(s, line).lines, some) = Without(L, some)
<1> DEFINE x == Plain(line.text)
           found == {i \in k .. Len(L) : L[i] = x}
<1>1. /\ line.sign \in {"-", "+", "@", "other"} /\ line.text \in Texts
      /\ Len(L) \in Nat /\ s.at = k /\ s.lines = L
  BY DEF PatchLines
<1>2. x \in Lines /\ Blank \in Lines
  BY <1>1, LinesAssumption DEF Plain, Blank, Lines
<1> HIDE DEF x
<1>3. CASE line.sign = "-"
  <2>1. PatchLine(s, line)
          = [at |-> k + 1, lines |-> IF found = {} THEN L ELSE [L EXCEPT ![Min(found)] = Blank]]
    BY <1>1, <1>3 DEF PatchLine, x
  <2>2. CASE found = {}
    BY <1>1, <2>1, <2>2 DEF Cursor
  <2>3. CASE found # {}
    <3> DEFINE i == Min(found)
    <3>1. found \in SUBSET Nat
      BY <1>1
    <3>2. i \in found
      BY <2>3, <3>1, MinIsLeast
    <3>3. i \in 1 .. Len(L) /\ L[i] = x
      BY <1>1, <3>2
    <3> HIDE DEF i
    <3> DEFINE a == SubSeq(L, 1, i - 1)
               c == SubSeq(L, i + 1, Len(L))
               new == [L EXCEPT ![i] = Blank]
    <3>4. /\ a \in Seq(Lines) /\ c \in Seq(Lines)
          /\ L = Splice(a, x, c)
          /\ new = Splice(a, Blank, c)
      <4>1. /\ a \in Seq(Lines) /\ c \in Seq(Lines) /\ L[i] \in Lines
            /\ L = (a \o <<L[i]>>) \o c
            /\ new = (a \o <<Blank>>) \o c
        BY <1>2, <3>3, Spliced, Zenon
      <4> QED
        BY <3>3, <4>1 DEF Splice
    <3>5. PatchLine(s, line) = [at |-> k + 1, lines |-> new]
      BY <2>1, <2>3 DEF i
    <3> HIDE DEF a, c, new
    <3>6. /\ new \in Seq(Lines)
          /\ \A some : Blank \in some => Without(new, some) = Without(Joined(a, c), some)
      <4>1. Blank \in {Blank}
        OBVIOUS
      <4> QED
        BY <1>2, <3>4, <4>1, WithoutOne
    <3>7. \A some : x \in some => Without(L, some) = Without(Joined(a, c), some)
      BY <1>2, <3>4, WithoutOne
    <3>8. PatchLine(s, line) \in Cursor /\ PatchLine(s, line).lines = new
      BY <1>1, <3>5, <3>6 DEF Cursor
    <3> QED
      BY <1>3, <3>6, <3>7, <3>8 DEF x
  <2> QED
    BY <2>2, <2>3
<1>4. CASE line.sign = "+"
  <2>1. CASE k <= Len(L)
    <3> DEFINE i == k
               a == SubSeq(L, 1, i - 1)
               c == SubSeq(L, i + 1, Len(L))
               d == SubSeq(L, i, Len(L))
               new == InsertAt(L, i, x)
    <3>1. i \in 1 .. Len(L)
      BY <1>1, <2>1
    <3>2. /\ a \in Seq(Lines) /\ c \in Seq(Lines) /\ L[i] \in Lines
      BY <1>1, <1>2, <3>1, Spliced
    <3>3. d \in Seq(Lines)
      <4>1. \A j \in i .. Len(L) : L[j] \in Lines
        BY <1>1, ElementOfSeq
      <4> QED
        BY <1>1, <4>1, SubSeqProperties
    <3>4. L = a \o d
      <4>1. 1 \in 1 .. Len(L) + 1 /\ i - 1 \in 1 - 1 .. Len(L) /\ Len(L) \in i - 1 .. Len(L) /\ (i - 1) + 1 = i
        BY <1>1, <3>1
      <4>2. SubSeq(L, 1, i - 1) \o SubSeq(L, (i - 1) + 1, Len(L)) = SubSeq(L, 1, Len(L))
        BY <1>1, <4>1, ConcatAdjacentSubSeq
      <4>3. SubSeq(L, 1, Len(L)) = L
        BY <1>1, SubSeqFull
      <4> QED
        BY <4>1, <4>2, <4>3
    <3>5. new = Splice(a, x, d)
      BY <1>1, <1>2, <3>2, <3>3 DEF InsertAt, Splice
    <3>6. PatchLine(s, line) = [at |-> k + 2, lines |-> new]
      BY <1>1, <1>4, <2>1 DEF PatchLine, x
    <3> HIDE DEF a, c, d, new
    <3>7. ASSUME NEW some, Blank \in some, x \in some PROVE Without(new, some) = Without(L, some)
      <4>1. Without(Splice(a, x, d), some) = Without(Joined(a, d), some)
        BY <1>2, <3>2, <3>3, <3>7, WithoutOne
      <4> QED
        BY <3>4, <3>5, <4>1 DEF Joined
    <3>8. new \in Seq(Lines)
      <4>1. {x} = {x} /\ x \in {x}
        OBVIOUS
      <4> QED
        BY <1>2, <3>2, <3>3, <3>5, <4>1, WithoutOne
    <3>9. PatchLine(s, line) \in Cursor /\ PatchLine(s, line).lines = new
      BY <1>1, <3>6, <3>8 DEF Cursor
    <3> QED
      BY <1>4, <3>7, <3>9 DEF x
  <2>2. CASE ~(k <= Len(L))
    <3>1. PatchLine(s, line) = [at |-> k + 1, lines |-> L]
      BY <1>1, <1>4, <2>2 DEF PatchLine
    <3> QED
      BY <1>1, <3>1 DEF Cursor
  <2> QED
    BY <2>1, <2>2
<1>5. CASE line.sign = "@"
  <2>1. PatchLine(s, line) = s
    BY <1>5 DEF PatchLine
  <2> QED
    BY <1>1, <1>5, <2>1 DEF Cursor
<1>6. CASE line.sign = "other"
  <2>1. PatchLine(s, line) = [at |-> k + 1, lines |-> L]
    BY <1>1, <1>6 DEF PatchLine
  <2> QED
    BY <1>1, <2>1 DEF Cursor
<1> QED
  BY <1>1, <1>3, <1>4, <1>5, <1>6

LEMMA PatchLineKeepsRest ==
  ASSUME NEW s \in Cursor, NEW line \in PatchLines
  PROVE  /\ PatchLine(s, line) \in Cursor
         /\ \A some : /\ Blank \in some
                      /\ line.sign \in {"-", "+"} => Plain(line.text) \in some
                      => Without(PatchLine(s, line).lines, some) = Without(s.lines, some)
<1>1. s.at \in Nat /\ s.at > 0 /\ s.lines \in Seq(Lines) /\ s = [at |-> s.at, lines |-> s.lines]
  BY DEF Cursor
<1> QED
  BY <1>1, PatchLineAt

\* So a whole patch does.
LEMMA PatchedKeepsRest ==
  ASSUME NEW lines \in Seq(Lines), NEW patch \in Seq(PatchLines)
  PROVE  /\ Patched(lines, patch) \in Seq(Lines)
         /\ \A some : /\ Blank \in some
                      /\ \A i \in DOMAIN patch :
                            patch[i].sign \in {"-", "+"} => Plain(patch[i].text) \in some
                      => Without(Patched(lines, patch), some) = Without(lines, some)
<1> DEFINE N == Len(patch)
           X == Cursor
           b == [at |-> 1, lines |-> lines]
           G == [n \in 1 .. N |-> [s \in X |-> PatchLine(s, patch[n])]]
           E(h) == [n \in 0 .. Len(patch) |->
                      IF n = 0 THEN [at |-> 1, lines |-> lines] ELSE PatchLine(h[n - 1], patch[n])]
           after == CHOOSE h : h = E(h)
<1>1. N \in Nat /\ b \in X /\ DOMAIN patch = 1 .. N /\ \A n \in 1 .. N : patch[n] \in PatchLines
  BY ElementOfSeq DEF Cursor
<1>2. G \in Steps(N, X)
  <2> SUFFICES ASSUME NEW n \in 1 .. N, NEW s \in X PROVE PatchLine(s, patch[n]) \in X
    BY DEF Steps
  <2> QED
    BY <1>1, PatchLineKeepsRest
<1>3. \A n \in 1 .. N, s \in X : G[n][s] = PatchLine(s, patch[n])
  OBVIOUS
<1> HIDE DEF G, N, X, b
<1>4. PICK f : Iterates(f, N, X, b, G)
  BY <1>1, <1>2, IterationExists
<1>5. /\ f \in [0 .. N -> X] /\ f[0] = b
      /\ \A n \in 1 .. N : f[n] = G[n][f[n - 1]]
  BY <1>4 DEF Iterates
<1>6. \A n \in 1 .. N : n - 1 \in 0 .. N /\ n \in 0 .. N /\ n # 0 /\ f[n - 1] \in X
  BY <1>1, <1>5
<1>7. \A n \in 1 .. N : f[n] = PatchLine(f[n - 1], patch[n])
  BY <1>3, <1>5, <1>6
<1>8. f = E(f)
  <2> SUFFICES ASSUME NEW n \in 0 .. N PROVE f[n] = E(f)[n]
    BY <1>5 DEF N
  <2>1. CASE n = 0
    BY <1>1, <1>5, <2>1 DEF N, b
  <2>2. CASE n # 0
    <3>1. n \in 1 .. N
      BY <1>1, <2>2
    <3> QED
      BY <1>7, <2>2, <3>1 DEF N
  <2> QED
    BY <2>1, <2>2
<1>9. after = E(after)
  BY <1>8
<1>10. Patched(lines, patch) = after[N].lines
  BY DEF Patched, N
<1> HIDE DEF after
<1>11. after[0] = f[0] /\ \A n \in 1 .. N : after[n - 1] \in X => after[n] = G[n][after[n - 1]]
  <2>1. after[0] = b
    BY <1>1, <1>9 DEF N, b
  <2>2. ASSUME NEW n \in 1 .. N, after[n - 1] \in X PROVE after[n] = G[n][after[n - 1]]
    <3>1. after[n] = PatchLine(after[n - 1], patch[n])
      BY <1>6, <1>9 DEF N
    <3> QED
      BY <1>3, <2>2, <3>1
  <2> QED
    BY <1>5, <2>1, <2>2
<1>12. \A n \in 0 .. N : after[n] = f[n]
  BY <1>1, <1>4, <1>11, IterationIsOne
<1>13. Patched(lines, patch) = f[N].lines /\ f[N] \in X
  BY <1>1, <1>5, <1>10, <1>12
<1>14. ASSUME NEW some, Blank \in some,
              \A i \in DOMAIN patch : patch[i].sign \in {"-", "+"} => Plain(patch[i].text) \in some
       PROVE  Without(f[N].lines, some) = Without(lines, some)
  <2> DEFINE Bad == {n \in Nat : n \in 0 .. N /\ Without(f[n].lines, some) # Without(lines, some)}
  <2> SUFFICES ASSUME Bad # {} PROVE FALSE
    BY <1>1
  <2>1. PICK n \in Bad : \A m \in Bad : n <= m
    BY LeastNumber
  <2>2. n \in 0 .. N /\ Without(f[n].lines, some) # Without(lines, some)
    BY <2>1
  <2>3. n # 0
    BY <1>5, <2>2 DEF b
  <2>4. n \in 1 .. N /\ n - 1 \in Nat /\ n - 1 \in 0 .. N /\ ~(n <= n - 1)
    BY <1>1, <2>2, <2>3
  <2>5. Without(f[n - 1].lines, some) = Without(lines, some)
    BY <2>1, <2>4
  <2>6. patch[n] \in PatchLines /\ (patch[n].sign \in {"-", "+"} => Plain(patch[n].text) \in some)
    BY <1>1, <1>14, <2>4
  <2>7. Without(PatchLine(f[n - 1], patch[n]).lines, some) = Without(f[n - 1].lines, some)
    BY <1>6, <1>14, <2>4, <2>6, PatchLineKeepsRest DEF X
  <2> QED
    BY <1>7, <2>2, <2>4, <2>5, <2>7
<1> QED
  BY <1>13, <1>14 DEF X, Cursor

\* ApplyPatch, and the property of it that the runs check.
LEMMA ApplyPatchType ==
  ASSUME NEW lines \in Seq(Lines), NEW patch \in Patches
  PROVE  ApplyPatch(lines, patch) \in Seq(Lines)
BY PatchedKeepsRest, WithoutType, LinesAssumption DEF ApplyPatch

LEMMA ApplyPatchKeepsRest ==
  ASSUME NEW lines \in Seq(Lines), NEW patch \in Patches, NEW named,
         named = {Plain(patch[i].text) : i \in {j \in DOMAIN patch : patch[j].sign \in {"-", "+"}}}
  PROVE  Without(ApplyPatch(lines, patch), named \cup {Blank}) = Without(lines, named \cup {Blank})
<1> DEFINE some == named \cup {Blank}
           p == Patched(lines, patch)
<1>1. patch \in Seq(PatchLines)
  BY LinesAssumption
<1>2. /\ Blank \in some /\ {Blank} \subseteq some
      /\ \A i \in DOMAIN patch : patch[i].sign \in {"-", "+"} => Plain(patch[i].text) \in some
  OBVIOUS
<1> HIDE DEF some, p
<1>3. p \in Seq(Lines) /\ Without(p, some) = Without(lines, some)
  BY <1>1, <1>2, PatchedKeepsRest DEF p
<1>4. Without(Without(p, {Blank}), some) = Without(p, some)
  BY <1>2, <1>3, WithoutTwice
<1> QED
  BY <1>3, <1>4 DEF ApplyPatch, p, some

----------------------------------------------------------------------------
(* Encodings.                                                               *)

LEMMA BlankIsLine == Blank \in Lines
BY LinesAssumption DEF Blank, Plain, Lines

LEMMA WithBomIs ==
  ASSUME NEW lines \in Seq(Lines), NEW bom \in BOOLEAN
  PROVE  /\ WithBom(lines, bom) \in Seq(Lines)
         /\ Len(WithBom(lines, bom)) = Len(lines)
         /\ \A i \in 1 .. Len(lines) :
               WithBom(lines, bom)[i] = IF i = 1 THEN [lines[1] EXCEPT !.bom = bom] ELSE lines[i]
<1>1. CASE lines = <<>>
  <2>1. WithBom(lines, bom) = lines
    BY <1>1 DEF WithBom
  <2>2. Len(lines) = 0
    BY <1>1
  <2> QED
    BY <2>1, <2>2
<1>2. CASE lines # <<>>
  <2> DEFINE x == [lines[1] EXCEPT !.bom = bom]
  <2>1. Len(lines) \in Nat /\ 1 \in 1 .. Len(lines)
    BY <1>2, EmptySeq
  <2>2. lines[1] \in Lines
    BY <2>1, ElementOfSeq
  <2>3. x \in Lines
    BY <2>2 DEF Lines
  <2>4. WithBom(lines, bom) = [lines EXCEPT ![1] = x]
    BY <1>2 DEF WithBom
  <2> HIDE DEF x
  <2>5. /\ [lines EXCEPT ![1] = x] \in Seq(Lines)
        /\ Len([lines EXCEPT ![1] = x]) = Len(lines)
        /\ \A i \in 1 .. Len(lines) : [lines EXCEPT ![1] = x][i] = IF i = 1 THEN x ELSE lines[i]
    BY <2>1, <2>3, ExceptSeq
  <2> QED
    BY <2>4, <2>5 DEF x
<1> QED
  BY <1>1, <1>2

LEMMA NormalizedIs ==
  ASSUME NEW lines \in Seq(Lines)
  PROVE  /\ Normalized(lines) \in Seq(Lines)
         /\ IsValidUtf8(lines) => Normalized(lines) = lines
<1>1. DOMAIN lines = 1 .. Len(lines) /\ Len(lines) \in Nat /\ \A i \in 1 .. Len(lines) : lines[i] \in Lines
  BY ElementOfSeq
<1>2. \A i \in 1 .. Len(lines) : [lines[i] EXCEPT !.text = "replaced"] \in Lines
  BY <1>1, LinesAssumption DEF Lines
<1> DEFINE v(i) == IF Text(lines[i].text) = "valid" THEN lines[i]
                   ELSE [lines[i] EXCEPT !.text = "replaced"]
<1>3. \A i \in 1 .. Len(lines) : v(i) \in Lines
  BY <1>1, <1>2
<1>4. Normalized(lines) = [i \in 1 .. Len(lines) |-> v(i)]
  BY <1>1 DEF Normalized
<1>5. IsValidUtf8(lines) => \A i \in 1 .. Len(lines) : v(i) = lines[i]
  BY <1>1 DEF IsValidUtf8
<1> HIDE DEF v
<1>6. [i \in 1 .. Len(lines) |-> v(i)] \in Seq(Lines)
  BY <1>1, <1>3, IsASeq
<1>7. ASSUME IsValidUtf8(lines) PROVE Normalized(lines) = lines
  <2>1. /\ Len([i \in 1 .. Len(lines) |-> v(i)]) = Len(lines)
        /\ \A j \in 1 .. Len(lines) : [i \in 1 .. Len(lines) |-> v(i)][j] = lines[j]
    BY <1>1, <1>5, <1>7
  <2>2. lines = [i \in 1 .. Len(lines) |-> lines[i]]
    BY <1>1
  <2>3. [i \in 1 .. Len(lines) |-> v(i)] = [i \in 1 .. Len(lines) |-> lines[i]]
    BY <1>5, <1>7
  <2> QED
    BY <1>4, <2>2, <2>3
<1> QED
  BY <1>4, <1>6, <1>7

\* What a page shows of the bytes, and how it is saved again.
Shown(bytes) == WithBom(Normalized(bytes), FALSE)

LEMMA ShownType ==
  ASSUME NEW bytes \in Seq(Lines)
  PROVE  Shown(bytes) \in Seq(Lines) /\ EncodingOf(bytes) \in {"utf-8", "utf-8-bom", "system"}
BY NormalizedIs, WithBomIs DEF Shown, EncodingOf

LEMMA EncodedType ==
  ASSUME NEW lines \in Seq(Lines), NEW encoding
  PROVE  Encoded(lines, encoding) \in Seq(Lines)
<1>1. (encoding = "utf-8-bom") \in BOOLEAN
  OBVIOUS
<1> QED
  BY <1>1, WithBomIs DEF Encoded

\* A file opened and saved without an edit is what it was.
LEMMA SavedAsRead ==
  ASSUME NEW bytes \in Seq(Lines), CanEncode(Shown(bytes), EncodingOf(bytes)),
         HasBom(bytes) => IsValidUtf8(bytes)
  PROVE  Encoded(Shown(bytes), EncodingOf(bytes)) = bytes
<1>1. IsValidUtf8(bytes)
  BY DEF CanEncode, EncodingOf
<1>2. Normalized(bytes) = bytes
  BY <1>1, NormalizedIs
<1> DEFINE shown == WithBom(bytes, FALSE)
           mark == EncodingOf(bytes) = "utf-8-bom"
           saved == WithBom(shown, mark)
<1>3. Shown(bytes) = shown /\ Encoded(Shown(bytes), EncodingOf(bytes)) = saved
  BY <1>2 DEF Shown, Encoded
<1>4. mark \in BOOLEAN /\ (mark <=> HasBom(bytes))
  BY <1>1 DEF EncodingOf
<1> HIDE DEF mark
<1>5. /\ shown \in Seq(Lines) /\ Len(shown) = Len(bytes)
      /\ \A i \in 1 .. Len(bytes) : shown[i] = IF i = 1 THEN [bytes[1] EXCEPT !.bom = FALSE] ELSE bytes[i]
  BY WithBomIs
<1> HIDE DEF shown
<1>6. /\ saved \in Seq(Lines) /\ Len(saved) = Len(bytes)
      /\ \A i \in 1 .. Len(bytes) : saved[i] = IF i = 1 THEN [shown[1] EXCEPT !.bom = mark] ELSE shown[i]
  BY <1>4, <1>5, WithBomIs
<1> HIDE DEF saved
<1>7. ASSUME NEW i \in 1 .. Len(bytes) PROVE saved[i] = bytes[i]
  <2>1. CASE i # 1
    BY <1>5, <1>6, <2>1
  <2>2. CASE i = 1
    <3>1. bytes[1] \in Lines /\ bytes # <<>>
      BY <2>2, ElementOfSeq, EmptySeq
    <3>2. bytes[1].bom \in BOOLEAN /\ bytes[1] = [bom |-> bytes[1].bom, text |-> bytes[1].text]
      BY <3>1 DEF Lines
    <3>3. bytes[1].bom <=> mark
      BY <1>4, <3>1 DEF HasBom
    <3>4. shown[1] = [bytes[1] EXCEPT !.bom = FALSE]
      BY <1>5, <2>2
    <3>5. saved[1] = [shown[1] EXCEPT !.bom = mark]
      BY <1>6, <2>2
    <3>6. shown[1] = [bom |-> FALSE, text |-> bytes[1].text]
      BY <3>2, <3>4
    <3>7. saved[1] = [bom |-> mark, text |-> bytes[1].text]
      BY <3>5, <3>6
    <3>8. mark = bytes[1].bom
      BY <1>4, <3>2, <3>3
    <3> QED
      BY <2>2, <3>2, <3>7, <3>8
  <2> QED
    BY <2>1, <2>2
<1>8. saved = bytes
  BY <1>6, <1>7, SeqEqual
<1> QED
  BY <1>3, <1>8

\* Writing from offset 0.
LEMMA OverwriteIs ==
  ASSUME NEW old \in Seq(Lines), NEW new \in Seq(Lines)
  PROVE  Overwrite(old, new) \in Seq(Lines) /\ Overwrite(<<>>, new) = new
<1>1. Len(old) \in Nat /\ Len(new) \in Nat
  OBVIOUS
<1>2. \A i \in Len(new) + 1 .. Len(old) : old[i] \in Lines
  BY <1>1, ElementOfSeq
<1>3. SubSeq(old, Len(new) + 1, Len(old)) \in Seq(Lines)
  BY <1>1, <1>2, SubSeqProperties
<1>4. Overwrite(old, new) \in Seq(Lines)
  BY <1>3, ConcatProperties DEF Overwrite
<1>5. SubSeq(<<>>, Len(new) + 1, Len(<<>>)) = <<>>
  <2>1. Len(<<>>) = 0 /\ 0 < Len(new) + 1 /\ Len(new) + 1 \in Int
    BY <1>1, EmptySeq
  <2> QED
    BY <2>1, SubSeqEmpty
<1>6. Overwrite(<<>>, new) = new
  BY <1>5, ConcatEmptySeq DEF Overwrite
<1> QED
  BY <1>4, <1>6

----------------------------------------------------------------------------
(* Trees and listings.                                                      *)

Tree ==
    /\ tree \in [Paths -> Entries]
    /\ \A p \in Paths \ {<<>>} : Exists(p) => IsDir(Front(p))

\* What exists lies in a directory, and that one in the directories above it.
LEMMA DirectoriesAbove ==
  ASSUME Tree, NEW p \in Paths, NEW q \in Paths, Under(p, q), p # q, Exists(q)
  PROVE  /\ IsDir(p)
         /\ \E r \in Paths \ {<<>>} : Front(r) = p /\ Exists(r) /\ Under(r, q)
<1> DEFINE Good(x) == IsDir(p) /\ \E r \in Paths \ {<<>>} : Front(r) = p /\ Exists(r) /\ Under(r, x)
           Bad == {n \in Nat : \E x \in Paths : Len(x) = n /\ Under(p, x) /\ p # x /\ Exists(x) /\ ~Good(x)}
<1> SUFFICES ASSUME Bad # {} PROVE FALSE
  <2>1. Len(q) \in Nat
    BY PathsAreSequences
  <2> QED
    BY <2>1
<1>1. PICK n \in Bad : \A m \in Bad : n <= m
  BY LeastNumber
<1>2. PICK x \in Paths : Len(x) = n /\ Under(p, x) /\ p # x /\ Exists(x) /\ ~Good(x)
  BY <1>1
<1>3. p \in Seq(Names) /\ x \in Seq(Names)
  BY PathsAreSequences
<1>4. x # <<>>
  <2>1. Len(p) <= Len(x) /\ (Len(p) = Len(x) => p = x)
    BY <1>2, <1>3, UnderIs, SamePath
  <2>2. Len(<<>>) = 0 /\ Len(p) \in Nat
    BY <1>3, EmptySeq
  <2> QED
    BY <1>2, <2>1, <2>2
<1>5. Front(x) \in Paths /\ Len(Front(x)) = n - 1 /\ n - 1 \in Nat
  BY <1>2, <1>3, <1>4, FrontIs, PathsAssumption
<1>6. IsDir(Front(x)) /\ Exists(Front(x))
  BY <1>2, <1>4 DEF Tree, IsDir, Exists
<1>7. Under(p, Front(x))
  BY <1>2, <1>3, <1>4, UnderFront
<1>8. CASE p = Front(x)
  BY <1>2, <1>3, <1>4, <1>6, <1>8, UnderOrder
<1>9. CASE p # Front(x)
  <2>1. n - 1 \notin Bad
    BY <1>1, <1>5
  <2>2. Good(Front(x))
    BY <1>5, <1>6, <1>7, <1>9, <2>1
  <2>3. \A r \in Paths : Under(r, Front(x)) => Under(r, x)
    BY <1>3, <1>4, UnderFront, PathsAreSequences
  <2> QED
    BY <1>2, <2>2, <2>3
<1> QED
  BY <1>8, <1>9

\* What is to be found below a path.
Shows(n, p) ==
    {q \in Within(p) \ {p} :
        /\ Len(q) - Len(p) <= n
        /\ \A i \in Len(p) + 1 .. Len(q) : q[i] \notin Ignored}

\* An entry of a directory.
LEMMA ChildIs ==
  ASSUME NEW p \in Paths, NEW r \in Children(p)
  PROVE  /\ r \in Paths /\ Under(p, r) /\ p # r /\ Exists(r)
         /\ Len(r) = Len(p) + 1 /\ r[Len(r)] \notin Ignored
<1>1. r \in Paths /\ r # <<>> /\ Front(r) = p /\ Exists(r) /\ Last(r) \notin Ignored
  BY DEF Children
<1>2. p \in Seq(Names) /\ r \in Seq(Names)
  BY <1>1, PathsAreSequences
<1>3. Len(r) > 0 /\ Len(Front(r)) = Len(r) - 1
  BY <1>1, <1>2, FrontIs
<1>4. Len(r) = Len(p) + 1 /\ p # r
  BY <1>1, <1>2, <1>3
<1>5. Under(p, r)
  BY <1>1, <1>2, UnderFront, UnderOrder
<1> QED
  BY <1>1, <1>4, <1>5 DEF Last

\* One level more shows the entries, and what each of them showed.
LEMMA ShowsByLevel ==
  ASSUME Tree, NEW p \in Paths, NEW n \in Nat
  PROVE  /\ Shows(0, p) = {}
         /\ Shows(n + 1, p) = Children(p) \cup UNION {Shows(n, r) : r \in Children(p)}
<1>0. p \in Seq(Names) /\ Len(p) \in Nat
  BY PathsAreSequences
<1>1. \A q \in Within(p) \ {p} :
         q \in Paths /\ q \in Seq(Names) /\ Under(p, q) /\ Exists(q) /\ Len(q) \in Nat /\ Len(q) > Len(p)
  <2> SUFFICES ASSUME NEW q \in Within(p) \ {p} PROVE Len(q) > Len(p) /\ q \in Seq(Names) /\ Len(q) \in Nat
    BY DEF Within
  <2>1. q \in Seq(Names) /\ Under(p, q) /\ p # q
    BY PathsAreSequences DEF Within
  <2> QED
    BY <1>0, <2>1, UnderIs, SamePath
<1>2. Shows(0, p) = {}
  BY <1>0, <1>1 DEF Shows
<1>3. ASSUME NEW q \in Shows(n + 1, p)
      PROVE  q \in Children(p) \/ \E r \in Children(p) : q \in Shows(n, r)
  <2>1. /\ q \in Paths /\ q \in Seq(Names) /\ Under(p, q) /\ Exists(q) /\ p # q
        /\ Len(q) - Len(p) <= n + 1
        /\ \A i \in Len(p) + 1 .. Len(q) : q[i] \notin Ignored
    BY <1>1 DEF Shows
  <2>2. PICK r \in Paths \ {<<>>} : Front(r) = p /\ Exists(r) /\ Under(r, q)
    BY <2>1, DirectoriesAbove
  <2>3. r \in Seq(Names) /\ Len(r) = Len(p) + 1
    BY <1>0, <2>2, FrontIs, PathsAreSequences
  <2>4. Len(r) <= Len(q) /\ \A i \in 1 .. Len(r) : r[i] = q[i]
    BY <2>1, <2>2, <2>3, UnderIs
  <2>5. r \in Children(p)
    <3>1. Last(r) = q[Len(p) + 1]
      BY <1>0, <2>3, <2>4 DEF Last
    <3>2. Len(p) + 1 \in Len(p) + 1 .. Len(q)
      BY <1>0, <2>1, <2>3, <2>4
    <3> QED
      BY <2>1, <2>2, <3>1, <3>2 DEF Children
  <2>6. CASE q = r
    BY <2>5, <2>6
  <2>7. CASE q # r
    <3>1. q \in Within(r) \ {r}
      BY <2>1, <2>2, <2>7 DEF Within
    <3>2. Len(q) - Len(r) <= n
      BY <1>0, <2>1, <2>3
    <3>3. \A i \in Len(r) + 1 .. Len(q) : q[i] \notin Ignored
      BY <1>0, <2>1, <2>3
    <3>4. q \in Shows(n, r)
      BY <3>1, <3>2, <3>3 DEF Shows
    <3> QED
      BY <2>5, <3>4
  <2> QED
    BY <2>6, <2>7
<1>4. ASSUME NEW r \in Children(p) PROVE r \in Shows(n + 1, p)
  <2>1. /\ r \in Paths /\ Under(p, r) /\ p # r /\ Exists(r)
        /\ Len(r) = Len(p) + 1 /\ r[Len(r)] \notin Ignored
    BY ChildIs
  <2>2. \A i \in Len(p) + 1 .. Len(r) : i = Len(r)
    BY <1>0, <2>1
  <2>3. Len(r) - Len(p) <= n + 1
    BY <1>0, <2>1
  <2> QED
    BY <2>1, <2>2, <2>3 DEF Shows, Within
<1>5. ASSUME NEW r \in Children(p), NEW q \in Shows(n, r) PROVE q \in Shows(n + 1, p)
  <2>1. /\ r \in Paths /\ Under(p, r) /\ p # r /\ Exists(r)
        /\ Len(r) = Len(p) + 1 /\ r[Len(r)] \notin Ignored
    BY ChildIs
  <2>2. /\ q \in Paths /\ Under(r, q) /\ q # r /\ Exists(q) /\ Len(q) - Len(r) <= n
        /\ \A i \in Len(r) + 1 .. Len(q) : q[i] \notin Ignored
    BY DEF Shows, Within
  <2>3. r \in Seq(Names) /\ q \in Seq(Names)
    BY <2>1, <2>2, PathsAreSequences
  <2>4. Under(p, q) /\ q # p
    BY <1>0, <2>1, <2>2, <2>3, UnderOrder
  <2>5. Len(q) - Len(p) <= n + 1
    BY <1>0, <2>1, <2>2, <2>3
  <2>6. ASSUME NEW i \in Len(p) + 1 .. Len(q) PROVE q[i] \notin Ignored
    <3>1. CASE i = Len(r)
      <4>1. i \in 1 .. Len(r) /\ q[i] = r[i]
        BY <1>0, <2>1, <2>2, <2>3, <3>1, UnderIs
      <4> QED
        BY <2>1, <3>1, <4>1
    <3>2. CASE i # Len(r)
      BY <1>0, <2>1, <2>2, <2>3, <3>2
    <3> QED
      BY <3>1, <3>2
  <2> QED
    BY <2>2, <2>4, <2>5, <2>6 DEF Shows, Within
<1> QED
  BY <1>2, <1>3, <1>4, <1>5

\* Children and what they show, as listFilesRecursive collects it.
LEMMA ListingShows ==
  ASSUME Tree, NEW p \in Paths, NEW depth \in Nat, IsDir(p)
  PROVE  Listing(p, depth) = Shows(depth, p)
<1> DEFINE E(h) == [n \in 0 .. depth |->
                      [q \in Paths |->
                         IF n = 0 THEN {}
                         ELSE Children(q) \cup UNION {h[n - 1][r] : r \in Children(q)}]]
           below == CHOOSE h : h = E(h)
           f == [n \in 0 .. depth |-> [q \in Paths |-> Shows(n, q)]]
<1>0. \A q \in Paths : Children(q) \subseteq Paths
  BY DEF Children
<1>1. \A q \in Paths : Shows(0, q) = {}
  BY ShowsByLevel
<1>2. \A n \in 1 .. depth, q \in Paths :
         Shows(n, q) = Children(q) \cup UNION {Shows(n - 1, r) : r \in Children(q)}
  <2> SUFFICES ASSUME NEW n \in 1 .. depth, NEW q \in Paths
        PROVE Shows(n, q) = Children(q) \cup UNION {Shows(n - 1, r) : r \in Children(q)}
    OBVIOUS
  <2>1. n - 1 \in Nat /\ (n - 1) + 1 = n
    OBVIOUS
  <2> DEFINE m == n - 1
  <2>2. m \in Nat /\ m + 1 = n
    BY <2>1
  <2> HIDE DEF m
  <2>3. Shows(m + 1, q) = Children(q) \cup UNION {Shows(m, r) : r \in Children(q)}
    BY <2>2, ShowsByLevel
  <2> QED
    BY <2>2, <2>3 DEF m
<1>3. ASSUME NEW n \in 1 .. depth, NEW h, h[n - 1] = f[n - 1]
      PROVE  E(h)[n] = f[n]
  <2>1. n - 1 \in 0 .. depth /\ n \in 0 .. depth /\ n # 0
    OBVIOUS
  <2>2. \A r \in Paths : h[n - 1][r] = Shows(n - 1, r)
    BY <1>3, <2>1
  <2>3. ASSUME NEW q \in Paths
        PROVE  {h[n - 1][r] : r \in Children(q)} = {Shows(n - 1, r) : r \in Children(q)}
    BY <1>0, <2>2
  <2>4. E(h)[n] = [q \in Paths |-> Children(q) \cup UNION {h[n - 1][r] : r \in Children(q)}]
    BY <2>1
  <2>5. f[n] = [q \in Paths |-> Shows(n, q)]
    BY <2>1
  <2>6. \A q \in Paths : Shows(n, q) = Children(q) \cup UNION {h[n - 1][r] : r \in Children(q)}
    BY <1>2, <2>3
  <2> QED
    BY <2>4, <2>5, <2>6
<1>4. \A h : E(h)[0] = f[0]
  BY <1>1
<1>5. f = E(f)
  <2> HIDE DEF f, E
  <2>1. \A n \in 0 .. depth : f[n] = E(f)[n]
    <3> SUFFICES ASSUME NEW n \in 0 .. depth PROVE f[n] = E(f)[n]
      OBVIOUS
    <3>1. CASE n = 0
      BY <1>4, <3>1
    <3>2. CASE n # 0
      <4>1. n \in 1 .. depth
        BY <3>2
      <4> QED
        BY <1>3, <4>1
    <3> QED
      BY <3>1, <3>2
  <2> USE DEF f, E
  <2> HIDE DEF Shows
  <2> QED
    BY <2>1
<1>6. below = E(below)
  BY <1>5
<1>7. Listing(p, depth) = below[depth][p]
  BY DEF Listing
<1> HIDE DEF below
<1>8. \A n \in 0 .. depth : below[n] = f[n]
  <2> DEFINE Bad == {n \in Nat : n \in 0 .. depth /\ below[n] # f[n]}
  <2> SUFFICES ASSUME Bad # {} PROVE FALSE
    OBVIOUS
  <2> HIDE DEF f, E
  <2>1. PICK n \in Bad : \A m \in Bad : n <= m
    BY LeastNumber
  <2>2. n \in 0 .. depth /\ below[n] # f[n] /\ n # 0
    BY <1>4, <1>6, <2>1
  <2>3. n \in 1 .. depth /\ n - 1 \in Nat /\ n - 1 \in 0 .. depth /\ ~(n <= n - 1)
    BY <2>2
  <2>4. below[n - 1] = f[n - 1]
    BY <2>1, <2>3
  <2>5. E(below)[n] = f[n]
    BY <1>3, <2>3, <2>4
  <2> QED
    BY <1>6, <2>2, <2>5
<1>9. f[depth][p] = Shows(depth, p)
  OBVIOUS
<1>10. depth \in 0 .. depth
  OBVIOUS
<1> QED
  BY <1>7, <1>8, <1>9, <1>10

----------------------------------------------------------------------------
(* The inductive invariant: the files are a tree; whoever has opened a file *)
(* to write has it still, and empty if nobody else wrote it; and a page     *)
(* that nobody edited shows what was read.                                  *)

ToolCall == [op : {"none", "write", "patch"}, path : Paths, lines : Seq(Lines)]
Pages == [pc : {"closed", "open", "opening", "writing", "saved", "refused"}, path : Paths,
          bytes : Seq(Lines), encoding : {"utf-8", "utf-8-bom", "system"}, lines : Seq(Lines),
          edited : BOOLEAN, at : Paths, gone : BOOLEAN, alone : BOOLEAN]

\* What a page g that is being saved relies on in the files t.
SaveOk(t, g) ==
    g.pc = "writing" =>
        /\ g.alone => ~g.gone
        /\ ~g.gone => t[g.at].kind = "file" /\ (g.alone => t[g.at].lines = <<>>)

\* What a page keeps of the bytes it was read from.
ReadOk(g) ==
    /\ g.pc \in {"open", "opening", "writing"} /\ ~g.edited
          => g.lines = Shown(g.bytes) /\ g.encoding = EncodingOf(g.bytes)
    /\ g.pc \in {"opening", "writing"} => CanEncode(g.lines, g.encoding)

FilesInv ==
    /\ Tree
    /\ currentDir \in Paths
    /\ tool \in ToolCall
    /\ tool.op = "write" => tree[tool.path].kind = "file"
    /\ editor \in [Editors -> Pages]
    /\ \A e \in Editors : SaveOk(tree, editor[e]) /\ ReadOk(editor[e])

\* What a step does to the files: none goes that FilesSurvive does not name.
Survival ==
    \A p \in Paths :
        IsFile(p) /\ ~IsFile(p)' =>
            /\ Under(asked'.path, p)
            /\ \/ asked'.op = "remove"
               \/ /\ asked'.op = "move"
                  /\ tree'[Rebased(p, asked'.path, asked'.to)] = tree[p]

\* A page of which a step changes no more than where its file is, and who wrote it.
SamePage(g, h) ==
    /\ h \in Pages
    /\ h.pc = g.pc /\ h.path = g.path /\ h.bytes = g.bytes /\ h.encoding = g.encoding
    /\ h.lines = g.lines /\ h.edited = g.edited

\* What every tool call leaves behind.
ToolStep ==
    /\ Tree'
    /\ editor' \in [Editors -> Pages]
    /\ \A e \in Editors : SamePage(editor[e], editor'[e]) /\ SaveOk(tree', editor'[e])
    /\ Survival

LEMMA RootIsPath == <<>> \in Paths
BY PathsAssumption

LEMMA FrontIsPath == ASSUME NEW p \in Paths, p # <<>>
                     PROVE  Front(p) \in Paths /\ Front(p) # p
<1>1. p \in Seq(Names) /\ Front(p) \in Paths
  BY PathsAreSequences, PathsAssumption
<1>2. Len(Front(p)) = Len(p) - 1 /\ Len(p) \in Nat
  BY <1>1, FrontIs
<1> QED
  BY <1>1, <1>2

LEMMA EntryIs ==
  ASSUME Tree, NEW p \in Paths
  PROVE  /\ tree[p] \in Entries /\ tree[p].lines \in Seq(Lines)
         /\ tree[p].kind \in {"absent", "dir", "file"}
         /\ tree[p] = [kind |-> tree[p].kind, lines |-> tree[p].lines]
         /\ IsDir(p) <=> tree[p].kind = "dir"
         /\ IsFile(p) <=> tree[p].kind = "file"
         /\ Exists(p) <=> tree[p].kind # "absent"
BY DEF Tree, Entries, IsDir, IsFile, Exists

LEMMA FileIsEntry ==
  ASSUME NEW lines \in Seq(Lines)
  PROVE  File(lines) \in Entries /\ File(lines).kind = "file" /\ File(lines).lines = lines
BY DEF File, Entries

LEMMA OtherEntries == Dir \in Entries /\ Absent \in Entries /\ Dir.kind = "dir" /\ Absent.kind = "absent"
<1>1. <<>> \in Seq(Lines)
  BY EmptySeq
<1> QED
  BY <1>1 DEF Dir, Absent, Entries

\* The directory a path that exists lies in.
LEMMA ParentOf ==
  ASSUME Tree, NEW p \in Paths, Exists(p)
  PROVE  ParentIsDir(p)
BY DEF Tree, ParentIsDir

\* A file is put where no directory is.
LEMMA PutFile ==
  ASSUME Tree, NEW p \in Paths, ~IsDir(p), ParentIsDir(p), NEW x \in Entries, x.kind = "file",
         tree' = [tree EXCEPT ![p] = x]
  PROVE  /\ Tree' /\ tree'[p] = x
         /\ \A q \in Paths : q # p => tree'[q] = tree[q]
         /\ \A q \in Paths : tree[q].kind = "file" => tree'[q].kind = "file"
<1>1. tree' \in [Paths -> Entries] /\ tree'[p] = x /\ \A q \in Paths : q # p => tree'[q] = tree[q]
  BY DEF Tree
<1>2. ASSUME NEW q \in Paths \ {<<>>}, tree'[q].kind # "absent"
      PROVE  tree'[Front(q)].kind = "dir"
  <2>1. Front(q) \in Paths /\ Front(q) # q
    BY FrontIsPath
  <2>2. tree[Front(q)].kind = "dir"
    <3>1. CASE q = p
      BY <2>1, <3>1, EntryIs DEF ParentIsDir
    <3>2. CASE q # p
      BY <1>1, <1>2, <2>1, <3>2, EntryIs DEF Tree
    <3> QED
      BY <3>1, <3>2
  <2>3. Front(q) # p
    BY <2>2, EntryIs
  <2> QED
    BY <1>1, <2>1, <2>2, <2>3
<1>3. \A q \in Paths \ {<<>>} : Exists(q)' => IsDir(Front(q))'
  BY <1>2, FrontIsPath DEF Exists, IsDir
<1>4. Tree'
  BY <1>1, <1>3 DEF Tree
<1> QED
  BY <1>1, <1>4

LEMMA NoFileGoes ==
  ASSUME \A q \in Paths : tree[q].kind = "file" => tree'[q].kind = "file"
  PROVE  Survival
BY DEF Survival, IsFile

\* The pages of those who have the file open that somebody else writes.
LEMMA TouchedPages ==
  ASSUME FilesInv, NEW p \in Paths, Touched(p),
         \A q \in Paths : q # p => tree'[q] = tree[q],
         \A q \in Paths : tree[q].kind = "file" => tree'[q].kind = "file"
  PROVE  /\ editor' \in [Editors -> Pages]
         /\ \A e \in Editors : SamePage(editor[e], editor'[e]) /\ SaveOk(tree', editor'[e])
<1>1. ASSUME NEW e \in Editors
      PROVE  SamePage(editor[e], editor'[e]) /\ SaveOk(tree', editor'[e])
  <2>1. editor[e] \in Pages /\ SaveOk(tree, editor[e])
    BY DEF FilesInv
  <2>2. CASE OpenAt(e, p)
    <3>1. editor'[e] = [editor[e] EXCEPT !.alone = FALSE]
      BY <2>2 DEF Touched
    <3>2. SamePage(editor[e], editor'[e]) /\ ~editor'[e].alone
             /\ editor'[e].gone = editor[e].gone /\ editor'[e].at = editor[e].at
      BY <2>1, <3>1 DEF SamePage, Pages
    <3> QED
      BY <2>1, <2>2, <3>2 DEF SaveOk, OpenAt, SamePage, Pages
  <2>3. CASE ~OpenAt(e, p)
    <3>1. editor'[e] = editor[e]
      BY <2>3 DEF Touched
    <3>2. SamePage(editor[e], editor'[e])
      BY <2>1, <3>1 DEF SamePage
    <3>3. editor[e].at \in Paths
      BY <2>1 DEF Pages
    <3> QED
      BY <2>1, <2>3, <3>1, <3>2, <3>3 DEF SaveOk, OpenAt
  <2> QED
    BY <2>2, <2>3
<1>2. \A e \in Editors : editor'[e] \in Pages
  BY <1>1 DEF SamePage
<1> QED
  BY <1>1, <1>2 DEF Touched

\* Pages when neither they nor what they have open changes.
LEMMA UntouchedPages ==
  ASSUME FilesInv, editor' = editor,
         \A q \in Paths : tree[q].kind = "file" => tree'[q] = tree[q]
  PROVE  /\ editor' \in [Editors -> Pages]
         /\ \A e \in Editors : SamePage(editor[e], editor'[e]) /\ SaveOk(tree', editor'[e])
<1>1. ASSUME NEW e \in Editors
      PROVE  SamePage(editor[e], editor'[e]) /\ SaveOk(tree', editor'[e])
  <2>1. editor[e] \in Pages /\ SaveOk(tree, editor[e])
    BY DEF FilesInv
  <2>2. editor[e].at \in Paths
    BY <2>1 DEF Pages
  <2> QED
    BY <2>1, <2>2 DEF SamePage, SaveOk
<1> QED
  BY <1>1 DEF FilesInv

\* The steps that put a file: write, patch, and the end of both.
LEMMA PutByTool ==
  ASSUME FilesInv, NEW p \in Paths, ~IsDir(p), ParentIsDir(p), NEW x \in Entries, x.kind = "file",
         tree' = [tree EXCEPT ![p] = x], Touched(p)
  PROVE  ToolStep /\ tree'[p] = x
<1>1. Tree
  BY DEF FilesInv
<1>2. /\ Tree' /\ tree'[p] = x
      /\ \A q \in Paths : q # p => tree'[q] = tree[q]
      /\ \A q \in Paths : tree[q].kind = "file" => tree'[q].kind = "file"
  BY <1>1, PutFile
<1> QED
  BY <1>2, TouchedPages, NoFileGoes DEF ToolStep

LEMMA CanOpenIs ==
  ASSUME NEW p, CanOpen(p)
  PROVE  ~IsDir(p) /\ ParentIsDir(p)
BY DEF CanOpen, ParentIsDir

LEMMA TruncateIsStep ==
  ASSUME FilesInv, NEW p \in Paths, CanOpen(p), Truncate(p), Touched(p)
  PROVE  ToolStep /\ tree'[p] = File(<<>>)
<1>1. File(<<>>) \in Entries /\ File(<<>>).kind = "file"
  <2>1. <<>> \in Seq(Lines)
    BY EmptySeq
  <2> QED
    BY <2>1, FileIsEntry
<1> QED
  BY <1>1, CanOpenIs, PutByTool DEF Truncate

LEMMA WriteFileStep ==
  ASSUME FilesInv, NEW p \in Paths, NEW lines \in Contents, WriteFile(p, lines)
  PROVE  ToolStep /\ currentDir' \in Paths /\ tool' \in ToolCall
         /\ (tool'.op = "write" => tree'[tool'.path].kind = "file")
<1>1. ToolStep /\ tree'[p] = File(<<>>)
  BY TruncateIsStep DEF WriteFile
<1>2. tool' = [op |-> "write", path |-> p, lines |-> lines] /\ lines \in Seq(Lines)
  BY LinesAssumption DEF WriteFile
<1> QED
  BY <1>1, <1>2 DEF WriteFile, ToolCall, File, FilesInv

LEMMA ReadForPatchStep ==
  ASSUME FilesInv, NEW p \in Paths, NEW patch \in Patches, ReadForPatch(p, patch)
  PROVE  ToolStep /\ currentDir' \in Paths /\ tool' \in ToolCall
         /\ (tool'.op = "write" => tree'[tool'.path].kind = "file")
<1>1. Tree /\ tree' = tree /\ editor' = editor /\ currentDir' = currentDir /\ currentDir \in Paths
  BY DEF ReadForPatch, FilesInv
<1>2. tool' = [op |-> "patch", path |-> p, lines |-> ApplyPatch(tree[p].lines, patch)]
  BY DEF ReadForPatch
<1>3. tree[p].lines \in Seq(Lines)
  BY <1>1, EntryIs
<1>4. ApplyPatch(tree[p].lines, patch) \in Seq(Lines)
  BY <1>3, ApplyPatchType
<1>5. ToolStep
  BY <1>1, UntouchedPages, NoFileGoes DEF ToolStep, Tree, Exists, IsDir
<1> QED
  BY <1>1, <1>2, <1>4, <1>5 DEF ToolCall

LEMMA OpenForPatchStep ==
  ASSUME FilesInv, OpenForPatch
  PROVE  ToolStep /\ currentDir' \in Paths /\ tool' \in ToolCall
         /\ (tool'.op = "write" => tree'[tool'.path].kind = "file")
<1>1. Tree /\ tool \in ToolCall /\ tool.path \in Paths /\ currentDir' = currentDir /\ currentDir \in Paths
  BY DEF OpenForPatch, FilesInv, ToolCall
<1>2. CASE CanOpen(tool.path)
  <2>1. ToolStep /\ tree'[tool.path] = File(<<>>)
    BY <1>1, <1>2, TruncateIsStep DEF OpenForPatch
  <2>2. tool' = [tool EXCEPT !.op = "write"]
    BY <1>2 DEF OpenForPatch
  <2>3. tool' \in ToolCall /\ tool'.path = tool.path
    BY <1>1, <2>2 DEF ToolCall
  <2> QED
    BY <1>1, <2>1, <2>3 DEF File
<1>3. CASE ~CanOpen(tool.path)
  <2>1. tree' = tree /\ editor' = editor /\ tool' = NoTool
    BY <1>3 DEF OpenForPatch
  <2>2. ToolStep
    BY <1>1, <2>1, UntouchedPages, NoFileGoes DEF ToolStep, Tree, Exists, IsDir
  <2>3. <<>> \in Seq(Lines)
    BY EmptySeq
  <2>4. tool' \in ToolCall /\ tool'.op = "none"
    BY <2>1, <2>3, RootIsPath DEF NoTool, ToolCall
  <2> QED
    BY <1>1, <2>2, <2>4
<1> QED
  BY <1>2, <1>3

LEMMA NoToolIs == NoTool \in ToolCall /\ NoTool.op = "none"
<1>1. <<>> \in Seq(Lines)
  BY EmptySeq
<1> QED
  BY <1>1, RootIsPath DEF NoTool, ToolCall

LEMMA FinishWriteStep ==
  ASSUME FilesInv, FinishWrite
  PROVE  ToolStep /\ currentDir' \in Paths /\ tool' \in ToolCall
         /\ (tool'.op = "write" => tree'[tool'.path].kind = "file")
<1> DEFINE p == tool.path
           x == File(Overwrite(tree[p].lines, tool.lines))
<1>1. /\ Tree /\ p \in Paths /\ tool.lines \in Seq(Lines) /\ tree[p].kind = "file"
      /\ currentDir' = currentDir /\ currentDir \in Paths /\ tool' = NoTool
  BY DEF FinishWrite, FilesInv, ToolCall
<1>2. tree[p].lines \in Seq(Lines) /\ ~IsDir(p) /\ Exists(p)
  BY <1>1, EntryIs
<1>3. ParentIsDir(p)
  BY <1>1, <1>2, ParentOf
<1>4. x \in Entries /\ x.kind = "file"
  BY <1>1, <1>2, OverwriteIs, FileIsEntry
<1>5. CASE tree' = [tree EXCEPT ![p] = x] /\ Touched(p)
  <2> HIDE DEF p, x
  <2>1. ToolStep
    BY <1>1, <1>2, <1>3, <1>4, <1>5, PutByTool
  <2> QED
    BY <1>1, <2>1, NoToolIs
<1>6. CASE tree' = tree /\ editor' = editor
  <2>1. ToolStep
    BY <1>1, <1>6, UntouchedPages, NoFileGoes DEF ToolStep, Tree, Exists, IsDir
  <2> QED
    BY <1>1, <2>1, NoToolIs
<1>7. \/ tree' = [tree EXCEPT ![p] = x] /\ Touched(p)
      \/ tree' = tree /\ editor' = editor
  <2>1. [tree EXCEPT ![p] = File(Overwrite(@.lines, tool.lines))] = [tree EXCEPT ![p] = x]
    BY <1>1 DEF Tree
  <2> QED
    BY <2>1 DEF FinishWrite
<1> QED
  BY <1>5, <1>6, <1>7

\* The steps that leave no tool call behind them.
ToolDone == ToolStep /\ currentDir' \in Paths /\ tool' \in ToolCall
            /\ (tool'.op = "write" => tree'[tool'.path].kind = "file")

LEMMA DoneAtOnce ==
  ASSUME FilesInv, Idle, tool' = tool, currentDir' \in Paths, ToolStep
  PROVE  ToolDone
BY DEF FilesInv, Idle, ToolDone

LEMMA ChangeDirectoryStep ==
  ASSUME FilesInv, NEW p \in Paths, ChangeDirectory(p)
  PROVE  ToolDone
<1>1. Tree /\ tree' = tree /\ editor' = editor /\ Idle /\ tool' = tool /\ currentDir' = p
  BY DEF ChangeDirectory, FilesInv
<1>2. ToolStep
  BY <1>1, UntouchedPages, NoFileGoes DEF ToolStep, Tree, Exists, IsDir
<1> QED
  BY <1>1, <1>2, DoneAtOnce

LEMMA MakeDirectoryStep ==
  ASSUME FilesInv, NEW p \in Paths, MakeDirectory(p)
  PROVE  ToolDone
<1>1. /\ Tree /\ Idle /\ tool' = tool /\ editor' = editor
      /\ currentDir' = currentDir /\ currentDir \in Paths
      /\ \A q \in Paths : Under(q, p) => ~IsFile(q)
      /\ tree' = [q \in Paths |-> IF Under(q, p) THEN Dir ELSE tree[q]]
  BY DEF MakeDirectory, FilesInv
<1>2. tree' \in [Paths -> Entries]
  BY <1>1, OtherEntries, EntryIs
<1>3. ASSUME NEW q \in Paths \ {<<>>}, tree'[q].kind # "absent"
      PROVE  tree'[Front(q)].kind = "dir"
  <2>1. Front(q) \in Paths /\ Front(q) \in Seq(Names) /\ q \in Seq(Names) /\ p \in Seq(Names)
    BY FrontIsPath, PathsAreSequences
  <2>2. CASE Under(q, p)
    <3>1. Under(Front(q), q)
      BY <2>1, UnderFront, UnderOrder
    <3>2. Under(Front(q), p)
      BY <2>1, <2>2, <3>1, UnderOrder
    <3> QED
      BY <1>1, <2>1, <3>2, OtherEntries
  <2>3. CASE ~Under(q, p)
    <3>1. tree[q].kind # "absent"
      BY <1>1, <1>3, <2>3
    <3>2. tree[Front(q)].kind = "dir"
      BY <1>1, <2>1, <3>1 DEF Tree, Exists, IsDir
    <3> QED
      BY <1>1, <2>1, <3>2, OtherEntries
  <2> QED
    BY <2>2, <2>3
<1>4. Tree'
  BY <1>2, <1>3, FrontIsPath DEF Tree, Exists, IsDir
<1>5. \A q \in Paths : tree[q].kind = "file" => tree'[q] = tree[q]
  BY <1>1, EntryIs
<1>6. ToolStep
  BY <1>1, <1>4, <1>5, UntouchedPages, NoFileGoes DEF ToolStep
<1> QED
  BY <1>1, <1>6, DoneAtOnce

LEMMA RemoveDirectoryStep ==
  ASSUME FilesInv, NEW p \in Paths, RemoveDirectory(p)
  PROVE  ToolDone
<1>1. /\ Tree /\ Idle /\ tool' = tool /\ editor' = editor
      /\ currentDir' = currentDir /\ currentDir \in Paths
      /\ IsDir(p) /\ Within(p) = {p} /\ tree' = [tree EXCEPT ![p] = Absent]
  BY DEF RemoveDirectory, FilesInv
<1>2. tree' \in [Paths -> Entries] /\ tree'[p] = Absent /\ \A q \in Paths : q # p => tree'[q] = tree[q]
  BY <1>1, OtherEntries DEF Tree
<1>3. ASSUME NEW q \in Paths \ {<<>>}, tree'[q].kind # "absent"
      PROVE  tree'[Front(q)].kind = "dir"
  <2>1. Front(q) \in Paths /\ q \in Seq(Names) /\ Front(q) \in Seq(Names)
    BY FrontIsPath, PathsAreSequences
  <2>2. q # p /\ tree[q].kind # "absent"
    BY <1>2, <1>3, OtherEntries
  <2>3. tree[Front(q)].kind = "dir"
    BY <1>1, <2>1, <2>2 DEF Tree, Exists, IsDir
  <2>4. Front(q) # p
    <3>1. Under(Front(q), q)
      BY <2>1, UnderFront, UnderOrder
    <3> QED
      BY <1>1, <2>2, <3>1 DEF Within, Exists
  <2> QED
    BY <1>2, <2>1, <2>3, <2>4
<1>4. Tree'
  BY <1>2, <1>3, FrontIsPath DEF Tree, Exists, IsDir
<1>5. \A q \in Paths : tree[q].kind = "file" => tree'[q] = tree[q]
  BY <1>1, <1>2, EntryIs
<1>6. ToolStep
  BY <1>1, <1>4, <1>5, UntouchedPages, NoFileGoes DEF ToolStep
<1> QED
  BY <1>1, <1>6, DoneAtOnce

LEMMA RemoveFileStep ==
  ASSUME FilesInv, NEW p \in Paths, RemoveFile(p)
  PROVE  ToolDone
<1>1. /\ Tree /\ Idle /\ tool' = tool
      /\ currentDir' = currentDir /\ currentDir \in Paths
      /\ asked' = [op |-> "remove", path |-> p, to |-> p]
      /\ tree' = [q \in Paths |-> IF Under(p, q) THEN Absent ELSE tree[q]]
      /\ editor' = [e \in Editors |->
                      IF \E q \in Within(p) : OpenAt(e, q)
                      THEN [editor[e] EXCEPT !.gone = TRUE, !.alone = FALSE] ELSE editor[e]]
  BY DEF RemoveFile, FilesInv, Asks, Unlinked
<1>2. tree' \in [Paths -> Entries]
  BY <1>1, OtherEntries, EntryIs
<1>3. ASSUME NEW q \in Paths \ {<<>>}, tree'[q].kind # "absent"
      PROVE  tree'[Front(q)].kind = "dir"
  <2>1. /\ Front(q) \in Paths /\ q \in Seq(Names) /\ Front(q) \in Seq(Names) /\ p \in Seq(Names)
    BY FrontIsPath, PathsAreSequences
  <2>2. ~Under(p, q) /\ tree[q].kind # "absent"
    BY <1>1, <1>3, OtherEntries
  <2>3. tree[Front(q)].kind = "dir"
    BY <1>1, <2>1, <2>2 DEF Tree, Exists, IsDir
  <2>4. ~Under(p, Front(q))
    BY <2>1, <2>2, UnderFront
  <2> QED
    BY <1>1, <2>1, <2>3, <2>4
<1>4. Tree'
  BY <1>2, <1>3, FrontIsPath DEF Tree, Exists, IsDir
<1>5. \A q \in Paths : ~Under(p, q) => tree'[q] = tree[q]
  BY <1>1
<1>6. Survival
  <2> SUFFICES ASSUME NEW q \in Paths, IsFile(q), ~IsFile(q)'
        PROVE  Under(asked'.path, q) /\ asked'.op = "remove"
    BY DEF Survival
  <2>1. Under(p, q)
    BY <1>5 DEF IsFile
  <2> QED
    BY <1>1, <2>1
<1>7. ASSUME NEW e \in Editors
      PROVE  SamePage(editor[e], editor'[e]) /\ SaveOk(tree', editor'[e])
  <2>1. editor[e] \in Pages /\ SaveOk(tree, editor[e])
    BY DEF FilesInv
  <2>2. CASE \E q \in Within(p) : OpenAt(e, q)
    <3>1. editor'[e] = [editor[e] EXCEPT !.gone = TRUE, !.alone = FALSE]
      BY <1>1, <2>2
    <3>2. SamePage(editor[e], editor'[e]) /\ ~editor'[e].alone /\ editor'[e].gone
      BY <2>1, <3>1 DEF SamePage, Pages
    <3> QED
      BY <3>2 DEF SaveOk
  <2>3. CASE ~\E q \in Within(p) : OpenAt(e, q)
    <3>1. editor'[e] = editor[e] /\ editor[e].at \in Paths
      BY <1>1, <2>1, <2>3 DEF Pages
    <3>2. editor[e].pc = "writing" /\ ~editor[e].gone => tree'[editor[e].at] = tree[editor[e].at]
      <4> SUFFICES ASSUME editor[e].pc = "writing", ~editor[e].gone PROVE ~Under(p, editor[e].at)
        BY <1>5, <3>1
      <4>1. OpenAt(e, editor[e].at) /\ Exists(editor[e].at)
        BY <2>1 DEF OpenAt, SaveOk, Exists
      <4> QED
        BY <2>3, <3>1, <4>1 DEF Within
    <3> QED
      BY <2>1, <3>1, <3>2 DEF SamePage, SaveOk
  <2> QED
    BY <2>2, <2>3
<1>8. editor' \in [Editors -> Pages]
  BY <1>1, <1>7 DEF SamePage
<1>9. ToolStep
  BY <1>4, <1>6, <1>7, <1>8 DEF ToolStep
<1> QED
  BY <1>1, <1>9, DoneAtOnce

LEMMA CopyFileStep ==
  ASSUME FilesInv, NEW s \in Paths, NEW d \in Paths, CopyFile(s, d)
  PROVE  ToolDone
<1> DEFINE to == IF IsDir(d) THEN Append(d, Last(s)) ELSE d
<1>1. /\ Tree /\ Idle /\ tool' = tool /\ currentDir' = currentDir /\ currentDir \in Paths
      /\ IsFile(s) /\ to \in Paths /\ ~IsDir(to) /\ ParentIsDir(to)
      /\ tree' = [tree EXCEPT ![to] = tree[s]] /\ Touched(to)
  BY DEF CopyFile, FilesInv
<1> HIDE DEF to
<1>2. tree[s] \in Entries /\ tree[s].kind = "file"
  BY <1>1, EntryIs
<1>3. ToolStep
  BY <1>1, <1>2, PutByTool
<1> QED
  BY <1>1, <1>3, DoneAtOnce

\* Every entry of the destination comes from one of the source.
LEMMA CopyDirectoryStep ==
  ASSUME FilesInv, NEW s \in Paths, NEW d \in Paths, CopyDirectory(s, d)
  PROVE  ToolDone
<1> DEFINE from(q) == Rebased(q, d, s)
           clash(q) == \/ IsFile(q) /\ IsDir(from(q))
                       \/ IsDir(q) /\ IsFile(from(q))
           wanted == {Rebased(q, s, d) : q \in Within(s)}
<1>1. /\ Tree /\ Idle /\ tool' = tool /\ currentDir' = currentDir /\ currentDir \in Paths
      /\ Fits(s, d) /\ ParentIsDir(d)
  BY DEF CopyDirectory, FilesInv
<1>2. PICK done \in SUBSET {q \in wanted : ~clash(q)} :
         /\ \A q \in done : q = d \/ Front(q) \in done
         /\ tree' = [q \in Paths |-> IF q \in done /\ ~IsDir(q) THEN tree[from(q)] ELSE tree[q]]
         /\ editor' = [e \in Editors |->
                         IF \E q \in done : IsFile(from(q)) /\ OpenAt(e, q)
                         THEN [editor[e] EXCEPT !.alone = FALSE] ELSE editor[e]]
  BY DEF CopyDirectory
<1>3. s \in Seq(Names) /\ d \in Seq(Names)
  BY PathsAreSequences
<1>4. ASSUME NEW q \in done
      PROVE  /\ q \in Paths /\ from(q) \in Paths /\ Exists(from(q)) /\ ~clash(q)
             /\ q # d => q # <<>> /\ IsDir(from(Front(q)))
  <2>1. PICK x \in Within(s) : q = Rebased(x, s, d)
    BY <1>2
  <2>2. x \in Paths /\ x \in Seq(Names) /\ Under(s, x) /\ Exists(x)
    BY PathsAreSequences DEF Within
  <2>3. q \in Paths
    BY <1>1, <2>1 DEF Fits
  <2>4. from(q) = x /\ (x = s <=> q = d)
    BY <1>3, <2>1, <2>2, RebasedBack
  <2>5. ASSUME q # d PROVE q # <<>> /\ IsDir(from(Front(q)))
    <3>1. x # s
      BY <2>4, <2>5
    <3>2. /\ x # <<>> /\ Under(s, Front(x)) /\ q # <<>>
          /\ Front(q) = Rebased(Front(x), s, d)
      BY <1>3, <2>1, <2>2, <3>1, RebasedFront
    <3>3. Front(x) \in Seq(Names)
      BY <2>2, <3>2, FrontIs
    <3>4. Rebased(Rebased(Front(x), s, d), d, s) = Front(x)
      BY <1>3, <3>2, <3>3, RebasedBack
    <3>5. IsDir(Front(x))
      BY <1>1, <2>2, <3>2 DEF Tree
    <3> QED
      BY <3>2, <3>4, <3>5
  <2> QED
    BY <1>2, <2>2, <2>3, <2>4, <2>5
<1> HIDE DEF from
<1>5. \A q \in Paths : tree'[q] = IF q \in done /\ ~IsDir(q) THEN tree[from(q)] ELSE tree[q]
  BY <1>2
<1>6. tree' \in [Paths -> Entries]
  BY <1>1, <1>2, <1>4, EntryIs
<1>7. ASSUME NEW q \in Paths, IsDir(q) PROVE tree'[q].kind = "dir"
  BY <1>1, <1>5, <1>7, EntryIs
<1>8. ASSUME NEW q \in Paths \ {<<>>}, tree'[q].kind # "absent"
      PROVE  tree'[Front(q)].kind = "dir"
  <2>1. Front(q) \in Paths
    BY FrontIsPath
  <2>2. CASE q \in done /\ q = d
    BY <1>1, <1>7, <2>1, <2>2 DEF ParentIsDir
  <2>3. CASE q \in done /\ q # d
    <3>1. Front(q) \in done /\ IsDir(from(Front(q)))
      BY <1>2, <1>4, <2>3
    <3>2. from(Front(q)) \in Paths /\ tree[from(Front(q))].kind = "dir"
      BY <3>1, <1>4 DEF IsDir
    <3>3. CASE IsDir(Front(q))
      BY <1>7, <2>1, <3>3
    <3>4. CASE ~IsDir(Front(q))
      BY <1>5, <2>1, <3>1, <3>2, <3>4
    <3> QED
      BY <3>3, <3>4
  <2>4. CASE q \notin done
    <3>1. tree[q].kind # "absent"
      BY <1>5, <1>8, <2>4
    <3>2. IsDir(Front(q))
      BY <1>1, <3>1 DEF Tree, Exists
    <3> QED
      BY <1>7, <2>1, <3>2
  <2> QED
    BY <2>2, <2>3, <2>4
<1>9. Tree'
  BY <1>6, <1>8, FrontIsPath DEF Tree, Exists, IsDir
<1>10. \A q \in done : IsFile(q) => IsFile(from(q))
  <2> SUFFICES ASSUME NEW q \in done, IsFile(q) PROVE IsFile(from(q))
    OBVIOUS
  <2>1. from(q) \in Paths /\ Exists(from(q)) /\ ~IsDir(from(q))
    BY <1>4
  <2> QED
    BY <1>1, <2>1, EntryIs
<1>11. \A q \in Paths : tree[q].kind = "file" => tree'[q].kind = "file"
  <2> SUFFICES ASSUME NEW q \in Paths, tree[q].kind = "file" PROVE tree'[q].kind = "file"
    OBVIOUS
  <2>1. CASE q \in done
    BY <1>5, <1>10, <2>1 DEF IsFile
  <2>2. CASE q \notin done
    BY <1>5, <2>2
  <2> QED
    BY <2>1, <2>2
<1>12. ASSUME NEW e \in Editors
       PROVE  SamePage(editor[e], editor'[e]) /\ SaveOk(tree', editor'[e])
  <2>1. editor[e] \in Pages /\ SaveOk(tree, editor[e]) /\ editor[e].at \in Paths
    BY DEF FilesInv, Pages
  <2>2. CASE \E q \in done : IsFile(from(q)) /\ OpenAt(e, q)
    <3>1. editor'[e] = [editor[e] EXCEPT !.alone = FALSE]
      BY <1>2, <2>2
    <3>2. SamePage(editor[e], editor'[e]) /\ ~editor'[e].alone
             /\ editor'[e].gone = editor[e].gone /\ editor'[e].at = editor[e].at
      BY <2>1, <3>1 DEF SamePage, Pages
    <3> QED
      BY <1>11, <2>1, <3>2 DEF SaveOk, SamePage
  <2>3. CASE ~\E q \in done : IsFile(from(q)) /\ OpenAt(e, q)
    <3>1. editor'[e] = editor[e]
      BY <1>2, <2>3
    <3>2. editor[e].pc = "writing" /\ ~editor[e].gone => tree'[editor[e].at] = tree[editor[e].at]
      <4> SUFFICES ASSUME editor[e].pc = "writing", ~editor[e].gone PROVE editor[e].at \notin done
        BY <1>5, <2>1
      <4>1. OpenAt(e, editor[e].at) /\ IsFile(editor[e].at)
        BY <2>1 DEF OpenAt, SaveOk, IsFile
      <4> QED
        BY <1>10, <2>3, <4>1
    <3> QED
      BY <2>1, <3>1, <3>2 DEF SamePage, SaveOk
  <2> QED
    BY <2>2, <2>3
<1>13. editor' \in [Editors -> Pages]
  BY <1>2, <1>12 DEF SamePage
<1>14. ToolStep
  BY <1>9, <1>11, <1>12, <1>13, NoFileGoes DEF ToolStep
<1> QED
  BY <1>1, <1>14, DoneAtOnce

\* A rename: what was under s is under d, and under d nothing was but d itself.
LEMMA MoveFileStep ==
  ASSUME FilesInv, NEW s \in Paths, NEW d \in Paths, MoveFile(s, d)
  PROVE  ToolDone
<1> DEFINE from(q) == Rebased(q, d, s)
           comes(q) == Under(d, q) /\ from(q) \in Paths
<1>1. /\ Tree /\ Idle /\ tool' = tool /\ currentDir' = currentDir /\ currentDir \in Paths
      /\ Exists(s) /\ s # d /\ ~Under(s, d) /\ Fits(s, d) /\ ParentIsDir(d)
      /\ Exists(d) => tree[d].kind = tree[s].kind /\ Within(d) = {d}
      /\ asked' = [op |-> "move", path |-> s, to |-> d]
      /\ tree' = [q \in Paths |-> IF comes(q) THEN tree[from(q)]
                                  ELSE IF Under(s, q) THEN Absent ELSE tree[q]]
      /\ editor' = [e \in Editors |->
                      IF OpenAt(e, d) THEN [editor[e] EXCEPT !.gone = TRUE, !.alone = FALSE]
                      ELSE IF \E q \in Within(s) : OpenAt(e, q)
                      THEN [editor[e] EXCEPT !.at = Rebased(@, s, d), !.alone = FALSE]
                      ELSE editor[e]]
  BY DEF MoveFile, FilesInv, Asks
<1>2. s \in Seq(Names) /\ d \in Seq(Names)
  BY PathsAreSequences
\* What was under d: nothing but d itself.
<1>3. ASSUME NEW q \in Paths, Under(d, q), Exists(q) PROVE q = d /\ Exists(d)
  <2>1. Exists(d)
    <3>1. CASE q = d
      BY <1>3, <3>1
    <3>2. CASE q # d
      <4>1. IsDir(d)
        BY <1>1, <1>3, <3>2, DirectoriesAbove
      <4> QED
        BY <1>1, <4>1, EntryIs
    <3> QED
      BY <3>1, <3>2
  <2>2. q \in Within(d)
    BY <1>3 DEF Within
  <2> QED
    BY <1>1, <2>1, <2>2
<1>4. ~Under(d, s)
  BY <1>1, <1>3
\* What comes: each path under s, to its place under d.
<1>5. ASSUME NEW q \in Paths, comes(q)
      PROVE  /\ from(q) \in Seq(Names) /\ Under(s, from(q)) /\ q = Rebased(from(q), s, d)
             /\ (q = d <=> from(q) = s)
  <2>1. q \in Seq(Names) /\ from(q) \in Seq(Names)
    BY <1>5, PathsAreSequences
  <2> QED
    BY <1>2, <1>5, <2>1, RebasedBack
<1>6. ASSUME NEW x \in Paths, Under(s, x), Exists(x)
      PROVE  Rebased(x, s, d) \in Paths /\ comes(Rebased(x, s, d)) /\ from(Rebased(x, s, d)) = x
  <2>1. x \in Within(s) /\ x \in Seq(Names)
    BY <1>6, PathsAreSequences DEF Within
  <2>2. Rebased(x, s, d) \in Paths
    BY <1>1, <2>1 DEF Fits
  <2>3. Under(d, Rebased(x, s, d)) /\ Rebased(Rebased(x, s, d), d, s) = x
    BY <1>2, <1>6, <2>1, RebasedBack
  <2> QED
    BY <1>6, <2>2, <2>3
<1>7. \A q \in Paths : ~(Under(s, q) /\ Under(d, q))
  <2> SUFFICES ASSUME NEW q \in Paths, Under(s, q), Under(d, q) PROVE FALSE
    OBVIOUS
  <2> QED
    BY <1>1, <1>2, <1>4, UnderOrder, PathsAreSequences
<1>8. \A q \in Paths : tree'[q] = IF comes(q) THEN tree[from(q)]
                                  ELSE IF Under(s, q) THEN Absent ELSE tree[q]
  BY <1>1
<1>9. tree' \in [Paths -> Entries]
  BY <1>1, OtherEntries, EntryIs
<1>10. ASSUME NEW q \in Paths, ~Under(d, q), ~Under(s, q) PROVE tree'[q] = tree[q]
  BY <1>8, <1>10
<1>11. ASSUME NEW q \in Paths \ {<<>>}, tree'[q].kind # "absent"
       PROVE  tree'[Front(q)].kind = "dir"
  <2>1. Front(q) \in Paths /\ Front(q) # q /\ q \in Seq(Names) /\ Front(q) \in Seq(Names)
    BY FrontIsPath, PathsAreSequences
  <2>2. CASE comes(q) /\ q = d
    <3>1. ~Under(s, Front(q)) /\ ~Under(d, Front(q))
      <4>1. ~Under(s, Front(q))
        BY <1>1, <1>2, <2>1, <2>2, UnderFront
      <4>2. Under(Front(q), q)
        BY <2>1, UnderFront, UnderOrder
      <4>3. ~Under(d, Front(q))
        BY <1>2, <2>1, <2>2, <4>2, UnderOrder
      <4> QED
        BY <4>1, <4>3
    <3>2. tree[Front(q)].kind = "dir"
      BY <1>1, <2>2 DEF ParentIsDir, IsDir
    <3> QED
      BY <1>10, <2>1, <3>1, <3>2
  <2>3. CASE comes(q) /\ q # d
    <3>1. from(q) \in Paths /\ Under(s, from(q)) /\ from(q) # s /\ q = Rebased(from(q), s, d)
      BY <1>5, <2>3
    <3>2. tree[from(q)].kind # "absent"
      BY <1>8, <1>11, <2>3
    <3>3. /\ from(q) # <<>> /\ Under(s, Front(from(q)))
          /\ Front(q) = Rebased(Front(from(q)), s, d)
      BY <1>2, <1>5, <2>3, <3>1, RebasedFront
    <3>4. Front(from(q)) \in Paths /\ tree[Front(from(q))].kind = "dir"
      BY <1>1, <3>1, <3>2, <3>3, FrontIsPath DEF Tree, Exists, IsDir
    <3>5. Exists(Front(from(q)))
      BY <3>4 DEF Exists
    <3>6. comes(Front(q)) /\ from(Front(q)) = Front(from(q))
      BY <1>6, <3>3, <3>4, <3>5
    <3> HIDE DEF comes, from
    <3> QED
      BY <1>8, <2>1, <3>4, <3>6
  <2>4. CASE ~comes(q)
    <3>1. ~Under(s, q) /\ tree[q].kind # "absent"
      BY <1>8, <1>11, <2>4, OtherEntries
    <3>2. tree[Front(q)].kind = "dir" /\ Exists(Front(q))
      BY <1>1, <2>1, <3>1 DEF Tree, Exists, IsDir
    <3>3. ~Under(s, Front(q))
      BY <1>2, <2>1, <3>1, UnderFront
    <3>4. ~Under(d, Front(q))
      <4> SUFFICES ASSUME Under(d, Front(q)) PROVE FALSE
        OBVIOUS
      <4>1. Front(q) = d
        BY <1>3, <2>1, <3>2
      <4>2. Under(d, q)
        BY <1>2, <2>1, UnderFront
      <4>3. Exists(q)
        BY <3>1 DEF Exists
      <4>4. q = d
        BY <1>3, <4>2, <4>3
      <4> QED
        BY <2>1, <4>1, <4>4
    <3> QED
      BY <1>10, <2>1, <3>2, <3>3, <3>4
  <2> QED
    BY <2>2, <2>3, <2>4
<1>12. Tree'
  BY <1>9, <1>11, FrontIsPath DEF Tree, Exists, IsDir
\* A file that was not moved stays, unless it is what s replaces.
<1>13. ASSUME NEW q \in Paths, tree[q].kind = "file", ~Under(s, q), q # d
       PROVE  tree'[q] = tree[q]
  <2>1. ~Under(d, q)
    BY <1>3, <1>13 DEF Exists
  <2> QED
    BY <1>10, <1>13, <2>1
<1>14. tree[d].kind = "file" => tree'[d].kind = "file"
  <2> SUFFICES ASSUME tree[d].kind = "file" PROVE tree'[d].kind = "file"
    OBVIOUS
  <2>1. tree[s].kind = "file"
    BY <1>1 DEF Exists
  <2>2. Under(s, s) /\ Rebased(s, s, d) = d
    BY <1>2, UnderOrder, RebasedBack
  <2>3. comes(d) /\ from(d) = s
    BY <1>1, <1>6, <2>2
  <2> HIDE DEF comes, from
  <2> QED
    BY <1>8, <2>1, <2>3
<1>15. ASSUME NEW x \in Paths, Under(s, x), Exists(x)
       PROVE  tree'[Rebased(x, s, d)] = tree[x]
  <2>1. Rebased(x, s, d) \in Paths /\ comes(Rebased(x, s, d)) /\ from(Rebased(x, s, d)) = x
    BY <1>6, <1>15
  <2> HIDE DEF comes, from
  <2> QED
    BY <1>8, <2>1
<1>16. Survival
  <2> SUFFICES ASSUME NEW q \in Paths, tree[q].kind = "file", tree'[q].kind # "file"
        PROVE  Under(s, q) /\ tree'[Rebased(q, s, d)] = tree[q]
    BY <1>1 DEF Survival, IsFile
  <2>1. Under(s, q)
    BY <1>13, <1>14
  <2>2. Exists(q)
    BY DEF Exists
  <2> QED
    BY <1>15, <2>1, <2>2
<1>17. ASSUME NEW e \in Editors
       PROVE  SamePage(editor[e], editor'[e]) /\ SaveOk(tree', editor'[e])
  <2>1. editor[e] \in Pages /\ SaveOk(tree, editor[e]) /\ editor[e].at \in Paths
    BY DEF FilesInv, Pages
  <2>2. CASE OpenAt(e, d)
    <3>1. editor'[e] = [editor[e] EXCEPT !.gone = TRUE, !.alone = FALSE]
      BY <1>1, <2>2
    <3>2. SamePage(editor[e], editor'[e]) /\ ~editor'[e].alone /\ editor'[e].gone
      BY <2>1, <3>1 DEF SamePage, Pages
    <3> QED
      BY <3>2 DEF SaveOk
  <2>3. CASE ~OpenAt(e, d) /\ \E q \in Within(s) : OpenAt(e, q)
    <3> DEFINE x == editor[e].at
    <3>1. x \in Within(s) /\ Under(s, x) /\ Exists(x) /\ ~editor[e].gone /\ editor[e].pc = "writing"
      BY <2>3 DEF OpenAt, Within
    <3>2. editor'[e] = [editor[e] EXCEPT !.at = Rebased(x, s, d), !.alone = FALSE]
      BY <1>1, <2>3
    <3>3. Rebased(x, s, d) \in Paths /\ tree'[Rebased(x, s, d)] = tree[x]
      BY <1>6, <1>15, <2>1, <3>1
    <3>4. /\ SamePage(editor[e], editor'[e]) /\ ~editor'[e].alone /\ ~editor'[e].gone
          /\ editor'[e].at = Rebased(x, s, d)
      BY <2>1, <3>1, <3>2, <3>3 DEF SamePage, Pages
    <3> QED
      BY <2>1, <3>1, <3>3, <3>4 DEF SaveOk
  <2>4. CASE ~OpenAt(e, d) /\ ~\E q \in Within(s) : OpenAt(e, q)
    <3>1. editor'[e] = editor[e]
      BY <1>1, <2>4
    <3>2. editor[e].pc = "writing" /\ ~editor[e].gone => tree'[editor[e].at] = tree[editor[e].at]
      <4> SUFFICES ASSUME editor[e].pc = "writing", ~editor[e].gone
            PROVE  editor[e].at # d /\ ~Under(s, editor[e].at) /\ tree[editor[e].at].kind = "file"
        BY <1>13, <2>1
      <4>1. OpenAt(e, editor[e].at) /\ tree[editor[e].at].kind = "file" /\ Exists(editor[e].at)
        BY <2>1 DEF OpenAt, SaveOk, Exists
      <4> QED
        BY <2>1, <2>4, <4>1 DEF Within
    <3> QED
      BY <2>1, <3>1, <3>2 DEF SamePage, SaveOk
  <2> QED
    BY <2>2, <2>3, <2>4
<1>18. editor' \in [Editors -> Pages]
  BY <1>1, <1>17 DEF SamePage
<1>19. ToolStep
  BY <1>12, <1>16, <1>17, <1>18 DEF ToolStep
<1> QED
  BY <1>1, <1>19, DoneAtOnce

----------------------------------------------------------------------------
(* All steps.                                                               *)

LEMMA ToolSteps ==
  ASSUME FilesInv, Tool
  PROVE  ToolDone
<1>1. CASE OpenForPatch
  BY <1>1, OpenForPatchStep DEF ToolDone
<1>2. CASE FinishWrite
  BY <1>2, FinishWriteStep DEF ToolDone
<1>3. ASSUME NEW p \in Paths, NEW lines \in Contents, WriteFile(p, lines) PROVE ToolDone
  BY <1>3, WriteFileStep DEF ToolDone
<1>4. ASSUME NEW p \in Paths, NEW patch \in Patches, ReadForPatch(p, patch) PROVE ToolDone
  BY <1>4, ReadForPatchStep DEF ToolDone
<1>5. ASSUME NEW p \in Paths,
             MakeDirectory(p) \/ RemoveDirectory(p) \/ RemoveFile(p) \/ ChangeDirectory(p)
      PROVE  ToolDone
  BY <1>5, MakeDirectoryStep, RemoveDirectoryStep, RemoveFileStep, ChangeDirectoryStep
<1>6. ASSUME NEW p \in Paths, NEW d \in Paths,
             CopyFile(p, d) \/ CopyDirectory(p, d) \/ MoveFile(p, d)
      PROVE  ToolDone
  BY <1>6, CopyFileStep, CopyDirectoryStep, MoveFileStep
<1> QED
  BY <1>1, <1>2, <1>3, <1>4, <1>5, <1>6 DEF Tool

\* A save that ends with success, in the words of SavedIsSaved.
Saving ==
    \A e \in Editors :
        editor[e].pc = "writing" /\ editor'[e].pc = "saved" /\ editor[e].alone =>
            tree'[editor[e].at] = File(Encoded(editor[e].lines, editor[e].encoding))

LEMMA ToolKeeps ==
  ASSUME FilesInv, Tool
  PROVE  FilesInv' /\ Survival /\ Saving
<1>1. ToolDone
  BY ToolSteps
<1>2. ASSUME NEW e \in Editors PROVE ReadOk(editor'[e])
  <2>1. ReadOk(editor[e]) /\ SamePage(editor[e], editor'[e])
    BY <1>1 DEF FilesInv, ToolDone, ToolStep
  <2> QED
    BY <2>1 DEF ReadOk, SamePage
<1>3. FilesInv'
  BY <1>1, <1>2 DEF FilesInv, ToolDone, ToolStep
<1>4. Saving
  BY <1>1 DEF Saving, ToolDone, ToolStep, SamePage
<1> QED
  BY <1>1, <1>3, <1>4 DEF ToolDone, ToolStep

LEMMA PageIs == Page \in Pages /\ ReadOk(Page) /\ (\A t : SaveOk(t, Page)) /\ Page.pc = "closed"
<1>1. <<>> \in Seq(Lines)
  BY EmptySeq
<1> QED
  BY <1>1, RootIsPath DEF Page, Pages, ReadOk, SaveOk

\* Steps of one editor that leave the files alone.
LEMMA PageStep ==
  ASSUME FilesInv, NEW e \in Editors, NEW g, editor' = [editor EXCEPT ![e] = g],
         g \in Pages, ReadOk(g), SaveOk(tree, g), g.pc # "saved",
         UNCHANGED <<tree, currentDir, tool>>
  PROVE  FilesInv' /\ Survival /\ Saving
<1>1. editor'[e] = g /\ \A f \in Editors \ {e} : editor'[f] = editor[f]
  BY DEF FilesInv
<1>2. \A f \in Editors : SaveOk(tree', editor'[f]) /\ ReadOk(editor'[f])
  BY <1>1 DEF FilesInv
<1>3. Tree' /\ editor' \in [Editors -> Pages]
  BY DEF FilesInv, Tree, Exists, IsDir
<1>4. FilesInv'
  BY <1>2, <1>3 DEF FilesInv
<1>5. Survival
  BY NoFileGoes
<1>6. Saving
  <2> SUFFICES ASSUME NEW f \in Editors, editor[f].pc = "writing" PROVE editor'[f].pc # "saved"
    BY DEF Saving
  <2> QED
    BY <1>1
<1> QED
  BY <1>4, <1>5, <1>6

LEMMA GetFileContentKeeps ==
  ASSUME FilesInv, NEW e \in Editors, NEW p \in Paths, GetFileContent(e, p)
  PROVE  FilesInv' /\ Survival /\ Saving
<1> DEFINE lines == tree[p].lines
           g == [Page EXCEPT !.pc = "open", !.path = p, !.bytes = lines,
                             !.encoding = EncodingOf(lines),
                             !.lines = WithBom(Normalized(lines), FALSE)]
<1>1. editor' = [editor EXCEPT ![e] = g] /\ UNCHANGED <<tree, currentDir, tool>>
  BY DEF GetFileContent, SetPage
<1>2. lines \in Seq(Lines)
  BY EntryIs DEF FilesInv
<1>3. Shown(lines) \in Seq(Lines) /\ EncodingOf(lines) \in {"utf-8", "utf-8-bom", "system"}
  BY <1>2, ShownType
<1> HIDE DEF lines
<1>4. /\ g \in Pages /\ g.pc = "open" /\ g.bytes = lines
      /\ g.lines = Shown(lines) /\ g.encoding = EncodingOf(lines)
  BY <1>2, <1>3, PageIs DEF Pages, Shown
<1> HIDE DEF g
<1>5. ReadOk(g) /\ SaveOk(tree, g)
  BY <1>4 DEF ReadOk, SaveOk
<1> QED
  BY <1>1, <1>4, <1>5, PageStep

LEMMA EditKeeps ==
  ASSUME FilesInv, NEW e \in Editors, NEW lines \in Contents, Edit(e, lines)
  PROVE  FilesInv' /\ Survival /\ Saving
<1> DEFINE g == [editor[e] EXCEPT !.lines = lines, !.edited = TRUE]
<1>1. /\ editor' = [editor EXCEPT ![e] = g] /\ UNCHANGED <<tree, currentDir, tool>>
      /\ editor[e].pc = "open" /\ editor[e] \in Pages
  BY DEF Edit, SetPage, FilesInv
<1>2. lines \in Seq(Lines)
  BY LinesAssumption
<1>3. g \in Pages /\ g.pc = "open" /\ g.edited
  BY <1>1, <1>2 DEF Pages
<1> HIDE DEF g
<1>4. ReadOk(g) /\ SaveOk(tree, g)
  BY <1>3 DEF ReadOk, SaveOk
<1> QED
  BY <1>1, <1>3, <1>4, PageStep

LEMMA SaveBeginKeeps ==
  ASSUME FilesInv, NEW e \in Editors, SaveBegin(e)
  PROVE  FilesInv' /\ Survival /\ Saving
<1> DEFINE g == [editor[e] EXCEPT !.pc = "opening"]
<1>1. /\ editor' = [editor EXCEPT ![e] = g] /\ UNCHANGED <<tree, currentDir, tool>>
      /\ editor[e].pc = "open" /\ editor[e] \in Pages /\ ReadOk(editor[e])
      /\ CanEncode(editor[e].lines, editor[e].encoding)
  BY DEF SaveBegin, SetPage, FilesInv
<1>2. /\ g \in Pages /\ g.pc = "opening" /\ g.edited = editor[e].edited /\ g.bytes = editor[e].bytes
      /\ g.lines = editor[e].lines /\ g.encoding = editor[e].encoding
  BY <1>1 DEF Pages
<1> HIDE DEF g
<1>3. ReadOk(g) /\ SaveOk(tree, g)
  BY <1>1, <1>2 DEF ReadOk, SaveOk
<1> QED
  BY <1>1, <1>2, <1>3, PageStep

LEMMA AnsweredKeeps ==
  ASSUME FilesInv, NEW e \in Editors, Answered(e)
  PROVE  FilesInv' /\ Survival /\ Saving
BY PageIs, PageStep DEF Answered, SetPage

LEMMA RefusedKeeps ==
  ASSUME FilesInv, NEW e \in Editors, editor' = [editor EXCEPT ![e] = [editor[e] EXCEPT !.pc = "refused"]],
         UNCHANGED <<tree, currentDir, tool>>
  PROVE  FilesInv' /\ Survival /\ Saving
<1> DEFINE g == [editor[e] EXCEPT !.pc = "refused"]
<1>1. g \in Pages /\ g.pc = "refused"
  BY DEF FilesInv, Pages
<1> HIDE DEF g
<1>2. ReadOk(g) /\ SaveOk(tree, g)
  BY <1>1 DEF ReadOk, SaveOk
<1>3. editor' = [editor EXCEPT ![e] = g]
  BY DEF g
<1> QED
  BY <1>1, <1>2, <1>3, PageStep

LEMMA SaveOpenKeeps ==
  ASSUME FilesInv, NEW e \in Editors, SaveOpen(e)
  PROVE  FilesInv' /\ Survival /\ Saving
<1> DEFINE p == editor[e].path
<1>0. Tree /\ editor[e] \in Pages /\ p \in Paths /\ editor[e].pc = "opening" /\ ReadOk(editor[e])
      /\ UNCHANGED <<currentDir, tool>>
  BY DEF FilesInv, Pages, SaveOpen
<1>1. CASE ~CanOpen(p)
  BY <1>0, <1>1, RefusedKeeps DEF SaveOpen, SetPage
<1>2. CASE CanOpen(p)
  <2> DEFINE x == File(<<>>)
             open(h) == [editor[e] EXCEPT !.pc = "writing", !.at = p, !.gone = FALSE, !.alone = h]
  <2>1. x \in Entries /\ x.kind = "file" /\ x.lines = <<>>
    BY EmptySeq, FileIsEntry
  <2>2. ~IsDir(p) /\ ParentIsDir(p)
    BY <1>2, CanOpenIs
  <2>3. tree' = [tree EXCEPT ![p] = x]
    BY <1>2 DEF SaveOpen, Truncate
  <2> DEFINE alone == (tool.op # "write" \/ tool.path # p) /\ \A f \in Editors : ~OpenAt(f, p)
  <2>4. /\ editor'[e] = open(alone) /\ DOMAIN editor' = Editors
        /\ \A f \in Editors \ {e} :
              editor'[f] = IF OpenAt(f, p) THEN [editor[f] EXCEPT !.alone = FALSE] ELSE editor[f]
        /\ editor' = [f \in Editors |-> editor'[f]]
    BY <1>2 DEF SaveOpen
  <2>5. alone \in BOOLEAN
    OBVIOUS
  <2> HIDE DEF x, p, alone
  <2>6. /\ Tree' /\ tree'[p] = x
        /\ \A q \in Paths : q # p => tree'[q] = tree[q]
        /\ \A q \in Paths : tree[q].kind = "file" => tree'[q].kind = "file"
    BY <1>0, <2>1, <2>2, <2>3, PutFile
  <2>7. /\ editor'[e] \in Pages /\ SaveOk(tree', editor'[e]) /\ ReadOk(editor'[e])
        /\ editor'[e].pc = "writing"
    <3>1. /\ open(alone) \in Pages
          /\ open(alone).pc = "writing" /\ open(alone).at = p /\ ~open(alone).gone
          /\ open(alone).bytes = editor[e].bytes /\ open(alone).lines = editor[e].lines
          /\ open(alone).encoding = editor[e].encoding /\ open(alone).edited = editor[e].edited
      BY <1>0, <2>5 DEF Pages
    <3> HIDE DEF open
    <3>2. ReadOk(open(alone))
      BY <1>0, <3>1 DEF ReadOk
    <3>3. SaveOk(tree', open(alone))
      BY <2>1, <2>6, <3>1 DEF SaveOk
    <3> QED
      BY <2>4, <3>1, <3>2, <3>3
  <2>8. ASSUME NEW f \in Editors \ {e}
        PROVE  /\ editor'[f] \in Pages /\ SaveOk(tree', editor'[f]) /\ ReadOk(editor'[f])
               /\ editor'[f].pc = editor[f].pc
    <3>1. editor[f] \in Pages /\ SaveOk(tree, editor[f]) /\ ReadOk(editor[f]) /\ editor[f].at \in Paths
      BY DEF FilesInv, Pages
    <3>2. CASE OpenAt(f, p)
      <4>1. editor'[f] = [editor[f] EXCEPT !.alone = FALSE]
        BY <2>4, <3>2
      <4>2. SamePage(editor[f], editor'[f]) /\ ~editor'[f].alone
               /\ editor'[f].gone = editor[f].gone /\ editor'[f].at = editor[f].at
        BY <3>1, <4>1 DEF SamePage, Pages
      <4>3. SaveOk(tree', editor'[f])
        BY <2>6, <3>1, <4>2 DEF SaveOk, SamePage
      <4>4. ReadOk(editor'[f])
        BY <3>1, <4>2 DEF ReadOk, SamePage
      <4> QED
        BY <4>2, <4>3, <4>4 DEF SamePage
    <3>3. CASE ~OpenAt(f, p)
      <4>1. editor'[f] = editor[f]
        BY <2>4, <3>3
      <4> QED
        BY <2>6, <3>1, <3>3, <4>1 DEF SaveOk, OpenAt
    <3> QED
      BY <3>2, <3>3
  <2>9. \A f \in Editors : editor'[f] \in Pages /\ SaveOk(tree', editor'[f]) /\ ReadOk(editor'[f])
    BY <2>7, <2>8
  <2>10. editor' \in [Editors -> Pages]
    BY <2>4, <2>9
  <2>11. tool.op = "write" => tree'[tool.path].kind = "file"
    BY <2>6 DEF FilesInv, ToolCall
  <2>12. FilesInv'
    BY <1>0, <2>6, <2>9, <2>10, <2>11 DEF FilesInv
  <2>13. Survival
    BY <2>6, NoFileGoes
  <2>14. Saving
    BY <2>7, <2>8 DEF Saving
  <2> QED
    BY <2>12, <2>13, <2>14
<1> QED
  BY <1>1, <1>2

LEMMA SaveWriteKeeps ==
  ASSUME FilesInv, NEW e \in Editors, SaveWrite(e)
  PROVE  FilesInv' /\ Survival /\ Saving
<1> DEFINE p == editor[e].at
           bytes == Encoded(editor[e].lines, editor[e].encoding)
           x == File(Overwrite(tree[p].lines, bytes))
<1>0. /\ Tree /\ editor[e] \in Pages /\ p \in Paths /\ editor[e].pc = "writing" /\ SaveOk(tree, editor[e])
      /\ UNCHANGED <<currentDir, tool>> /\ editor[e].lines \in Seq(Lines)
  BY DEF FilesInv, Pages, SaveWrite
<1>1. CASE editor' = [editor EXCEPT ![e] = [editor[e] EXCEPT !.pc = "refused"]] /\ tree' = tree
  BY <1>0, <1>1, RefusedKeeps
<1>2. CASE /\ tree' = IF editor[e].gone THEN tree
                      ELSE [tree EXCEPT ![p] = File(Overwrite(@.lines, bytes))]
           /\ editor' = [f \in Editors |->
                IF f = e THEN [editor[e] EXCEPT !.pc = "saved"]
                ELSE IF ~editor[e].gone /\ OpenAt(f, p)
                THEN [editor[f] EXCEPT !.alone = FALSE] ELSE editor[f]]
  <2>1. bytes \in Seq(Lines)
    BY <1>0, EncodedType
  <2>2. tree[p].lines \in Seq(Lines) /\ tree[p] \in Entries
    BY <1>0, EntryIs
  <2>3. x \in Entries /\ x.kind = "file"
    BY <2>1, <2>2, OverwriteIs, FileIsEntry
  <2>4. tree' = IF editor[e].gone THEN tree ELSE [tree EXCEPT ![p] = x]
    BY <1>0, <1>2 DEF Tree
  <2>5. ~editor[e].gone /\ editor[e].alone => x = File(bytes)
    <3> SUFFICES ASSUME ~editor[e].gone, editor[e].alone PROVE x = File(bytes)
      OBVIOUS
    <3>1. tree[p].lines = <<>>
      BY <1>0 DEF SaveOk
    <3> QED
      BY <2>1, <2>2, <3>1, OverwriteIs
  <2> HIDE DEF x
  <2>6. /\ Tree'
        /\ editor[e].gone => tree' = tree
        /\ ~editor[e].gone => tree'[p] = x /\ \A q \in Paths : q # p => tree'[q] = tree[q]
        /\ \A q \in Paths : tree[q].kind = "file" => tree'[q].kind = "file"
    <3>1. CASE editor[e].gone
      BY <1>0, <2>4, <3>1 DEF Tree, Exists, IsDir
    <3>2. CASE ~editor[e].gone
      <4>1. tree[p].kind = "file"
        BY <1>0, <3>2 DEF SaveOk
      <4>2. ~IsDir(p) /\ Exists(p)
        BY <1>0, <4>1, EntryIs
      <4>3. ParentIsDir(p)
        BY <1>0, <4>2, ParentOf
      <4>4. tree' = [tree EXCEPT ![p] = x]
        BY <2>4, <3>2
      <4> HIDE DEF p
      <4> QED
        BY <1>0, <2>3, <3>2, <4>2, <4>3, <4>4, PutFile
    <3> QED
      BY <3>1, <3>2
  <2>7. editor'[e] = [editor[e] EXCEPT !.pc = "saved"]
    BY <1>2
  <2>8. editor'[e] \in Pages /\ SaveOk(tree', editor'[e]) /\ ReadOk(editor'[e])
    <3>1. editor'[e] \in Pages /\ editor'[e].pc = "saved"
      BY <1>0, <2>7 DEF Pages
    <3> QED
      BY <3>1 DEF SaveOk, ReadOk
  <2>9. ASSUME NEW f \in Editors \ {e}
        PROVE  /\ editor'[f] \in Pages /\ SaveOk(tree', editor'[f]) /\ ReadOk(editor'[f])
               /\ editor'[f].pc = editor[f].pc
    <3>1. editor[f] \in Pages /\ SaveOk(tree, editor[f]) /\ ReadOk(editor[f]) /\ editor[f].at \in Paths
      BY DEF FilesInv, Pages
    <3>2. CASE ~editor[e].gone /\ OpenAt(f, p)
      <4>1. editor'[f] = [editor[f] EXCEPT !.alone = FALSE]
        BY <1>2, <3>2
      <4>2. SamePage(editor[f], editor'[f]) /\ ~editor'[f].alone
               /\ editor'[f].gone = editor[f].gone /\ editor'[f].at = editor[f].at
        BY <3>1, <4>1 DEF SamePage, Pages
      <4>3. SaveOk(tree', editor'[f])
        BY <2>6, <3>1, <4>2 DEF SaveOk, SamePage
      <4>4. ReadOk(editor'[f])
        BY <3>1, <4>2 DEF ReadOk, SamePage
      <4> QED
        BY <4>2, <4>3, <4>4 DEF SamePage
    <3>3. CASE ~(~editor[e].gone /\ OpenAt(f, p))
      <4>1. editor'[f] = editor[f]
        BY <1>2, <3>3
      <4>2. editor[f].pc = "writing" /\ ~editor[f].gone => tree'[editor[f].at] = tree[editor[f].at]
        BY <2>6, <3>1, <3>3 DEF OpenAt
      <4> QED
        BY <3>1, <4>1, <4>2 DEF SaveOk
    <3> QED
      BY <3>2, <3>3
  <2>10. \A f \in Editors : editor'[f] \in Pages /\ SaveOk(tree', editor'[f]) /\ ReadOk(editor'[f])
    BY <2>8, <2>9
  <2>11. editor' \in [Editors -> Pages]
    BY <1>2, <2>10
  <2>12. tool.op = "write" => tree'[tool.path].kind = "file"
    BY <2>6 DEF FilesInv, ToolCall
  <2>13. FilesInv'
    BY <1>0, <2>6, <2>10, <2>11, <2>12 DEF FilesInv
  <2>14. Survival
    BY <2>6, NoFileGoes
  <2>15. Saving
    <3> SUFFICES ASSUME NEW f \in Editors, editor[f].pc = "writing", editor'[f].pc = "saved", editor[f].alone
          PROVE  tree'[editor[f].at] = File(Encoded(editor[f].lines, editor[f].encoding))
      BY DEF Saving
    <3>1. f = e
      BY <2>9
    <3>2. ~editor[e].gone
      BY <1>0, <3>1 DEF SaveOk
    <3> QED
      BY <2>5, <2>6, <3>1, <3>2
  <2> QED
    BY <2>13, <2>14, <2>15
<1> QED
  BY <1>0, <1>1, <1>2 DEF SaveWrite, SetPage

\* No step breaks the invariant, loses a file, or answers a save that is none.
LEMMA FilesStep ==
  ASSUME FilesInv, [FilesNext]_filesVars
  PROVE  FilesInv' /\ Survival /\ Saving
<1>1. CASE UNCHANGED filesVars
  <2>1. UNCHANGED <<tree, currentDir, tool, editor>>
    BY <1>1 DEF filesVars
  <2>2. FilesInv'
    <3>1. Tree'
      BY <2>1 DEF FilesInv, Tree, Exists, IsDir
    <3> QED
      BY <2>1, <3>1 DEF FilesInv
  <2>3. Survival
    BY <2>1, NoFileGoes
  <2>4. Saving
    BY <2>1 DEF Saving
  <2> QED
    BY <2>2, <2>3, <2>4
<1>2. CASE Tool
  BY <1>2, ToolKeeps
<1>3. ASSUME NEW e \in Editors, Editor(e) PROVE FilesInv' /\ Survival /\ Saving
  <2>1. ASSUME NEW p \in Paths, GetFileContent(e, p) PROVE FilesInv' /\ Survival /\ Saving
    BY <2>1, GetFileContentKeeps
  <2>2. ASSUME NEW lines \in Contents, Edit(e, lines) PROVE FilesInv' /\ Survival /\ Saving
    BY <2>2, EditKeeps
  <2>3. CASE SaveBegin(e)
    BY <2>3, SaveBeginKeeps
  <2>4. CASE SaveOpen(e)
    BY <2>4, SaveOpenKeeps
  <2>5. CASE SaveWrite(e)
    BY <2>5, SaveWriteKeeps
  <2>6. CASE Answered(e)
    BY <2>6, AnsweredKeeps
  <2> QED
    BY <1>3, <2>1, <2>2, <2>3, <2>4, <2>5, <2>6 DEF Editor
<1> QED
  BY <1>1, <1>2, <1>3 DEF FilesNext

LEMMA FilesStart == FilesInit => FilesInv
<1> SUFFICES ASSUME FilesInit PROVE FilesInv
  OBVIOUS
<1>1. /\ tree \in Trees /\ currentDir = <<>> /\ tool = NoTool
      /\ editor = [e \in Editors |-> Page]
  BY DEF FilesInit
<1>2. tree \in [Paths -> Entries]
  BY <1>1, TreesAssumption
<1>3. \A p \in Paths \ {<<>>} : Exists(p) => IsDir(Front(p))
  BY <1>1, TreesAssumption, FrontIsPath DEF Exists, IsDir
<1>4. editor \in [Editors -> Pages] /\ \A e \in Editors : SaveOk(tree, editor[e]) /\ ReadOk(editor[e])
  BY <1>1, PageIs
<1> QED
  BY <1>1, <1>2, <1>3, <1>4, NoToolIs, RootIsPath DEF FilesInv, Tree

----------------------------------------------------------------------------
(* Theorems.                                                                *)

\* FilesInv holds in every state.
THEOREM FilesInvariance == FilesSpec => []FilesInv
<1>1. FilesInv /\ [FilesNext]_filesVars => FilesInv'
  BY FilesStep
<1> QED
  BY <1>1, FilesStart, PTL DEF FilesSpec

\* No tool, no failing one and no save loses a file that was not named for it.
THEOREM NoFileIsLost == FilesSpec => FilesSurvive
<1>1. FilesInv /\ [FilesNext]_filesVars
      => [\A p \in Paths :
            IsFile(p) /\ ~IsFile(p)' =>
                /\ Under(asked'.path, p)
                /\ \/ asked'.op = "remove"
                   \/ /\ asked'.op = "move"
                      /\ tree'[Rebased(p, asked'.path, asked'.to)] = tree[p]]_filesVars
  BY FilesStep DEF Survival
<1> QED
  BY <1>1, FilesInvariance, PTL DEF FilesSpec, FilesSurvive

\* A save that nobody met and that is answered with success is the file.
THEOREM SavesAreTrue == FilesSpec => SavedIsSaved
<1>1. FilesInv /\ [FilesNext]_filesVars
      => [\A e \in Editors :
            editor[e].pc = "writing" /\ editor'[e].pc = "saved" /\ editor[e].alone =>
                tree'[editor[e].at] =
                    File(Encoded(editor[e].lines, editor[e].encoding))]_filesVars
  BY FilesStep DEF Saving
<1> QED
  BY <1>1, FilesInvariance, PTL DEF FilesSpec, SavedIsSaved

\* In every tree that the tools and saves leave, a listing shows what is there, a patch
\* keeps what it does not name, and a page saved unchanged changes nothing.
THEOREM Exactness == FilesSpec => []EditsAreExact
<1>1. FilesInv => EditsAreExact
  <2> SUFFICES ASSUME FilesInv PROVE EditsAreExact
    OBVIOUS
  <2>1. Tree
    BY DEF FilesInv
  <2>2. FilesTypeOK
    <3>1. \A p \in Paths : tree[p].kind \in {"absent", "dir", "file"}
      BY <2>1, EntryIs
    <3>2. \A e \in Editors : editor[e].at \in Paths /\ editor[e].path \in Paths
      BY DEF FilesInv, Pages
    <3> QED
      BY <2>1, <3>1, <3>2 DEF FilesTypeOK, FilesInv, Tree
  <2>3. ListingIsExact
    <3> SUFFICES ASSUME NEW p \in Paths, NEW depth \in 1 .. 3, IsDir(p)
          PROVE  Listing(p, depth) = Shows(depth, p)
      BY DEF ListingIsExact, Shows
    <3> QED
      BY <2>1, ListingShows
  <2>4. PatchKeepsRest
    <3> SUFFICES ASSUME NEW p \in Paths, NEW patch \in Patches, IsFile(p), NEW named,
                        named = {Plain(patch[i].text) :
                                   i \in {j \in DOMAIN patch : patch[j].sign \in {"-", "+"}}}
          PROVE  Without(ApplyPatch(tree[p].lines, patch), named \cup {Blank})
                    = Without(tree[p].lines, named \cup {Blank})
      BY DEF PatchKeepsRest
    <3>1. tree[p].lines \in Seq(Lines)
      BY <2>1, EntryIs
    <3> QED
      BY <3>1, ApplyPatchKeepsRest
  <2>5. RoundTrip
    <3> SUFFICES ASSUME NEW e \in Editors,
                        editor[e].pc \in {"opening", "writing"}, ~editor[e].edited,
                        HasBom(editor[e].bytes) => IsValidUtf8(editor[e].bytes)
          PROVE  Encoded(editor[e].lines, editor[e].encoding) = editor[e].bytes
      BY DEF RoundTrip
    <3>1. editor[e] \in Pages /\ ReadOk(editor[e]) /\ editor[e].bytes \in Seq(Lines)
      BY DEF FilesInv, Pages
    <3>2. /\ editor[e].lines = Shown(editor[e].bytes)
          /\ editor[e].encoding = EncodingOf(editor[e].bytes)
          /\ CanEncode(editor[e].lines, editor[e].encoding)
      BY <3>1 DEF ReadOk
    <3> QED
      BY <3>1, <3>2, SavedAsRead
  <2> QED
    BY <2>2, <2>3, <2>4, <2>5 DEF EditsAreExact
<1> QED
  BY <1>1, FilesInvariance, PTL
=============================================================================
