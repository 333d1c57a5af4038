-------------------------- MODULE WorkspaceRuntimes --------------------------
(***************************************************************************)
(* WorkspaceManager's table of runtimes and the two kinds of lock around   *)
(* it: the manager's shared_mutex and each runtime's executionMutex.  The  *)
(* threads are the chains, which look a runtime up for every command and   *)
(* run the tool in it (ShellTool, GitTool, FileTool over ProcessRunner),   *)
(* and the HTTP requests of WorkspaceController.  getOrCreate waits for a  *)
(* runtime's executionMutex with the manager's lock held.                  *)
(*                                                                         *)
(* The POSIX ProcessRunner is modelled: a child that exits, hangs with its *)
(* output open, or closes its output and goes on ("detached").  What the   *)
(* file tools do to the files is in WorkspaceFiles.                        *)
(***************************************************************************)
EXTENDS Integers, Sequences, FiniteSets, SequencesExt

CONSTANTS
    Workspaces,     \* workspace ids
    Unnamed,        \* the empty id of a record whose insert failed
    Dirs,           \* directories a workspace may be put in
    Fragile,        \* those somebody may remove behind the server's back
    NoDir,          \* the empty path; in a row: no such row
    Chains,         \* worker threads
    Requests,       \* HTTP threads, one request each
    Nobody,         \* holder of a free lock
    MaxCommands     \* bound: commands of one chain

ASSUME UnnamedAssumption == Unnamed \in Workspaces
ASSUME NoDirAssumption == NoDir \notin Dirs
ASSUME ThreadsAssumption ==
    Chains \cap Requests = {} /\ Nobody \notin Chains \cup Requests

VARIABLES
    row,            \* the workspaces table: path by id
    exists,         \* directories that exist on disk
    mapped,         \* WorkspaceManager::runtimes_: runtime by id, 0 for none
    runtimes,       \* every runtime made; a shared_ptr keeps those in use
    readers,        \* threads that hold the manager's mutex shared
    writer,         \* the thread that holds it exclusively
    pc,
    job,            \* the locals of each thread
    child,          \* the process of each chain's tool
    \* observers, read by no guard but that a new id is new
    paths,          \* every path the row of an id has had
    deletions       \* times an id was taken out of runtimes_

vars == <<row, exists, mapped, runtimes, readers, writer, pc, job, child,
          paths, deletions>>
disk == <<row, exists, paths>>
manager == <<mapped, readers, writer, deletions>>

Threads == Chains \cup Requests
Named == Workspaces \ {Unnamed}
NewRuntime(w, dir) == [ws |-> w, dir |-> dir, holder |-> Nobody]
NewJob == [ws |-> Unnamed, arg |-> NoDir, back |-> "done", rt |-> 0,
           path |-> NoDir, issued |-> 0, gen |-> 0, left |-> 0, limited |-> TRUE]

Init ==
    /\ row \in [Workspaces -> Dirs \cup {NoDir}] /\ row[Unnamed] = NoDir
    /\ exists = Dirs
    /\ mapped = [w \in Workspaces |-> 0]
    /\ runtimes = <<>>
    /\ readers = {} /\ writer = Nobody
    /\ pc = [t \in Threads |-> "idle"]
    /\ job = [t \in Threads |-> NewJob]
    /\ child = [c \in Chains |-> "none"]
    /\ paths = [w \in Workspaces |-> {row[w]} \ {NoDir}]
    /\ deletions = [w \in Workspaces |-> 0]

Goto(t, label) == pc' = [pc EXCEPT ![t] = label]
SetJob(t, j) == job' = [job EXCEPT ![t] = j]
Done(t) == Goto(t, "done") /\ SetJob(t, NewJob)
SetHolder(r, t) == runtimes' = [runtimes EXCEPT ![r].holder = t]
Free(r) == runtimes[r].holder = Nobody

----------------------------------------------------------------------------
(* WorkspaceManager::getOrCreate(ws, arg), called by any thread, which goes *)
(* on at back with the runtime in rt.                                       *)

GetOrCreate(t, w, arg, back, j) ==
    Goto(t, "find") /\ SetJob(t, [j EXCEPT !.ws = w, !.arg = arg, !.back = back])

Return(t, r) ==
    IF job[t].back = "done" THEN Done(t)
    ELSE /\ Goto(t, job[t].back)
         /\ SetJob(t, [job[t] EXCEPT !.rt = r, !.gen = deletions[job[t].ws],
                                    !.arg = NoDir, !.back = "done"])

\* With the lock in hand: an empty path leaves the runtime found as it is, any
\* other waits for its executionMutex.
Found(t, r) ==
    IF job[t].arg = NoDir
    THEN Return(t, r)
    ELSE Goto(t, "relocate") /\ SetJob(t, [job[t] EXCEPT !.rt = r])

\* Mutant: the shared lock is kept while the exclusive one is asked for.
FindAndUpgrade(t) ==
    LET r == mapped[job[t].ws] IN
    /\ pc[t] = "find" /\ writer = Nobody
    /\ readers' = IF r = 0 \/ job[t].arg # NoDir THEN readers \cup {t} ELSE readers
    /\ IF r = 0 THEN Goto(t, "create") /\ UNCHANGED job ELSE Found(t, r)
    /\ UNCHANGED <<disk, mapped, runtimes, writer, child, deletions>>

\* The lookup under the shared lock.
Find(t) ==
    LET r == mapped[job[t].ws] IN
    /\ pc[t] = "find" /\ writer = Nobody
    /\ readers' = IF r # 0 /\ job[t].arg # NoDir THEN readers \cup {t} ELSE readers
    /\ IF r = 0 THEN Goto(t, "create") /\ UNCHANGED job ELSE Found(t, r)
    /\ UNCHANGED <<disk, mapped, runtimes, writer, child, deletions>>

\* The exclusive lock, and a second look: another thread may have been first.
Create(t) ==
    LET w == job[t].ws IN
    /\ pc[t] = "create" /\ readers = {} /\ writer = Nobody
    /\ IF mapped[w] = 0
       THEN /\ runtimes' = Append(runtimes, NewRuntime(w, job[t].arg))
            /\ mapped' = [mapped EXCEPT ![w] = Len(runtimes')]
            /\ Return(t, Len(runtimes'))
            /\ UNCHANGED writer
       ELSE /\ Found(t, mapped[w])
            /\ writer' = IF job[t].arg # NoDir THEN t ELSE writer
            /\ UNCHANGED <<mapped, runtimes>>
    /\ UNCHANGED <<disk, readers, child, deletions>>

\* Mutant: the runtime is moved without its executionMutex.
LockRuntimeNot(t) ==
    /\ pc[t] = "relocate"
    /\ Goto(t, "moving")
    /\ UNCHANGED <<disk, manager, runtimes, job, child>>

\* executionMutex, waited for with the manager's lock held.
LockRuntime(t) ==
    /\ pc[t] = "relocate" /\ Free(job[t].rt)
    /\ SetHolder(job[t].rt, t)
    /\ Goto(t, "moving")
    /\ UNCHANGED <<disk, manager, job, child>>

\* Where a move in progress leads: relocate refuses what is no directory.
Target(t) == IF job[t].arg \in exists THEN job[t].arg ELSE runtimes[job[t].rt].dir

\* relocate, then both locks are released.
Move(t) ==
    LET r == job[t].rt IN
    /\ pc[t] = "moving"
    /\ runtimes' = [runtimes EXCEPT ![r].dir = Target(t),
                                    ![r].holder = IF @ = t THEN Nobody ELSE @]
    /\ readers' = readers \ {t}
    /\ writer' = IF writer = t THEN Nobody ELSE writer
    /\ Return(t, r)
    /\ UNCHANGED <<disk, mapped, child, deletions>>

Lookup(t) == Find(t) \/ Create(t) \/ LockRuntime(t) \/ Move(t)

----------------------------------------------------------------------------
(* A chain.                                                                 *)

\* createTask reads the workspace and makes its runtime before the worker.
Admit(c) ==
    /\ pc[c] = "idle"
    /\ \E w \in Named :
         IF row[w] = NoDir
         THEN Done(c)
         ELSE GetOrCreate(c, w, row[w], "start", job[c])
    /\ UNCHANGED <<disk, manager, runtimes, child>>

\* AgentLoop::run: the cached runtime, without its lock; else the table's row.
Start(c) ==
    /\ pc[c] = "start" /\ writer = Nobody
    /\ IF mapped[job[c].ws] # 0
       THEN /\ Goto(c, "look")
            /\ SetJob(c, [job[c] EXCEPT !.rt = mapped[job[c].ws]])
       ELSE Goto(c, "fallback") /\ UNCHANGED job
    /\ UNCHANGED <<disk, manager, runtimes, child>>

Fallback(c) ==
    LET w == job[c].ws IN
    /\ pc[c] = "fallback"
    /\ IF row[w] = NoDir
       THEN Done(c)
       ELSE GetOrCreate(c, w, row[w], "look", job[c])
    /\ UNCHANGED <<disk, manager, runtimes, child>>

\* ctx.workspacePath is read while others may be moving the runtime: either
\* path may be seen.
Look(c) ==
    LET r == job[c].rt
        seen == {runtimes[r].dir} \cup
                {Target(t) : t \in {u \in Threads : pc[u] = "moving" /\ job[u].rt = r}}
    IN
    /\ pc[c] = "look"
    /\ \E dir \in seen :
         SetJob(c, [job[c] EXCEPT !.path = dir, !.rt = 0, !.gen = 0])
    /\ Goto(c, "next")
    /\ UNCHANGED <<disk, manager, runtimes, child>>

\* The next command looks the runtime up with the path the chain began with,
\* so a runtime moved meanwhile is moved back; or the chain ends.  A file tool
\* has no process, git.commit two; shell.run, with one, takes its timeout from
\* the model, and none is kept if that is not positive.
Command(c) ==
    /\ pc[c] = "next"
    /\ \/ Done(c)
       \/ /\ job[c].issued < MaxCommands
          /\ \E left \in 0 .. 2, limited \in BOOLEAN :
               /\ left # 1 => limited
               /\ GetOrCreate(c, job[c].ws, job[c].path, "tool",
                              [job[c] EXCEPT !.issued = @ + 1,
                                             !.left = left, !.limited = limited])
    /\ UNCHANGED <<disk, manager, runtimes, child>>

\* Every tool takes the executionMutex of the runtime it was given.
TakeRuntime(c) ==
    /\ pc[c] = "tool" /\ Free(job[c].rt)
    /\ SetHolder(job[c].rt, c)
    /\ Goto(c, IF job[c].left = 0 THEN "release" ELSE "launch")
    /\ UNCHANGED <<disk, manager, job, child>>

\* ProcessRunner::execute: pipe or fork may fail.
Launch(c) ==
    /\ pc[c] = "launch"
    /\ \/ Goto(c, "release") /\ UNCHANGED child
       \/ Goto(c, "await") /\ child' = [child EXCEPT ![c] = "running"]
    /\ UNCHANGED <<disk, manager, runtimes, job>>

\* The child's own doing: it ends, or closes its output and goes on.
Exit(c) ==
    /\ child[c] \in {"running", "detached"}
    /\ child' = [child EXCEPT ![c] = "exited"]
    /\ UNCHANGED <<disk, manager, runtimes, pc, job>>
Detach(c) ==
    /\ child[c] = "running"
    /\ child' = [child EXCEPT ![c] = "detached"]
    /\ UNCHANGED <<disk, manager, runtimes, pc, job>>

\* End of output, then waitpid.  git commit goes on to its second command
\* only if git add succeeded.
Reap(c) ==
    /\ pc[c] = "await" /\ child[c] = "exited"
    /\ child' = [child EXCEPT ![c] = "none"]
    /\ \E success \in BOOLEAN :
         /\ SetJob(c, [job[c] EXCEPT !.left = IF success THEN @ - 1 ELSE 0])
         /\ Goto(c, IF success /\ job[c].left > 1 THEN "launch" ELSE "release")
    /\ UNCHANGED <<disk, manager, runtimes>>

\* The output is still open at the deadline: the process group is killed.
Timeout(c) ==
    /\ pc[c] = "await" /\ child[c] = "running" /\ job[c].limited
    /\ child' = [child EXCEPT ![c] = "none"]
    /\ SetJob(c, [job[c] EXCEPT !.left = 0])
    /\ Goto(c, "release")
    /\ UNCHANGED <<disk, manager, runtimes>>

Release(c) ==
    /\ pc[c] = "release"
    /\ SetHolder(job[c].rt, Nobody)
    /\ SetJob(c, [job[c] EXCEPT !.rt = 0, !.gen = 0, !.left = 0, !.limited = TRUE])
    /\ Goto(c, "next")
    /\ UNCHANGED <<disk, manager, child>>

Chain(c) ==
    \/ Lookup(c) \/ Start(c) \/ Fallback(c) \/ Look(c) \/ Command(c)
    \/ TakeRuntime(c) \/ Launch(c) \/ Reap(c) \/ Timeout(c) \/ Release(c)

----------------------------------------------------------------------------
(* WorkspaceController: one request per thread.                             *)

\* A failed insert answers an empty record, and that record's runtime is made.
CreateWorkspace(q) ==
    /\ pc[q] = "idle"
    /\ \E w \in Named, dir \in exists :
         \/ /\ paths[w] = {}
            /\ row' = [row EXCEPT ![w] = dir]
            /\ paths' = [paths EXCEPT ![w] = {dir}]
            /\ GetOrCreate(q, w, dir, "done", job[q])
         \/ /\ GetOrCreate(q, Unnamed, NoDir, "done", job[q])
            /\ UNCHANGED <<row, paths>>
    /\ UNCHANGED <<exists, manager, runtimes, child>>

\* A new path or only a new name; an UPDATE of no row succeeds too, a failed
\* one is answered 404.
UpdateWorkspace(q) ==
    /\ pc[q] = "idle"
    /\ \E w \in Named, dir \in exists \cup {NoDir} :
         \/ Done(q) /\ UNCHANGED <<row, paths>>
         \/ /\ Goto(q, "reread")
            /\ SetJob(q, [job[q] EXCEPT !.ws = w, !.arg = dir])
            /\ IF dir # NoDir /\ row[w] # NoDir
               THEN /\ row' = [row EXCEPT ![w] = dir]
                    /\ paths' = [paths EXCEPT ![w] = @ \cup {dir}]
               ELSE UNCHANGED <<row, paths>>
    /\ UNCHANGED <<exists, manager, runtimes, child>>

\* The row is read again, in a call of its own, and its path handed on.
Reread(q) ==
    LET w == job[q].ws IN
    /\ pc[q] = "reread"
    /\ IF row[w] = NoDir
       THEN Done(q)
       ELSE GetOrCreate(q, w, row[w], "done", job[q])
    /\ UNCHANGED <<disk, manager, runtimes, child>>

\* A DELETE of no row succeeds too; nothing asks whether chains still run.
DeleteWorkspace(q) ==
    /\ pc[q] = "idle"
    /\ \E w \in Named :
         \/ Done(q) /\ UNCHANGED row
         \/ /\ Goto(q, "invalidate")
            /\ SetJob(q, [job[q] EXCEPT !.ws = w])
            /\ row' = [row EXCEPT ![w] = NoDir]
    /\ UNCHANGED <<exists, paths, manager, runtimes, child>>

Invalidate(q) ==
    LET w == job[q].ws IN
    /\ pc[q] = "invalidate" /\ readers = {} /\ writer = Nobody
    /\ mapped' = [mapped EXCEPT ![w] = 0]
    /\ deletions' = [deletions EXCEPT ![w] = @ + 1]
    /\ Done(q)
    /\ UNCHANGED <<disk, runtimes, readers, writer, child>>

Request(q) == Lookup(q) \/ Reread(q) \/ Invalidate(q)

\* A directory is removed, not through the server.
Vanish(dir) ==
    /\ dir \in exists \cap Fragile
    /\ exists' = exists \ {dir}
    /\ UNCHANGED <<row, paths, manager, runtimes, pc, job, child>>

Next ==
    \/ \E c \in Chains : Admit(c) \/ Chain(c) \/ Exit(c) \/ Detach(c)
    \/ \E q \in Requests : \/ CreateWorkspace(q) \/ UpdateWorkspace(q)
                           \/ DeleteWorkspace(q) \/ Request(q)
    \/ \E dir \in Dirs : Vanish(dir)

\* A thread that can go on does, among them the one whose deadline passes; a
\* child need not end.
Fairness ==
    /\ \A c \in Chains : WF_vars(Chain(c))
    /\ \A q \in Requests : WF_vars(Request(q))

Spec == Init /\ [][Next]_vars /\ Fairness

----------------------------------------------------------------------------
(* Properties.                                                              *)

InTool == {"launch", "await", "release"}
Running(c) == pc[c] \in InTool

\* The types of the table, the runtimes and the threads; a thread that has the
\* manager's lock is moving a runtime, and nobody reads beside a writer.
TypeOK ==
    /\ row \in [Workspaces -> Dirs \cup {NoDir}]
    /\ mapped \in [Workspaces -> 0 .. Len(runtimes)]
    /\ \A w \in Workspaces : mapped[w] # 0 => runtimes[mapped[w]].ws = w
    /\ \A r \in DOMAIN runtimes : runtimes[r].holder \in Threads \cup {Nobody}
    /\ \A t \in Threads :
          t \in readers \cup {writer} <=> pc[t] \in {"relocate", "moving"}
    /\ writer # Nobody => readers = {}
    /\ \A c \in Chains : child[c] # "none" => pc[c] = "await"

\* Two tools of one workspace never run at the same time, in whatever way the
\* runtime was found, made or moved, as long as the workspace was not deleted
\* between their lookups (WorkspaceRuntime's "executionMutex" comment).
Serial ==
    \A c, d \in Chains :
        /\ c # d /\ Running(c) /\ Running(d)
        /\ job[c].ws = job[d].ws /\ job[c].gen = job[d].gen
        => FALSE

\* The directory of a running tool is not taken away under it: no lookup and
\* no PATCH moves the runtime until the tool, with all its processes, is done.
StaysPut ==
    [][\A c \in Chains : Running(c) =>
          runtimes'[job[c].rt].dir = runtimes[job[c].rt].dir]_vars

\* The tools of a workspace whose path was never changed run in that path,
\* whatever is renamed, deleted and made again around them.
HomeDirectory ==
    \A c \in Chains :
        Running(c) /\ Cardinality(paths[job[c].ws]) = 1 =>
            runtimes[job[c].rt].dir \in paths[job[c].ws]

\* From its start to its end a tool is alone in its workspace and in one directory,
\* the workspace's own.
RunsInPlace == [](TypeOK /\ Serial /\ HomeDirectory) /\ StaysPut

\* What ProcessRunner waits for without a limit: a child that closed its output
\* and goes on, or a call whose timeout is not positive.
Stuck(c) ==
    /\ pc[c] = "await"
    /\ \/ child[c] = "detached"
       \/ child[c] = "running" /\ ~job[c].limited

\* A tool gives its workspace back: it ends, or is killed at its deadline.
ToolEnds ==
    \A c \in Chains : (Running(c) ~> ~Running(c)) \/ <>[]Stuck(c)

AtRest == {"idle", "next", "done"}

\* The manager's lock and the runtimes' never block each other for good: every
\* request and every chain comes to its end, unless a stuck tool keeps it.
EverybodyGoesOn ==
    \A t \in Threads :
        \/ pc[t] \notin AtRest ~> pc[t] \in AtRest
        \/ \E c \in Chains : <>[]Stuck(c)

\* Tools end and threads go on, whoever holds which of the two kinds of lock.
NobodyWaitsForever == ToolEnds /\ EverybodyGoesOn
=============================================================================
