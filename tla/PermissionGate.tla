--------------------------- MODULE PermissionGate ---------------------------
(***************************************************************************)
(* Asking the user before a tool runs: PermissionManager, the Ask branch   *)
(* of AgentLoop that creates a request and waits on it, and the HTTP       *)
(* handlers that answer it.  Requests and waiters are two tables under two *)
(* mutexes, a waiter is a third mutex, and an answer travels from the one  *)
(* to the other without holding any of them all the way.                   *)
(*                                                                         *)
(* A request is named in two ways.  Its id comes from nextId_, a plain     *)
(* size_t that every worker thread increments without a lock: two threads  *)
(* may load the same value, and a store that comes late takes the counter  *)
(* back to ids already given.  Its ticket is ours: the number of the       *)
(* createRequest call, which is also the name of the PendingWaiter object  *)
(* that call makes.                                                        *)
(***************************************************************************)
EXTENDS Naturals

CONSTANTS
  Workers,     \* task threads
  Callers,     \* HTTP threads in PermissionController
  Cancellable, \* workers whose task somebody may cancel
  MaxRequests, \* bound on the createRequest calls
  PushFails    \* TRUE: persisting an event may throw

ASSUME BoundAssumption == MaxRequests \in Nat /\ PushFails \in BOOLEAN

Tickets == 1 .. MaxRequests

VARIABLES
  nextId,    \* PermissionManager::nextId_
  created,   \* the createRequest calls so far
  drawn,     \* the id each of them got, 0 before
  requests,  \* requests_: ticket and status by id; ticket 0 when there is no entry
  waiters,   \* waiters_: the PendingWaiter by id, 0 when there is none
  heard,     \* resolved and approved of each PendingWaiter
  consent,   \* what the user was told to have answered, per request
  outcome,   \* what became of the tool call, per request
  worker,    \* step, id, ticket and waiter of each worker
  flag,      \* the cancel flag of the worker's task
  caller     \* step, id and answer of each HTTP thread

gateVars ==
  <<nextId, created, drawn, requests, waiters, heard, consent, outcome, worker, flag, caller>>

Statuses    == {"pending", "approved", "rejected", "expired"}
Answers     == {"approved", "rejected"}
WorkerSteps == {"idle", "id", "insert", "waiter", "asked", "find", "waiting", "expire",
                "sweep", "erase", "answered", "granted", "stopped"}

NoEntry == [ticket |-> 0, status |-> "expired"]

GateTypeOK ==
  /\ nextId \in 1 .. MaxRequests + 1
  /\ created \in 0 .. MaxRequests
  /\ drawn \in [Tickets -> 0 .. MaxRequests]
  /\ requests \in [Tickets -> [ticket : 0 .. MaxRequests, status : Statuses]]
  /\ waiters \in [Tickets -> 0 .. MaxRequests]
  /\ heard \in [Tickets -> Answers \cup {"nothing"}]
  /\ consent \in [Tickets -> Answers \cup {"none"}]
  /\ outcome \in [Tickets -> {"open", "ran", "denied", "dropped"}]
  /\ worker \in [Workers -> [at : WorkerSteps, id : 0 .. MaxRequests,
                             ticket : 0 .. MaxRequests, seat : 0 .. MaxRequests]]
  /\ flag \in [Workers -> BOOLEAN]
  /\ caller \in [Callers -> [at : {"idle", "checked", "claimed"}, id : 0 .. MaxRequests,
                             answer : Answers]]

\* A worker that asks for nothing, and a handler that answers nothing.
Free(s)  == [at |-> s, id |-> 0, ticket |-> 0, seat |-> 0]
NoAnswer == [at |-> "idle", id |-> 0, answer |-> "rejected"]

\* The initial value of nextId_.
FirstId == 1

GateInit ==
  /\ nextId = FirstId
  /\ created = 0
  /\ drawn = [k \in Tickets |-> 0]
  /\ requests = [i \in Tickets |-> NoEntry]
  /\ waiters = [i \in Tickets |-> 0]
  /\ heard = [k \in Tickets |-> "nothing"]
  /\ consent = [k \in Tickets |-> "none"]
  /\ outcome = [k \in Tickets |-> "open"]
  /\ worker = [w \in Workers |-> Free("idle")]
  /\ flag = [w \in Workers |-> FALSE]
  /\ caller = [c \in Callers |-> NoAnswer]

-----------------------------------------------------------------------------
At(w, s) == worker[w].at = s

Goes(w, s) == worker' = [worker EXCEPT ![w].at = s]

\* The worker goes on with the waiter `seat', 0 for none.
Sits(w, s, seat) ==
  worker' = [worker EXCEPT ![w] = [at |-> s, id |-> @.id, ticket |-> @.ticket, seat |-> seat]]

\* The worker is done with its request; `after' is where it goes on.
Closes(w, o, after) ==
  /\ outcome' = [outcome EXCEPT ![worker[w].ticket] = o]
  /\ worker' = [worker EXCEPT ![w] = Free(after)]

(***************************************************************************)
(* createRequest, called by callToolWithPermission of a worker.            *)
(***************************************************************************)

\* generateId: nextId_++ is a load ...
ReadId(w) ==
  /\ At(w, "idle")
  /\ ~flag[w]
  /\ created < MaxRequests
  /\ created' = created + 1
  /\ drawn' = [drawn EXCEPT ![created + 1] = nextId]
  /\ worker' = [worker EXCEPT ![w] = [at |-> "id", id |-> nextId, ticket |-> created + 1, seat |-> 0]]
  /\ UNCHANGED <<nextId, requests, waiters, heard, consent, outcome, flag, caller>>

\* ... and a store.
StoreId(w) ==
  /\ At(w, "id")
  /\ nextId' = worker[w].id + 1
  /\ Goes(w, "insert")
  /\ UNCHANGED <<created, drawn, requests, waiters, heard, consent, outcome, flag, caller>>

\* The first critical section: the table is keyed by id alone.
InsertRequest(w) ==
  /\ At(w, "insert")
  /\ requests' = [requests EXCEPT ![worker[w].id] = [ticket |-> worker[w].ticket, status |-> "pending"]]
  /\ Goes(w, "waiter")
  /\ UNCHANGED <<nextId, created, drawn, waiters, heard, consent, outcome, flag, caller>>

\* The second critical section, and the PermissionRequired event.
InsertWaiter(w) ==
  /\ At(w, "waiter")
  /\ waiters' = [waiters EXCEPT ![worker[w].id] = worker[w].ticket]
  /\ Goes(w, "asked")
  /\ UNCHANGED <<nextId, created, drawn, requests, heard, consent, outcome, flag, caller>>

\* Back in AgentLoop.  A cancelled task leaves, and a failed push of the "waiting"
\* event is caught as a failed tool call: both forget the request.
Announce(w) ==
  /\ At(w, "asked")
  /\ \/ flag[w] /\ Closes(w, "dropped", "stopped")
     \/ ~flag[w] /\ Goes(w, "find") /\ UNCHANGED outcome
     \/ ~flag[w] /\ PushFails /\ Closes(w, "dropped", "idle")
  /\ UNCHANGED <<nextId, created, drawn, requests, waiters, heard, consent, flag, caller>>

-----------------------------------------------------------------------------
(***************************************************************************)
(* waitForResolution.                                                      *)
(***************************************************************************)

FindWaiter(w) ==
  /\ At(w, "find")
  /\ LET seat == waiters[worker[w].id] IN Sits(w, IF seat = 0 THEN "answered" ELSE "waiting", seat)
  /\ UNCHANGED <<nextId, created, drawn, requests, waiters, heard, consent, outcome, flag, caller>>

\* Mutant of StopWaiting: no deadline.
WaitForever(w) ==
  /\ At(w, "waiting")
  /\ flag[w] \/ heard[worker[w].seat] # "nothing"
  /\ Goes(w, IF flag[w] THEN "expire" ELSE "answered")
  /\ UNCHANGED <<nextId, created, drawn, requests, waiters, heard, consent, outcome, flag, caller>>

\* The wait ends on an answer, on the cancel flag or on the deadline, whichever the
\* thread finds first when it holds the waiter's mutex.
StopWaiting(w) ==
  /\ At(w, "waiting")
  /\ Goes(w, IF flag[w] \/ heard[worker[w].seat] = "nothing" THEN "expire" ELSE "answered")
  /\ UNCHANGED <<nextId, created, drawn, requests, waiters, heard, consent, outcome, flag, caller>>

\* Mutant of Expire: a resolved request is left as it is.
ExpirePending(w) ==
  /\ At(w, "expire")
  /\ requests' = [requests EXCEPT ![worker[w].id].status = IF @ = "pending" THEN "expired" ELSE @]
  /\ Goes(w, "sweep")
  /\ UNCHANGED <<nextId, created, drawn, waiters, heard, consent, outcome, flag, caller>>

\* expire, first half: the status is overwritten whatever it is.
Expire(w) ==
  /\ At(w, "expire")
  /\ requests' = [requests EXCEPT ![worker[w].id].status = "expired"]
  /\ Goes(w, "sweep")
  /\ UNCHANGED <<nextId, created, drawn, waiters, heard, consent, outcome, flag, caller>>

\* expire, second half: the waiter that the table has for the id is told no.
Sweep(w) ==
  /\ At(w, "sweep")
  /\ heard' = [k \in Tickets |-> IF k = waiters[worker[w].id] THEN "rejected" ELSE heard[k]]
  /\ Goes(w, "erase")
  /\ UNCHANGED <<nextId, created, drawn, requests, waiters, consent, outcome, flag, caller>>

\* The waiter leaves the table, and the call returns false.
Erase(w) ==
  /\ At(w, "erase")
  /\ waiters' = [waiters EXCEPT ![worker[w].id] = 0]
  /\ Sits(w, "answered", 0)
  /\ UNCHANGED <<nextId, created, drawn, requests, heard, consent, outcome, flag, caller>>

\* The result of the wait: false without a seat, else what the waiter heard.
\* AgentLoop looks at the flag once more before it believes it.
TakeAnswer(w) ==
  /\ At(w, "answered")
  /\ LET seat == worker[w].seat IN
       /\ waiters' = IF seat = 0 THEN waiters ELSE [waiters EXCEPT ![worker[w].id] = 0]
       /\ \/ flag[w] /\ Closes(w, "dropped", "stopped")
          \/ /\ ~flag[w]
             /\ IF seat # 0 /\ heard[seat] = "approved"
                THEN Goes(w, "granted") /\ UNCHANGED outcome
                ELSE Closes(w, "denied", "idle")
  /\ UNCHANGED <<nextId, created, drawn, requests, heard, consent, flag, caller>>

\* The "approved" event, a last look at the flag, and callTool.
RunTool(w) ==
  /\ At(w, "granted")
  /\ \/ flag[w] /\ Closes(w, "dropped", "stopped")
     \/ ~flag[w] /\ Closes(w, "ran", "idle")
     \/ PushFails /\ Closes(w, "dropped", "idle")
  /\ UNCHANGED <<nextId, created, drawn, requests, waiters, heard, consent, flag, caller>>

CancelTask(w) ==
  /\ w \in Cancellable
  /\ ~flag[w]
  /\ flag' = [flag EXCEPT ![w] = TRUE]
  /\ UNCHANGED <<nextId, created, drawn, requests, waiters, heard, consent, outcome, worker, caller>>

-----------------------------------------------------------------------------
(***************************************************************************)
(* PermissionController: handleAction looks the request up and refuses one *)
(* that is not pending; approveFirstPending takes any pending one.         *)
(***************************************************************************)
IsPending(i) == requests[i].ticket # 0 /\ requests[i].status = "pending"

LookUp(c) ==
  /\ caller[c].at = "idle"
  /\ \E i \in Tickets, a \in Answers :
       /\ IsPending(i)
       /\ caller' = [caller EXCEPT ![c] = [at |-> "checked", id |-> i, answer |-> a]]
  /\ UNCHANGED <<nextId, created, drawn, requests, waiters, heard, consent, outcome, worker, flag>>

\* Mutant of Claim: the handler's own check is taken for good.
ClaimBlindly(c) ==
  /\ caller[c].at = "checked"
  /\ LET i == caller[c].id IN
       /\ requests' = [requests EXCEPT ![i].status = caller[c].answer]
       /\ consent' = [consent EXCEPT ![requests[i].ticket] = caller[c].answer]
       /\ caller' = [caller EXCEPT ![c].at = "claimed"]
  /\ UNCHANGED <<nextId, created, drawn, waiters, heard, outcome, worker, flag>>

\* resolvePermission, first critical section: the first answer to a pending request
\* counts, every other call returns false.
Claim(c) ==
  /\ caller[c].at = "checked"
  /\ LET i == caller[c].id IN
       \/ /\ IsPending(i)
          /\ requests' = [requests EXCEPT ![i].status = caller[c].answer]
          /\ consent' = [consent EXCEPT ![requests[i].ticket] = caller[c].answer]
          /\ caller' = [caller EXCEPT ![c].at = "claimed"]
       \/ /\ ~IsPending(i)
          /\ caller' = [caller EXCEPT ![c] = NoAnswer]
          /\ UNCHANGED <<requests, consent>>
  /\ UNCHANGED <<nextId, created, drawn, waiters, heard, outcome, worker, flag>>

\* resolvePermission, the rest: the waiter, if there is one, is told and woken, and
\* the caller gets its 200 either way.
Notify(c) ==
  /\ caller[c].at = "claimed"
  /\ heard' = [k \in Tickets |-> IF k = waiters[caller[c].id] THEN caller[c].answer ELSE heard[k]]
  /\ caller' = [caller EXCEPT ![c] = NoAnswer]
  /\ UNCHANGED <<nextId, created, drawn, requests, waiters, consent, outcome, worker, flag>>

-----------------------------------------------------------------------------
AskStep(w) == ReadId(w) \/ StoreId(w) \/ InsertRequest(w) \/ InsertWaiter(w) \/ Announce(w)

WaitStep(w) ==
  \/ FindWaiter(w) \/ StopWaiting(w) \/ Expire(w) \/ Sweep(w) \/ Erase(w)
  \/ TakeAnswer(w) \/ RunTool(w)

CallerStep(c) == LookUp(c) \/ Claim(c) \/ Notify(c)

GateNext ==
  \/ \E w \in Workers : AskStep(w) \/ WaitStep(w) \/ CancelTask(w)
  \/ \E c \in Callers : CallerStep(c)

GateSpec == GateInit /\ [][GateNext]_gateVars

(***************************************************************************)
(* A worker thread that asked runs on; its wait is bounded by the deadline.*)
(* Whether the user answers or cancels is the environment's choice.        *)
(***************************************************************************)
GateFairness ==
  /\ \A w \in Workers : WF_gateVars(StoreId(w) \/ InsertRequest(w) \/ InsertWaiter(w) \/ Announce(w))
  /\ \A w \in Workers : WF_gateVars(WaitStep(w))
  /\ \A c \in Callers : WF_gateVars(Claim(c) \/ Notify(c))

FairSpec == GateSpec /\ GateFairness

-----------------------------------------------------------------------------
(***************************************************************************)
(* Safety.                                                                 *)
(***************************************************************************)

\* The user approved a request that had this id.
Approved(i) == \E j \in Tickets : drawn[j] = i /\ consent[j] = "approved"

\* No other createRequest drew the id of request k.
Unshared(k) == \A j \in Tickets : j # k => drawn[j] # drawn[k]

\* A tool that waited for consent runs only if the user approved a request of its id,
\* however answers, deadlines and cancels race: no approval crosses from one id to
\* another.  An id nobody else drew is the request's own, and then the user approved
\* that very request; with a shared one the yes may have been meant for the other.
ConsentToRun == \A k \in Tickets : outcome[k] = "ran" => Approved(drawn[k])

\* What GET /permissions/{id} says afterwards of a request whose id nobody else drew is
\* what happened: approved for a tool that ran, rejected or expired for one refused.
StatusTellsOutcome ==
  \A i \in Tickets : requests[i].ticket # 0 /\ Unshared(requests[i].ticket) =>
    LET k == requests[i].ticket IN
      /\ outcome[k] = "ran" => requests[i].status = "approved"
      /\ outcome[k] = "denied" => requests[i].status \in {"rejected", "expired"}

\* Of two handlers that race for one request, one is told that it answered: the
\* user's word is not replaced by a later one.
FirstAnswerCounts ==
  [][\A k \in Tickets : consent[k] # "none" => consent'[k] = consent[k]]_gateVars

\* Every request that was made ends: the tool runs or the worker goes on without.
EveryAskEnds == \A k \in Tickets : created >= k ~> outcome[k] # "open"
=============================================================================
