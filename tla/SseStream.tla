----------------------------- MODULE SseStream -----------------------------
(***************************************************************************)
(* How the events of one task reach a browser: SSEGateway::push saves an   *)
(* event and then publishes it on the EventBus; a connection thread        *)
(* (streamTaskEventsImpl) subscribes, replays what the database has,       *)
(* drains what was published meanwhile and then leaves the sending to the  *)
(* listener, which runs in the publisher's thread; the HTTP thread moves   *)
(* frames from the connection's deque to the socket; the browser's         *)
(* EventSource reconnects with the id of the last event it has seen.       *)
(*                                                                         *)
(* A persisted event is its sequence number.  The terminal event is the    *)
(* last one (TaskLifecycle, NothingAfterTerminalEvent).                    *)
(***************************************************************************)
EXTENDS Integers, SequencesExt

CONSTANTS
  Slots,        \* connections that may overlap; a slot is used again once closed
  MaxEvents,    \* bound on the events a worker saves, its terminal one included
  MaxVolatile,  \* bound on the published events that are not saved
  MaxFaults,    \* bound on broken sockets, failed reads, reloads and restarts
  SmallSort     \* the sequences std::sort leaves to insertion sort: 16 in libstdc++

ASSUME BoundAssumption == MaxEvents \in Nat /\ MaxVolatile \in Nat /\ MaxFaults \in Nat
ASSUME SortAssumption  == SmallSort \in Nat

VARIABLES
  row,      \* what tasks.status says
  stored,   \* the number of rows in task_events
  ended,    \* the last of them is a terminal event
  worker,   \* where the thread that pushes is
  chunks,   \* volatile events so far
  conn,     \* the connection in each slot
  link,     \* the socket of each slot
  got,      \* persisted events the page has taken in, in order of arrival
  lastId,   \* the last id its EventSource has seen, 0 before the first
  told,     \* the page has received stream_end since it last connected
  faults    \* faults so far

server == <<row, stored, ended, worker, chunks>>
client == <<got, lastId, told>>
vars   == <<server, conn, link, client, faults>>

-----------------------------------------------------------------------------
\* Frames without an id: chunks and permission events have sequence number 0.
Volatile  == 0
StreamEnd == -1

Persisted  == 1 .. MaxEvents + 1
Frames     == Persisted \cup {Volatile, StreamEnd}
Published  == Persisted \cup {Volatile}
ConnSteps  == {"closed", "subscribe", "query", "replay", "drain", "check", "wait", "cleanup", "exit"}

Connection == [at : ConnSteps, after : Nat, history : Seq(Persisted),
               pending : Seq(Published), batch : Seq(Published), seen : SUBSET Persisted,
               replaying : BOOLEAN, subscribed : BOOLEAN, done : BOOLEAN,
               connected : BOOLEAN, streamDone : BOOLEAN, queue : Seq(Frames)]

TypeOK ==
  /\ row \in {"running", "decided", "interrupted"}
  /\ stored \in 0 .. MaxEvents + 1
  /\ ended \in BOOLEAN
  /\ worker \in {"run", "publish", "gone"}
  /\ chunks \in 0 .. MaxVolatile
  /\ conn \in [Slots -> Connection]
  /\ link \in [Slots -> {"up", "down"}]
  /\ got \in Seq(Persisted)
  /\ lastId \in Persisted \cup {0}
  /\ told \in BOOLEAN
  /\ faults \in 0 .. MaxFaults

IsTerminal(e) == ended /\ e = stored

\* The page has received the terminal event, and closes its EventSource.
Finished == \E i \in DOMAIN got : IsTerminal(got[i])

\* A connection as the handler of GET /tasks/{id}/events sets it up; `after' is the
\* sequence number getEvent finds for Last-Event-ID.
Opened(after) ==
  [at |-> "subscribe", after |-> after, history |-> << >>, pending |-> << >>, batch |-> << >>,
   seen |-> {}, replaying |-> TRUE, subscribed |-> FALSE, done |-> FALSE,
   connected |-> TRUE, streamDone |-> FALSE, queue |-> << >>]

Closed == [Opened(0) EXCEPT !.at = "closed", !.connected = FALSE, !.streamDone = TRUE]

Init ==
  /\ row = "running"
  /\ stored = 0
  /\ ended = FALSE
  /\ worker = "run"
  /\ chunks = 0
  /\ conn = [k \in Slots |-> Closed]
  /\ link = [k \in Slots |-> "down"]
  /\ got = << >>
  /\ lastId = 0
  /\ told = FALSE
  /\ faults = 0

-----------------------------------------------------------------------------
(***************************************************************************)
(* What the threads do to a connection c.                                  *)
(***************************************************************************)

\* sendFrame: a deque that is done refuses the frame, and that closes the signal.
Sent(c, f) ==
  IF c.connected /\ ~c.streamDone THEN [c EXCEPT !.queue = Append(@, f)]
                                  ELSE [c EXCEPT !.connected = FALSE]

\* One event, once: an event with a sequence number is written unless its id is in
\* seenEventIds, and a terminal one ends the stream.
Written(c, e) ==
  IF e \in c.seen THEN c
  ELSE [Sent(c, e) EXCEPT !.seen = IF e = Volatile THEN @ ELSE @ \cup {e},
                          !.done = @ \/ IsTerminal(e)]

\* Mutant of Heard: the listener writes although history is still being replayed.
HeardAtOnce(c, e) == IF c.subscribed THEN Written(c, e) ELSE c

\* The listener of a connection, called by EventBus::publish.  A deque that is done
\* takes nothing more, so what would be buffered for it is left out.
Heard(c, e) ==
  CASE ~c.subscribed \/ c.streamDone -> c
    [] c.subscribed /\ ~c.streamDone /\ c.replaying -> [c EXCEPT !.pending = Append(@, e)]
    [] c.subscribed /\ ~c.streamDone /\ ~c.replaying -> Written(c, e)

\* What std::sort makes of the buffer.  The comparator puts two saved events in
\* sequence order and any other two in order of createdAt, whole seconds.  Events
\* arrive in an order that agrees with both, which insertion sort keeps.  In a longer
\* buffer a volatile event of the same second equals its neighbours on both sides
\* although those are ordered: no strict weak order, so any order may result.
Sortings(p) ==
  IF Len(p) <= SmallSort \/ Volatile \notin Range(p)
  THEN {p}
  ELSE {[i \in DOMAIN p |-> p[f[i]]] : f \in {g \in [DOMAIN p -> DOMAIN p] : IsInjective(g)}}

Listening(e) == conn' = [k \in Slots |-> Heard(conn[k], e)]

-----------------------------------------------------------------------------
(***************************************************************************)
(* The worker: SSEGateway::push, pushStream, and the task's row.           *)
(***************************************************************************)

\* saveEvent; the terminal event is saved by finalizeTask when the row is decided.
SaveEvent ==
  /\ worker = "run"
  /\ stored < MaxEvents
  /\ stored' = stored + 1
  /\ ended' \in (IF row = "decided" THEN BOOLEAN ELSE {FALSE})
  /\ worker' = "publish"
  /\ UNCHANGED <<row, chunks, conn, link, client, faults>>

\* The saved event goes to the bus; with the terminal event the worker is finished.
Publish ==
  /\ worker = "publish"
  /\ Listening(stored)
  /\ worker' = IF ended THEN "gone" ELSE "run"
  /\ UNCHANGED <<row, stored, ended, chunks, link, client, faults>>

\* A chunk of pushStream, or an event of PermissionManager: published only.
PublishVolatile ==
  /\ worker = "run"
  /\ chunks < MaxVolatile
  /\ chunks' = chunks + 1
  /\ Listening(Volatile)
  /\ UNCHANGED <<row, stored, ended, worker, link, client, faults>>

\* finalizeTask or cancelTask writes the verdict, at any moment of the worker's life.
Decide ==
  /\ worker # "gone"
  /\ row = "running"
  /\ row' = "decided"
  /\ UNCHANGED <<stored, ended, worker, chunks, conn, link, client, faults>>

-----------------------------------------------------------------------------
(***************************************************************************)
(* The connection thread: streamTaskEventsImpl.                            *)
(***************************************************************************)
At(k, s) == conn[k].at = s

Becomes(k, c) ==
  /\ conn' = [conn EXCEPT ![k] = c]
  /\ UNCHANGED <<server, link, client, faults>>

Subscribe(k) ==
  /\ At(k, "subscribe")
  /\ Becomes(k, [conn[k] EXCEPT !.subscribed = TRUE, !.at = "query"])

\* getEventsByTaskIdAfterSequence.
Query(k) ==
  /\ At(k, "query")
  /\ Becomes(k, [conn[k] EXCEPT !.history = [i \in 1 .. stored - conn[k].after |-> conn[k].after + i],
                                !.after = 0, !.at = "replay"])

\* One turn of the replay loop; a terminal event breaks out of it.
ReplayOne(k) ==
  /\ At(k, "replay")
  /\ conn[k].connected /\ conn[k].history # << >>
  /\ LET e == Head(conn[k].history) IN
       Becomes(k, [Written(conn[k], e) EXCEPT !.history = IF IsTerminal(e) THEN << >> ELSE Tail(@)])

ReplayDone(k) == At(k, "replay") /\ ~(conn[k].connected /\ conn[k].history # << >>)

BatchDone(k) == At(k, "drain") /\ conn[k].batch = << >>

\* Mutant of TakePending: the listener may write before the buffer was looked at.
TakeNothing(k) ==
  /\ ReplayDone(k) \/ BatchDone(k)
  /\ Becomes(k, [conn[k] EXCEPT !.replaying = FALSE, !.history = << >>, !.at = "check"])

\* Under replayMutex: the buffer is swapped out and sorted, and only when it is empty
\* may the listener write by itself.
TakePending(k) ==
  /\ ReplayDone(k) \/ BatchDone(k)
  /\ IF conn[k].pending = << >>
     THEN Becomes(k, [conn[k] EXCEPT !.replaying = FALSE, !.history = << >>, !.at = "check"])
     ELSE \E p \in Sortings(conn[k].pending) :
            Becomes(k, [conn[k] EXCEPT !.batch = p, !.pending = << >>, !.history = << >>,
                                       !.at = "drain"])

DrainOne(k) ==
  /\ At(k, "drain")
  /\ conn[k].batch # << >>
  /\ Becomes(k, [Written(conn[k], Head(conn[k].batch)) EXCEPT !.batch = Tail(@)])

\* A task that crash recovery closed may have nothing left to replay.
CheckInterrupted(k) ==
  /\ At(k, "check")
  /\ Becomes(k, [conn[k] EXCEPT !.done = @ \/ row = "interrupted", !.at = "wait"])

\* Every third heartbeat reads the status: a terminal one ends the stream, whether or
\* not its event was sent.
Poll(k) ==
  /\ At(k, "wait")
  /\ conn[k].connected /\ ~conn[k].done
  /\ row # "running"
  /\ Becomes(k, [conn[k] EXCEPT !.done = TRUE])

Finish(k) ==
  /\ At(k, "wait")
  /\ conn[k].done \/ ~conn[k].connected
  /\ Becomes(k, [(IF conn[k].connected THEN Sent(conn[k], StreamEnd) ELSE conn[k])
                   EXCEPT !.at = "cleanup"])

\* cleanup: the signal is closed first, so nothing is written while unsubscribe waits.
Cleanup(k) ==
  /\ At(k, "cleanup")
  /\ Becomes(k, [conn[k] EXCEPT !.connected = FALSE, !.subscribed = FALSE, !.at = "exit",
                                !.seen = {}, !.pending = << >>])

\* The thread's last act: the HTTP side may stop when the deque is empty.
Exit(k) ==
  /\ At(k, "exit")
  /\ Becomes(k, [Closed EXCEPT !.queue = conn[k].queue])

-----------------------------------------------------------------------------
(***************************************************************************)
(* The HTTP thread of a connection, and the browser.                       *)
(***************************************************************************)

\* Slots are interchangeable: which of the free ones is taken makes no difference.
Free == CHOOSE k \in Slots : At(k, "closed")

\* GET /tasks/{id}/events.  EventSource connects again whenever the stream is gone,
\* until the page has the terminal event and closes it.
Open ==
  /\ \E k \in Slots : At(k, "closed")
  /\ \A j \in Slots : link[j] = "down"
  /\ ~Finished
  /\ conn' = [conn EXCEPT ![Free] = Opened(lastId)]
  /\ link' = [link EXCEPT ![Free] = "up"]
  /\ told' = FALSE
  /\ UNCHANGED <<server, got, lastId, faults>>

\* The page drops an event whose id it has seen: an event that is saved but not yet
\* published can be replayed by one connection and published to the next.  The browser
\* notes the id before the page's handler sees the event.
Receive(k) ==
  /\ link[k] = "up"
  /\ conn[k].queue # << >>
  /\ LET f == Head(conn[k].queue) IN
       /\ got' = IF f \in Persisted \ Range(got) THEN Append(got, f) ELSE got
       /\ lastId' = IF f \in Persisted THEN f ELSE lastId
       /\ told' = (told \/ f = StreamEnd)
       /\ link' = [link EXCEPT ![k] = IF IsTerminal(f) THEN "down" ELSE @]
  /\ conn' = [conn EXCEPT ![k].queue = Tail(@)]
  /\ UNCHANGED <<server, faults>>

\* sink.done: everything queued was sent, and the response ends.
EndOfStream(k) ==
  /\ link[k] = "up"
  /\ conn[k].queue = << >> /\ conn[k].streamDone
  /\ link' = [link EXCEPT ![k] = "down"]
  /\ UNCHANGED <<server, conn, client, faults>>

\* The deque is done, the signal closed; what the connection still holds has no effect
\* any more and is dropped.
Dead(c) == [c EXCEPT !.streamDone = TRUE, !.connected = FALSE, !.queue = << >>, !.pending = << >>,
                     !.history = << >>, !.batch = << >>, !.seen = {}]

\* Mutant of NoticeBroken: no heartbeat.
NoticeByEvent(k) ==
  /\ link[k] = "down"
  /\ ~conn[k].streamDone
  /\ conn[k].queue # << >>
  /\ conn' = [conn EXCEPT ![k] = Dead(@)]
  /\ UNCHANGED <<server, link, client, faults>>

\* A write to a socket that is gone fails; the heartbeat sees to it that there is one.
NoticeBroken(k) ==
  /\ link[k] = "down"
  /\ ~conn[k].streamDone
  /\ conn[k].queue # << >> \/ At(k, "wait")
  /\ conn' = [conn EXCEPT ![k] = Dead(@)]
  /\ UNCHANGED <<server, link, client, faults>>

-----------------------------------------------------------------------------
(***************************************************************************)
(* Faults.                                                                 *)
(***************************************************************************)
Fault == faults < MaxFaults /\ faults' = faults + 1

Break(k) ==
  /\ Fault
  /\ link[k] = "up"
  /\ link' = [link EXCEPT ![k] = "down"]
  /\ UNCHANGED <<server, conn, client>>

\* A database read throws: the stream ends without a word.
ReadFails(k) ==
  /\ Fault
  /\ conn[k].at \in {"query", "check", "wait"}
  /\ conn' = [conn EXCEPT ![k].at = "cleanup"]
  /\ UNCHANGED <<server, link, client>>

\* The task is opened in a page that has seen nothing of it.
Reload ==
  /\ Fault
  /\ link' = [k \in Slots |-> "down"]
  /\ got' = << >>
  /\ lastId' = 0
  /\ told' = FALSE
  /\ UNCHANGED <<server, conn>>

\* The server dies and starts again: recoverInterruptedTasks closes a running task.
Restart ==
  /\ Fault
  /\ worker' = "gone"
  /\ row' = IF row = "running" THEN "interrupted" ELSE row
  /\ ended' = (ended \/ row = "running")
  /\ stored' = IF row = "running" /\ ~ended THEN stored + 1 ELSE stored
  /\ conn' = [k \in Slots |-> Closed]
  /\ link' = [k \in Slots |-> "down"]
  /\ UNCHANGED <<chunks, client>>

-----------------------------------------------------------------------------
WorkerStep == SaveEvent \/ Publish \/ PublishVolatile \/ Decide

ConnStep(k) ==
  \/ Subscribe(k) \/ Query(k) \/ ReplayOne(k) \/ TakePending(k) \/ DrainOne(k)
  \/ CheckInterrupted(k) \/ Poll(k) \/ Finish(k) \/ Cleanup(k) \/ Exit(k)

HttpStep(k) == Receive(k) \/ EndOfStream(k) \/ NoticeBroken(k)

Next ==
  \/ WorkerStep
  \/ \E k \in Slots : ConnStep(k) \/ HttpStep(k) \/ Break(k) \/ ReadFails(k)
  \/ Open
  \/ Reload
  \/ Restart

Spec == Init /\ [][Next]_vars

(***************************************************************************)
(* A saved event is published; every connection thread and every HTTP      *)
(* thread runs on (the heartbeat is a timer); the browser reconnects.      *)
(* Faults and the worker's own progress are left to the environment.       *)
(***************************************************************************)
Fairness ==
  /\ WF_vars(Publish)
  /\ \A k \in Slots : WF_vars(ConnStep(k)) /\ WF_vars(HttpStep(k))
  /\ WF_vars(Open)

FairSpec == Spec /\ Fairness

-----------------------------------------------------------------------------
(***************************************************************************)
(* Safety.                                                                 *)
(***************************************************************************)

\* Replay, buffer, live listener and reconnection together let the page take in every
\* persisted event once, in sequence order and without a gap.
PersistedInOrder == \A i \in DOMAIN got : got[i] = i

\* One connection is sent a persisted event once, whether it was replayed, buffered or
\* heard live.  (A slow socket keeps every frame of a connection in its queue.)
OncePerConnection ==
  \A k \in Slots : \A i, j \in DOMAIN conn[k].queue :
    conn[k].queue[i] \in Persisted /\ conn[k].queue[i] = conn[k].queue[j] => i = j

\* stream_end is written only for a task whose row is terminal.
EndIsJustified ==
  told \/ (\E k \in Slots : StreamEnd \in Range(conn[k].queue)) => row # "running"

\* Across broken sockets and reloads, the page and each connection get the persisted
\* events in order and once, and no end before there is one.
DeliveredInOrder == TypeOK /\ PersistedInOrder /\ OncePerConnection /\ EndIsJustified

-----------------------------------------------------------------------------
(***************************************************************************)
(* Liveness, under FairSpec.                                               *)
(***************************************************************************)

\* What was saved reaches the page, through broken sockets, reloads and restarts.
EverythingArrives == Len(got) < stored ~> Len(got) = stored

\* Once the task is decided the page is told so, by the terminal event or, when a
\* crash came between the row and the event, by stream_end.
PageIsTold == row # "running" ~> Finished \/ told

\* The page is served to the end: all that was saved, and the news that it is over.
PageIsServed == EverythingArrives /\ PageIsTold

\* The thread and the listener of a connection whose client is gone are released.
ThreadsAreReleased == \A k \in Slots : link[k] = "down" ~> At(k, "closed")

=============================================================================
