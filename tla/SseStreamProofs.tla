-------------------------- MODULE SseStreamProofs --------------------------
(***************************************************************************)
(* Proofs about SseStream, for every number of connections, events and     *)
(* faults.  An event is taken in at three places, and may be on its way to *)
(* each of them twice: that the page still gets all of them in order is    *)
(* shown by one relation between what it has and what each buffer holds.   *)
(***************************************************************************)
EXTENDS SseStream, SequenceTheorems, TLAPS

-----------------------------------------------------------------------------
\* What relates the row, its events and the thread that writes them.
RowInv ==
  /\ ended => row # "running"
  /\ row # "interrupted" => stored <= MaxEvents
  /\ worker = "publish" => stored >= 1
  /\ told => row # "running"

\* A connection that writes remembers every frame in its queue; none is there twice,
\* and the end is announced only for a task that is over.
Sound(c) ==
  /\ c.streamDone => ~c.connected
  /\ c.connected => \A i \in DOMAIN c.queue : c.queue[i] \in Persisted => c.queue[i] \in c.seen
  /\ \A i, j \in DOMAIN c.queue : c.queue[i] \in Persisted /\ c.queue[i] = c.queue[j] => i = j
  /\ c.done \/ StreamEnd \in Range(c.queue) => row # "running"

Inv == TypeOK /\ RowInv /\ \A k \in Slots : Sound(conn[k])

-----------------------------------------------------------------------------
\* Who has the events S can take q in, one by one, without a gap.
Follows(S, q) ==
  \A i \in DOMAIN q : \A e \in 1 .. q[i] - 1 : e \in S \/ \E j \in 1 .. i - 1 : q[j] = e

\* What a page that has the first g events will have of a connection's when its queue
\* is empty.
Known(c, g) == 1 .. g \cup (Range(c.queue) \cap Persisted)

\* The last event that was published.
Announced == IF worker = "publish" THEN stored - 1 ELSE stored

\* Every buffer of a connection that leads to a page with g events continues what is
\* before it; of the s events there are, together they hold the n that were published.
Ordered(c, g, s, n) ==
  /\ Follows(1 .. g, c.queue)
  /\ c.at \in {"subscribe", "query"} => c.after <= g /\ c.replaying
  /\ c.at \in {"subscribe", "query", "replay"} => c.batch = << >>
  /\ c.at \in {"subscribe", "query", "drain"} => c.history = << >>
  /\ c.connected =>
       /\ c.seen \subseteq Known(c, g)
       /\ c.at # "subscribe" => c.subscribed
       /\ \A i \in DOMAIN c.pending : c.pending[i] <= s
       /\ c.at \in {"replay", "drain"} =>
            /\ c.replaying
            /\ Follows(Known(c, g), c.history)
            /\ Follows(Known(c, g), c.batch)
            /\ Follows(Known(c, g) \cup Range(c.history) \cup Range(c.batch), c.pending)
            /\ 1 .. n \subseteq Known(c, g) \cup Range(c.history) \cup Range(c.batch) \cup Range(c.pending)
       /\ ~c.replaying => 1 .. n \subseteq Known(c, g)

OrderInv ==
  /\ PersistedInOrder
  /\ lastId <= Len(got)
  /\ \A k \in Slots : link[k] = "up" => Ordered(conn[k], Len(got), stored, Announced)

\* No connection buffers more events than insertion sort takes, volatile ones among them.
SmallBuffers ==
  \A k \in Slots : Len(conn[k].pending) <= SmallSort \/ Volatile \notin Range(conn[k].pending)

-----------------------------------------------------------------------------
(***************************************************************************)
(* Types, frames that are there once, and ends that are justified.         *)
(***************************************************************************)

\* What appending one frame does to a connection's queue.
LEMMA AppendedOnce ==
  ASSUME NEW q \in Seq(Frames), NEW f \in Frames,
         \A i, j \in DOMAIN q : q[i] \in Persisted /\ q[i] = q[j] => i = j,
         f \in Persisted => \A i \in DOMAIN q : q[i] # f
  PROVE  LET p == Append(q, f) IN
         /\ p \in Seq(Frames)
         /\ Range(p) = Range(q) \cup {f}
         /\ DOMAIN p = 1 .. Len(q) + 1
         /\ \A i \in DOMAIN q : p[i] = q[i]
         /\ p[Len(q) + 1] = f
         /\ \A i, j \in DOMAIN p : p[i] \in Persisted /\ p[i] = p[j] => i = j
<1> DEFINE p == Append(q, f)
<1>1. p \in Seq(Frames) /\ Len(p) = Len(q) + 1 /\ DOMAIN p = 1 .. Len(q) + 1 /\ Len(q) \in Nat
      /\ DOMAIN q = 1 .. Len(q)
  OBVIOUS
<1>2. /\ \A i \in DOMAIN q : p[i] = q[i]
      /\ p[Len(q) + 1] = f
  OBVIOUS
<1>3. Range(p) = Range(q) \cup {f}
  BY <1>1, <1>2 DEF Range
<1>4. ASSUME NEW i \in DOMAIN p, NEW j \in DOMAIN p, p[i] \in Persisted, p[i] = p[j]
      PROVE i = j
  BY <1>1, <1>2, <1>4
<1> QED BY <1>1, <1>2, <1>3, <1>4

\* A frame that is sent is the last of its queue, or closes the connection.
LEMMA SentKeeps ==
  ASSUME NEW c \in Connection, NEW f \in Frames
  PROVE  /\ Sent(c, f) \in Connection
         /\ Sent(c, f) = [c EXCEPT !.queue = Append(@, f)] \/ Sent(c, f) = [c EXCEPT !.connected = FALSE]
         /\ Sent(c, f).connected => c.connected
         /\ Sent(c, f).queue \in {c.queue, Append(c.queue, f)}
         /\ Sent(c, f).connected => Sent(c, f).queue = Append(c.queue, f)
<1>1. Append(c.queue, f) \in Seq(Frames)
  BY DEF Connection
<1>2. CASE c.connected /\ ~c.streamDone
  BY <1>1, <1>2 DEF Sent, Connection
<1>3. CASE ~(c.connected /\ ~c.streamDone)
  BY <1>3 DEF Sent, Connection
<1> QED BY <1>2, <1>3

\* What a step may change of a connection without making it unsound.
LEMMA SoundOf ==
  ASSUME NEW c, NEW d, Sound(c),
         d.queue = c.queue,
         d.streamDone => ~d.connected,
         d.connected => c.connected /\ c.seen \subseteq d.seen,
         d.done => row # "running"
  PROVE  Sound(d)
BY DEF Sound

\* Writing an event keeps the connection sound.
LEMMA WrittenKeeps ==
  ASSUME Inv, NEW c \in Connection, Sound(c), NEW e \in Published
  PROVE  Written(c, e) \in Connection /\ Sound(Written(c, e))
<1> DEFINE d == Written(c, e)
<1>1. CASE e \in c.seen
  BY <1>1 DEF Written
<1>2. CASE e \notin c.seen /\ c.connected /\ ~c.streamDone
  <2>1. d = [c EXCEPT !.queue = Append(@, e), !.seen = IF e = Volatile THEN @ ELSE @ \cup {e},
                      !.done = @ \/ IsTerminal(e)]
    BY <1>2 DEF Written, Sent, Connection
  <2>2. e \in Frames /\ c.queue \in Seq(Frames) /\ (e # Volatile => e \in Persisted)
    BY DEF Frames, Published, Connection
  <2>3. \A i \in DOMAIN c.queue : c.queue[i] \in Persisted => c.queue[i] # e
    BY <1>2 DEF Sound
  <2>4. d \in Connection
    <3>1. Append(c.queue, e) \in Seq(Frames) /\ IsTerminal(e) \in BOOLEAN
      BY <2>2 DEF IsTerminal, Inv, TypeOK
    <3>2. (IF e = Volatile THEN c.seen ELSE c.seen \cup {e}) \in SUBSET Persisted
      BY <2>2 DEF Connection
    <3> HIDE DEF d
    <3> QED BY <2>1, <3>1, <3>2 DEF Connection
  <2>5. IsTerminal(e) => row # "running"
    BY DEF IsTerminal, Inv, RowInv
  <2>6. LET p == Append(c.queue, e) IN
         /\ Range(p) = Range(c.queue) \cup {e}
         /\ DOMAIN p = 1 .. Len(c.queue) + 1
         /\ \A i \in DOMAIN c.queue : p[i] = c.queue[i]
         /\ p[Len(c.queue) + 1] = e
         /\ \A i, j \in DOMAIN p : p[i] \in Persisted /\ p[i] = p[j] => i = j
    <3>1. \A i, j \in DOMAIN c.queue : c.queue[i] \in Persisted /\ c.queue[i] = c.queue[j] => i = j
      BY DEF Sound
    <3>2. e \in Persisted => \A i \in DOMAIN c.queue : c.queue[i] # e
      BY <2>3
    <3> QED BY <2>2, <3>1, <3>2, AppendedOnce
  <2>7. e # StreamEnd
    BY DEF Published, Persisted, Volatile, StreamEnd
  <2>8. d.queue = Append(c.queue, e) /\ d.connected = c.connected /\ d.streamDone = c.streamDone
        /\ d.seen = (IF e = Volatile THEN c.seen ELSE c.seen \cup {e})
        /\ d.done = (c.done \/ IsTerminal(e))
    BY <2>1 DEF Connection
  <2>9. \A i \in DOMAIN d.queue : d.queue[i] \in Persisted => d.queue[i] \in d.seen
    <3>1. Volatile \notin Persisted
      BY DEF Volatile, Persisted
    <3>2. \A i \in DOMAIN c.queue : c.queue[i] \in Persisted => c.queue[i] \in c.seen
      BY <1>2 DEF Sound
    <3>3. DOMAIN c.queue = 1 .. Len(c.queue) /\ Len(c.queue) \in Nat
      BY <2>2
    <3> QED BY <2>6, <2>8, <3>1, <3>2, <3>3
  <2>10. d.done \/ StreamEnd \in Range(d.queue) => row # "running"
    BY <2>5, <2>6, <2>7, <2>8 DEF Sound
  <2>11. d.streamDone => ~d.connected
    BY <2>8, <1>2
  <2> QED BY <2>4, <2>6, <2>8, <2>9, <2>10, <2>11 DEF Sound
<1>3. CASE e \notin c.seen /\ ~(c.connected /\ ~c.streamDone)
  <2>1. d = [c EXCEPT !.connected = FALSE, !.seen = IF e = Volatile THEN @ ELSE @ \cup {e},
                      !.done = @ \/ IsTerminal(e)]
    BY <1>3 DEF Written, Sent, Connection
  <2>2. e # Volatile => e \in Persisted
    BY DEF Published
  <2>3. IsTerminal(e) \in BOOLEAN /\ (IsTerminal(e) => row # "running")
    BY DEF IsTerminal, Inv, RowInv, TypeOK
  <2>4. (IF e = Volatile THEN c.seen ELSE c.seen \cup {e}) \in SUBSET Persisted
    BY <2>2 DEF Connection
  <2> HIDE DEF d
  <2>5. d \in Connection
    BY <2>1, <2>3, <2>4 DEF Connection
  <2>6. d.queue = c.queue /\ ~d.connected /\ (d.done => row # "running")
    BY <2>1, <2>3 DEF Connection, Sound
  <2>7. Sound(d)
    BY <2>6, SoundOf
  <2> QED BY <2>5, <2>7 DEF d
<1> QED BY <1>1, <1>2, <1>3

\* So does the listener.
LEMMA HeardKeeps ==
  ASSUME Inv, NEW c \in Connection, Sound(c), NEW e \in Published
  PROVE  Heard(c, e) \in Connection /\ Sound(Heard(c, e))
<1>1. CASE ~c.subscribed \/ c.streamDone
  BY <1>1 DEF Heard
<1>2. CASE c.subscribed /\ ~c.streamDone /\ c.replaying
  <2>1. Heard(c, e) = [c EXCEPT !.pending = Append(@, e)]
    BY <1>2 DEF Heard
  <2>2. Heard(c, e) \in Connection
    <3>1. Append(c.pending, e) \in Seq(Published)
      BY DEF Connection
    <3> QED BY <2>1, <3>1 DEF Connection
  <2>3. Sound(Heard(c, e))
    <3>1. LET d == Heard(c, e) IN
            d.queue = c.queue /\ d.connected = c.connected /\ d.streamDone = c.streamDone
            /\ d.seen = c.seen /\ d.done = c.done
      BY <2>1 DEF Connection
    <3> QED BY <3>1, SoundOf DEF Sound
  <2> QED BY <2>2, <2>3
<1>3. CASE c.subscribed /\ ~c.streamDone /\ ~c.replaying
  BY <1>3, WrittenKeeps DEF Heard
<1> QED BY <1>1, <1>2, <1>3

\* A step that changes one connection and leaves the row as it is.
LEMMA OneSlot ==
  ASSUME Inv, NEW k \in Slots, NEW d \in Connection, Sound(d),
         conn' = [conn EXCEPT ![k] = d], row' = row
  PROVE  conn' \in [Slots -> Connection] /\ \A j \in Slots : Sound(conn[j])'
<1>1. conn' \in [Slots -> Connection]
  BY DEF Inv, TypeOK
<1>2. ASSUME NEW j \in Slots PROVE Sound(conn[j])'
  <2>1. conn'[j] = IF j = k THEN d ELSE conn[j]
    BY DEF Inv, TypeOK
  <2> QED BY <2>1 DEF Inv, Sound
<1> QED BY <1>1, <1>2

\* A connection that is new, or none any more, is sound.
LEMMA ClosedIsSound ==
  /\ Closed \in Connection /\ Sound(Closed)
  /\ \A n \in Nat : Opened(n) \in Connection /\ Sound(Opened(n))
<1>1. << >> \in Seq(Persisted) /\ << >> \in Seq(Published) /\ << >> \in Seq(Frames) /\ DOMAIN << >> = {}
  OBVIOUS
<1>2. ASSUME NEW n \in Nat PROVE Opened(n) \in Connection /\ Sound(Opened(n))
  <2>1. Opened(n) \in Connection
    BY <1>1 DEF Opened, Connection, ConnSteps
  <2>2. Opened(n).queue = << >> /\ Opened(n).connected /\ ~Opened(n).streamDone /\ ~Opened(n).done
    BY DEF Opened
  <2> QED BY <1>1, <2>1, <2>2 DEF Sound, Range
<1>3. Closed = [Opened(0) EXCEPT !.at = "closed", !.connected = FALSE, !.streamDone = TRUE]
  BY DEF Closed
<1>4. Closed \in Connection
  <2>1. Opened(0) \in Connection
    BY <1>2
  <2> QED BY <1>3, <2>1 DEF Connection, ConnSteps
<1>5. Closed.queue = << >> /\ ~Closed.connected /\ ~Closed.done
  BY <1>3 DEF Opened
<1>6. Sound(Closed)
  BY <1>1, <1>5 DEF Sound, Range
<1> QED BY <1>2, <1>4, <1>6

\* Nothing has been written yet.
LEMMA InitInv == Init => Inv
<1> SUFFICES ASSUME Init PROVE Inv
  OBVIOUS
<1>1. Closed \in Connection /\ Sound(Closed)
  BY ClosedIsSound
<1>2. TypeOK
  <2>1. 0 \in 0 .. MaxEvents + 1 /\ 0 \in 0 .. MaxVolatile /\ 0 \in 0 .. MaxFaults
    BY BoundAssumption
  <2>2. << >> \in Seq(Persisted)
    OBVIOUS
  <2>3. conn \in [Slots -> Connection] /\ link \in [Slots -> {"up", "down"}]
    BY <1>1 DEF Init
  <2> QED BY <2>1, <2>2, <2>3 DEF Init, TypeOK
<1>3. RowInv
  BY BoundAssumption DEF Init, RowInv
<1>4. \A k \in Slots : Sound(conn[k])
  BY <1>1 DEF Init
<1> QED BY <1>2, <1>3, <1>4 DEF Inv

\* The steps of the thread that pushes.
LEMMA WorkerKeeps ==
  ASSUME Inv, WorkerStep
  PROVE  Inv'
<1> USE DEF Inv
<1>1. CASE SaveEvent
  <2>1. ended' \in BOOLEAN /\ (ended' => row # "running")
    BY <1>1 DEF SaveEvent
  <2>2. stored' \in 1 .. MaxEvents
    BY <1>1, BoundAssumption DEF SaveEvent, TypeOK
  <2>3. TypeOK' /\ RowInv'
    BY <1>1, <2>1, <2>2, BoundAssumption DEF SaveEvent, TypeOK, RowInv, client
  <2>4. \A k \in Slots : Sound(conn[k])'
    BY <1>1 DEF SaveEvent, Sound
  <2> QED BY <2>3, <2>4
<1>2. ASSUME NEW e \in Published, Listening(e), UNCHANGED <<row, stored, ended>>
      PROVE  conn' \in [Slots -> Connection] /\ \A k \in Slots : Sound(conn[k])'
  <2>1. \A k \in Slots : Heard(conn[k], e) \in Connection /\ Sound(Heard(conn[k], e))
    BY HeardKeeps DEF TypeOK
  <2>2. \A k \in Slots : conn'[k] = Heard(conn[k], e)
    BY <1>2 DEF Listening
  <2>3. \A k \in Slots : Sound(conn[k])'
    BY <2>1, <2>2, <1>2 DEF Sound
  <2> QED BY <1>2, <2>1, <2>3 DEF Listening
<1>3. CASE Publish
  <2>1. stored \in Published
    BY <1>3, BoundAssumption DEF Publish, TypeOK, RowInv, Published, Persisted
  <2>2. TypeOK' /\ RowInv'
    BY <1>2, <1>3, <2>1 DEF Publish, TypeOK, RowInv, client
  <2> QED BY <1>2, <1>3, <2>1, <2>2 DEF Publish
<1>4. CASE PublishVolatile
  <2>1. Volatile \in Published
    BY DEF Published
  <2>2. TypeOK' /\ RowInv'
    BY <1>2, <1>4, <2>1, BoundAssumption DEF PublishVolatile, TypeOK, RowInv, client
  <2> QED BY <1>2, <1>4, <2>1, <2>2 DEF PublishVolatile
<1>5. CASE Decide
  <2>1. TypeOK' /\ RowInv'
    BY <1>5 DEF Decide, TypeOK, RowInv, client
  <2>2. \A k \in Slots : Sound(conn[k])'
    BY <1>5 DEF Decide, Sound
  <2> QED BY <2>1, <2>2
<1> QED BY <1>1, <1>3, <1>4, <1>5 DEF WorkerStep

\* A field or two of a connection change; its queue and what it remembers do not.
LEMMA SomeFields ==
  ASSUME Inv, NEW k \in Slots, NEW d \in Connection, Becomes(k, d), Sound(d)
  PROVE  Inv'
<1>1. conn' \in [Slots -> Connection] /\ \A j \in Slots : Sound(conn[j])'
  BY OneSlot DEF Becomes, server
<1>2. TypeOK' /\ RowInv'
  BY <1>1 DEF Inv, TypeOK, RowInv, Becomes, server, client
<1> QED BY <1>1, <1>2 DEF Inv

\* A sorted buffer is a buffer of the same events.
LEMMA SortedBuffer ==
  ASSUME NEW p \in Seq(Published), NEW q \in Sortings(p)
  PROVE  q \in Seq(Published)
<1>1. CASE q = p
  BY <1>1
<1>2. CASE \E f \in [DOMAIN p -> DOMAIN p] : q = [i \in DOMAIN p |-> p[f[i]]]
  <2>1. DOMAIN p = 1 .. Len(p) /\ Len(p) \in Nat /\ \A i \in DOMAIN p : p[i] \in Published
    OBVIOUS
  <2>2. q \in [1 .. Len(p) -> Published]
    BY <1>2, <2>1
  <2> QED BY <2>1, <2>2
<1> QED BY <1>1, <1>2 DEF Sortings

\* The steps of the thread of a connection.
LEMMA ConnKeeps ==
  ASSUME Inv, NEW k \in Slots, ConnStep(k)
  PROVE  Inv'
<1> DEFINE c == conn[k]
<1>1. c \in Connection /\ Sound(c)
  BY DEF Inv, TypeOK
<1>2. CASE Subscribe(k)
  <2> DEFINE d == [c EXCEPT !.subscribed = TRUE, !.at = "query"]
  <2>1. d \in Connection /\ Sound(d)
    BY <1>1, SoundOf DEF Connection, ConnSteps, Sound
  <2> QED BY <1>2, <2>1, SomeFields DEF Subscribe
<1>3. CASE Query(k)
  <2> DEFINE h == [i \in 1 .. stored - c.after |-> c.after + i]
             d == [c EXCEPT !.history = h, !.after = 0, !.at = "replay"]
  <2>1. h \in Seq(Persisted)
    <3>1. CASE stored - c.after \in Nat
      <4>1. h \in [1 .. stored - c.after -> Persisted]
        BY <1>1, <3>1, BoundAssumption DEF Connection, Inv, TypeOK, Persisted
      <4> QED BY <3>1, <4>1
    <3>2. CASE stored - c.after \notin Nat
      <4>1. 1 .. stored - c.after = {}
        BY <1>1, <3>2, BoundAssumption DEF Connection, Inv, TypeOK
      <4>2. 1 .. stored - c.after = 1 .. 0
        BY <4>1
      <4>3. h \in [1 .. 0 -> Persisted]
        BY <4>2
      <4> HIDE DEF h
      <4> QED BY <4>3, SeqDef
    <3> QED BY <3>1, <3>2
  <2> HIDE DEF h
  <2>2. d \in Connection
    BY <1>1, <2>1 DEF Connection, ConnSteps
  <2>3. Sound(d)
    BY <1>1, SoundOf DEF Connection, Sound
  <2> QED BY <1>3, <2>2, <2>3, SomeFields DEF Query, h
<1>4. CASE ReplayOne(k)
  <2> DEFINE e == Head(c.history)
             w == Written(c, e)
             h == IF IsTerminal(e) THEN << >> ELSE Tail(w.history)
             d == [w EXCEPT !.history = h]
  <2>1. e \in Published /\ w.history = c.history
    BY <1>1, <1>4 DEF ReplayOne, Connection, Published, Written, Sent
  <2>2. w \in Connection /\ Sound(w)
    BY <1>1, <2>1, WrittenKeeps
  <2>3. Becomes(k, d)
    BY <1>4 DEF ReplayOne
  <2>4. h \in Seq(Persisted)
    BY <1>4, <2>1, <2>2 DEF ReplayOne, Connection
  <2> HIDE DEF h, w
  <2>5. d \in Connection /\ Sound(d)
    BY <2>2, <2>4, SoundOf DEF Connection, Sound
  <2> QED BY <2>3, <2>5, SomeFields
<1>5. CASE TakePending(k)
  <2>1. CASE c.pending = << >>
    <3> DEFINE d == [c EXCEPT !.replaying = FALSE, !.history = << >>, !.at = "check"]
    <3>1. << >> \in Seq(Persisted)
      OBVIOUS
    <3>2. d \in Connection
      BY <1>1, <3>1 DEF Connection, ConnSteps
    <3>3. Sound(d)
      BY <1>1, SoundOf DEF Connection, Sound
    <3> QED BY <1>5, <2>1, <3>2, <3>3, SomeFields DEF TakePending
  <2>2. CASE c.pending # << >>
    <3>1. PICK p \in Sortings(c.pending) :
            Becomes(k, [c EXCEPT !.batch = p, !.pending = << >>, !.history = << >>, !.at = "drain"])
      BY <1>5, <2>2 DEF TakePending
    <3> DEFINE d == [c EXCEPT !.batch = p, !.pending = << >>, !.history = << >>, !.at = "drain"]
    <3>2. p \in Seq(Published) /\ << >> \in Seq(Published) /\ << >> \in Seq(Persisted)
      BY <1>1, SortedBuffer DEF Connection
    <3>3. d \in Connection
      BY <1>1, <3>2 DEF Connection, ConnSteps
    <3>4. Sound(d)
      BY <1>1, SoundOf DEF Connection, Sound
    <3> QED BY <3>1, <3>3, <3>4, SomeFields
  <2> QED BY <2>1, <2>2
<1>6. CASE DrainOne(k)
  <2> DEFINE e == Head(c.batch)
             w == Written(c, e)
             d == [w EXCEPT !.batch = Tail(@)]
  <2>1. e \in Published /\ c.batch # << >>
    BY <1>1, <1>6 DEF DrainOne, Connection
  <2>2. w \in Connection /\ Sound(w) /\ w.batch = c.batch
    <3>1. w \in Connection /\ Sound(w)
      BY <1>1, <2>1, WrittenKeeps
    <3>2. w.batch = c.batch
      BY <1>1 DEF Written, Sent, Connection
    <3> QED BY <3>1, <3>2
  <2>3. Becomes(k, d)
    BY <1>6 DEF DrainOne
  <2> HIDE DEF w
  <2>4. Tail(w.batch) \in Seq(Published)
    BY <1>1, <2>1, <2>2 DEF Connection
  <2>5. d \in Connection
    BY <2>2, <2>4 DEF Connection
  <2>6. Sound(d)
    BY <2>2, SoundOf DEF Connection, Sound
  <2> QED BY <2>3, <2>5, <2>6, SomeFields
<1>7. CASE CheckInterrupted(k)
  <2> DEFINE b == c.done \/ row = "interrupted"
             d == [c EXCEPT !.done = b, !.at = "wait"]
  <2>1. b \in BOOLEAN /\ (b => row # "running")
    BY <1>1 DEF Connection, Sound
  <2> HIDE DEF b
  <2>2. d \in Connection
    BY <1>1, <2>1 DEF Connection, ConnSteps
  <2>3. Sound(d)
    BY <1>1, <2>1, SoundOf DEF Connection, Sound
  <2> QED BY <1>7, <2>2, <2>3, SomeFields DEF CheckInterrupted, b
<1>8. CASE Poll(k)
  <2> DEFINE d == [c EXCEPT !.done = TRUE]
  <2>1. d \in Connection
    BY <1>1 DEF Connection
  <2>2. Sound(d)
    BY <1>1, <1>8, SoundOf DEF Connection, Sound, Poll
  <2> QED BY <1>8, <2>1, <2>2, SomeFields DEF Poll
<1>9. CASE Finish(k)
  <2>1. CASE c.connected
    <3> DEFINE s == Sent(c, StreamEnd)
               d == [s EXCEPT !.at = "cleanup"]
    <3>1. c.done /\ ~c.streamDone /\ row # "running"
      BY <1>1, <1>9, <2>1 DEF Finish, Sound
    <3>2. StreamEnd \in Frames /\ StreamEnd \notin Persisted
      BY BoundAssumption DEF Frames, StreamEnd, Persisted
    <3>3. s = [c EXCEPT !.queue = Append(@, StreamEnd)]
      BY <2>1, <3>1 DEF Sent
    <3>4. Append(c.queue, StreamEnd) \in Seq(Frames) /\ c.queue \in Seq(Frames)
      BY <1>1, <3>2 DEF Connection
    <3> HIDE DEF s
    <3>5. d \in Connection
      BY <1>1, <3>3, <3>4 DEF Connection, ConnSteps
    <3>6. d.queue = Append(c.queue, StreamEnd) /\ d.connected = c.connected /\ d.streamDone = c.streamDone
          /\ d.seen = c.seen /\ d.done = c.done
      BY <1>1, <3>3 DEF Connection
    <3>7. LET p == Append(c.queue, StreamEnd) IN
            /\ DOMAIN p = 1 .. Len(c.queue) + 1 /\ DOMAIN c.queue = 1 .. Len(c.queue) /\ Len(c.queue) \in Nat
            /\ \A i \in DOMAIN c.queue : p[i] = c.queue[i]
            /\ p[Len(c.queue) + 1] = StreamEnd
            /\ \A i, j \in DOMAIN p : p[i] \in Persisted /\ p[i] = p[j] => i = j
      <4>1. \A i, j \in DOMAIN c.queue : c.queue[i] \in Persisted /\ c.queue[i] = c.queue[j] => i = j
        BY <1>1 DEF Sound
      <4> QED BY <3>2, <3>4, <4>1, AppendedOnce
    <3>8. \A i \in DOMAIN d.queue : d.queue[i] \in Persisted => d.queue[i] \in d.seen
      BY <1>1, <2>1, <3>2, <3>6, <3>7 DEF Sound
    <3>9. Sound(d)
      <4> HIDE DEF d
      <4> QED BY <3>1, <3>6, <3>7, <3>8 DEF Sound
    <3> QED BY <1>9, <2>1, <3>5, <3>9, SomeFields DEF Finish, s
  <2>2. CASE ~c.connected
    <3> DEFINE d == [c EXCEPT !.at = "cleanup"]
    <3>1. d \in Connection
      BY <1>1 DEF Connection, ConnSteps
    <3>2. Sound(d)
      BY <1>1, SoundOf DEF Connection, Sound
    <3> QED BY <1>9, <2>2, <3>1, <3>2, SomeFields DEF Finish
  <2> QED BY <2>1, <2>2
<1>10. CASE Cleanup(k)
  <2> DEFINE d == [c EXCEPT !.connected = FALSE, !.subscribed = FALSE, !.at = "exit",
                            !.seen = {}, !.pending = << >>]
  <2>1. << >> \in Seq(Published) /\ {} \in SUBSET Persisted
    OBVIOUS
  <2>2. d \in Connection
    BY <1>1, <2>1 DEF Connection, ConnSteps
  <2>3. Sound(d)
    BY <1>1, SoundOf DEF Connection, Sound
  <2> QED BY <1>10, <2>2, <2>3, SomeFields DEF Cleanup
<1>11. CASE Exit(k)
  <2> DEFINE d == [Closed EXCEPT !.queue = c.queue]
  <2>1. d \in Connection
    BY <1>1, ClosedIsSound DEF Connection
  <2>2. d.queue = c.queue /\ ~d.connected /\ ~d.done
    BY ClosedIsSound DEF Connection, Closed, Opened
  <2>3. Sound(d)
    BY <1>1, <2>2, SoundOf
  <2> QED BY <1>11, <2>1, <2>3, SomeFields DEF Exit
<1> QED BY <1>2, <1>3, <1>4, <1>5, <1>6, <1>7, <1>8, <1>9, <1>10, <1>11 DEF ConnStep

\* The first frame of a queue leaves it.
LEMMA TailOnce ==
  ASSUME NEW c \in Connection, Sound(c), c.queue # << >>
  PROVE  LET d == [c EXCEPT !.queue = Tail(@)] IN d \in Connection /\ Sound(d)
<1> DEFINE q == Tail(c.queue)
           d == [c EXCEPT !.queue = q]
<1>1. q \in Seq(Frames) /\ DOMAIN c.queue = 1 .. Len(c.queue) /\ Len(c.queue) \in Nat
      /\ DOMAIN q = 1 .. Len(c.queue) - 1 /\ \A i \in DOMAIN q : q[i] = c.queue[i + 1]
  BY DEF Connection
<1> HIDE DEF q
<1>2. d \in Connection
  BY <1>1 DEF Connection
<1>3. d.queue = q /\ d.connected = c.connected /\ d.streamDone = c.streamDone /\ d.seen = c.seen
      /\ d.done = c.done
  BY DEF Connection
<1>4. Range(q) \subseteq Range(c.queue)
  BY <1>1 DEF Range
<1>5. ASSUME NEW i \in DOMAIN q PROVE i + 1 \in DOMAIN c.queue /\ q[i] = c.queue[i + 1]
  BY <1>1
<1>6. ASSUME NEW i \in DOMAIN q, c.connected, q[i] \in Persisted PROVE q[i] \in c.seen
  BY <1>5, <1>6 DEF Sound
<1>7. ASSUME NEW i \in DOMAIN q, NEW j \in DOMAIN q, q[i] \in Persisted, q[i] = q[j] PROVE i = j
  <2>1. i + 1 = j + 1
    BY <1>5, <1>7 DEF Sound
  <2> QED BY <1>1, <2>1
<1> HIDE DEF d
<1>8. Sound(d)
  BY <1>3, <1>4, <1>6, <1>7 DEF Sound
<1> QED BY <1>2, <1>8 DEF d, q

\* The HTTP threads and the browser.
LEMMA ClientKeeps ==
  ASSUME Inv, NEW k \in Slots, HttpStep(k) \/ Break(k) \/ ReadFails(k)
  PROVE  Inv'
<1> DEFINE c == conn[k]
<1>1. c \in Connection /\ Sound(c)
  BY DEF Inv, TypeOK
<1>2. CASE Receive(k)
  <2> DEFINE f == Head(c.queue)
             d == [c EXCEPT !.queue = Tail(@)]
  <2>1. c.queue # << >> /\ conn' = [conn EXCEPT ![k] = d] /\ UNCHANGED <<row, stored, ended, worker, chunks, faults>>
    BY <1>2 DEF Receive, server
  <2>2. d \in Connection /\ Sound(d)
    BY <1>1, <2>1, TailOnce
  <2>3. conn' \in [Slots -> Connection] /\ \A j \in Slots : Sound(conn[j])'
    <3> HIDE DEF d
    <3> QED BY <2>1, <2>2, OneSlot
  <2>4. f \in Frames /\ f \in Range(c.queue)
    BY <1>1, <2>1 DEF Connection, Range
  <2>5. got' \in Seq(Persisted) /\ lastId' \in Persisted \cup {0} /\ told' \in BOOLEAN
        /\ link' \in [Slots -> {"up", "down"}]
    BY <1>2 DEF Receive, Inv, TypeOK
  <2>6. told' => row # "running"
    BY <1>1, <1>2, <2>4 DEF Receive, Sound, Inv, RowInv
  <2>7. TypeOK' /\ RowInv'
    BY <2>1, <2>3, <2>5, <2>6 DEF Inv, TypeOK, RowInv
  <2> QED BY <2>3, <2>7 DEF Inv
<1>3. CASE EndOfStream(k) \/ Break(k)
  <2>1. TypeOK' /\ RowInv'
    BY <1>3, BoundAssumption DEF EndOfStream, Break, Fault, Inv, TypeOK, RowInv, server, client
  <2>2. \A j \in Slots : Sound(conn[j])'
    BY <1>3 DEF EndOfStream, Break, Inv, Sound, server
  <2> QED BY <2>1, <2>2 DEF Inv
<1>4. CASE NoticeBroken(k)
  <2> DEFINE d == Dead(c)
  <2>1. d \in Connection
    <3>1. << >> \in Seq(Published) /\ << >> \in Seq(Persisted) /\ << >> \in Seq(Frames)
      OBVIOUS
    <3> QED BY <1>1, <3>1 DEF Dead, Connection
  <2>2. d.queue = << >> /\ ~d.connected /\ d.done = c.done
    BY <1>1 DEF Dead, Connection
  <2> HIDE DEF d
  <2>3. Sound(d)
    BY <1>1, <2>2 DEF Sound, Range
  <2>4. Becomes(k, d)
    BY <1>4 DEF NoticeBroken, Becomes, d
  <2> QED BY <2>1, <2>3, <2>4, SomeFields
<1>5. CASE ReadFails(k)
  <2> DEFINE d == [c EXCEPT !.at = "cleanup"]
  <2>1. d \in Connection
    BY <1>1 DEF Connection, ConnSteps
  <2>2. Sound(d)
    BY <1>1, SoundOf DEF Connection, Sound
  <2>3. conn' = [conn EXCEPT ![k] = d] /\ row' = row
    BY <1>5 DEF ReadFails, server
  <2>4. conn' \in [Slots -> Connection] /\ \A j \in Slots : Sound(conn[j])'
    BY <2>1, <2>2, <2>3, OneSlot
  <2>5. TypeOK' /\ RowInv'
    BY <1>5, <2>4, BoundAssumption DEF ReadFails, Fault, Inv, TypeOK, RowInv, server, client
  <2> QED BY <2>4, <2>5 DEF Inv
<1> QED BY <1>2, <1>3, <1>4, <1>5 DEF HttpStep

\* What opens a connection, reloads the page or restarts the server.
LEMMA AllSlotsKeep ==
  ASSUME Inv, Open \/ Reload \/ Restart
  PROVE  Inv'
<1>1. CASE Open
  <2>1. Free \in Slots /\ lastId \in Nat
    BY <1>1, BoundAssumption DEF Open, Free, Inv, TypeOK, Persisted
  <2>2. Opened(lastId) \in Connection /\ Sound(Opened(lastId))
    BY <2>1, ClosedIsSound
  <2>3. conn' = [conn EXCEPT ![Free] = Opened(lastId)] /\ row' = row
    BY <1>1 DEF Open, server
  <2>4. conn' \in [Slots -> Connection] /\ \A j \in Slots : Sound(conn[j])'
    BY <2>1, <2>2, <2>3, OneSlot
  <2>5. TypeOK' /\ RowInv'
    BY <1>1, <2>4 DEF Open, Inv, TypeOK, RowInv, server
  <2> QED BY <2>4, <2>5 DEF Inv
<1>2. CASE Reload
  <2>1. << >> \in Seq(Persisted)
    OBVIOUS
  <2>2. TypeOK' /\ RowInv'
    <3>1. link' \in [Slots -> {"up", "down"}] /\ faults' \in 0 .. MaxFaults
      BY <1>2, BoundAssumption DEF Reload, Fault, Inv, TypeOK
    <3>2. told' = FALSE /\ lastId' = 0 /\ got' \in Seq(Persisted) /\ UNCHANGED <<server, conn>>
      BY <1>2, <2>1 DEF Reload
    <3>3. TypeOK'
      BY <3>1, <3>2 DEF Inv, TypeOK, server
    <3> QED BY <3>2, <3>3 DEF Inv, RowInv, server
  <2>3. \A j \in Slots : Sound(conn[j])'
    BY <1>2 DEF Reload, Inv, Sound, server
  <2> QED BY <2>2, <2>3 DEF Inv
<1>3. CASE Restart
  <2>1. stored' \in 0 .. MaxEvents + 1 /\ (row' # "interrupted" => stored' <= MaxEvents)
    BY <1>3, BoundAssumption DEF Restart, Inv, TypeOK, RowInv
  <2>2. row' # "running" /\ row' \in {"decided", "interrupted"} /\ worker' = "gone"
    BY <1>3 DEF Restart, Inv, TypeOK
  <2>3. conn' \in [Slots -> Connection] /\ \A j \in Slots : conn'[j] = Closed
    BY <1>3, ClosedIsSound DEF Restart
  <2>4. TypeOK' /\ RowInv'
    BY <1>3, <2>1, <2>2, <2>3, BoundAssumption DEF Restart, Fault, Inv, TypeOK, RowInv, client
  <2>5. \A j \in Slots : Sound(conn[j])'
    <3>1. Closed.queue = << >> /\ ~Closed.connected
      BY DEF Closed, Opened
    <3> QED BY <2>2, <2>3, <3>1 DEF Sound, Range
  <2> QED BY <2>4, <2>5 DEF Inv
<1> QED BY <1>1, <1>2, <1>3

LEMMA StepInv ==
  ASSUME Inv, [Next]_vars
  PROVE  Inv'
<1>1. CASE UNCHANGED vars
  <2>1. TypeOK' /\ RowInv'
    BY <1>1 DEF Inv, TypeOK, RowInv, vars, server, client
  <2>2. \A j \in Slots : Sound(conn[j])'
    BY <1>1 DEF Inv, Sound, vars, server
  <2> QED BY <2>1, <2>2 DEF Inv
<1> QED BY <1>1, WorkerKeeps, ConnKeeps, ClientKeeps, AllSlotsKeep DEF Next

LEMMA InvHolds == Spec => []Inv
<1>1. QED
  BY InitInv, StepInv, PTL DEF Spec
-----------------------------------------------------------------------------
(***************************************************************************)
(* The order of the persisted events.                                      *)
(***************************************************************************)

\* The parts of a sequence, first and last.
LEMMA Appended ==
  ASSUME NEW T, NEW q \in Seq(T), NEW f \in T
  PROVE  LET p == Append(q, f) IN
         /\ p \in Seq(T) /\ Len(p) = Len(q) + 1
         /\ DOMAIN p = 1 .. Len(q) + 1 /\ DOMAIN q = 1 .. Len(q) /\ Len(q) \in Nat
         /\ \A i \in DOMAIN q : p[i] = q[i]
         /\ p[Len(q) + 1] = f
         /\ Range(p) = Range(q) \cup {f}
<1> DEFINE p == Append(q, f)
<1>1. p \in Seq(T) /\ Len(p) = Len(q) + 1 /\ DOMAIN p = 1 .. Len(q) + 1 /\ Len(q) \in Nat
      /\ DOMAIN q = 1 .. Len(q) /\ (\A i \in DOMAIN q : p[i] = q[i]) /\ p[Len(q) + 1] = f
  OBVIOUS
<1>2. Range(p) = Range(q) \cup {f}
  BY <1>1 DEF Range
<1> QED BY <1>1, <1>2

LEMMA HeadAndTail ==
  ASSUME NEW T, NEW q \in Seq(T), q # << >>
  PROVE  /\ Head(q) \in T /\ Tail(q) \in Seq(T)
         /\ DOMAIN q = 1 .. Len(q) /\ Len(q) \in Nat \ {0} /\ Head(q) = q[1]
         /\ DOMAIN Tail(q) = 1 .. Len(q) - 1
         /\ \A i \in DOMAIN Tail(q) : i + 1 \in DOMAIN q /\ Tail(q)[i] = q[i + 1]
         /\ Range(q) = {Head(q)} \cup Range(Tail(q))
<1> DEFINE t == Tail(q)
<1>1. Head(q) \in T /\ t \in Seq(T) /\ DOMAIN q = 1 .. Len(q) /\ Len(q) \in Nat \ {0}
      /\ Head(q) = q[1] /\ DOMAIN t = 1 .. Len(q) - 1
  OBVIOUS
<1>2. ASSUME NEW i \in DOMAIN t PROVE i + 1 \in DOMAIN q /\ t[i] = q[i + 1]
  BY <1>1
<1> HIDE DEF t
<1>3. Range(q) \subseteq {Head(q)} \cup Range(t)
  <2> SUFFICES ASSUME NEW j \in DOMAIN q, j # 1 PROVE q[j] \in Range(t)
    BY <1>1 DEF Range
  <2>1. j - 1 \in DOMAIN t /\ (j - 1) + 1 = j
    BY <1>1
  <2>2. t[j - 1] = q[j]
    BY <1>2, <2>1
  <2> QED BY <2>1, <2>2 DEF Range
<1>4. {Head(q)} \cup Range(t) \subseteq Range(q)
  BY <1>1, <1>2 DEF Range
<1> QED BY <1>1, <1>2, <1>3, <1>4 DEF t

\* Whoever has more can take in the same.
LEMMA FollowsMore ==
  ASSUME NEW S, NEW T, NEW q, Follows(S, q), S \subseteq T
  PROVE  Follows(T, q)
BY DEF Follows

\* The empty buffer.
LEMMA FollowsEmpty ==
  ASSUME NEW S
  PROVE  Follows(S, << >>)
BY DEF Follows

\* A frame at the end, when all before it is there.
LEMMA FollowsAppend ==
  ASSUME NEW S, NEW q \in Seq(Frames), NEW f \in Frames, Follows(S, q), 1 .. f - 1 \subseteq S \cup Range(q)
  PROVE  Follows(S, Append(q, f))
<1> DEFINE p == Append(q, f)
<1>1. /\ DOMAIN p = 1 .. Len(q) + 1 /\ DOMAIN q = 1 .. Len(q) /\ Len(q) \in Nat
      /\ \A i \in DOMAIN q : p[i] = q[i]
      /\ p[Len(q) + 1] = f
  BY Appended
<1> HIDE DEF p
<1>2. ASSUME NEW i \in DOMAIN p, NEW e \in 1 .. p[i] - 1
      PROVE  e \in S \/ \E j \in 1 .. i - 1 : p[j] = e
  <2>1. CASE i \in DOMAIN q
    <3>1. e \in S \/ \E j \in 1 .. i - 1 : q[j] = e
      BY <1>1, <1>2, <2>1 DEF Follows
    <3>2. \A j \in 1 .. i - 1 : j \in DOMAIN q
      BY <1>1, <2>1
    <3> QED BY <1>1, <3>1, <3>2
  <2>2. CASE i = Len(q) + 1
    <3>1. e \in S \/ \E j \in DOMAIN q : q[j] = e
      BY <1>1, <1>2, <2>2 DEF Range
    <3> QED BY <1>1, <2>2, <3>1
  <2> QED BY <1>1, <2>1, <2>2
<1> QED BY <1>2 DEF Follows, p

\* Whoever can take in a buffer can take its first frame,
LEMMA FollowsHead ==
  ASSUME NEW S, NEW q \in Seq(Frames), q # << >>, Follows(S, q)
  PROVE  1 .. Head(q) - 1 \subseteq S
<1>1. 1 \in DOMAIN q /\ Head(q) = q[1] /\ 1 .. 1 - 1 = {}
  BY HeadAndTail
<1> QED BY <1>1 DEF Follows

\* and then the others.
LEMMA FollowsTail ==
  ASSUME NEW S, NEW T, NEW q \in Seq(Frames), q # << >>, Follows(S, q), S \subseteq T,
         Head(q) \in Persisted => Head(q) \in T
  PROVE  Follows(T, Tail(q))
<1> DEFINE t == Tail(q)
<1>1. /\ DOMAIN q = 1 .. Len(q) /\ Len(q) \in Nat \ {0} /\ Head(q) = q[1] /\ Head(q) \in Frames
      /\ DOMAIN t = 1 .. Len(q) - 1
      /\ \A i \in DOMAIN t : i + 1 \in DOMAIN q /\ t[i] = q[i + 1]
  BY HeadAndTail
<1> HIDE DEF t
<1>2. ASSUME NEW i \in DOMAIN t, NEW e \in 1 .. t[i] - 1
      PROVE  e \in T \/ \E j \in 1 .. i - 1 : t[j] = e
  <2>1. i + 1 \in DOMAIN q /\ t[i] = q[i + 1]
    BY <1>1
  <2>2. e \in S \/ \E j \in 1 .. (i + 1) - 1 : q[j] = e
    BY <1>2, <2>1 DEF Follows
  <2>3. CASE e \in S
    BY <2>3
  <2>4. CASE q[1] = e
    <3>1. e \in Persisted
      BY <1>1, <2>4, <1>2 DEF Frames, Volatile, StreamEnd
    <3> QED BY <1>1, <2>4, <3>1
  <2>5. ASSUME NEW j \in 2 .. i, q[j] = e PROVE \E l \in 1 .. i - 1 : t[l] = e
    <3>1. j - 1 \in 1 .. i - 1 /\ j - 1 \in DOMAIN t /\ (j - 1) + 1 = j
      BY <1>1, <2>5
    <3>2. t[j - 1] = e
      BY <1>1, <2>5, <3>1
    <3> QED BY <3>1, <3>2
  <2> QED BY <1>1, <2>2, <2>3, <2>4, <2>5
<1> QED BY <1>2 DEF Follows, t

\* The rows of a query continue the page that asked for what is after its last event.
LEMMA FollowsQuery ==
  ASSUME NEW a \in Nat, NEW g \in Nat, NEW s \in Nat, a <= g
  PROVE  LET h == [i \in 1 .. s - a |-> a + i] IN
           Follows(1 .. g, h) /\ 1 .. s \subseteq 1 .. g \cup Range(h)
<1> DEFINE h == [i \in 1 .. s - a |-> a + i]
<1>1. ASSUME NEW i \in DOMAIN h, NEW e \in 1 .. h[i] - 1
      PROVE  e \in 1 .. g \/ \E j \in 1 .. i - 1 : h[j] = e
  <2>1. h[i] = a + i /\ i \in 1 .. s - a
    OBVIOUS
  <2>2. e \in Int
    BY <2>1
  <2>3. CASE e <= a
    BY <1>1, <2>1, <2>3
  <2>4. CASE e > a
    <3>1. e - a \in 1 .. i - 1 /\ e - a \in 1 .. s - a
        BY <1>1, <2>1, <2>4
    <3>2. h[e - a] = e
      BY <3>1
    <3> QED BY <3>1, <3>2
  <2> QED BY <2>1, <2>2, <2>3, <1>1
<1>2. ASSUME NEW e \in 1 .. s PROVE e \in 1 .. g \cup Range(h)
  <2>1. CASE e <= a
    BY <2>1
  <2>2. CASE e > a
    <3>1. e - a \in DOMAIN h /\ h[e - a] = e
      BY <2>2
    <3> QED BY <3>1 DEF Range
  <2> QED BY <2>1, <2>2
<1> QED BY <1>1, <1>2 DEF Follows

\* Writing an event that a connection can take in now.
LEMMA WrittenOrdered ==
  ASSUME Inv, NEW c \in Connection, Sound(c), NEW e \in Published, NEW g \in Nat,
         Follows(1 .. g, c.queue),
         c.connected => c.seen \subseteq Known(c, g) /\ 1 .. e - 1 \subseteq Known(c, g)
  PROVE  LET d == Written(c, e) IN
         /\ d.at = c.at /\ d.after = c.after /\ d.history = c.history /\ d.pending = c.pending
         /\ d.batch = c.batch /\ d.replaying = c.replaying /\ d.subscribed = c.subscribed
         /\ d.connected = c.connected
         /\ Follows(1 .. g, d.queue)
         /\ Known(c, g) \subseteq Known(d, g)
         /\ c.connected => d.seen \subseteq Known(d, g)
         /\ c.connected /\ e \in Persisted => e \in Known(d, g)
<1> DEFINE d == Written(c, e)
<1>0. e \in Frames /\ c.queue \in Seq(Frames) /\ (e # Volatile => e \in Persisted)
  BY DEF Frames, Published, Connection
<1>1. CASE e \in c.seen
  BY <1>1 DEF Written
<1>2. CASE e \notin c.seen /\ c.connected
  <2>1. ~c.streamDone
    BY <1>2 DEF Sound
  <2>2. d = [c EXCEPT !.queue = Append(@, e), !.seen = IF e = Volatile THEN @ ELSE @ \cup {e},
                      !.done = @ \/ IsTerminal(e)]
    BY <1>2, <2>1 DEF Written, Sent, Connection
  <2> HIDE DEF d
  <2>3. d.at = c.at /\ d.after = c.after /\ d.history = c.history /\ d.pending = c.pending
         /\ d.batch = c.batch /\ d.replaying = c.replaying /\ d.subscribed = c.subscribed
         /\ d.connected = c.connected /\ d.queue = Append(c.queue, e)
         /\ d.seen = (IF e = Volatile THEN c.seen ELSE c.seen \cup {e})
    BY <2>2 DEF Connection
  <2>4. Range(d.queue) = Range(c.queue) \cup {e}
    BY <1>0, <2>3, Appended
  <2>5. Known(d, g) = Known(c, g) \cup ({e} \cap Persisted)
    BY <2>4 DEF Known
  <2>6. Follows(1 .. g, d.queue)
    <3>1. 1 .. e - 1 \subseteq 1 .. g \cup Range(c.queue)
      BY <1>2 DEF Known
    <3> QED BY <1>0, <2>3, <3>1, FollowsAppend
  <2> QED BY <1>0, <1>2, <2>3, <2>5, <2>6 DEF d
<1>3. CASE e \notin c.seen /\ ~c.connected
  <2>1. d = [c EXCEPT !.connected = FALSE, !.seen = IF e = Volatile THEN @ ELSE @ \cup {e},
                      !.done = @ \/ IsTerminal(e)]
    BY <1>3 DEF Written, Sent, Connection
  <2> HIDE DEF d
  <2>2. d.at = c.at /\ d.after = c.after /\ d.history = c.history /\ d.pending = c.pending
         /\ d.batch = c.batch /\ d.replaying = c.replaying /\ d.subscribed = c.subscribed
         /\ d.connected = c.connected /\ d.queue = c.queue
    BY <1>3, <2>1 DEF Connection
  <2> QED BY <1>3, <2>2 DEF Known, d
<1> QED BY <1>1, <1>2, <1>3
\* A step of one connection; the page, the events and the links stay as they are.
LEMMA OneOrdered ==
  ASSUME Inv, OrderInv, NEW k \in Slots, NEW d, Becomes(k, d),
         link[k] = "up" => Ordered(d, Len(got), stored, Announced)
  PROVE  OrderInv'
<1>1. \A j \in Slots : conn'[j] = IF j = k THEN d ELSE conn[j]
  BY DEF Becomes, Inv, TypeOK
<1>2. UNCHANGED <<got, lastId, stored, link>> /\ Announced' = Announced
  BY DEF Becomes, server, client, Announced
<1>3. \A j \in Slots : link'[j] = "up" => Ordered(conn'[j], Len(got'), stored', Announced')
  BY <1>1, <1>2 DEF OrderInv
<1> QED BY <1>2, <1>3 DEF OrderInv, PersistedInOrder

\* What else a step changes of a connection is not about order.
LEMMA OrderedOf ==
  ASSUME NEW c, NEW d, NEW g, NEW s, NEW n, Ordered(c, g, s, n),
         d.queue = c.queue,
         d.connected => c.connected /\ d.seen = c.seen /\ d.pending = c.pending /\ d.subscribed = c.subscribed
                        /\ d.replaying = c.replaying /\ c.at # "subscribe",
         d.at \notin {"subscribe", "query", "replay", "drain"}
  PROVE  Ordered(d, g, s, n)
BY DEF Ordered, Known

\* The thread of a connection.
LEMMA ConnOrdered ==
  ASSUME Inv, OrderInv, SmallBuffers, NEW k \in Slots, ConnStep(k)
  PROVE  OrderInv'
<1> DEFINE c == conn[k]
           g == Len(got)
           n == Announced
<1>1. c \in Connection /\ Sound(c) /\ g \in Nat /\ stored \in Nat /\ n <= stored /\ n \in Int
  BY BoundAssumption DEF Inv, TypeOK, Announced
<1>2. c.history \in Seq(Persisted) /\ c.history \in Seq(Frames) /\ c.batch \in Seq(Published)
      /\ c.batch \in Seq(Frames) /\ c.pending \in Seq(Published) /\ c.queue \in Seq(Frames)
  <2>1. Persisted \subseteq Frames /\ Published \subseteq Frames
    BY DEF Frames, Published
  <2> QED BY <1>1, <2>1, SeqMonotonic DEF Connection
<1>3. link[k] = "up" => Ordered(c, g, stored, n)
  BY DEF OrderInv
<1>4. CASE Subscribe(k)
  <2> DEFINE d == [c EXCEPT !.subscribed = TRUE, !.at = "query"]
  <2>1. Becomes(k, d) /\ c.at = "subscribe"
    BY <1>4 DEF Subscribe, At
  <2>2. d.queue = c.queue /\ d.after = c.after /\ d.history = c.history /\ d.batch = c.batch /\ d.seen = c.seen
        /\ d.pending = c.pending /\ d.replaying = c.replaying /\ d.connected = c.connected
        /\ d.subscribed /\ d.at = "query"
    BY <1>1 DEF Connection
  <2> HIDE DEF d
  <2>3. ASSUME Ordered(c, g, stored, n) PROVE Ordered(d, g, stored, n)
    BY <2>1, <2>2, <2>3 DEF Ordered, Known
  <2> QED BY <1>3, <2>1, <2>3, OneOrdered
<1>5. CASE Query(k)
  <2> DEFINE h == [i \in 1 .. stored - c.after |-> c.after + i]
             d == [c EXCEPT !.history = h, !.after = 0, !.at = "replay"]
  <2>1. Becomes(k, d) /\ c.at = "query" /\ c.after \in Nat
    BY <1>1, <1>5 DEF Query, At, Connection
  <2>2. c.after <= g => Follows(1 .. g, h) /\ 1 .. stored \subseteq 1 .. g \cup Range(h)
    BY <1>1, <2>1, FollowsQuery
  <2> HIDE DEF h
  <2>3. d.queue = c.queue /\ d.history = h /\ d.batch = c.batch /\ d.seen = c.seen
        /\ d.pending = c.pending /\ d.replaying = c.replaying /\ d.connected = c.connected
        /\ d.subscribed = c.subscribed /\ d.at = "replay"
    BY <1>1 DEF Connection
  <2> HIDE DEF d
  <2>4. ASSUME Ordered(c, g, stored, n) PROVE Ordered(d, g, stored, n)
    <3>1. Known(d, g) = Known(c, g) /\ 1 .. g \subseteq Known(c, g)
      BY <2>3 DEF Known
    <3>2. c.after <= g /\ c.replaying /\ c.batch = << >>
      BY <2>1, <2>4 DEF Ordered
    <3>3. Follows(Known(c, g), h) /\ 1 .. stored \subseteq Known(c, g) \cup Range(h)
      BY <2>2, <3>1, <3>2, FollowsMore
    <3>4. ASSUME c.connected
          PROVE  Follows(Known(c, g) \cup Range(h) \cup Range(c.batch), c.pending)
      <4>1. ASSUME NEW i \in DOMAIN c.pending, NEW e \in 1 .. c.pending[i] - 1 PROVE e \in 1 .. stored
        <5>1. c.pending[i] <= stored /\ c.pending[i] \in Int
          BY <1>2, <2>4, <3>4 DEF Ordered, Published, Persisted, Volatile
        <5> QED BY <1>1, <5>1
      <4> QED BY <3>3, <4>1 DEF Follows
    <3>5. 1 .. n \subseteq 1 .. stored
      BY <1>1
    <3>6. Follows(Known(c, g), c.batch)
      BY <3>2, FollowsEmpty
    <3> QED BY <2>1, <2>3, <2>4, <3>1, <3>2, <3>3, <3>4, <3>5, <3>6 DEF Ordered
  <2> QED BY <1>3, <2>1, <2>4, OneOrdered
<1>6. CASE ReplayOne(k)
  <2> DEFINE e == Head(c.history)
             w == Written(c, e)
             h == IF IsTerminal(e) THEN << >> ELSE Tail(w.history)
             d == [w EXCEPT !.history = h]
  <2>1. c.at = "replay" /\ c.connected /\ c.history # << >> /\ Becomes(k, d)
    BY <1>6 DEF ReplayOne, At
  <2>2. e \in Persisted /\ e \in Published
    BY <1>2, <2>1 DEF Published
  <2>3. w \in Connection
    BY <1>1, <2>2, WrittenKeeps
  <2>4. ASSUME Ordered(c, g, stored, n) PROVE Ordered(d, g, stored, n)
    <3>1. Follows(1 .. g, c.queue) /\ c.seen \subseteq Known(c, g) /\ c.subscribed /\ c.replaying /\ c.batch = << >>
          /\ (\A i \in DOMAIN c.pending : c.pending[i] <= stored)
          /\ Follows(Known(c, g), c.history)
          /\ Follows(Known(c, g) \cup Range(c.history) \cup Range(c.batch), c.pending)
          /\ 1 .. n \subseteq Known(c, g) \cup Range(c.history) \cup Range(c.batch) \cup Range(c.pending)
      BY <2>1, <2>4 DEF Ordered
    <3>2. 1 .. e - 1 \subseteq Known(c, g)
      BY <1>2, <2>1, <3>1, FollowsHead
    <3>3. w.at = c.at /\ w.history = c.history /\ w.pending = c.pending /\ w.batch = c.batch
          /\ w.replaying = c.replaying /\ w.subscribed = c.subscribed /\ w.connected = c.connected
          /\ Follows(1 .. g, w.queue) /\ Known(c, g) \subseteq Known(w, g) /\ w.seen \subseteq Known(w, g)
          /\ e \in Known(w, g)
      <4> HIDE DEF e, w
      <4>1. w = Written(c, e)
        BY DEF w
      <4> QED BY <1>1, <2>1, <2>2, <3>1, <3>2, <4>1, WrittenOrdered
    <3> HIDE DEF w
    <3>4. Follows(Known(w, g), Tail(c.history)) /\ Range(c.history) = {e} \cup Range(Tail(c.history))
      <4>1. Follows(Known(w, g), Tail(c.history))
        BY <1>2, <2>1, <3>1, <3>3, FollowsTail
      <4> QED BY <1>2, <2>1, <4>1, HeadAndTail
    <3>5. Follows(Known(w, g), h)
      BY <3>3, <3>4, FollowsEmpty
    <3>6. /\ Follows(Known(w, g) \cup Range(h) \cup Range(c.batch), c.pending)
          /\ 1 .. n \subseteq Known(w, g) \cup Range(h) \cup Range(c.batch) \cup Range(c.pending)
      <4>1. CASE IsTerminal(e)
        <5>1. e = stored
          BY <4>1 DEF IsTerminal
        <5>2. 1 .. stored \subseteq Known(w, g)
          BY <1>1, <3>2, <3>3, <5>1
        <5>3. ASSUME NEW i \in DOMAIN c.pending, NEW x \in 1 .. c.pending[i] - 1 PROVE x \in 1 .. stored
          <6>1. c.pending[i] <= stored /\ c.pending[i] \in Int
            BY <1>2, <3>1 DEF Published, Persisted, Volatile
          <6> QED BY <1>1, <6>1
        <5>4. Follows(Known(w, g) \cup Range(h) \cup Range(c.batch), c.pending)
          BY <5>2, <5>3 DEF Follows
        <5>5. 1 .. n \subseteq 1 .. stored
          BY <1>1
        <5> QED BY <5>2, <5>4, <5>5
      <4>2. CASE ~IsTerminal(e)
        <5>1. h = Tail(c.history)
          BY <3>3, <4>2
        <5>2. Known(c, g) \cup Range(c.history) \cup Range(c.batch)
              \subseteq Known(w, g) \cup Range(h) \cup Range(c.batch)
          BY <3>3, <3>4, <5>1
        <5> QED BY <3>1, <5>2, FollowsMore
      <4> QED BY <4>1, <4>2
    <3> HIDE DEF h
    <3>7. d.queue = w.queue /\ d.history = h /\ d.batch = << >> /\ d.seen = w.seen
          /\ d.pending = c.pending /\ d.replaying /\ d.connected
          /\ d.subscribed /\ d.at = "replay"
      BY <2>1, <2>3, <3>1, <3>3 DEF Connection
    <3>8. Known(d, g) = Known(w, g)
      BY <3>7 DEF Known
    <3>9. Follows(Known(w, g), << >>)
      BY FollowsEmpty
    <3> HIDE DEF d
    <3> QED BY <3>1, <3>3, <3>5, <3>6, <3>7, <3>8, <3>9 DEF Ordered
  <2> QED BY <1>3, <2>1, <2>4, OneOrdered
<1>7. CASE TakePending(k)
  <2>1. \/ c.at = "replay" /\ (c.connected => c.history = << >>)
        \/ c.at = "drain" /\ c.batch = << >>
    <3>1. ReplayDone(k) \/ BatchDone(k)
      BY <1>7 DEF TakePending
    <3>2. ReplayDone(k) => c.at = "replay" /\ (c.connected => c.history = << >>)
      BY Zenon DEF ReplayDone, At
    <3>3. BatchDone(k) => c.at = "drain" /\ c.batch = << >>
      BY DEF BatchDone, At
    <3> QED BY <3>1, <3>2, <3>3
  <2>2. ASSUME Ordered(c, g, stored, n), c.connected
        PROVE  /\ Follows(Known(c, g), c.pending)
               /\ 1 .. n \subseteq Known(c, g) \cup Range(c.pending)
               /\ c.subscribed /\ c.replaying
    <3>1. c.history = << >> /\ c.batch = << >>
      BY <2>1, <2>2 DEF Ordered
    <3>2. Range(<< >>) = {}
      BY DEF Range
    <3>3. Known(c, g) \cup Range(c.history) \cup Range(c.batch) = Known(c, g)
      BY <3>1, <3>2
    <3>4. /\ Follows(Known(c, g) \cup Range(c.history) \cup Range(c.batch), c.pending)
          /\ 1 .. n \subseteq Known(c, g) \cup Range(c.history) \cup Range(c.batch) \cup Range(c.pending)
          /\ c.subscribed /\ c.replaying
      BY <2>1, <2>2 DEF Ordered
    <3> QED BY <3>3, <3>4
  <2>3. CASE c.pending = << >>
    <3> DEFINE d == [c EXCEPT !.replaying = FALSE, !.history = << >>, !.at = "check"]
    <3>1. Becomes(k, d)
      BY <1>7, <2>3 DEF TakePending
    <3>2. d.queue = c.queue /\ d.seen = c.seen /\ d.pending = c.pending /\ d.connected = c.connected
          /\ d.subscribed = c.subscribed /\ d.at = "check"
      BY <1>1 DEF Connection
    <3> HIDE DEF d
    <3>3. Range(<< >>) = {}
      BY DEF Range
    <3>4. ASSUME Ordered(c, g, stored, n) PROVE Ordered(d, g, stored, n)
      <4>1. c.connected => 1 .. n \subseteq Known(c, g)
        BY <2>2, <2>3, <3>3, <3>4
      <4> QED BY <2>1, <3>2, <3>4, <4>1 DEF Ordered, Known
    <3> QED BY <1>3, <3>1, <3>4, OneOrdered
  <2>4. CASE c.pending # << >>
    <3> DEFINE d == [c EXCEPT !.batch = c.pending, !.pending = << >>, !.history = << >>, !.at = "drain"]
    <3>1. Sortings(c.pending) = {c.pending}
      BY DEF SmallBuffers, Sortings
    <3>2. Becomes(k, d)
      BY <1>7, <2>4, <3>1 DEF TakePending
    <3>3. d.queue = c.queue /\ d.seen = c.seen /\ d.batch = c.pending /\ d.pending = << >> /\ d.history = << >>
          /\ d.connected = c.connected /\ d.replaying = c.replaying
          /\ d.subscribed = c.subscribed /\ d.at = "drain"
      BY <1>1 DEF Connection
    <3> HIDE DEF d
    <3>4. Known(d, g) = Known(c, g)
      BY <3>3 DEF Known
    <3>5. Follows(Known(c, g), << >>) /\ Follows(Known(c, g) \cup Range(<< >>) \cup Range(c.pending), << >>)
          /\ DOMAIN << >> = {}
      BY FollowsEmpty
    <3>6. ASSUME Ordered(c, g, stored, n) PROVE Ordered(d, g, stored, n)
      <4>1. Follows(1 .. g, c.queue) /\ (c.connected => c.seen \subseteq Known(c, g))
        BY <3>6 DEF Ordered
      <4> QED BY <2>2, <3>3, <3>4, <3>5, <3>6, <4>1 DEF Ordered
    <3> QED BY <1>3, <3>2, <3>6, OneOrdered
  <2> QED BY <2>3, <2>4
<1>8. CASE DrainOne(k)
  <2> DEFINE e == Head(c.batch)
             w == Written(c, e)
             d == [w EXCEPT !.batch = Tail(@)]
  <2>1. c.at = "drain" /\ c.batch # << >> /\ Becomes(k, d)
    BY <1>8 DEF DrainOne, At
  <2>2. e \in Published
    BY <1>2, <2>1
  <2>3. w \in Connection
    BY <1>1, <2>2, WrittenKeeps
  <2>4. ASSUME Ordered(c, g, stored, n) PROVE Ordered(d, g, stored, n)
    <3>1. Follows(1 .. g, c.queue) /\ c.history = << >>
      BY <2>1, <2>4 DEF Ordered
    <3>2. ASSUME c.connected
          PROVE  /\ c.seen \subseteq Known(c, g) /\ c.subscribed /\ c.replaying
                 /\ \A i \in DOMAIN c.pending : c.pending[i] <= stored
                 /\ Follows(Known(c, g), c.batch)
                 /\ Follows(Known(c, g) \cup Range(c.history) \cup Range(c.batch), c.pending)
                 /\ 1 .. n \subseteq Known(c, g) \cup Range(c.history) \cup Range(c.batch) \cup Range(c.pending)
      BY <2>1, <2>4, <3>2 DEF Ordered
    <3>3. c.connected => 1 .. e - 1 \subseteq Known(c, g)
      BY <1>2, <2>1, <3>2, FollowsHead
    <3>4. w.at = c.at /\ w.history = c.history /\ w.pending = c.pending /\ w.batch = c.batch
          /\ w.replaying = c.replaying /\ w.subscribed = c.subscribed /\ w.connected = c.connected
          /\ Follows(1 .. g, w.queue) /\ Known(c, g) \subseteq Known(w, g)
          /\ (c.connected => w.seen \subseteq Known(w, g))
          /\ (c.connected /\ e \in Persisted => e \in Known(w, g))
      <4> HIDE DEF e, w
      <4>1. w = Written(c, e)
        BY DEF w
      <4> QED BY <1>1, <2>2, <3>1, <3>2, <3>3, <4>1, WrittenOrdered
    <3> HIDE DEF w
    <3>5. d.queue = w.queue /\ d.history = << >> /\ d.batch = Tail(c.batch) /\ d.seen = w.seen
          /\ d.pending = c.pending /\ d.replaying = c.replaying /\ d.connected = c.connected
          /\ d.subscribed = c.subscribed /\ d.at = "drain"
      BY <2>1, <2>3, <3>1, <3>4 DEF Connection
    <3>6. Known(d, g) = Known(w, g)
      BY <3>5 DEF Known
    <3> HIDE DEF d
    <3>7. Range(c.batch) = {e} \cup Range(Tail(c.batch))
      BY <1>2, <2>1, HeadAndTail
    <3>8. ASSUME c.connected
          PROVE  /\ Follows(Known(w, g), Tail(c.batch))
                 /\ Follows(Known(w, g), << >>)
                 /\ Follows(Known(w, g) \cup Range(<< >>) \cup Range(Tail(c.batch)), c.pending)
                 /\ 1 .. n \subseteq Known(w, g) \cup Range(<< >>) \cup Range(Tail(c.batch)) \cup Range(c.pending)
      <4>1. Follows(Known(w, g), Tail(c.batch))
        BY <1>2, <2>1, <3>2, <3>4, <3>8, FollowsTail
      <4>2. ASSUME NEW x \in Nat \ {0}, x \in Known(c, g) \cup Range(c.history) \cup Range(c.batch)
            PROVE  x \in Known(w, g) \cup Range(<< >>) \cup Range(Tail(c.batch))
        BY <2>2, <3>1, <3>4, <3>7, <3>8, <4>2 DEF Published, Volatile
      <4>3. Follows(Known(w, g) \cup Range(<< >>) \cup Range(Tail(c.batch)), c.pending)
        <5>1. ASSUME NEW i \in DOMAIN c.pending, NEW x \in 1 .. c.pending[i] - 1 PROVE x \in Nat \ {0}
          OBVIOUS
        <5> QED BY <3>2, <3>8, <4>2, <5>1 DEF Follows
      <4>4. 1 .. n \subseteq Nat \ {0}
        OBVIOUS
      <4>5. 1 .. n \subseteq Known(w, g) \cup Range(<< >>) \cup Range(Tail(c.batch)) \cup Range(c.pending)
        BY <3>2, <3>8, <4>2, <4>4
      <4> QED BY <4>1, <4>3, <4>5, FollowsEmpty
    <3> QED BY <3>2, <3>4, <3>5, <3>6, <3>8 DEF Ordered
  <2> QED BY <1>3, <2>1, <2>4, OneOrdered
<1>9. CASE CheckInterrupted(k)
  <2> DEFINE d == [c EXCEPT !.done = @ \/ row = "interrupted", !.at = "wait"]
  <2>1. Becomes(k, d) /\ c.at = "check"
    BY <1>9 DEF CheckInterrupted, At
  <2>2. d.queue = c.queue /\ d.seen = c.seen /\ d.pending = c.pending /\ d.replaying = c.replaying
        /\ d.connected = c.connected /\ d.subscribed = c.subscribed /\ d.at = "wait"
    BY <1>1 DEF Connection
  <2> HIDE DEF d
  <2>3. ASSUME Ordered(c, g, stored, n) PROVE Ordered(d, g, stored, n)
    BY <2>1, <2>2, <2>3, OrderedOf
  <2> QED BY <1>3, <2>1, <2>3, OneOrdered
<1>10. CASE Poll(k)
  <2> DEFINE d == [c EXCEPT !.done = TRUE]
  <2>1. Becomes(k, d) /\ c.at = "wait"
    BY <1>10 DEF Poll, At
  <2>2. d.queue = c.queue /\ d.seen = c.seen /\ d.pending = c.pending /\ d.replaying = c.replaying
        /\ d.connected = c.connected /\ d.subscribed = c.subscribed /\ d.at = "wait"
    BY <1>1, <2>1 DEF Connection
  <2> HIDE DEF d
  <2>3. ASSUME Ordered(c, g, stored, n) PROVE Ordered(d, g, stored, n)
    BY <2>1, <2>2, <2>3, OrderedOf
  <2> QED BY <1>3, <2>1, <2>3, OneOrdered
<1>11. CASE Finish(k)
  <2>1. c.at = "wait"
    BY <1>11 DEF Finish, At
  <2>2. CASE c.connected
    <3> DEFINE s == Sent(c, StreamEnd)
               d == [s EXCEPT !.at = "cleanup"]
    <3>1. Becomes(k, d)
      BY <1>11, <2>2 DEF Finish
    <3>2. StreamEnd \in Frames /\ 1 .. StreamEnd - 1 = {}
      BY DEF Frames, StreamEnd
    <3>3. s = [c EXCEPT !.queue = Append(@, StreamEnd)]
      BY <1>1, <2>2 DEF Sent, Sound
    <3> HIDE DEF s
    <3>4. d.queue = Append(c.queue, StreamEnd) /\ d.seen = c.seen /\ d.pending = c.pending
          /\ d.replaying = c.replaying /\ d.connected = c.connected /\ d.subscribed = c.subscribed
          /\ d.at = "cleanup"
      BY <1>1, <3>3 DEF Connection
    <3> HIDE DEF d
    <3>5. Range(d.queue) = Range(c.queue) \cup {StreamEnd}
      BY <1>2, <3>2, <3>4, Appended
    <3>6. Known(c, g) \subseteq Known(d, g)
      BY <3>5 DEF Known
    <3>7. ASSUME Ordered(c, g, stored, n) PROVE Ordered(d, g, stored, n)
      <4>1. Follows(1 .. g, d.queue)
        <5>1. Follows(1 .. g, c.queue)
          BY <3>7 DEF Ordered
        <5> QED BY <1>2, <3>2, <3>4, <5>1, FollowsAppend
      <4>2. c.seen \subseteq Known(c, g) /\ c.subscribed /\ (\A i \in DOMAIN c.pending : c.pending[i] <= stored)
            /\ (~c.replaying => 1 .. n \subseteq Known(c, g))
        BY <2>1, <2>2, <3>7 DEF Ordered
      <4> QED BY <3>4, <3>6, <4>1, <4>2 DEF Ordered
    <3> QED BY <1>3, <3>1, <3>7, OneOrdered
  <2>3. CASE ~c.connected
    <3> DEFINE d == [c EXCEPT !.at = "cleanup"]
    <3>1. Becomes(k, d)
      BY <1>11, <2>3 DEF Finish
    <3>2. d.queue = c.queue /\ ~d.connected /\ d.at = "cleanup"
      BY <1>1, <2>3 DEF Connection
    <3> HIDE DEF d
    <3>3. ASSUME Ordered(c, g, stored, n) PROVE Ordered(d, g, stored, n)
      BY <3>2, <3>3, OrderedOf
    <3> QED BY <1>3, <3>1, <3>3, OneOrdered
  <2> QED BY <2>2, <2>3
<1>12. CASE Cleanup(k)
  <2> DEFINE d == [c EXCEPT !.connected = FALSE, !.subscribed = FALSE, !.at = "exit",
                            !.seen = {}, !.pending = << >>]
  <2>1. Becomes(k, d)
    BY <1>12 DEF Cleanup
  <2>2. d.queue = c.queue /\ ~d.connected /\ d.at = "exit"
    BY <1>1 DEF Connection
  <2> HIDE DEF d
  <2>3. ASSUME Ordered(c, g, stored, n) PROVE Ordered(d, g, stored, n)
    BY <2>2, <2>3, OrderedOf
  <2> QED BY <1>3, <2>1, <2>3, OneOrdered
<1>13. CASE Exit(k)
  <2> DEFINE d == [Closed EXCEPT !.queue = c.queue]
  <2>1. Becomes(k, d)
    BY <1>13 DEF Exit
  <2>2. d.queue = c.queue /\ ~d.connected /\ d.at = "closed"
    BY DEF Closed, Opened
  <2> HIDE DEF d
  <2>3. ASSUME Ordered(c, g, stored, n) PROVE Ordered(d, g, stored, n)
    BY <2>2, <2>3, OrderedOf
  <2> QED BY <1>3, <2>1, <2>3, OneOrdered
<1> QED BY <1>4, <1>5, <1>6, <1>7, <1>8, <1>9, <1>10, <1>11, <1>12, <1>13 DEF ConnStep
\* The listener: the event that is published next goes where the connection takes it in.
LEMMA HeardOrdered ==
  ASSUME Inv, NEW c \in Connection, Sound(c), NEW e \in Published, e <= stored,
         NEW g \in Nat, NEW n \in Int, NEW m \in Int, Ordered(c, g, stored, n),
         1 .. e - 1 \subseteq 1 .. n, 1 .. m \subseteq 1 .. n \cup ({e} \cap Persisted)
  PROVE  Ordered(Heard(c, e), g, stored, m)
<1> DEFINE d == Heard(c, e)
<1>1. c.pending \in Seq(Published) /\ c.pending \in Seq(Frames) /\ e \in Frames
  <2>1. Published \subseteq Frames
    BY DEF Frames, Published
  <2> QED BY <2>1, SeqMonotonic DEF Connection
<1>2. CASE ~c.subscribed \/ c.streamDone
  <2>1. d = c
    BY <1>2 DEF Heard
  <2>2. c.connected => c.at = "subscribe" /\ c.replaying
    BY <1>2 DEF Ordered, Sound
  <2> QED BY <2>1, <2>2 DEF Ordered
<1>3. CASE c.subscribed /\ ~c.streamDone /\ c.replaying
  <2>1. d = [c EXCEPT !.pending = Append(@, e)]
    BY <1>3 DEF Heard
  <2> HIDE DEF d
  <2>2. d.at = c.at /\ d.after = c.after /\ d.history = c.history /\ d.batch = c.batch /\ d.seen = c.seen
        /\ d.queue = c.queue /\ d.replaying = c.replaying /\ d.connected = c.connected
        /\ d.subscribed = c.subscribed /\ d.pending = Append(c.pending, e)
    BY <2>1 DEF Connection
  <2>3. /\ DOMAIN d.pending = 1 .. Len(c.pending) + 1 /\ DOMAIN c.pending = 1 .. Len(c.pending)
        /\ Len(c.pending) \in Nat
        /\ \A i \in DOMAIN c.pending : d.pending[i] = c.pending[i]
        /\ d.pending[Len(c.pending) + 1] = e
        /\ Range(d.pending) = Range(c.pending) \cup {e}
    BY <1>1, <2>2, Appended
  <2>4. Known(d, g) = Known(c, g)
    BY <2>2 DEF Known
  <2>5. c.connected => \A i \in DOMAIN d.pending : d.pending[i] <= stored
    <3>1. c.connected => \A i \in DOMAIN c.pending : c.pending[i] <= stored
      BY DEF Ordered
    <3> QED BY <2>3, <3>1
  <2> DEFINE S == Known(c, g) \cup Range(c.history) \cup Range(c.batch)
  <2>6. ASSUME c.connected, c.at \in {"replay", "drain"}
        PROVE  Follows(S, d.pending) /\ 1 .. m \subseteq S \cup Range(d.pending)
    <3>1. Follows(S, c.pending) /\ 1 .. n \subseteq S \cup Range(c.pending)
      BY <2>6 DEF Ordered
    <3> HIDE DEF S
    <3> QED BY <1>1, <2>2, <2>3, <3>1, FollowsAppend
  <2>7. Follows(1 .. g, c.queue) /\ (c.connected => c.seen \subseteq Known(c, g) /\ (c.at # "subscribe" => c.subscribed))
        /\ (c.at \in {"subscribe", "query"} => c.after <= g)
        /\ (c.at \in {"subscribe", "query", "replay"} => c.batch = << >>)
        /\ (c.at \in {"subscribe", "query", "drain"} => c.history = << >>)
    BY DEF Ordered
  <2>8. c.connected /\ c.at \in {"replay", "drain"}
        => Follows(Known(c, g), c.history) /\ Follows(Known(c, g), c.batch)
    BY DEF Ordered
  <2>9. c.replaying
    BY <1>3
  <2> QED BY <2>2, <2>4, <2>5, <2>6, <2>7, <2>8, <2>9 DEF Ordered, d
<1>4. CASE c.subscribed /\ ~c.streamDone /\ ~c.replaying
  <2>1. d = Written(c, e)
    BY <1>4 DEF Heard
  <2>2. Follows(1 .. g, c.queue)
        /\ (c.connected => c.seen \subseteq Known(c, g) /\ 1 .. n \subseteq Known(c, g) /\ c.at \notin {"replay", "drain"})
    BY <1>4 DEF Ordered
  <2> HIDE DEF d
  <2>3. d.at = c.at /\ d.after = c.after /\ d.history = c.history /\ d.pending = c.pending
        /\ d.batch = c.batch /\ d.replaying = c.replaying /\ d.subscribed = c.subscribed
        /\ d.connected = c.connected
        /\ Follows(1 .. g, d.queue)
        /\ Known(c, g) \subseteq Known(d, g)
        /\ (c.connected => d.seen \subseteq Known(d, g))
        /\ (c.connected /\ e \in Persisted => e \in Known(d, g))
    <3>1. c.connected => c.seen \subseteq Known(c, g) /\ 1 .. e - 1 \subseteq Known(c, g)
      BY <2>2
    <3> QED BY <2>1, <2>2, <3>1, WrittenOrdered
  <2>4. c.connected => 1 .. m \subseteq Known(d, g)
    BY <2>2, <2>3
  <2>5. (c.connected /\ c.at # "subscribe" => c.subscribed)
        /\ (c.connected => \A i \in DOMAIN c.pending : c.pending[i] <= stored)
        /\ c.at \notin {"subscribe", "query"}
        /\ (c.at \in {"subscribe", "query", "replay"} => c.batch = << >>)
        /\ (c.at \in {"subscribe", "query", "drain"} => c.history = << >>)
    BY <1>4 DEF Ordered
  <2> QED BY <1>4, <2>2, <2>3, <2>4, <2>5 DEF Ordered, d
<1> QED BY <1>2, <1>3, <1>4

\* The thread that pushes.
LEMMA WorkerOrdered ==
  ASSUME Inv, OrderInv, WorkerStep
  PROVE  OrderInv'
<1> DEFINE g == Len(got)
<1>1. \A k \in Slots : conn[k] \in Connection /\ Sound(conn[k])
  BY DEF Inv, TypeOK
<1>2. g \in Nat /\ stored \in Nat /\ Announced \in Int
  BY BoundAssumption DEF Inv, TypeOK, Announced
<1>3. CASE SaveEvent \/ Decide
  <2>1. UNCHANGED <<conn, got, lastId, link>> /\ Announced' = Announced /\ stored' \in Nat /\ stored <= stored'
    <3>1. CASE SaveEvent
      BY <1>2, <3>1 DEF SaveEvent, client, Announced
    <3>2. CASE Decide
      BY <1>2, <3>2 DEF Decide, client, Announced
    <3> QED BY <1>3, <3>1, <3>2
  <2>2. ASSUME NEW k \in Slots, Ordered(conn[k], g, stored, Announced)
        PROVE  Ordered(conn[k], g, stored', Announced)
    <3>1. ASSUME conn[k].connected, NEW i \in DOMAIN conn[k].pending PROVE conn[k].pending[i] <= stored'
      <4>1. conn[k].pending[i] \in Int
        BY <1>1, <3>1 DEF Connection, Published, Persisted, Volatile
      <4>2. conn[k].pending[i] <= stored
        BY <2>2, <3>1 DEF Ordered
      <4> QED BY <1>2, <2>1, <4>1, <4>2
    <3> QED BY <2>2, <3>1 DEF Ordered
  <2>3. \A k \in Slots : link'[k] = "up" => Ordered(conn'[k], Len(got'), stored', Announced')
    BY <2>1, <2>2 DEF OrderInv
  <2> QED BY <2>1, <2>3 DEF OrderInv, PersistedInOrder
<1>4. ASSUME NEW e \in Published, e <= stored, Listening(e), UNCHANGED <<got, lastId, stored, link>>,
             1 .. e - 1 \subseteq 1 .. Announced, Announced' \in Int,
             1 .. Announced' \subseteq 1 .. Announced \cup ({e} \cap Persisted)
      PROVE  OrderInv'
  <2>1. ASSUME NEW k \in Slots, Ordered(conn[k], g, stored, Announced)
        PROVE  Ordered(conn'[k], g, stored, Announced')
    <3>1. conn'[k] = Heard(conn[k], e)
      BY <1>4 DEF Listening
    <3> QED BY <1>1, <1>2, <1>4, <2>1, <3>1, HeardOrdered
  <2>2. \A k \in Slots : link'[k] = "up" => Ordered(conn'[k], Len(got'), stored', Announced')
    BY <1>4, <2>1 DEF OrderInv
  <2> QED BY <1>4, <2>2 DEF OrderInv, PersistedInOrder
<1>5. CASE Publish
  <2>1. stored \in Published /\ stored \in Persisted
    BY <1>5, BoundAssumption DEF Publish, Inv, TypeOK, RowInv, Published, Persisted
  <2>2. Announced = stored - 1 /\ Announced' = stored
    BY <1>2, <1>5 DEF Publish, Announced
  <2>3. Listening(stored) /\ UNCHANGED <<got, lastId, stored, link>>
    BY <1>5 DEF Publish, client
  <2>4. 1 .. Announced' \subseteq 1 .. Announced \cup ({stored} \cap Persisted)
    BY <1>2, <2>1, <2>2
  <2> QED BY <1>2, <1>4, <2>1, <2>2, <2>3, <2>4
<1>6. CASE PublishVolatile
  <2>1. Volatile \in Published /\ Volatile <= stored /\ 1 .. Volatile - 1 = {}
    BY <1>2 DEF Published, Volatile
  <2>2. Announced' = Announced /\ Listening(Volatile) /\ UNCHANGED <<got, lastId, stored, link>>
    BY <1>6 DEF PublishVolatile, Announced, client
  <2> QED BY <1>2, <1>4, <2>1, <2>2
<1> QED BY <1>3, <1>5, <1>6 DEF WorkerStep

\* What only takes something from a link, or gives it a new connection.
LEMMA LinksDown ==
  ASSUME Inv, OrderInv, UNCHANGED <<got, lastId, stored, worker>>,
         \A k \in Slots : link'[k] = "up" =>
           Ordered(conn'[k], Len(got), stored, Announced) \/ (link[k] = "up" /\ conn'[k] = conn[k])
  PROVE  OrderInv'
<1>1. Announced' = Announced
  BY DEF Announced
<1>2. \A k \in Slots : link'[k] = "up" => Ordered(conn'[k], Len(got'), stored', Announced')
  BY <1>1 DEF OrderInv
<1> QED BY <1>2 DEF OrderInv, PersistedInOrder

\* The page takes in the first frame of a queue.
LEMMA ReceiveOrdered ==
  ASSUME Inv, OrderInv, NEW k \in Slots, Receive(k)
  PROVE  OrderInv'
<1> DEFINE c == conn[k]
           g == Len(got)
           f == Head(c.queue)
<1>1. c \in Connection /\ c.queue \in Seq(Frames) /\ c.queue # << >> /\ link[k] = "up"
  BY DEF Receive, Inv, TypeOK, Connection
<1>2. Ordered(c, g, stored, Announced)
  BY <1>1 DEF OrderInv
<1>3. f \in Frames /\ Range(c.queue) = {f} \cup Range(Tail(c.queue)) /\ Tail(c.queue) \in Seq(Frames)
  BY <1>1, HeadAndTail
<1>4. 1 .. f - 1 \subseteq 1 .. g
  BY <1>1, <1>2, FollowsHead DEF Ordered
<1>5. g \in Nat /\ DOMAIN got = 1 .. g /\ (\A i \in 1 .. g : got[i] = i) /\ got \in Seq(Persisted)
  BY DEF OrderInv, PersistedInOrder, Inv, TypeOK
<1>6. Range(got) = 1 .. g
  BY <1>5 DEF Range
<1>7. UNCHANGED <<stored, worker>> /\ Announced' = Announced
  BY DEF Receive, server, Announced
<1>8. PersistedInOrder' /\ Len(got') \in Nat /\ g <= Len(got') /\ (f \in Persisted => f \in 1 .. Len(got'))
  <2>1. CASE f \in Persisted \ Range(got)
    <3>1. got' = Append(got, f)
      BY <2>1 DEF Receive
    <3>2. f = g + 1
      <4>1. f \in Nat \ {0} /\ f \notin 1 .. g
        BY <1>6, <2>1 DEF Persisted
      <4>2. CASE f > g + 1
        <5>1. g + 1 \in 1 .. f - 1
          BY <1>5, <4>1, <4>2
        <5> QED BY <1>4, <1>5, <5>1
      <4> QED BY <1>5, <4>1, <4>2
    <3>3. Len(got') = g + 1 /\ DOMAIN got' = 1 .. g + 1
          /\ (\A i \in 1 .. g : got'[i] = got[i]) /\ got'[g + 1] = f
      BY <1>5, <2>1, <3>1, Appended
    <3> QED BY <1>5, <3>2, <3>3 DEF PersistedInOrder
  <2>2. CASE f \notin Persisted \ Range(got)
    <3>1. got' = got
      BY <2>2 DEF Receive
    <3> QED BY <1>5, <1>6, <2>2, <3>1 DEF PersistedInOrder
  <2> QED BY <2>1, <2>2
<1>9. lastId' <= Len(got')
  <2>1. CASE f \in Persisted
    <3>1. lastId' = f
      BY <2>1 DEF Receive
    <3> QED BY <1>8, <2>1, <3>1
  <2>2. CASE f \notin Persisted
    <3>1. lastId' = lastId /\ lastId \in Int /\ lastId <= g
      BY <2>2 DEF Receive, OrderInv, Inv, TypeOK, Persisted
    <3> QED BY <1>5, <1>8, <3>1
  <2> QED BY <2>1, <2>2
<1>10. 1 .. g \subseteq 1 .. Len(got')
  BY <1>5, <1>8
<1>11. ASSUME NEW b, NEW d, Ordered(b, g, stored, Announced),
              Follows(1 .. Len(got'), d.queue), Known(b, g) \subseteq Known(d, Len(got')),
              d.at = b.at, d.after = b.after, b.after \in Nat, d.history = b.history, d.pending = b.pending,
              d.batch = b.batch, d.replaying = b.replaying, d.subscribed = b.subscribed,
              d.connected = b.connected, d.seen = b.seen
       PROVE  Ordered(d, Len(got'), stored, Announced)
  <2> DEFINE K == Known(b, g)
             L == Known(d, Len(got'))
  <2>1. K \cup Range(b.history) \cup Range(b.batch) \subseteq L \cup Range(b.history) \cup Range(b.batch)
    BY <1>11
  <2>2. (b.after <= g => b.after <= Len(got'))
    BY <1>5, <1>8, <1>11
  <2>3. ASSUME NEW q, Follows(K, q) PROVE Follows(L, q)
    BY <1>11, <2>3, FollowsMore
  <2>4. Follows(K \cup Range(b.history) \cup Range(b.batch), b.pending)
        => Follows(L \cup Range(b.history) \cup Range(b.batch), b.pending)
    <3> HIDE DEF K, L
    <3> QED BY <2>1, FollowsMore
  <2>5. ASSUME b.connected, b.at \in {"replay", "drain"}
        PROVE  /\ b.replaying
               /\ Follows(L, b.history)
               /\ Follows(L, b.batch)
               /\ Follows(L \cup Range(b.history) \cup Range(b.batch), b.pending)
               /\ 1 .. Announced \subseteq L \cup Range(b.history) \cup Range(b.batch) \cup Range(b.pending)
    <3>1. /\ b.replaying
          /\ Follows(K, b.history)
          /\ Follows(K, b.batch)
          /\ Follows(K \cup Range(b.history) \cup Range(b.batch), b.pending)
          /\ 1 .. Announced \subseteq K \cup Range(b.history) \cup Range(b.batch) \cup Range(b.pending)
      BY <1>11, <2>5 DEF Ordered
    <3>2. K \subseteq L
      BY <1>11
    <3> HIDE DEF K, L
    <3> QED BY <2>3, <2>4, <3>1, <3>2
  <2>6. /\ b.connected => b.seen \subseteq L
        /\ b.connected /\ b.at # "subscribe" => b.subscribed
        /\ b.connected => \A i \in DOMAIN b.pending : b.pending[i] <= stored
        /\ b.connected /\ ~b.replaying => 1 .. Announced \subseteq L
    BY <1>11 DEF Ordered
  <2>7. /\ b.at \in {"subscribe", "query"} => b.after <= Len(got') /\ b.replaying
        /\ b.at \in {"subscribe", "query", "replay"} => b.batch = << >>
        /\ b.at \in {"subscribe", "query", "drain"} => b.history = << >>
    BY <1>11, <2>2 DEF Ordered
  <2> QED BY <1>11, <2>5, <2>6, <2>7 DEF Ordered
<1>12. ASSUME NEW j \in Slots, link'[j] = "up" PROVE Ordered(conn'[j], Len(got'), stored, Announced)
  <2>1. conn[j] \in Connection /\ conn[j].after \in Nat
    BY DEF Inv, TypeOK, Connection
  <2>2. CASE j = k
    <3> DEFINE d == [c EXCEPT !.queue = Tail(@)]
    <3>1. conn'[k] = d
      BY DEF Receive, Inv, TypeOK
    <3>2. d.queue = Tail(c.queue) /\ d.at = c.at /\ d.after = c.after /\ d.history = c.history
          /\ d.pending = c.pending /\ d.batch = c.batch /\ d.replaying = c.replaying
          /\ d.subscribed = c.subscribed /\ d.connected = c.connected /\ d.seen = c.seen
      BY <1>1 DEF Connection
    <3> HIDE DEF d
    <3>3. Follows(1 .. Len(got'), d.queue)
      <4>1. Follows(1 .. g, c.queue)
        BY <1>2 DEF Ordered
      <4> QED BY <1>1, <1>8, <1>10, <3>2, <4>1, FollowsTail
    <3>4. Known(c, g) \subseteq Known(d, Len(got'))
      BY <1>3, <1>8, <1>10, <3>2 DEF Known
    <3> QED BY <1>2, <1>11, <2>1, <2>2, <3>1, <3>2, <3>3, <3>4
  <2>3. CASE j # k
    <3>1. conn'[j] = conn[j] /\ link[j] = "up"
      BY <1>12, <2>3 DEF Receive, Inv, TypeOK
    <3>2. Ordered(conn[j], g, stored, Announced)
      BY <3>1 DEF OrderInv
    <3>3. Follows(1 .. Len(got'), conn[j].queue)
      BY <1>10, <3>2, FollowsMore DEF Ordered
    <3>4. Known(conn[j], g) \subseteq Known(conn[j], Len(got'))
      BY <1>10 DEF Known
    <3> QED BY <1>11, <2>1, <3>1, <3>2, <3>3, <3>4
  <2> QED BY <2>2, <2>3
<1>13. \A j \in Slots : link'[j] = "up" => Ordered(conn'[j], Len(got'), stored', Announced')
  BY <1>7, <1>12
<1> QED BY <1>8, <1>9, <1>13 DEF OrderInv

\* The HTTP threads.
LEMMA ClientOrdered ==
  ASSUME Inv, OrderInv, NEW k \in Slots, HttpStep(k) \/ Break(k) \/ ReadFails(k)
  PROVE  OrderInv'
<1>1. CASE EndOfStream(k) \/ Break(k)
  <2>1. UNCHANGED <<got, lastId, stored, worker, conn>> /\ link' = [link EXCEPT ![k] = "down"]
    BY <1>1 DEF EndOfStream, Break, server, client
  <2>2. \A j \in Slots : link'[j] = "up" => link[j] = "up"
    BY <2>1 DEF Inv, TypeOK
  <2> QED BY <2>1, <2>2, LinksDown
<1>2. CASE NoticeBroken(k)
  <2>1. UNCHANGED <<got, lastId, stored, worker, link>> /\ link[k] = "down"
        /\ \A j \in Slots \ {k} : conn'[j] = conn[j]
    BY <1>2 DEF NoticeBroken, server, client, Inv, TypeOK
  <2> QED BY <2>1, LinksDown
<1>3. CASE ReadFails(k)
  <2> DEFINE d == [conn[k] EXCEPT !.at = "cleanup"]
  <2>1. UNCHANGED <<got, lastId, stored, worker, link>> /\ conn'[k] = d
        /\ (\A j \in Slots \ {k} : conn'[j] = conn[j]) /\ conn[k].at # "subscribe" /\ conn[k] \in Connection
    BY <1>3 DEF ReadFails, server, client, Inv, TypeOK
  <2>2. d.queue = conn[k].queue /\ d.seen = conn[k].seen /\ d.pending = conn[k].pending
        /\ d.replaying = conn[k].replaying /\ d.connected = conn[k].connected
        /\ d.subscribed = conn[k].subscribed /\ d.at = "cleanup"
    BY <2>1 DEF Connection
  <2> HIDE DEF d
  <2>3. link[k] = "up" => Ordered(d, Len(got), stored, Announced)
    <3>1. ASSUME Ordered(conn[k], Len(got), stored, Announced) PROVE Ordered(d, Len(got), stored, Announced)
      BY <2>1, <2>2, <3>1, OrderedOf
    <3> QED BY <3>1 DEF OrderInv
  <2> QED BY <2>1, <2>3, LinksDown
<1> QED BY <1>1, <1>2, <1>3, ReceiveOrdered DEF HttpStep

\* A new connection, a page that starts over, a server that does.
LEMMA AllSlotsOrdered ==
  ASSUME Inv, OrderInv, Open \/ Reload \/ Restart
  PROVE  OrderInv'
<1>1. CASE Open
  <2> DEFINE d == Opened(lastId)
  <2>1. Free \in Slots
    BY <1>1 DEF Open, Free
  <2>2. UNCHANGED <<got, lastId, stored, worker>> /\ conn'[Free] = d
        /\ \A j \in Slots \ {Free} : link'[j] # "up"
    BY <1>1, <2>1 DEF Open, server, Inv, TypeOK
  <2>3. d.queue = << >> /\ d.at = "subscribe" /\ d.after = lastId /\ d.history = << >> /\ d.pending = << >>
        /\ d.batch = << >> /\ d.replaying /\ d.seen = {} /\ DOMAIN << >> = {}
    BY DEF Opened
  <2> HIDE DEF d
  <2>4. Follows(1 .. Len(got), << >>)
    BY FollowsEmpty
  <2>5. lastId <= Len(got)
    BY DEF OrderInv
  <2>6. Ordered(d, Len(got), stored, Announced)
    BY <2>3, <2>4, <2>5 DEF Ordered
  <2> QED BY <2>2, <2>6, LinksDown
<1>2. CASE Reload
  <2>1. (\A k \in Slots : link'[k] # "up") /\ got' = << >> /\ lastId' = 0
    BY <1>2 DEF Reload
  <2>2. lastId' <= Len(got') /\ DOMAIN got' = {}
    BY <2>1
  <2> QED BY <2>1, <2>2 DEF OrderInv, PersistedInOrder
<1>3. CASE Restart
  <2>1. (\A k \in Slots : link'[k] # "up") /\ got' = got /\ lastId' = lastId
    BY <1>3 DEF Restart, client
  <2> QED BY <2>1 DEF OrderInv, PersistedInOrder
<1> QED BY <1>1, <1>2, <1>3

LEMMA OrderInit == Init => OrderInv
<1> SUFFICES ASSUME Init PROVE OrderInv
  OBVIOUS
<1>1. got = << >> /\ lastId = 0 /\ DOMAIN << >> = {} /\ Len(<< >>) = 0 /\ \A k \in Slots : link[k] # "up"
  BY DEF Init
<1> QED BY <1>1 DEF OrderInv, PersistedInOrder

LEMMA OrderStep ==
  ASSUME Inv, OrderInv, SmallBuffers, [Next]_vars
  PROVE  OrderInv'
<1>1. CASE UNCHANGED vars
  BY <1>1, LinksDown DEF vars, server, client, OrderInv
<1> QED BY <1>1, WorkerOrdered, ConnOrdered, ClientOrdered, AllSlotsOrdered DEF Next

-----------------------------------------------------------------------------
(***************************************************************************)
(* Theorems.                                                               *)
(***************************************************************************)

\* However streams, breaks, reloads and restarts interleave, no connection is sent a
\* persisted event twice (seenEventIds, in replay, buffer and listener).
THEOREM SentOnce == Spec => []OncePerConnection
<1>1. Inv => OncePerConnection
  BY DEF Inv, Sound, OncePerConnection
<1> QED BY <1>1, InvHolds, PTL

\* stream_end is written, and reaches the page, only for a task whose row is terminal:
\* a connection that loses its socket or its database says nothing.
THEOREM EndsAreTrue == Spec => []EndIsJustified
<1>1. Inv => EndIsJustified
  BY DEF Inv, Sound, RowInv, EndIsJustified
<1> QED BY <1>1, InvHolds, PTL

LEMMA Conclusion == Inv /\ OrderInv => DeliveredInOrder
BY DEF Inv, OrderInv, Sound, RowInv, OncePerConnection, EndIsJustified, DeliveredInOrder

\* As long as no connection sorts a buffer beyond the reach of insertion sort with a
\* volatile event in it, the page takes in every persisted event in order, without a gap.
THEOREM InOrderUnlessSorted == Spec /\ []SmallBuffers => []DeliveredInOrder
<1>1. Spec => []Inv
  BY InvHolds
<1> QED BY <1>1, OrderInit, OrderStep, Conclusion, PTL DEF Spec
=============================================================================
