--------------------------- MODULE StartupProofs ---------------------------
(* What holds of Startup for every finite set of tasks, every session, every   *)
(* old database and however often the process is killed or a statement fails.  *)
EXTENDS Startup, FiniteSetTheorems, WellFoundedInduction, TLAPS

-----------------------------------------------------------------------------
(* Numbers and finite sets.                                                   *)

\* A set of numbers that is not empty has a least one.
LEMMA LeastNumber ==
  ASSUME NEW S \in SUBSET Nat, S # {}
  PROVE  \E x \in S : \A y \in S : x <= y
<1>1. PICK x \in S : \A y \in S : ~ <<y, x>> \in OpToRel(<, Nat)
  BY NatLessThanWellFounded, WFMin, Zenon
<1>2. ASSUME NEW y \in S PROVE x <= y
  <2>1. ~ (y < x)
    <3>1. <<y, x>> \in OpToRel(<, Nat) <=> y < x
      BY DEF OpToRel
    <3> QED
      BY <1>1, <3>1
  <2> QED
    BY <2>1
<1> QED
  BY <1>2

\* A finite set of numbers has a bound: the first of its elements to exceed
\* every bound of those before it would have one after all.
LEMMA FiniteIsBounded ==
  ASSUME NEW S \in SUBSET Nat, IsFiniteSet(S)
  PROVE  \E b \in Nat : \A y \in S : y <= b
<1>1. PICK f \in Bijection(1 .. Cardinality(S), S) : TRUE
  BY FS_CardinalityType DEF ExistsBijection
<1>2. /\ Cardinality(S) \in Nat
      /\ \A y \in S : \E i \in 1 .. Cardinality(S) : f[i] = y
      /\ \A i \in 1 .. Cardinality(S) : f[i] \in S
  BY <1>1, FS_CardinalityType DEF Bijection, Surjection, Injection
<1> DEFINE Bounded(k) == \E b \in Nat : \A i \in 1 .. k : f[i] <= b
<1> DEFINE Bad == {k \in 0 .. Cardinality(S) : ~Bounded(k)}
<1>3. Bad = {}
  <2> SUFFICES ASSUME Bad # {} PROVE FALSE
    OBVIOUS
  <2>1. PICK k \in Bad : \A j \in Bad : k <= j
    <3>1. Bad \in SUBSET Nat
      BY <1>2
    <3> HIDE DEF Bad
    <3> QED BY <3>1, LeastNumber
  <2>2. k # 0
    <3>1. \A i \in 1 .. 0 : f[i] <= 0
      OBVIOUS
    <3> QED BY <2>1, <3>1
  <2>3. k \in Nat /\ k - 1 \in 0 .. Cardinality(S) /\ k \in 1 .. Cardinality(S)
    BY <1>2, <2>1, <2>2
  <2>4. Bounded(k - 1)
    <3>1. ~(k <= k - 1)
      BY <2>3
    <3>2. k - 1 \notin Bad
      BY <2>1, <3>1
    <3> HIDE DEF Bounded
    <3> QED BY <2>3, <3>2
  <2>5. PICK b \in Nat : \A i \in 1 .. k - 1 : f[i] <= b
    BY <2>4
  <2>6. PICK c \in Nat : b <= c /\ f[k] <= c
    <3>1. PICK n \in Nat : n = f[k]
      BY <1>2, <2>3
    <3> HIDE DEF Bounded, Bad
    <3>2. b <= b + n /\ n <= b + n /\ b + n \in Nat
      BY <2>5, <3>1
    <3> QED BY <3>1, <3>2
  <2>7. ASSUME NEW i \in 1 .. k PROVE f[i] <= c
    <3>1. CASE i = k
      BY <2>6, <3>1
    <3>2. CASE i # k
      <4>1. i \in 1 .. k - 1 /\ i \in 1 .. Cardinality(S)
        BY <1>2, <2>3, <3>2
      <4>2. PICK n \in Nat : n = f[i] /\ n <= b
        BY <1>2, <2>5, <4>1
      <4> HIDE DEF Bounded, Bad
      <4>3. n <= c
        BY <2>5, <2>6, <4>2
      <4> QED BY <4>2, <4>3
    <3> QED BY <3>1, <3>2
  <2> QED BY <2>1, <2>7
<1>4. Bounded(Cardinality(S))
  <2>1. Cardinality(S) \in 0 .. Cardinality(S)
    BY <1>2
  <2> HIDE DEF Bounded
  <2> QED BY <1>3, <2>1
<1> QED
  BY <1>2, <1>4

\* Max and Min are what their names say.
LEMMA MaxIsGreatest ==
  ASSUME NEW S \in SUBSET Nat, S # {}, IsFiniteSet(S)
  PROVE  Max(S) \in S /\ \A y \in S : y <= Max(S)
<1> DEFINE Bounds == {b \in Nat : \A y \in S : y <= b}
<1>1. PICK m \in Bounds : \A b \in Bounds : m <= b
  <2>1. Bounds \in SUBSET Nat /\ Bounds # {}
    BY FiniteIsBounded
  <2> HIDE DEF Bounds
  <2> QED BY <2>1, LeastNumber
<1>2. m \in S
  <2> SUFFICES ASSUME m \notin S PROVE FALSE
    OBVIOUS
  <2>1. PICK y \in S : TRUE
    OBVIOUS
  <2>2. m \in Nat /\ y \in Nat /\ y <= m /\ y # m
    BY <1>1, <2>1
  <2>3. m - 1 \in Nat
    BY <2>2
  <2>4. \A z \in S : z <= m - 1
    BY <1>1, <2>2
  <2> QED BY <1>1, <2>2, <2>3, <2>4
<1>3. \A y \in S : m >= y
  BY <1>1
<1>4. \E x \in S : \A y \in S : x >= y
  BY <1>2, <1>3
<1>5. Max(S) \in S /\ \A y \in S : Max(S) >= y
  BY <1>4 DEF Max
<1>6. Max(S) \in Nat
  BY <1>5
<1> QED
  BY <1>5, <1>6

LEMMA MinIsLeast ==
  ASSUME NEW S \in SUBSET Nat, S # {}
  PROVE  Min(S) \in S /\ \A y \in S : Min(S) <= y
BY LeastNumber DEF Min

\* The range of a function on a finite set is finite.
LEMMA FiniteRange ==
  ASSUME NEW S, IsFiniteSet(S), NEW f
  PROVE  IsFiniteSet({f[x] : x \in S})
<1> DEFINE T == {f[x] : x \in S}
<1> DEFINE g == [x \in S |-> f[x]]
<1>1. g \in Surjection(S, T)
  BY DEF Surjection
<1> HIDE DEF T, g
<1>2. IsFiniteSet(T)
  BY <1>1, FS_Surjection
<1> QED
  BY <1>2 DEF T

-----------------------------------------------------------------------------
(* Rows and their numbers.                                                    *)

Numbered(rows, column) == UniqueIn(rows, column) /\ \A r \in rows : r.seq # 0

\* Rows of a database that kept no numbers.
Plain(rows, column) ==
  /\ \A r \in rows : r.seq = 0
  /\ \A a, b \in rows : a[column] = b[column] /\ a.at = b.at /\ a.id = b.id => a = b

\* A rank counts the row itself, and a later row has a higher one.
LEMMA RankIs ==
  ASSUME NEW rows, IsFiniteSet(rows), NEW column,
         \A r \in rows : r.at \in Nat /\ r.id \in Nat, NEW r \in rows
  PROVE  /\ Rank(rows, column, r) \in Nat /\ Rank(rows, column, r) > 0
         /\ \A q \in rows : q[column] = r[column] /\ ~Before(q, r)
                              => Rank(rows, column, r) < Rank(rows, column, q)
<1> DEFINE Upto(q) == {e \in rows : e[column] = q[column] /\ Before(e, q)}
<1>1. ASSUME NEW q \in rows PROVE IsFiniteSet(Upto(q)) /\ Cardinality(Upto(q)) \in Nat
  <2>1. Upto(q) \in SUBSET rows
    OBVIOUS
  <2> HIDE DEF Upto
  <2>2. IsFiniteSet(Upto(q))
    BY <2>1, FS_Subset
  <2> QED BY <2>2, FS_CardinalityType
<1>2. ASSUME NEW q \in rows PROVE q \in Upto(q)
  BY DEF Before
<1>3. Cardinality(Upto(r)) # 0
  <2>1. r \in Upto(r) /\ IsFiniteSet(Upto(r))
    BY <1>1, <1>2
  <2> HIDE DEF Upto
  <2> QED BY <2>1, FS_EmptySet
<1>4. ASSUME NEW q \in rows, q[column] = r[column], ~Before(q, r)
      PROVE  Cardinality(Upto(r)) < Cardinality(Upto(q))
  <2>1. Upto(r) \in SUBSET Upto(q)
    BY <1>4 DEF Before
  <2>2. q \in Upto(q) /\ q \notin Upto(r)
    BY <1>2, <1>4
  <2>3. IsFiniteSet(Upto(q)) /\ Cardinality(Upto(q)) \in Nat /\ Cardinality(Upto(r)) \in Nat
    BY <1>1
  <2> HIDE DEF Upto
  <2>4. /\ Cardinality(Upto(r)) <= Cardinality(Upto(q))
        /\ Cardinality(Upto(q)) = Cardinality(Upto(r)) => Upto(q) = Upto(r)
    BY <2>1, <2>3, FS_Subset
  <2> QED BY <2>2, <2>3, <2>4
<1>5. \A q : Rank(rows, column, q) = Cardinality(Upto(q))
  BY DEF Rank
<1> HIDE DEF Upto
<1> QED
  BY <1>1, <1>3, <1>4, <1>5

\* Events and messages with another number are events and messages.
LEMMA EventNumbering ==
  ASSUME NEW rows \in SUBSET Event, IsFiniteSet(rows), NEW r \in rows
  PROVE  LET n == Numbering(rows, "task", r) IN
         /\ n \in Event /\ n.seq # 0
         /\ n.id = r.id /\ n.task = r.task /\ n.type = r.type
         /\ r.seq # 0 => n = r
         /\ r.seq = 0 => n.seq = Rank(rows, "task", r)
<1>1. r \in Event /\ (\A q \in rows : q.at \in Nat /\ q.id \in Nat)
  BY DEF Event
<1>2. Rank(rows, "task", r) \in Nat /\ Rank(rows, "task", r) > 0
  BY <1>1, RankIs
<1> QED
  BY <1>1, <1>2 DEF Event, Numbering

LEMMA MessageNumbering ==
  ASSUME NEW rows \in SUBSET Message, IsFiniteSet(rows), NEW r \in rows
  PROVE  LET n == Numbering(rows, "session", r) IN
         /\ n \in Message /\ n.seq # 0
         /\ n.id = r.id /\ n.task = r.task /\ n.session = r.session /\ n.role = r.role
         /\ r.seq # 0 => n = r
         /\ r.seq = 0 => n.seq = Rank(rows, "session", r)
<1>1. r \in Message /\ (\A q \in rows : q.at \in Nat /\ q.id \in Nat)
  BY DEF Message
<1>2. Rank(rows, "session", r) \in Nat /\ Rank(rows, "session", r) > 0
  BY <1>1, RankIs
<1> QED
  BY <1>1, <1>2 DEF Message, Numbering

LEMMA FiniteRanked ==
  ASSUME NEW rows, IsFiniteSet(rows), NEW column
  PROVE  IsFiniteSet(Ranked(rows, column))
<1> DEFINE f == [r \in rows |-> Numbering(rows, column, r)]
<1>1. IsFiniteSet({f[r] : r \in rows})
  BY FiniteRange
<1>2. {f[r] : r \in rows} = Ranked(rows, column)
  BY DEF Ranked
<1> QED
  BY <1>1, <1>2

\* Plain rows are numbered without two alike.
LEMMA RanksDiffer ==
  ASSUME NEW rows, IsFiniteSet(rows), NEW column,
         \A r \in rows : r.at \in Nat /\ r.id \in Nat, Plain(rows, column),
         NEW a \in rows, NEW b \in rows, a[column] = b[column],
         Rank(rows, column, a) = Rank(rows, column, b)
  PROVE  a = b
<1>1. Rank(rows, column, a) \in Nat /\ Rank(rows, column, b) \in Nat
  BY RankIs
<1>2. Before(a, b) /\ Before(b, a)
  BY <1>1, RankIs
<1> QED
  BY <1>2 DEF Plain, Before

LEMMA RankedEvents ==
  ASSUME NEW rows \in SUBSET Event, IsFiniteSet(rows)
  PROVE  /\ Ranked(rows, "task") \in SUBSET Event
         /\ \A r \in Ranked(rows, "task") : r.seq # 0
         /\ Plain(rows, "task") => UniqueIn(Ranked(rows, "task"), "task")
         /\ Numbered(rows, "task") => Ranked(rows, "task") = rows
<1>1. Ranked(rows, "task") \in SUBSET Event /\ (\A r \in Ranked(rows, "task") : r.seq # 0)
  BY EventNumbering DEF Ranked
<1>2. ASSUME Plain(rows, "task") PROVE UniqueIn(Ranked(rows, "task"), "task")
  <2> SUFFICES ASSUME NEW a \in rows, NEW b \in rows,
                      Numbering(rows, "task", a).task = Numbering(rows, "task", b).task,
                      Numbering(rows, "task", a).seq = Numbering(rows, "task", b).seq
               PROVE  a = b
    BY DEF UniqueIn, Ranked
  <2>1. a.seq = 0 /\ b.seq = 0
    BY <1>2 DEF Plain
  <2>2. a.task = b.task /\ Rank(rows, "task", a) = Rank(rows, "task", b)
    BY <2>1, EventNumbering
  <2>3. \A r \in rows : r.at \in Nat /\ r.id \in Nat
    BY DEF Event
  <2> QED BY <1>2, <2>2, <2>3, RanksDiffer
<1>3. ASSUME Numbered(rows, "task") PROVE Ranked(rows, "task") = rows
  <2>1. \A r \in rows : Numbering(rows, "task", r) = r
    BY <1>3 DEF Numbered, Numbering
  <2> QED BY <2>1 DEF Ranked
<1> QED
  BY <1>1, <1>2, <1>3

LEMMA RankedMessages ==
  ASSUME NEW rows \in SUBSET Message, IsFiniteSet(rows)
  PROVE  /\ Ranked(rows, "session") \in SUBSET Message
         /\ \A r \in Ranked(rows, "session") : r.seq # 0
         /\ Plain(rows, "session") => UniqueIn(Ranked(rows, "session"), "session")
         /\ Numbered(rows, "session") => Ranked(rows, "session") = rows
<1>1. /\ Ranked(rows, "session") \in SUBSET Message
      /\ \A r \in Ranked(rows, "session") : r.seq # 0
  BY MessageNumbering DEF Ranked
<1>2. ASSUME Plain(rows, "session") PROVE UniqueIn(Ranked(rows, "session"), "session")
  <2> SUFFICES ASSUME NEW a \in rows, NEW b \in rows,
                      Numbering(rows, "session", a).session = Numbering(rows, "session", b).session,
                      Numbering(rows, "session", a).seq = Numbering(rows, "session", b).seq
               PROVE  a = b
    BY DEF UniqueIn, Ranked
  <2>1. a.seq = 0 /\ b.seq = 0
    BY <1>2 DEF Plain
  <2>2. a.session = b.session /\ Rank(rows, "session", a) = Rank(rows, "session", b)
    BY <2>1, MessageNumbering
  <2>3. \A r \in rows : r.at \in Nat /\ r.id \in Nat
    BY DEF Message
  <2> QED BY <1>2, <2>2, <2>3, RanksDiffer
<1>3. ASSUME Numbered(rows, "session") PROVE Ranked(rows, "session") = rows
  <2>1. \A r \in rows : Numbering(rows, "session", r) = r
    BY <1>3 DEF Numbered, Numbering
  <2> QED BY <2>1 DEF Ranked
<1> QED
  BY <1>1, <1>2, <1>3

\* MAX + 1 is above every number there is.
LEMMA NextSeqIs ==
  ASSUME NEW rows, IsFiniteSet(rows), \A r \in rows : r.seq \in Nat
  PROVE  /\ NextSeq(rows) \in Nat /\ NextSeq(rows) # 0
         /\ \A r \in rows : r.seq # NextSeq(rows)
<1> DEFINE f == [r \in rows |-> r.seq]
<1> DEFINE S == {0} \cup {r.seq : r \in rows}
<1>1. IsFiniteSet({f[r] : r \in rows})
  BY FiniteRange
<1>2. IsFiniteSet(S)
  <2>1. S = {f[r] : r \in rows} \cup {0}
    OBVIOUS
  <2> HIDE DEF f, S
  <2> QED BY <1>1, <2>1, FS_AddElement
<1>3. S \in SUBSET Nat /\ S # {} /\ (\A r \in rows : r.seq \in S)
  OBVIOUS
<1>4. NextSeq(rows) = Max(S) + 1
  BY DEF NextSeq
<1> HIDE DEF S
<1>5. Max(S) \in Nat /\ \A y \in S : y <= Max(S)
  BY <1>2, <1>3, MaxIsGreatest
<1>6. \A r \in rows : r.seq \in Nat /\ r.seq <= Max(S)
  BY <1>3, <1>5
<1> QED
  BY <1>4, <1>5, <1>6

-----------------------------------------------------------------------------
(* What is kept of a database, whoever writes it.                             *)

Ended(db) ==
  \A t \in DOMAIN db.tasks :
    db.tasks[t].status = "interrupted" => t \notin db.asks /\ HasTerminalEvent(db, t)

OneEnd(db) ==
  \A e, f \in db.events :
    e.type \in TerminalTypes /\ f.type \in TerminalTypes /\ e.task = f.task => e = f

\* Before and after the sixth migration has run for the first time.
Fresh(db) == db.messages = {} /\ \A t \in DOMAIN db.tasks : db.tasks[t].question = 0

Asked(db) ==
  /\ Numbered(db.messages, "session")
  /\ \A t \in DOMAIN db.tasks :
       /\ db.tasks[t].session # None => \E m \in Questions(db, t) : m.id = db.tasks[t].question
       /\ db.tasks[t].question = 0 => Questions(db, t) = {}

Good(db) ==
  /\ DbOK(db) /\ IsFiniteSet(db.messages) /\ IsFiniteSet(db.events)
  /\ Ended(db) /\ OneEnd(db)
  /\ Fresh(db) \/ Asked(db)

\* What only somebody else can break.
KnownNames(db) == \A v \in Versions : db.recorded[v] \in {"absent", Names[v]}

OwnEvents(db) ==
  /\ Plain(db.events, "task") \/ Numbered(db.events, "task")
  /\ \A e \in db.events, t \in Tasks :
       e.id = RecoveryId(t) => e.task = t /\ e.type = "task_failed"

Unharmed(db) ==
  /\ "column" \notin foreign => db.bad = {}
  /\ "record" \notin foreign => KnownNames(db)
  /\ "event" \notin foreign => OwnEvents(db)

\* How far tables and migrations have come.
Kept(g) == {p \in RepositoryTables[g] : p[2] = "*" \/ p \in LateColumns}

TablesIn(db, n) == \A g \in Groups : g < n => Kept(g) \subseteq db.schema

BatchDone(db, v) ==
  /\ v = 3 => MessagesDraft(Empty).schema \subseteq db.schema
  /\ v = 5 => LookupIndexes(Empty).schema \subseteq db.schema
  /\ v = 6 => {"messages"} \X MessageIndexes \subseteq db.schema /\ Asked(db)
  /\ v = 7 => /\ <<"task_events", "idx_task_events_task_sequence">> \in db.schema
              /\ Numbered(db.events, "task")

Done(db, v) == db.recorded[v] = Names[v] /\ Columns[v] \subseteq db.schema /\ BatchDone(db, v)

Migrated(db, n) == TablesIn(db, 4) /\ \A v \in Versions : v < n => Done(db, v)

Ready(db) == Migrated(db, 8)

\* n has the history of db.
Extends(db, n) ==
  /\ DOMAIN db.tasks \subseteq DOMAIN n.tasks
  /\ \A m \in db.messages : m.seq # 0 => m \in n.messages
  /\ \A e \in db.events : \E f \in n.events : f.id = e.id /\ (e.seq # 0 => f = e)

\* What every write of the program does to a good database.
Becomes(db, n) ==
  /\ Good(n) /\ Extends(db, n)
  /\ db.bad = {} => n.bad = {}
  /\ KnownNames(db) => KnownNames(n)
  /\ OwnEvents(db) => OwnEvents(n)
  /\ \A k \in 1 .. 8 : Migrated(db, k) => Migrated(n, k)
  /\ ResolvedAt \in db.schema => ResolvedAt \in n.schema

LEMMA ExtendsItself ==
  ASSUME NEW db
  PROVE  Extends(db, db)
BY DEF Extends

LEMMA ExtendsOn ==
  ASSUME NEW a, NEW b, NEW c, Extends(a, b), Extends(b, c)
  PROVE  Extends(a, c)
<1>1. ASSUME NEW e \in a.events PROVE \E g \in c.events : g.id = e.id /\ (e.seq # 0 => g = e)
  <2>1. PICK f \in b.events : f.id = e.id /\ (e.seq # 0 => f = e)
    BY DEF Extends
  <2>2. PICK g \in c.events : g.id = f.id /\ (f.seq # 0 => g = f)
    BY DEF Extends
  <2> QED BY <2>1, <2>2
<1> QED
  BY <1>1 DEF Extends

LEMMA BecomesUnharmed ==
  ASSUME NEW db, NEW n, Becomes(db, n), Unharmed(db)
  PROVE  Unharmed(n)
BY DEF Becomes, Unharmed

LEMMA BecomesOn ==
  ASSUME NEW a, NEW b, NEW c, Becomes(a, b), Becomes(b, c)
  PROVE  Becomes(a, c)
BY ExtendsOn DEF Becomes

\* Tables, columns and indexes are only added.
LEMMA SchemaGrows ==
  ASSUME NEW db, Good(db), NEW S \in SUBSET FullSchema, db.schema \subseteq S
  PROVE  Becomes(db, [db EXCEPT !.schema = S])
<1> DEFINE n == [db EXCEPT !.schema = S]
<1>1. /\ n.schema = S /\ n.bad = db.bad /\ n.recorded = db.recorded /\ n.tasks = db.tasks
      /\ n.messages = db.messages /\ n.events = db.events /\ n.asks = db.asks
  BY DEF Good, DbOK
<1>2. DbOK(n)
  BY DEF Good, DbOK
<1> HIDE DEF n
<1>3. \A t : Questions(n, t) = Questions(db, t) /\ (HasTerminalEvent(n, t) <=> HasTerminalEvent(db, t))
  BY <1>1 DEF Questions, HasTerminalEvent
<1>4. Asked(db) => Asked(n)
  BY <1>1, <1>3 DEF Asked
<1>5. Good(n)
  BY <1>1, <1>2, <1>3, <1>4 DEF Good, Ended, OneEnd, Fresh
<1>6. Extends(db, n)
  BY <1>1 DEF Extends
<1>7. ASSUME NEW v \in Versions, Done(db, v) PROVE Done(n, v)
  BY <1>1, <1>4, <1>7 DEF Done, BatchDone
<1>8. \A k \in 1 .. 8 : Migrated(db, k) => Migrated(n, k)
  BY <1>1, <1>7 DEF Migrated, TablesIn
<1>9. Becomes(db, n)
  BY <1>1, <1>5, <1>6, <1>8 DEF Becomes, KnownNames, OwnEvents
<1> QED
  BY <1>9 DEF n

\* The record of a migration.
LEMMA Records ==
  ASSUME NEW db, Good(db), NEW v \in Versions
  PROVE  LET n == [db EXCEPT !.recorded[v] = IF @ = "absent" THEN Names[v] ELSE @] IN
         /\ Becomes(db, n)
         /\ n.schema = db.schema /\ n.messages = db.messages /\ n.events = db.events
         /\ n.tasks = db.tasks
         /\ db.recorded[v] \in {"absent", Names[v]} => n.recorded[v] = Names[v]
         /\ \A u \in Versions \ {v} : n.recorded[u] = db.recorded[u]
<1> DEFINE n == [db EXCEPT !.recorded[v] = IF @ = "absent" THEN Names[v] ELSE @]
<1>0. Names[v] # "absent"
  <2>1. v = 1 \/ v = 2 \/ v = 3 \/ v = 4 \/ v = 5 \/ v = 6 \/ v = 7
    BY DEF Versions
  <2> QED BY <2>1 DEF Names
<1>1. /\ n.schema = db.schema /\ n.bad = db.bad /\ n.tasks = db.tasks
      /\ n.messages = db.messages /\ n.events = db.events /\ n.asks = db.asks
      /\ n.recorded[v] = IF db.recorded[v] = "absent" THEN Names[v] ELSE db.recorded[v]
      /\ \A u \in Versions \ {v} : n.recorded[u] = db.recorded[u]
  BY DEF Good, DbOK
<1>2. DbOK(n)
  BY <1>0 DEF Good, DbOK
<1> HIDE DEF n
<1>3. \A t : Questions(n, t) = Questions(db, t) /\ (HasTerminalEvent(n, t) <=> HasTerminalEvent(db, t))
  BY <1>1 DEF Questions, HasTerminalEvent
<1>4. Asked(db) => Asked(n)
  BY <1>1, <1>3 DEF Asked
<1>5. Good(n)
  BY <1>1, <1>2, <1>3, <1>4 DEF Good, Ended, OneEnd, Fresh
<1>6. Extends(db, n)
  BY <1>1 DEF Extends
<1>7. ASSUME NEW u \in Versions, Done(db, u) PROVE Done(n, u)
  <2>1. n.recorded[u] = Names[u]
    BY <1>0, <1>1, <1>7 DEF Done
  <2> QED BY <1>1, <1>4, <1>7, <2>1 DEF Done, BatchDone
<1>8. \A k \in 1 .. 8 : Migrated(db, k) => Migrated(n, k)
  BY <1>1, <1>7 DEF Migrated, TablesIn
<1>9. KnownNames(db) => KnownNames(n)
  BY <1>1 DEF KnownNames
<1>10. Becomes(db, n)
  BY <1>1, <1>5, <1>6, <1>8, <1>9 DEF Becomes, OwnEvents
<1> QED
  BY <1>1, <1>10 DEF n

-----------------------------------------------------------------------------
(* The parts of the schema.                                                   *)

LEMMA GroupOne ==
  /\ RepositoryTables[1] = GlobalsTable \cup GlobalContextTable \cup SessionsTable \cup WorkspacesTable
  /\ RepositoryTables[2] = TasksTable \cup EventsTable \cup ToolCallsTable \cup PermissionsTable
  /\ RepositoryTables[3] = FileChangesTable \cup LogsTable \cup ContextsAndHealth
BY DEF RepositoryTables

LEMMA PartsOfSchema ==
  /\ \A g \in Groups : RepositoryTables[g] \subseteq FullSchema
  /\ \A v \in Versions : Columns[v] \subseteq FullSchema
  /\ LookupIndexes(Empty).schema \subseteq FullSchema
  /\ MessagesDraft(Empty).schema \subseteq FullSchema
  /\ {"messages"} \X MessageIndexes \subseteq FullSchema
  /\ <<"task_events", "idx_task_events_task_sequence">> \in FullSchema
BY DEF FullSchema

\* What the batches that only make tables and indexes add.
LEMMA AddedByBatches ==
  ASSUME NEW db, DbOK(db)
  PROVE  /\ \E S \in SUBSET FullSchema : db.schema \subseteq S /\ Baseline(db) = [db EXCEPT !.schema = S]
         /\ LET S == db.schema \cup MessagesDraft(Empty).schema IN
              S \subseteq FullSchema /\ MessagesDraft(db) = [db EXCEPT !.schema = S]
         /\ LET S == db.schema \cup LookupIndexes(Empty).schema IN
              S \subseteq FullSchema /\ LookupIndexes(db) = [db EXCEPT !.schema = S]
<1>1. db.schema \subseteq FullSchema
  BY DEF DbOK
<1>2. Empty.schema = {} /\ "schema" \in DOMAIN Empty
  BY DEF Empty
<1>3. \E S \in SUBSET FullSchema : db.schema \subseteq S /\ Baseline(db) = [db EXCEPT !.schema = S]
  <2> DEFINE tables == {"globals", "global_context", "sessions", "workspaces", "tasks",
                 "task_events", "tool_calls", "permission_requests", "file_changes",
                 "execution_logs", "task_contexts", "system_health"}
  <2>1. {"globals", "global_context", "sessions", "workspaces"} \X {"*"} \subseteq RepositoryTables[1]
    BY GroupOne DEF GlobalsTable, GlobalContextTable, SessionsTable, WorkspacesTable, Whole
  <2>2. {"tasks", "task_events", "tool_calls", "permission_requests"} \X {"*"} \subseteq RepositoryTables[2]
    BY GroupOne DEF TasksTable, EventsTable, ToolCallsTable, PermissionsTable, Whole
  <2>3. {"file_changes", "execution_logs", "task_contexts", "system_health"} \X {"*"} \subseteq RepositoryTables[3]
    BY GroupOne DEF FileChangesTable, LogsTable, ContextsAndHealth, Whole
  <2>4. 1 \in Groups /\ 2 \in Groups /\ 3 \in Groups
    BY DEF Groups
  <2>5. tables \X {"*"} \subseteq FullSchema
    BY <2>1, <2>2, <2>3, <2>4, PartsOfSchema
  <2>6. Baseline(db) = [db EXCEPT !.schema = db.schema \cup (tables \X {"*"})]
    BY DEF Baseline
  <2> HIDE DEF tables
  <2> QED BY <1>1, <2>5, <2>6
<1>4. LET S == db.schema \cup MessagesDraft(Empty).schema IN
        S \subseteq FullSchema /\ MessagesDraft(db) = [db EXCEPT !.schema = S]
  <2> DEFINE A == ({"messages", "message_context_files", "message_attachments"} \X {"*"})
                    \cup {<<"messages", "idx_messages_session">>, <<"messages", "idx_messages_task">>}
  <2>1. MessagesDraft(Empty).schema = A
    BY <1>2 DEF MessagesDraft
  <2>2. MessagesDraft(db) = [db EXCEPT !.schema = db.schema \cup A]
    BY DEF MessagesDraft
  <2> HIDE DEF A
  <2> QED BY <1>1, <2>1, <2>2, PartsOfSchema
<1>5. LET S == db.schema \cup LookupIndexes(Empty).schema IN
        S \subseteq FullSchema /\ LookupIndexes(db) = [db EXCEPT !.schema = S]
  <2> DEFINE A == {<<"sessions", "idx_sessions_workspace_id">>, <<"tasks", "idx_tasks_session_id">>,
                   <<"tasks", "idx_tasks_workspace_id">>}
  <2>1. LookupIndexes(Empty).schema = A
    BY <1>2 DEF LookupIndexes
  <2>2. LookupIndexes(db) = [db EXCEPT !.schema = db.schema \cup A]
    BY DEF LookupIndexes
  <2> HIDE DEF A
  <2> QED BY <1>1, <2>1, <2>2, PartsOfSchema
<1> QED
  BY <1>3, <1>4, <1>5

\* CREATE TABLE makes the tables, and the columns an older one may lack.
LEMMA TablesAreKept ==
  ASSUME NEW schema \in SUBSET FullSchema, NEW g \in Groups
  PROVE  LET S == Created(schema, RepositoryTables[g]) IN
         schema \subseteq S /\ S \subseteq FullSchema /\ Kept(g) \subseteq S
<1> DEFINE S == Created(schema, RepositoryTables[g])
<1>1. schema \subseteq S /\ S \subseteq FullSchema
  BY PartsOfSchema DEF Created
<1>2. ASSUME NEW p \in Kept(g) PROVE p \in S
  <2>1. p \in RepositoryTables[g] /\ (p[2] = "*" \/ p \in LateColumns)
    BY DEF Kept
  <2>2. CASE p \in LateColumns
    BY <2>1, <2>2 DEF Created
  <2>3. CASE p[2] = "*"
    <3>1. p = <<p[1], p[2]>>
      <4>1. p \in RepositoryTables[1] \/ p \in RepositoryTables[2] \/ p \in RepositoryTables[3]
        BY <2>1 DEF Groups
      <4>2. CASE p \in RepositoryTables[1]
        BY <4>2, GroupOne DEF GlobalsTable, GlobalContextTable, SessionsTable, WorkspacesTable, Whole
      <4>3. CASE p \in RepositoryTables[2]
        BY <4>3, GroupOne DEF TasksTable, EventsTable, ToolCallsTable, PermissionsTable, Whole
      <4>4. CASE p \in RepositoryTables[3]
        BY <4>4, GroupOne DEF FileChangesTable, LogsTable, ContextsAndHealth, Whole
      <4> QED BY <4>1, <4>2, <4>3, <4>4
    <3> QED BY <2>1, <2>3, <3>1 DEF Created
  <2> QED BY <2>1, <2>2, <2>3
<1> QED
  BY <1>1, <1>2

\* All tables, all columns and all indexes together are the whole schema, but for the
\* column nobody adds to a table that lacks it.
LEMMA ReadyIsWhole ==
  ASSUME NEW db, Ready(db)
  PROVE  FullSchema \ {ResolvedAt} \subseteq db.schema
<1>1. \A v \in Versions : Done(db, v)
  BY DEF Ready, Migrated, Versions
<1>2. \A v \in Versions : Columns[v] \subseteq db.schema
  BY <1>1 DEF Done
<1>3. /\ LookupIndexes(Empty).schema \subseteq db.schema
      /\ MessagesDraft(Empty).schema \subseteq db.schema
      /\ {"messages"} \X MessageIndexes \subseteq db.schema
      /\ <<"task_events", "idx_task_events_task_sequence">> \in db.schema
  BY <1>1 DEF Done, BatchDone, Versions
<1>4. Kept(1) \subseteq db.schema /\ Kept(2) \subseteq db.schema /\ Kept(3) \subseteq db.schema
  BY DEF Ready, Migrated, TablesIn, Groups
<1>5. Columns[2] \subseteq db.schema /\ Columns[4] \subseteq db.schema
  BY <1>2 DEF Versions
<1>6. RepositoryTables[1] \subseteq db.schema
  <2> SUFFICES ASSUME NEW p \in RepositoryTables[1] PROVE p \in db.schema
    OBVIOUS
  <2>1. p \in Kept(1) \/ p \in Columns[2] \/ p \in Columns[4]
    <3>1. \/ p[2] = "*" \/ p = <<"globals", "workspace_id">> \/ p = <<"sessions", "alias">>
          \/ p \in {<<"sessions", "workspace_id">>, <<"sessions", "summary">>,
                    <<"sessions", "summary_updated_at">>, <<"workspaces", "description">>,
                    <<"workspaces", "last_opened_at">>}
          \/ p \in {<<"sessions", "last_active_at">>, <<"workspaces", "permissions_config">>}
      BY GroupOne DEF GlobalsTable, GlobalContextTable, SessionsTable, WorkspacesTable, Whole
    <3>2. /\ Columns[2] = {<<"workspaces", "description">>, <<"workspaces", "last_opened_at">>,
                <<"sessions", "workspace_id">>, <<"sessions", "summary">>,
                <<"sessions", "summary_updated_at">>, <<"tasks", "user_message_id">>,
                <<"tasks", "assistant_message_id">>}
          /\ Columns[4] = {<<"workspaces", "permissions_config">>, <<"sessions", "last_active_at">>}
      BY DEF Columns
    <3> QED BY <3>1, <3>2 DEF Kept, LateColumns
  <2> QED BY <1>4, <1>5, <2>1
<1>7. RepositoryTables[2] \ {ResolvedAt} \subseteq db.schema
  <2>1. ASSUME NEW p \in RepositoryTables[2] \ {ResolvedAt}
        PROVE  p[2] = "*" \/ p = <<"tasks", "session_id">> \/ p = <<"tasks", "global_id">>
    BY GroupOne DEF TasksTable, EventsTable, ToolCallsTable, PermissionsTable, Whole, ResolvedAt
  <2> QED BY <1>4, <2>1 DEF Kept, LateColumns
<1>8. RepositoryTables[3] \subseteq db.schema
  <2>1. ASSUME NEW p \in RepositoryTables[3] PROVE p[2] = "*"
    BY GroupOne DEF FileChangesTable, LogsTable, ContextsAndHealth, Whole
  <2> QED BY <1>4, <2>1 DEF Kept
<1>9. \A g \in Groups : RepositoryTables[g] \ {ResolvedAt} \subseteq db.schema
  BY <1>6, <1>7, <1>8 DEF Groups
<1> QED
  BY <1>2, <1>3, <1>9 DEF FullSchema

-----------------------------------------------------------------------------
(* The batches that move rows.                                                *)

LEMMA RowTypes ==
  ASSUME NEW db, DbOK(db)
  PROVE  /\ db.messages \in SUBSET Message /\ db.events \in SUBSET Event
         /\ db.tasks \in [DOMAIN db.tasks -> Row]
         /\ \A t \in DOMAIN db.tasks : t \in Tasks /\ t \in Nat /\ t # 0 /\ db.tasks[t] \in Row
BY TasksAssumption DEF DbOK

\* The question a migration makes of the goal of a task.
Migrant(db, t) ==
  [id |-> MigratedId(t), session |-> db.tasks[t].session, task |-> t, role |-> "user",
   at |-> db.tasks[t].at, seq |-> 0]

LEMMA MigrantIs ==
  ASSUME NEW db, DbOK(db), NEW t \in DOMAIN db.tasks
  PROVE  Migrant(db, t) \in Message /\ Migrant(db, t).id # 0
BY RowTypes DEF Migrant, Message, Row, MigratedId

LEMMA FiniteMissing ==
  ASSUME NEW db, DbOK(db)
  PROVE  IsFiniteSet(MissingQuestions(db)) /\ MissingQuestions(db) \in SUBSET Message
<1> DEFINE U == {u \in DOMAIN db.tasks : db.tasks[u].session # None /\ Questions(db, u) = {}}
<1> DEFINE f == [t \in U |-> Migrant(db, t)]
<1>1. MissingQuestions(db) = {f[t] : t \in U}
  BY DEF MissingQuestions, Migrant
<1>2. U \in SUBSET Tasks
  BY RowTypes
<1>3. \A t \in U : Migrant(db, t) \in Message
  BY MigrantIs
<1>4. MissingQuestions(db) \in SUBSET Message
  BY <1>1, <1>3
<1> HIDE DEF U, f
<1>5. IsFiniteSet(U)
  BY <1>2, FS_Subset, TasksAssumption
<1>6. IsFiniteSet({f[t] : t \in U})
  BY <1>5, FiniteRange
<1> QED
  BY <1>1, <1>4, <1>6

\* What the sixth migration does, table by table.
Pointed(db, w, t) ==
  IF db.tasks[t].question = 0 /\ Questions(w, t) # {}
  THEN [db.tasks[t] EXCEPT !.question = Earliest(Questions(w, t)).id] ELSE db.tasks[t]

LEMMA ConversationIs ==
  ASSUME NEW db, DbOK(db)
  PROVE  LET n == Conversation(db)
             w == WithQuestions(db) IN
         /\ n.schema = db.schema \cup ({"messages"} \X MessageIndexes)
         /\ n.bad = db.bad /\ n.recorded = db.recorded /\ n.events = db.events /\ n.asks = db.asks
         /\ w.messages = db.messages \cup MissingQuestions(db)
         /\ n.messages = Ranked(w.messages, "session")
         /\ n.tasks = [t \in DOMAIN db.tasks |-> Pointed(db, w, t)]
         /\ n \in [schema : {n.schema}, bad : {n.bad}, recorded : {n.recorded}, tasks : {n.tasks},
                   messages : {n.messages}, events : {n.events}, asks : {n.asks}]
<1> DEFINE w == WithQuestions(db)
<1> DEFINE a == WithPointers(w)
<1>1. /\ w.schema = db.schema /\ w.bad = db.bad /\ w.recorded = db.recorded
      /\ w.events = db.events /\ w.asks = db.asks /\ w.tasks = db.tasks
      /\ w.messages = db.messages \cup MissingQuestions(db)
      /\ w \in [schema : {w.schema}, bad : {w.bad}, recorded : {w.recorded}, tasks : {w.tasks},
                messages : {w.messages}, events : {w.events}, asks : {w.asks}]
  BY DEF WithQuestions, DbOK
<1>2. /\ a.schema = w.schema /\ a.bad = w.bad /\ a.recorded = w.recorded
      /\ a.events = w.events /\ a.asks = w.asks /\ a.messages = w.messages
      /\ a.tasks = [t \in DOMAIN w.tasks |->
           IF w.tasks[t].question = 0 /\ Questions(w, t) # {}
           THEN [w.tasks[t] EXCEPT !.question = Earliest(Questions(w, t)).id] ELSE w.tasks[t]]
      /\ a \in [schema : {a.schema}, bad : {a.bad}, recorded : {a.recorded}, tasks : {a.tasks},
                messages : {a.messages}, events : {a.events}, asks : {a.asks}]
  <2> HIDE DEF w
  <2> QED BY <1>1 DEF WithPointers
<1> DEFINE n == Conversation(db)
<1>3. n = [a EXCEPT !.messages = Ranked(@, "session"),
                    !.schema = @ \cup ({"messages"} \X MessageIndexes)]
  BY DEF Conversation
<1> HIDE DEF w, a, n
<1>4. /\ n.schema = a.schema \cup ({"messages"} \X MessageIndexes)
      /\ n.bad = a.bad /\ n.recorded = a.recorded /\ n.events = a.events /\ n.asks = a.asks
      /\ n.messages = Ranked(a.messages, "session") /\ n.tasks = a.tasks
      /\ n \in [schema : {n.schema}, bad : {n.bad}, recorded : {n.recorded}, tasks : {n.tasks},
                messages : {n.messages}, events : {n.events}, asks : {n.asks}]
  BY <1>2, <1>3
<1>5. n.tasks = [t \in DOMAIN db.tasks |-> Pointed(db, w, t)]
  BY <1>1, <1>2, <1>4 DEF Pointed
<1> QED
  BY <1>1, <1>2, <1>4, <1>5 DEF n, w

\* Questions that are all there are left as they are.
LEMMA ConversationAgain ==
  ASSUME NEW db, Good(db), Asked(db)
  PROVE  LET n == Conversation(db) IN n.messages = db.messages /\ n.tasks = db.tasks
<1> DEFINE w == WithQuestions(db)
<1> DEFINE n == Conversation(db)
<1>1. DbOK(db) /\ IsFiniteSet(db.messages)
  BY DEF Good
<1>2. MissingQuestions(db) = {}
  BY DEF MissingQuestions, Asked
<1>3. w.messages = db.messages /\ n.messages = Ranked(db.messages, "session")
  <2>1. db.messages \cup MissingQuestions(db) = db.messages
    BY <1>2
  <2>2. w.messages = db.messages \cup MissingQuestions(db) /\ n.messages = Ranked(w.messages, "session")
    BY <1>1, ConversationIs
  <2> HIDE DEF w, n
  <2> QED BY <2>1, <2>2
<1>4. n.messages = db.messages
  BY <1>1, <1>3, RowTypes, RankedMessages DEF Asked
<1>5. \A t : Questions(w, t) = Questions(db, t)
  BY <1>3 DEF Questions
<1>6. \A t \in DOMAIN db.tasks : Pointed(db, w, t) = db.tasks[t]
  BY <1>5 DEF Pointed, Asked
<1>7. n.tasks = [t \in DOMAIN db.tasks |-> Pointed(db, w, t)]
  BY <1>1, ConversationIs
<1>8. n.tasks = [t \in DOMAIN db.tasks |-> db.tasks[t]]
  BY <1>6, <1>7
<1>9. n.tasks = db.tasks
  BY <1>1, <1>8, RowTypes
<1> QED
  BY <1>4, <1>9

\* A task of a session that has no question gets one, and points at it.
LEMMA ConversationFirst ==
  ASSUME NEW db, DbOK(db), Fresh(db)
  PROVE  LET n == Conversation(db) IN
         /\ n.messages \in SUBSET Message /\ IsFiniteSet(n.messages)
         /\ n.tasks \in [DOMAIN db.tasks -> Row]
         /\ \A t \in DOMAIN db.tasks : n.tasks[t].status = db.tasks[t].status
                                       /\ n.tasks[t].session = db.tasks[t].session
         /\ Asked(n)
<1> DEFINE w == WithQuestions(db)
<1> DEFINE n == Conversation(db)
<1> DEFINE U == {u \in DOMAIN db.tasks : db.tasks[u].session # None}
<1>1. \A t : Questions(db, t) = {}
  BY DEF Fresh, Questions
<1>2. w.messages = {Migrant(db, t) : t \in U} /\ w.messages = MissingQuestions(db)
  <2>1. w.messages = MissingQuestions(db)
    <3>1. {} \cup MissingQuestions(db) = MissingQuestions(db)
      OBVIOUS
    <3>2. w.messages = db.messages \cup MissingQuestions(db)
      BY ConversationIs
    <3> HIDE DEF w
    <3> QED BY <3>1, <3>2 DEF Fresh
  <2> QED BY <1>1, <2>1 DEF MissingQuestions, Migrant
<1>3. w.messages \in SUBSET Message /\ IsFiniteSet(w.messages)
  BY <1>2, FiniteMissing
<1>4. \A t \in U : Questions(w, t) = {Migrant(db, t)}
  BY <1>2 DEF Questions, Migrant
<1>5. \A t \in DOMAIN db.tasks : t \notin U => Questions(w, t) = {}
  BY <1>2 DEF Questions, Migrant
<1>6. n.messages = Ranked(w.messages, "session")
      /\ n.tasks = [t \in DOMAIN db.tasks |-> Pointed(db, w, t)]
  BY ConversationIs
<1>7. Plain(w.messages, "session")
  <2>1. \A r \in w.messages : r.seq = 0
    BY <1>2 DEF Migrant
  <2>2. ASSUME NEW t \in U, NEW u \in U, Migrant(db, t).id = Migrant(db, u).id PROVE t = u
    BY <2>2, RowTypes DEF Migrant, MigratedId
  <2>3. \A a, b \in w.messages : a.id = b.id => a = b
    BY <1>2, <2>2
  <2> QED BY <2>1, <2>3 DEF Plain
<1> HIDE DEF w, n, U
<1>8. n.messages \in SUBSET Message /\ IsFiniteSet(n.messages) /\ Numbered(n.messages, "session")
  BY <1>3, <1>6, <1>7, RankedMessages, FiniteRanked DEF Numbered
<1>9. ASSUME NEW t \in U
      PROVE  /\ t \in DOMAIN db.tasks
             /\ n.tasks[t] = [db.tasks[t] EXCEPT !.question = Migrant(db, t).id]
             /\ \E m \in Questions(n, t) : m.id = Migrant(db, t).id
  <2>1. t \in DOMAIN db.tasks
    BY DEF U
  <2>2. Earliest({Migrant(db, t)}) = Migrant(db, t)
    BY DEF Earliest, Before
  <2>3. n.tasks[t] = [db.tasks[t] EXCEPT !.question = Migrant(db, t).id]
    <3>1. n.tasks[t] = Pointed(db, w, t)
      BY <1>6, <2>1
    <3>2. Questions(w, t) = {Migrant(db, t)} /\ Questions(w, t) # {}
      BY <1>4
    <3>3. db.tasks[t].question = 0
      BY <2>1 DEF Fresh
    <3> QED BY <2>2, <3>1, <3>2, <3>3 DEF Pointed
  <2> DEFINE m == Numbering(w.messages, "session", Migrant(db, t))
  <2>4. Migrant(db, t) \in w.messages
    BY <1>2
  <2>5. m \in n.messages
    BY <1>6, <2>4 DEF Ranked
  <2>6. m.id = Migrant(db, t).id /\ m.task = Migrant(db, t).task /\ m.role = Migrant(db, t).role
    BY <1>3, <2>4, MessageNumbering
  <2>7. m.task = t /\ m.role = "user"
    BY <2>6 DEF Migrant
  <2> QED BY <2>1, <2>3, <2>5, <2>6, <2>7 DEF Questions
<1>10. ASSUME NEW t \in DOMAIN db.tasks, t \notin U
       PROVE  n.tasks[t] = db.tasks[t] /\ db.tasks[t].session = None /\ Questions(n, t) = {}
  <2>1. n.tasks[t] = db.tasks[t]
    BY <1>5, <1>6, <1>10 DEF Pointed
  <2>2. \A m \in n.messages : \E r \in w.messages : m.task = r.task
    BY <1>3, <1>6, MessageNumbering DEF Ranked
  <2>3. \A r \in w.messages : r.task # t
    BY <1>2, <1>10 DEF Migrant
  <2> QED BY <1>10, <2>1, <2>2, <2>3 DEF U, Questions
<1>11. \A t \in U : Migrant(db, t).id # 0 /\ Migrant(db, t).id \in Nat
  BY MigrantIs DEF U, Message
<1>12. ASSUME NEW t \in DOMAIN db.tasks
       PROVE  /\ n.tasks[t] \in Row /\ n.tasks[t].status = db.tasks[t].status
              /\ n.tasks[t].session = db.tasks[t].session
              /\ n.tasks[t].session # None => \E m \in Questions(n, t) : m.id = n.tasks[t].question
              /\ n.tasks[t].question = 0 => Questions(n, t) = {}
  <2>1. db.tasks[t] \in Row
    BY RowTypes
  <2>2. CASE t \in U
    BY <1>9, <1>11, <2>1, <2>2 DEF Row
  <2>3. CASE t \notin U
    BY <1>10, <2>1, <2>3
  <2> QED BY <2>2, <2>3
<1>13. DOMAIN n.tasks = DOMAIN db.tasks /\ n.tasks \in [DOMAIN db.tasks -> Row]
  BY <1>6, <1>12
<1>14. Asked(n)
  BY <1>8, <1>12, <1>13 DEF Asked
<1> QED
  BY <1>8, <1>12, <1>13, <1>14 DEF n

LEMMA ConversationKeeps ==
  ASSUME NEW db, Good(db)
  PROVE  LET n == Conversation(db) IN
         /\ Becomes(db, n) /\ Asked(n) /\ n.recorded = db.recorded
         /\ n.schema = db.schema \cup ({"messages"} \X MessageIndexes)
<1> DEFINE n == Conversation(db)
<1>1. DbOK(db) /\ IsFiniteSet(db.messages) /\ IsFiniteSet(db.events) /\ Ended(db) /\ OneEnd(db)
  BY DEF Good
<1>2. /\ n.schema = db.schema \cup ({"messages"} \X MessageIndexes)
      /\ n.bad = db.bad /\ n.recorded = db.recorded /\ n.events = db.events /\ n.asks = db.asks
      /\ n \in [schema : {n.schema}, bad : {n.bad}, recorded : {n.recorded}, tasks : {n.tasks},
                messages : {n.messages}, events : {n.events}, asks : {n.asks}]
  BY <1>1, ConversationIs
<1>3. /\ n.messages \in SUBSET Message /\ IsFiniteSet(n.messages)
      /\ n.tasks \in [DOMAIN db.tasks -> Row]
      /\ \A t \in DOMAIN db.tasks : n.tasks[t].status = db.tasks[t].status
      /\ \A m \in db.messages : m \in n.messages
      /\ Asked(n)
  <2>1. CASE Fresh(db)
    BY <1>1, <2>1, ConversationFirst DEF Fresh
  <2>2. CASE Asked(db)
    <3>1. n.messages = db.messages /\ n.tasks = db.tasks
      BY <2>2, ConversationAgain
    <3> HIDE DEF n
    <3>2. \A t : Questions(n, t) = Questions(db, t)
      BY <3>1 DEF Questions
    <3>3. Asked(n)
      BY <2>2, <3>1, <3>2 DEF Asked
    <3> QED BY <1>1, <3>1, <3>3, RowTypes
  <2> QED BY <2>1, <2>2 DEF Good
<1> HIDE DEF n
<1>4. DOMAIN n.tasks = DOMAIN db.tasks
  BY <1>3
<1>5. DbOK(n)
  <2>1. n.schema \subseteq FullSchema
    BY <1>1, <1>2, PartsOfSchema DEF DbOK
  <2>2. /\ n.bad \subseteq n.schema /\ n.recorded \in [Versions -> {"absent", "other"} \cup {Names[v] : v \in Versions}]
        /\ n.events \subseteq Event /\ n.asks \subseteq Tasks
        /\ DOMAIN n.tasks \subseteq Tasks
    BY <1>1, <1>2, <1>4 DEF DbOK
  <2>3. n.bad \subseteq FullSchema
    BY <2>1, <2>2
  <2> QED BY <1>2, <1>3, <1>4, <2>1, <2>2, <2>3 DEF DbOK
<1>6. Good(n)
  <2>1. \A t : HasTerminalEvent(n, t) <=> HasTerminalEvent(db, t)
    BY <1>2 DEF HasTerminalEvent
  <2>2. Ended(n)
    BY <1>1, <1>2, <1>3, <1>4, <2>1 DEF Ended
  <2>3. OneEnd(n)
    BY <1>1, <1>2 DEF OneEnd
  <2> QED BY <1>1, <1>2, <1>3, <1>5, <2>2, <2>3 DEF Good
<1>7. Extends(db, n)
  BY <1>2, <1>3, <1>4 DEF Extends
<1>8. ASSUME NEW v \in Versions, Done(db, v) PROVE Done(n, v)
  BY <1>2, <1>3, <1>8 DEF Done, BatchDone
<1>9. \A k \in 1 .. 8 : Migrated(db, k) => Migrated(n, k)
  BY <1>2, <1>8 DEF Migrated, TablesIn
<1>10. Becomes(db, n)
  BY <1>2, <1>6, <1>7, <1>9 DEF Becomes, KnownNames, OwnEvents
<1> QED
  BY <1>2, <1>3, <1>10 DEF n

\* The seventh, unless SQLite refuses it.
LEMMA EventOrderKeeps ==
  ASSUME NEW db, Good(db), UniqueIn(EventOrder(db).events, "task")
  PROVE  LET n == EventOrder(db) IN
         /\ Becomes(db, n) /\ Numbered(n.events, "task") /\ n.recorded = db.recorded
         /\ n.schema = db.schema \cup {<<"task_events", "idx_task_events_task_sequence">>}
<1> DEFINE n == EventOrder(db)
<1>1. DbOK(db) /\ IsFiniteSet(db.messages) /\ IsFiniteSet(db.events) /\ Ended(db) /\ OneEnd(db)
      /\ db.events \in SUBSET Event
  BY RowTypes DEF Good
<1>2. /\ n.schema = db.schema \cup {<<"task_events", "idx_task_events_task_sequence">>}
      /\ n.bad = db.bad /\ n.recorded = db.recorded /\ n.messages = db.messages /\ n.asks = db.asks
      /\ n.tasks = db.tasks /\ n.events = Ranked(db.events, "task")
      /\ n \in [schema : {n.schema}, bad : {n.bad}, recorded : {n.recorded}, tasks : {n.tasks},
                messages : {n.messages}, events : {n.events}, asks : {n.asks}]
  BY <1>1 DEF EventOrder, DbOK
<1>3. n.events \in SUBSET Event /\ IsFiniteSet(n.events) /\ Numbered(n.events, "task")
  BY <1>1, <1>2, RankedEvents, FiniteRanked DEF Numbered
<1> HIDE DEF n
<1>4. \A e \in db.events : \E f \in n.events :
        f.id = e.id /\ f.task = e.task /\ f.type = e.type /\ (e.seq # 0 => f = e)
  BY <1>1, <1>2, EventNumbering DEF Ranked
<1>5. ASSUME NEW f \in n.events
      PROVE  \E e \in db.events : /\ f = Numbering(db.events, "task", e)
                                  /\ f.id = e.id /\ f.task = e.task /\ f.type = e.type
  BY <1>1, <1>2, EventNumbering DEF Ranked
<1>6. DbOK(n)
  <2>1. n.schema \subseteq FullSchema /\ n.bad \subseteq n.schema /\ n.bad \subseteq FullSchema
    BY <1>1, <1>2, PartsOfSchema DEF DbOK
  <2> QED BY <1>1, <1>2, <1>3, <2>1 DEF DbOK
<1>7. Ended(n)
  <2>1. \A t : HasTerminalEvent(db, t) => HasTerminalEvent(n, t)
    BY <1>4 DEF HasTerminalEvent
  <2> QED BY <1>1, <1>2, <2>1 DEF Ended
<1>8. OneEnd(n)
  BY <1>1, <1>5 DEF OneEnd
<1>9. \A t : Questions(n, t) = Questions(db, t)
  BY <1>2 DEF Questions
<1>10. Asked(db) => Asked(n)
  BY <1>2, <1>9 DEF Asked
<1>11. Good(n)
  BY <1>1, <1>2, <1>3, <1>6, <1>7, <1>8, <1>10 DEF Good, Fresh
<1>12. Extends(db, n)
  BY <1>2, <1>4 DEF Extends
<1>13. ASSUME NEW v \in Versions, Done(db, v) PROVE Done(n, v)
  BY <1>2, <1>3, <1>10, <1>13 DEF Done, BatchDone
<1>14. \A k \in 1 .. 8 : Migrated(db, k) => Migrated(n, k)
  BY <1>2, <1>13 DEF Migrated, TablesIn
<1>15. OwnEvents(db) => OwnEvents(n)
  BY <1>3, <1>5 DEF OwnEvents
<1>16. Becomes(db, n)
  BY <1>2, <1>11, <1>12, <1>14, <1>15 DEF Becomes, KnownNames
<1> QED
  BY <1>2, <1>3, <1>16 DEF n

LEMMA SchemaWritten ==
  ASSUME NEW db, Good(db), NEW S \in SUBSET FullSchema, db.schema \subseteq S,
         NEW n, n = [db EXCEPT !.schema = S]
  PROVE  Becomes(db, n) /\ n.schema = S /\ n.recorded = db.recorded
<1>1. Becomes(db, n)
  BY SchemaGrows
<1>2. n.schema = S /\ n.recorded = db.recorded
  BY DEF Good, DbOK
<1> QED
  BY <1>1, <1>2

\* A batch that SQLite takes does what it is for and breaks nothing.
LEMMA BatchKeeps ==
  ASSUME NEW db, Good(db), NEW v \in Batched, ~Refused(v, db)
  PROVE  LET n == Batch(v, db) IN
         /\ Becomes(db, n) /\ BatchDone(n, v) /\ n.recorded = db.recorded
         /\ db.schema \subseteq n.schema
<1>1. DbOK(db)
  BY DEF Good
<1>2. CASE v = 1
  <2>1. PICK S \in SUBSET FullSchema : db.schema \subseteq S /\ Baseline(db) = [db EXCEPT !.schema = S]
    BY <1>1, AddedByBatches
  <2>2. Batch(v, db) = [db EXCEPT !.schema = S]
    BY <1>2, <2>1 DEF Batch
  <2> DEFINE n == Batch(v, db)
  <2> HIDE DEF n
  <2>3. Becomes(db, n) /\ n.schema = S /\ n.recorded = db.recorded
    BY <2>1, <2>2, SchemaWritten DEF n
  <2> QED BY <1>2, <2>1, <2>3 DEF BatchDone, n
<1>3. CASE v = 3
  <2> DEFINE S == db.schema \cup MessagesDraft(Empty).schema
  <2>1. S \in SUBSET FullSchema /\ db.schema \subseteq S /\ MessagesDraft(Empty).schema \subseteq S
        /\ MessagesDraft(db) = [db EXCEPT !.schema = S]
    BY <1>1, AddedByBatches
  <2> HIDE DEF S
  <2>2. Batch(v, db) = [db EXCEPT !.schema = S]
    BY <1>3, <2>1 DEF Batch
  <2> DEFINE n == Batch(v, db)
  <2> HIDE DEF n
  <2>3. Becomes(db, n) /\ n.schema = S /\ n.recorded = db.recorded
    BY <2>1, <2>2, SchemaWritten DEF n
  <2> QED BY <1>3, <2>1, <2>3 DEF BatchDone, n
<1>4. CASE v = 5
  <2> DEFINE S == db.schema \cup LookupIndexes(Empty).schema
  <2>1. S \in SUBSET FullSchema /\ db.schema \subseteq S /\ LookupIndexes(Empty).schema \subseteq S
        /\ LookupIndexes(db) = [db EXCEPT !.schema = S]
    BY <1>1, AddedByBatches
  <2> HIDE DEF S
  <2>2. Batch(v, db) = [db EXCEPT !.schema = S]
    BY <1>4, <2>1 DEF Batch
  <2> DEFINE n == Batch(v, db)
  <2> HIDE DEF n
  <2>3. Becomes(db, n) /\ n.schema = S /\ n.recorded = db.recorded
    BY <2>1, <2>2, SchemaWritten DEF n
  <2> QED BY <1>4, <2>1, <2>3 DEF BatchDone, n
<1>5. CASE v = 6
  <2>1. Batch(v, db) = Conversation(db)
    BY <1>5 DEF Batch
  <2>2. {"messages"} \X MessageIndexes \subseteq Conversation(db).schema
        /\ db.schema \subseteq Conversation(db).schema
    BY ConversationKeeps
  <2> QED BY <1>5, <2>1, <2>2, ConversationKeeps DEF BatchDone
<1>6. CASE v = 7
  <2>1. Batch(v, db) = EventOrder(db) /\ UniqueIn(EventOrder(db).events, "task")
    BY <1>6 DEF Batch, Refused
  <2>2. /\ <<"task_events", "idx_task_events_task_sequence">> \in EventOrder(db).schema
        /\ db.schema \subseteq EventOrder(db).schema
    BY <2>1, EventOrderKeeps
  <2> QED BY <1>6, <2>1, <2>2, EventOrderKeeps DEF BatchDone
<1> QED
  BY <1>2, <1>3, <1>4, <1>5, <1>6 DEF Batched

\* What this server wrote, SQLite takes.
LEMMA OwnIsTaken ==
  ASSUME NEW db, Good(db), OwnEvents(db), NEW v
  PROVE  ~Refused(v, db)
<1>1. UniqueIn(Conversation(db).messages, "session")
  BY ConversationKeeps DEF Asked, Numbered
<1>2. UniqueIn(EventOrder(db).events, "task")
  <2>1. DbOK(db) /\ db.events \in SUBSET Event /\ IsFiniteSet(db.events)
    BY RowTypes DEF Good
  <2>2. EventOrder(db).events = Ranked(db.events, "task")
    BY <2>1 DEF EventOrder, DbOK
  <2> QED BY <2>1, <2>2, RankedEvents DEF OwnEvents, Numbered
<1> QED
  BY <1>1, <1>2 DEF Refused

-----------------------------------------------------------------------------
(* What recovery and service write.                                           *)

LEMMA RowsWritten ==
  ASSUME NEW db, Good(db), Ready(db), NEW n,
         n \in [schema : {db.schema}, bad : {db.bad}, recorded : {db.recorded},
                tasks : [DOMAIN n.tasks -> Row], messages : SUBSET Message,
                events : SUBSET Event, asks : SUBSET Tasks],
         DOMAIN db.tasks \subseteq DOMAIN n.tasks, DOMAIN n.tasks \subseteq Tasks,
         db.messages \subseteq n.messages, IsFiniteSet(n.messages), Asked(n),
         db.events \subseteq n.events, IsFiniteSet(n.events), Numbered(n.events, "task"),
         Ended(n), OneEnd(n),
         \A e \in n.events \ db.events, t \in Tasks :
           e.id = RecoveryId(t) => e.task = t /\ e.type = "task_failed"
  PROVE  Becomes(db, n) /\ Ready(n)
<1>1. n.schema = db.schema /\ n.bad = db.bad /\ n.recorded = db.recorded
  OBVIOUS
<1>2. DbOK(n)
  BY DEF Good, DbOK
<1>3. Good(n)
  BY <1>2 DEF Good
<1>4. Extends(db, n)
  BY DEF Extends
<1>5. ASSUME NEW v \in Versions, Done(db, v) PROVE Done(n, v)
  BY <1>1, <1>5 DEF Done, BatchDone
<1>6. \A k \in 1 .. 8 : Migrated(db, k) => Migrated(n, k)
  BY <1>1, <1>5 DEF Migrated, TablesIn
<1>7. OwnEvents(db) => OwnEvents(n)
  BY DEF OwnEvents
<1>8. Becomes(db, n)
  BY <1>1, <1>3, <1>4, <1>6, <1>7 DEF Becomes, KnownNames
<1>9. 8 \in 1 .. 8
  OBVIOUS
<1> QED
  BY <1>6, <1>8, <1>9 DEF Ready

LEMMA ReadyIs ==
  ASSUME NEW db, Ready(db)
  PROVE  /\ Asked(db) /\ Numbered(db.events, "task")
         /\ \A v \in Versions : db.recorded[v] = Names[v]
BY DEF Ready, Migrated, Done, BatchDone, Versions

LEMMA GoodIs ==
  ASSUME NEW db, Good(db)
  PROVE  /\ DbOK(db) /\ IsFiniteSet(db.messages) /\ IsFiniteSet(db.events) /\ Ended(db) /\ OneEnd(db)
         /\ db.messages \in SUBSET Message /\ db.events \in SUBSET Event /\ db.asks \in SUBSET Tasks
         /\ db.tasks \in [DOMAIN db.tasks -> Row]
         /\ DOMAIN db.tasks \subseteq Tasks
         /\ db \in [schema : {db.schema}, bad : {db.bad}, recorded : {db.recorded}, tasks : {db.tasks},
                    messages : {db.messages}, events : {db.events}, asks : {db.asks}]
BY DEF Good, DbOK

\* Ids of events that are written in service are even, those of a recovery odd.
LEMMA EventIdIs ==
  ASSUME NEW t \in Nat, NEW n \in Nat
  PROVE  /\ EventId(t, n) \in Nat
         /\ \A u \in Nat : EventId(t, n) # RecoveryId(u)
         /\ \A m \in Nat : EventId(t, m) = EventId(t, n) => m = n
<1>1. PICK k \in Nat : k = (MaxEvents + 4) * t
  BY BoundsAssumption
<1>2. \A m \in Nat : EventId(t, m) = 2 * (k + m)
  BY <1>1 DEF EventId
<1> QED
  BY <1>2 DEF RecoveryId

LEMMA RecoveryIdIs ==
  ASSUME NEW t \in Nat
  PROVE  RecoveryId(t) \in Nat /\ \A u \in Nat : RecoveryId(u) = RecoveryId(t) => u = t
BY DEF RecoveryId

\* An event more, with the next number of its task.
LEMMA EventAdded ==
  ASSUME NEW db, Good(db), NEW t \in Tasks, NEW id \in Nat,
         NEW type \in TerminalTypes \cup {"progress"},
         type \in TerminalTypes => ~HasTerminalEvent(db, t),
         NEW e, e = NewEvent(db, t, id, type), NEW events, events = db.events \cup {e}
  PROVE  /\ e.id = id /\ e.task = t /\ e.type = type /\ e \in Event
         /\ events \in SUBSET Event /\ IsFiniteSet(events)
         /\ Numbered(db.events, "task") => Numbered(events, "task")
         /\ \A f, g \in events : f.type \in TerminalTypes /\ g.type \in TerminalTypes /\ f.task = g.task
              => f = g
<1> DEFINE own == {f \in db.events : f.task = t}
<1>1. IsFiniteSet(own) /\ (\A f \in own : f.seq \in Nat)
  <2>1. own \in SUBSET db.events /\ (\A f \in own : f.seq \in Nat)
    BY GoodIs DEF Event
  <2> HIDE DEF own
  <2> QED BY <2>1, GoodIs, FS_Subset
<1>2. NextSeq(own) \in Nat /\ NextSeq(own) # 0 /\ (\A f \in own : f.seq # NextSeq(own))
  <2> HIDE DEF own
  <2> QED BY <1>1, NextSeqIs
<1>3. e = [id |-> id, task |-> t, type |-> type, at |-> 3, seq |-> NextSeq(own)]
  BY DEF NewEvent
<1>4. e.id = id /\ e.task = t /\ e.type = type /\ e.seq = NextSeq(own) /\ e \in Event
  BY <1>2, <1>3 DEF Event
<1>5. IsFiniteSet(db.events \cup {e})
  BY GoodIs, FS_AddElement
<1>6. Numbered(db.events, "task") => Numbered(db.events \cup {e}, "task")
  BY <1>2, <1>4 DEF Numbered, UniqueIn
<1>7. \A f, g \in db.events \cup {e} :
        f.type \in TerminalTypes /\ g.type \in TerminalTypes /\ f.task = g.task => f = g
  BY <1>4, GoodIs DEF OneEnd, HasTerminalEvent
<1> QED
  BY <1>4, <1>5, <1>6, <1>7, GoodIs

\* A message more, with the next number of its session.
LEMMA MessageAdded ==
  ASSUME NEW db, Good(db), NEW t \in Tasks, NEW s, s \in Sessions \cup {None}, NEW id \in Nat,
         NEW role, role = "user" \/ role = "assistant", Numbered(db.messages, "session"),
         NEW m, m = NewMessage(db, t, s, id, role),
         NEW messages, messages = db.messages \cup {m}
  PROVE  /\ m.id = id /\ m.task = t /\ m.session = s /\ m.role = role
         /\ messages \in SUBSET Message /\ IsFiniteSet(messages)
         /\ Numbered(messages, "session")
<1> DEFINE own == {q \in db.messages : q.session = s}
<1>1. IsFiniteSet(own) /\ (\A q \in own : q.seq \in Nat)
  <2>1. own \in SUBSET db.messages /\ (\A q \in own : q.seq \in Nat)
    BY GoodIs DEF Message
  <2> HIDE DEF own
  <2> QED BY <2>1, GoodIs, FS_Subset
<1>2. NextSeq(own) \in Nat /\ NextSeq(own) # 0 /\ (\A q \in own : q.seq # NextSeq(own))
  <2> HIDE DEF own
  <2> QED BY <1>1, NextSeqIs
<1>3. m = [id |-> id, session |-> s, task |-> t, role |-> role, at |-> 3, seq |-> NextSeq(own)]
  BY DEF NewMessage
<1>4. m.id = id /\ m.task = t /\ m.role = role /\ m.session = s /\ m.seq = NextSeq(own) /\ m \in Message
  BY <1>2, <1>3 DEF Message
<1>5. IsFiniteSet(db.messages \cup {m})
  BY GoodIs, FS_AddElement
<1>6. Numbered(db.messages \cup {m}, "session")
  BY <1>2, <1>4 DEF Numbered, UniqueIn
<1> QED
  BY <1>4, <1>5, <1>6, GoodIs

\* No question and no pointer to one has changed.
LEMMA SameQuestions ==
  ASSUME NEW db, Asked(db), NEW n, n.messages = db.messages, DOMAIN n.tasks = DOMAIN db.tasks,
         \A t \in DOMAIN db.tasks : n.tasks[t].session = db.tasks[t].session
                                    /\ n.tasks[t].question = db.tasks[t].question
  PROVE  Asked(n)
<1>1. \A t : Questions(n, t) = Questions(db, t)
  BY DEF Questions
<1> QED
  BY <1>1 DEF Asked

\* A row with another status is a row.
LEMMA StatusIs ==
  ASSUME NEW r \in Row, NEW s \in Statuses
  PROVE  LET n == [r EXCEPT !.status = s] IN
         n \in Row /\ n.session = r.session /\ n.question = r.question /\ n.status = s
BY DEF Row

\* A task is marked running or decided.
LEMMA StatusWritten ==
  ASSUME NEW db, Good(db), Ready(db), NEW t \in DOMAIN db.tasks,
         NEW s \in Statuses \ {"interrupted"}
  PROVE  LET n == [db EXCEPT !.tasks[t].status = s] IN Becomes(db, n) /\ Ready(n)
<1> DEFINE n == [db EXCEPT !.tasks[t].status = s]
<1>1. /\ n.schema = db.schema /\ n.bad = db.bad /\ n.recorded = db.recorded
      /\ n.messages = db.messages /\ n.events = db.events /\ n.asks = db.asks
      /\ n.tasks = [db.tasks EXCEPT ![t].status = s]
      /\ n \in [schema : {n.schema}, bad : {n.bad}, recorded : {n.recorded}, tasks : {n.tasks},
                messages : {n.messages}, events : {n.events}, asks : {n.asks}]
  BY GoodIs
<1> HIDE DEF n
<1>2. /\ n.tasks \in [DOMAIN n.tasks -> Row] /\ DOMAIN n.tasks = DOMAIN db.tasks
      /\ \A u \in DOMAIN db.tasks :
              /\ n.tasks[u].session = db.tasks[u].session /\ n.tasks[u].question = db.tasks[u].question
              /\ n.tasks[u].status = IF u = t THEN s ELSE db.tasks[u].status
  <2>1. db.tasks[t] \in Row /\ db.tasks \in [DOMAIN db.tasks -> Row] /\ s \in Statuses
    BY GoodIs
  <2>2. PICK r : /\ r = [db.tasks[t] EXCEPT !.status = s] /\ r \in Row /\ r.status = s
                 /\ r.session = db.tasks[t].session /\ r.question = db.tasks[t].question
    BY <2>1, StatusIs
  <2>3. n.tasks = [u \in DOMAIN db.tasks |-> IF u = t THEN r ELSE db.tasks[u]]
    BY <1>1, <2>1, <2>2
  <2> QED BY <2>1, <2>2, <2>3
<1>3. \A u : HasTerminalEvent(n, u) <=> HasTerminalEvent(db, u)
  BY <1>1 DEF HasTerminalEvent
<1>4. Ended(n) /\ OneEnd(n)
  BY <1>1, <1>2, <1>3, GoodIs DEF Ended, OneEnd
<1>5. Asked(n)
  BY <1>1, <1>2, ReadyIs, SameQuestions
<1>6. n \in [schema : {db.schema}, bad : {db.bad}, recorded : {db.recorded},
             tasks : [DOMAIN n.tasks -> Row], messages : SUBSET Message,
             events : SUBSET Event, asks : SUBSET Tasks]
  BY <1>1, <1>2, GoodIs
<1>7. Becomes(db, n) /\ Ready(n)
  BY <1>1, <1>2, <1>4, <1>5, <1>6, GoodIs, ReadyIs, RowsWritten
<1> QED
  BY <1>7 DEF n

\* A running task asks for permission.
LEMMA AskWritten ==
  ASSUME NEW db, Good(db), Ready(db), NEW t \in DOMAIN db.tasks, db.tasks[t].status = "running"
  PROVE  LET n == [db EXCEPT !.asks = @ \cup {t}] IN Becomes(db, n) /\ Ready(n)
<1> DEFINE n == [db EXCEPT !.asks = @ \cup {t}]
<1>1. /\ n.schema = db.schema /\ n.bad = db.bad /\ n.recorded = db.recorded
      /\ n.messages = db.messages /\ n.events = db.events /\ n.asks = db.asks \cup {t}
      /\ n.tasks = db.tasks
      /\ n \in [schema : {n.schema}, bad : {n.bad}, recorded : {n.recorded}, tasks : {n.tasks},
                messages : {n.messages}, events : {n.events}, asks : {n.asks}]
  BY GoodIs
<1> HIDE DEF n
<1>2. \A u : HasTerminalEvent(n, u) <=> HasTerminalEvent(db, u)
  BY <1>1 DEF HasTerminalEvent
<1>3. Ended(n) /\ OneEnd(n)
  BY <1>1, <1>2, GoodIs DEF Ended, OneEnd
<1>4. Asked(n)
  BY <1>1, ReadyIs, SameQuestions
<1>5. t \in Tasks
  BY GoodIs
<1>6. n \in [schema : {db.schema}, bad : {db.bad}, recorded : {db.recorded},
             tasks : [DOMAIN n.tasks -> Row], messages : SUBSET Message,
             events : SUBSET Event, asks : SUBSET Tasks]
  BY <1>1, <1>5, GoodIs
<1>7. Becomes(db, n) /\ Ready(n)
  BY <1>1, <1>3, <1>4, <1>6, GoodIs, ReadyIs, RowsWritten
<1> QED
  BY <1>7 DEF n

\* An event of a task: progress, or the end it did not have.
LEMMA EventWritten ==
  ASSUME NEW db, Good(db), Ready(db), NEW t \in DOMAIN db.tasks, NEW k \in Nat,
         NEW type \in TerminalTypes \cup {"progress"},
         type \in TerminalTypes => ~HasTerminalEvent(db, t)
  PROVE  LET n == [db EXCEPT !.events = @ \cup {NewEvent(db, t, EventId(t, k), type)}]
         IN  Becomes(db, n) /\ Ready(n)
<1> DEFINE e == NewEvent(db, t, EventId(t, k), type)
<1> DEFINE n == [db EXCEPT !.events = @ \cup {e}]
<1>0. t \in Tasks /\ t \in Nat /\ EventId(t, k) \in Nat
      /\ (\A u \in Tasks : EventId(t, k) # RecoveryId(u))
  BY GoodIs, TasksAssumption, EventIdIs
<1>1. /\ n.schema = db.schema /\ n.bad = db.bad /\ n.recorded = db.recorded
      /\ n.messages = db.messages /\ n.events = db.events \cup {e} /\ n.asks = db.asks
      /\ n.tasks = db.tasks
      /\ n \in [schema : {n.schema}, bad : {n.bad}, recorded : {n.recorded}, tasks : {n.tasks},
                messages : {n.messages}, events : {n.events}, asks : {n.asks}]
  BY GoodIs
<1>2. /\ e.id = EventId(t, k) /\ n.events \in SUBSET Event /\ IsFiniteSet(n.events)
      /\ Numbered(n.events, "task")
      /\ \A f, g \in n.events : f.type \in TerminalTypes /\ g.type \in TerminalTypes /\ f.task = g.task
           => f = g
  <2>1. PICK q : q = e /\ q = NewEvent(db, t, EventId(t, k), type)
    OBVIOUS
  <2>2. PICK events : events = n.events /\ events = db.events \cup {q}
    BY <1>1, <2>1
  <2> HIDE DEF n, e
  <2>3. /\ q.id = EventId(t, k) /\ events \in SUBSET Event /\ IsFiniteSet(events)
        /\ Numbered(events, "task")
        /\ \A f, g \in events : f.type \in TerminalTypes /\ g.type \in TerminalTypes /\ f.task = g.task
             => f = g
    <3>1. PICK id \in Nat : id = EventId(t, k)
      BY <1>0
    <3>2. t \in Tasks /\ Numbered(db.events, "task") /\ q = NewEvent(db, t, id, type)
      BY <1>0, <2>1, <3>1, ReadyIs
    <3> QED BY <2>2, <3>1, <3>2, EventAdded
  <2> QED BY <2>1, <2>2, <2>3
<1> HIDE DEF n, e
<1>3. \A u : HasTerminalEvent(db, u) => HasTerminalEvent(n, u)
  BY <1>1 DEF HasTerminalEvent
<1>4. Ended(n) /\ OneEnd(n)
  BY <1>1, <1>2, <1>3, GoodIs DEF Ended, OneEnd
<1>5. Asked(n)
  BY <1>1, ReadyIs, SameQuestions
<1>6. n \in [schema : {db.schema}, bad : {db.bad}, recorded : {db.recorded},
             tasks : [DOMAIN n.tasks -> Row], messages : SUBSET Message,
             events : SUBSET Event, asks : SUBSET Tasks]
  BY <1>1, <1>2, GoodIs
<1>7. \A f \in n.events \ db.events, u \in Tasks :
        f.id = RecoveryId(u) => f.task = u /\ f.type = "task_failed"
  BY <1>0, <1>1, <1>2
<1>8. db.events \subseteq n.events
  BY <1>1
<1>9. Becomes(db, n) /\ Ready(n)
  BY <1>1, <1>2, <1>4, <1>5, <1>6, <1>7, <1>8, GoodIs, ReadyIs, RowsWritten
<1> QED
  BY <1>9 DEF n, e

\* The answer joins the conversation, and no question does.
LEMMA AnswerWritten ==
  ASSUME NEW db, Good(db), Ready(db), NEW t \in DOMAIN db.tasks
  PROVE  LET m == NewMessage(db, t, db.tasks[t].session, AnswerId(t), "assistant")
             n == [db EXCEPT !.messages = @ \cup {m}]
         IN  Becomes(db, n) /\ Ready(n)
<1> DEFINE m == NewMessage(db, t, db.tasks[t].session, AnswerId(t), "assistant")
<1> DEFINE n == [db EXCEPT !.messages = @ \cup {m}]
<1>0. /\ t \in Tasks /\ AnswerId(t) \in Nat /\ db.tasks[t].session \in Sessions \cup {None}
      /\ Numbered(db.messages, "session")
  BY GoodIs, TasksAssumption, ReadyIs DEF AnswerId, Row, Asked
<1>1. /\ n.schema = db.schema /\ n.bad = db.bad /\ n.recorded = db.recorded
      /\ n.messages = db.messages \cup {m} /\ n.events = db.events /\ n.asks = db.asks
      /\ n.tasks = db.tasks
      /\ n \in [schema : {n.schema}, bad : {n.bad}, recorded : {n.recorded}, tasks : {n.tasks},
                messages : {n.messages}, events : {n.events}, asks : {n.asks}]
  BY GoodIs
<1>2. /\ m.role = "assistant"
      /\ n.messages \in SUBSET Message /\ IsFiniteSet(n.messages) /\ Numbered(n.messages, "session")
  <2>1. PICK c \in Sessions \cup {None} : c = db.tasks[t].session
    BY <1>0
  <2>2. PICK q : q = m /\ q = NewMessage(db, t, c, AnswerId(t), "assistant")
    BY <2>1
  <2>3. PICK messages : messages = n.messages /\ messages = db.messages \cup {q}
    BY <1>1, <2>2
  <2>4. t \in Tasks /\ AnswerId(t) \in Nat /\ Numbered(db.messages, "session")
    BY <1>0
  <2> HIDE DEF m, n
  <2>5. /\ q.id = AnswerId(t) /\ q.task = t /\ q.session = c /\ q.role = "assistant"
        /\ messages \in SUBSET Message /\ IsFiniteSet(messages)
        /\ Numbered(messages, "session")
    BY <2>1, <2>2, <2>3, <2>4, MessageAdded
  <2> QED BY <2>2, <2>3, <2>5
<1> HIDE DEF n, m
<1>3. \A u : /\ HasTerminalEvent(n, u) <=> HasTerminalEvent(db, u)
             /\ Questions(n, u) = Questions(db, u)
  BY <1>1, <1>2 DEF HasTerminalEvent, Questions
<1>4. Ended(n) /\ OneEnd(n)
  BY <1>1, <1>3, GoodIs DEF Ended, OneEnd
<1>5. Asked(n)
  BY <1>1, <1>2, <1>3, ReadyIs DEF Asked
<1>6. n \in [schema : {db.schema}, bad : {db.bad}, recorded : {db.recorded},
             tasks : [DOMAIN n.tasks -> Row], messages : SUBSET Message,
             events : SUBSET Event, asks : SUBSET Tasks]
  BY <1>1, <1>2, GoodIs
<1>7. db.messages \subseteq n.messages
  BY <1>1
<1>8. Becomes(db, n) /\ Ready(n)
  BY <1>1, <1>2, <1>4, <1>5, <1>6, <1>7, GoodIs, ReadyIs, RowsWritten
<1> QED
  BY <1>8 DEF n, m

\* A task and its question, which the task points at.
LEMMA TaskWritten ==
  ASSUME NEW db, Good(db), Ready(db), NEW t \in Tasks, NEW s \in Sessions, t \notin DOMAIN db.tasks
  PROVE  LET n == [db EXCEPT
                    !.tasks = [u \in DOMAIN @ \cup {t} |->
                      IF u = t
                      THEN [session |-> s, status |-> "created", at |-> 3, question |-> QuestionId(t)]
                      ELSE @[u]],
                    !.messages = @ \cup {NewMessage(db, t, s, QuestionId(t), "user")}]
         IN  Becomes(db, n) /\ Ready(n)
<1> DEFINE row == [session |-> s, status |-> "created", at |-> 3, question |-> QuestionId(t)]
<1> DEFINE n == [db EXCEPT
                  !.tasks = [u \in DOMAIN @ \cup {t} |-> IF u = t THEN row ELSE @[u]],
                  !.messages = @ \cup {NewMessage(db, t, s, QuestionId(t), "user")}]
<1>0. /\ t \in Nat /\ QuestionId(t) \in Nat /\ QuestionId(t) # 0 /\ Numbered(db.messages, "session")
      /\ row \in Row /\ row.status = "created" /\ row.session = s /\ row.question = QuestionId(t)
  <2>1. t \in Nat /\ t # 0 /\ Numbered(db.messages, "session")
    BY TasksAssumption, ReadyIs DEF Asked
  <2>2. QuestionId(t) \in Nat /\ QuestionId(t) # 0
    BY <2>1 DEF QuestionId
  <2>3. "created" \in Statuses /\ 3 \in 1 .. 3
    BY DEF Statuses, Recoverable
  <2> QED BY <2>1, <2>2, <2>3 DEF Row
<1>1. /\ n.schema = db.schema /\ n.bad = db.bad /\ n.recorded = db.recorded
      /\ n.messages = db.messages \cup {NewMessage(db, t, s, QuestionId(t), "user")}
      /\ n.events = db.events /\ n.asks = db.asks
      /\ n.tasks = [u \in DOMAIN db.tasks \cup {t} |-> IF u = t THEN row ELSE db.tasks[u]]
      /\ n \in [schema : {n.schema}, bad : {n.bad}, recorded : {n.recorded}, tasks : {n.tasks},
                messages : {n.messages}, events : {n.events}, asks : {n.asks}]
  <2> HIDE DEF row
  <2> QED BY GoodIs
<1> HIDE DEF n, row
<1>2. PICK m : m = NewMessage(db, t, s, QuestionId(t), "user")
  OBVIOUS
<1>3. PICK messages : messages = n.messages /\ messages = db.messages \cup {m}
  BY <1>1, <1>2
<1>4. /\ m.id = QuestionId(t) /\ m.task = t /\ m.session = s /\ m.role = "user"
      /\ messages \in SUBSET Message /\ IsFiniteSet(messages) /\ Numbered(messages, "session")
  <2>1. s \in Sessions \cup {None}
    OBVIOUS
  <2> QED BY <1>0, <1>2, <1>3, <2>1, MessageAdded
<1>5. DOMAIN n.tasks = DOMAIN db.tasks \cup {t} /\ DOMAIN n.tasks \subseteq Tasks
      /\ n.tasks[t] = row /\ (\A u \in DOMAIN db.tasks : n.tasks[u] = db.tasks[u])
  BY <1>1, GoodIs
<1>6. n.tasks \in [DOMAIN n.tasks -> Row]
  BY <1>0, <1>1, <1>5, GoodIs
<1>7. \A u : HasTerminalEvent(n, u) <=> HasTerminalEvent(db, u)
  BY <1>1 DEF HasTerminalEvent
<1>8. Ended(n) /\ OneEnd(n)
  BY <1>0, <1>1, <1>5, <1>7, GoodIs DEF Ended, OneEnd
<1>9. Asked(n)
  <2>1. m \in Questions(n, t)
    BY <1>3, <1>4 DEF Questions
  <2>2. \A u \in DOMAIN db.tasks : Questions(n, u) = Questions(db, u)
    BY <1>3, <1>4 DEF Questions
  <2>3. ASSUME NEW u \in DOMAIN n.tasks
        PROVE  /\ n.tasks[u].session # None => \E q \in Questions(n, u) : q.id = n.tasks[u].question
               /\ n.tasks[u].question = 0 => Questions(n, u) = {}
    <3>1. CASE u = t
      BY <1>0, <1>4, <1>5, <2>1, <3>1
    <3>2. CASE u \in DOMAIN db.tasks
      BY <1>5, <2>2, <3>2, ReadyIs DEF Asked
    <3> QED BY <1>5, <3>1, <3>2
  <2> QED BY <1>3, <1>4, <2>3 DEF Asked
<1>10. n \in [schema : {db.schema}, bad : {db.bad}, recorded : {db.recorded},
              tasks : [DOMAIN n.tasks -> Row], messages : SUBSET Message,
              events : SUBSET Event, asks : SUBSET Tasks]
  BY <1>1, <1>3, <1>4, <1>6, GoodIs
<1>11. db.messages \subseteq n.messages /\ IsFiniteSet(n.messages)
  BY <1>3, <1>4
<1>12. Becomes(db, n) /\ Ready(n)
  BY <1>1, <1>5, <1>8, <1>9, <1>10, <1>11, GoodIs, ReadyIs, RowsWritten
<1> QED
  BY <1>12 DEF n, row

\* Recovery interrupts a task: its status, its permission request and, if it has
\* none, its terminal event.
LEMMA InterruptedWritten ==
  ASSUME NEW db, Good(db), Ready(db), NEW t \in DOMAIN db.tasks
  PROVE  LET n == Interrupted(db, t) IN
         /\ Becomes(db, n) /\ Ready(n) /\ DOMAIN n.tasks = DOMAIN db.tasks
         /\ StaleTasks(n) = StaleTasks(db) \ {t}
<1> DEFINE n == Interrupted(db, t)
<1> DEFINE e == NewEvent(db, t, RecoveryId(t), "task_failed")
<1>0. t \in Tasks /\ t \in Nat /\ RecoveryId(t) \in Nat
      /\ (\A u \in Tasks : RecoveryId(t) = RecoveryId(u) => u = t)
  BY GoodIs, TasksAssumption, RecoveryIdIs
<1>1. /\ n.schema = db.schema /\ n.bad = db.bad /\ n.recorded = db.recorded
      /\ n.messages = db.messages /\ n.asks = db.asks \ {t}
      /\ n.tasks = [db.tasks EXCEPT ![t].status = "interrupted"]
      /\ n.events = IF MatchingRecovery(db, t) \/ HasTerminalEvent(db, t) THEN db.events
                    ELSE db.events \cup {e}
      /\ n \in [schema : {n.schema}, bad : {n.bad}, recorded : {n.recorded}, tasks : {n.tasks},
                messages : {n.messages}, events : {n.events}, asks : {n.asks}]
  BY GoodIs DEF Interrupted
<1>2. MatchingRecovery(db, t) => HasTerminalEvent(db, t)
  BY DEF MatchingRecovery, HasTerminalEvent, TerminalTypes
<1>3. /\ n.events \in SUBSET Event /\ IsFiniteSet(n.events) /\ Numbered(n.events, "task")
      /\ OneEnd(n) /\ HasTerminalEvent(n, t) /\ db.events \subseteq n.events
      /\ \A f \in n.events \ db.events : f.id = RecoveryId(t) /\ f.task = t /\ f.type = "task_failed"
  <2>1. CASE HasTerminalEvent(db, t)
    <3>1. n.events = db.events
      BY <1>1, <2>1
    <3> HIDE DEF n
    <3> QED BY <2>1, <3>1, GoodIs, ReadyIs DEF HasTerminalEvent, OneEnd
  <2>2. CASE ~HasTerminalEvent(db, t)
    <3>1. PICK q : q = e /\ q = NewEvent(db, t, RecoveryId(t), "task_failed")
      OBVIOUS
    <3>2. PICK events : events = n.events /\ events = db.events \cup {q}
      BY <1>1, <1>2, <2>2, <3>1
    <3>3. "task_failed" \in TerminalTypes /\ "task_failed" \in TerminalTypes \cup {"progress"}
      BY DEF TerminalTypes
    <3> HIDE DEF n, e
    <3>4. /\ q.id = RecoveryId(t) /\ q.task = t /\ q.type = "task_failed"
          /\ events \in SUBSET Event /\ IsFiniteSet(events) /\ Numbered(events, "task")
          /\ \A f, g \in events :
               f.type \in TerminalTypes /\ g.type \in TerminalTypes /\ f.task = g.task => f = g
      BY <1>0, <2>2, <3>1, <3>2, <3>3, EventAdded, ReadyIs
    <3> QED BY <3>2, <3>3, <3>4 DEF OneEnd, HasTerminalEvent
  <2> QED BY <2>1, <2>2
<1> HIDE DEF n, e
<1>4. /\ n.tasks \in [DOMAIN n.tasks -> Row] /\ DOMAIN n.tasks = DOMAIN db.tasks
      /\ \A u \in DOMAIN db.tasks :
           /\ n.tasks[u].session = db.tasks[u].session /\ n.tasks[u].question = db.tasks[u].question
           /\ n.tasks[u].status = IF u = t THEN "interrupted" ELSE db.tasks[u].status
  <2>1. /\ db.tasks[t] \in Row /\ db.tasks \in [DOMAIN db.tasks -> Row]
        /\ "interrupted" \in Statuses
    BY GoodIs DEF Statuses
  <2>2. PICK r : /\ r = [db.tasks[t] EXCEPT !.status = "interrupted"] /\ r \in Row
                 /\ r.status = "interrupted"
                 /\ r.session = db.tasks[t].session /\ r.question = db.tasks[t].question
    BY <2>1, StatusIs
  <2>3. n.tasks = [u \in DOMAIN db.tasks |-> IF u = t THEN r ELSE db.tasks[u]]
    BY <1>1, <2>1, <2>2
  <2> QED BY <2>1, <2>2, <2>3
<1>5. \A u : HasTerminalEvent(db, u) => HasTerminalEvent(n, u)
  BY <1>3 DEF HasTerminalEvent
<1>6. Ended(n)
  BY <1>1, <1>3, <1>4, <1>5, GoodIs DEF Ended
<1>7. Asked(n)
  BY <1>1, <1>4, ReadyIs, SameQuestions
<1>8. n \in [schema : {db.schema}, bad : {db.bad}, recorded : {db.recorded},
             tasks : [DOMAIN n.tasks -> Row], messages : SUBSET Message,
             events : SUBSET Event, asks : SUBSET Tasks]
  BY <1>1, <1>3, <1>4, GoodIs
<1>9. \A f \in n.events \ db.events, u \in Tasks :
        f.id = RecoveryId(u) => f.task = u /\ f.type = "task_failed"
  BY <1>0, <1>3
<1>10. Becomes(db, n) /\ Ready(n)
  BY <1>1, <1>3, <1>4, <1>6, <1>7, <1>8, <1>9, GoodIs, ReadyIs, RowsWritten
<1>11. "interrupted" \notin Recoverable
  BY DEF Recoverable
<1>12. StaleTasks(n) = StaleTasks(db) \ {t}
  BY <1>4, <1>11 DEF StaleTasks
<1> QED
  BY <1>4, <1>10, <1>12 DEF n

-----------------------------------------------------------------------------
(* The inductive invariant.                                                   *)

Unopened == {"off", "config", "directories", "logging", "tools"}
Building == {"tables", "migrate", "migration"}

Types ==
  /\ phase \in Unopened \cup Building \cup {"open", "broken", "recover", "recovery"} \cup Prepared
  /\ attempt \in 1..2 /\ handle \in {"none", "file", "unlinked"} /\ initialized \in BOOLEAN
  /\ position \in 1..8 /\ step \in 1..3 /\ stale \subseteq Tasks /\ upsets \in 0..MaxUpsets

\* Whatever is or may become a database of the server is good.
AllGood ==
  /\ Good(disk) /\ Good(shadow) /\ Good(tx)
  /\ Unharmed(disk) /\ Unharmed(shadow) /\ Unharmed(tx)
  /\ phase \notin {"migration", "recovery"} => tx = Empty
  /\ phase = "off" => shadow = Empty

\* The connection, as far as the start has come.
Connected ==
  /\ phase \in Unopened => handle = "none" /\ ~initialized
  /\ phase = "open" /\ ~initialized => handle = "none"
  /\ phase \in Building => handle = "file" /\ ~initialized
  /\ phase \in {"recover", "recovery"} \cup Prepared => initialized
  /\ initialized <=> handle # "none" /\ phase \notin Building
  /\ handle = "unlinked" => attempt = 2 /\ "recovery" \in failed
  /\ phase = "broken" =>
       \/ "statement" \in failed \/ foreign \cap {"column", "record", "event"} # {}
       \/ "recovery" \in failed /\ ResolvedAt \notin Db.schema
  /\ phase = "broken" /\ initialized => "recovery" \in failed

\* What has been done to the database, in the order it is done.
Progressed ==
  /\ phase \in Unopened \cup {"open", "broken"} => position = 1
  /\ phase = "tables" => position \in 1..4 /\ TablesIn(Db, position)
  /\ phase \in {"migrate", "migration"} => Migrated(Db, position)
  /\ initialized => Ready(Db)
  /\ phase \in Prepared \ {"serving"} => StaleTasks(Db) = {}
  /\ phase \in {"recovery"} \cup Prepared => ResolvedAt \in Db.schema

\* What the open transaction has done so far.
InMigration ==
  phase = "migration" =>
    /\ position \in Versions /\ ~Misnamed
    /\ Becomes(Db, tx) /\ tx.recorded = Db.recorded
    /\ step >= 2 => Columns[position] \subseteq tx.schema
    /\ step = 3 => BatchDone(tx, position)

InTransaction ==
  phase = "recovery" =>
    /\ Becomes(Db, tx) /\ Ready(tx)
    /\ StaleTasks(tx) \subseteq stale /\ stale \subseteq DOMAIN tx.tasks

Inv == Types /\ AllGood /\ Connected /\ Progressed /\ InMigration /\ InTransaction

-----------------------------------------------------------------------------
(* Databases as they are found.                                               *)

LEMMA SameRows ==
  ASSUME NEW db, Good(db), NEW n, DbOK(n), n.tasks = db.tasks, n.messages = db.messages,
         n.events = db.events, n.asks = db.asks
  PROVE  Good(n) /\ Extends(db, n) /\ (OwnEvents(db) => OwnEvents(n))
<1>1. \A t : Questions(n, t) = Questions(db, t) /\ (HasTerminalEvent(n, t) <=> HasTerminalEvent(db, t))
  BY DEF Questions, HasTerminalEvent
<1>2. Asked(db) => Asked(n)
  BY <1>1 DEF Asked
<1> QED
  BY <1>1, <1>2 DEF Good, Ended, OneEnd, Fresh, Extends, OwnEvents

LEMMA EmptyIsGood == Good(Empty) /\ Unharmed(Empty)
<1>1. /\ Empty.schema = {} /\ Empty.bad = {} /\ Empty.recorded = [v \in Versions |-> "absent"]
      /\ Empty.tasks = <<>> /\ Empty.messages = {} /\ Empty.events = {} /\ Empty.asks = {}
      /\ Empty \in [schema : {Empty.schema}, bad : {Empty.bad}, recorded : {Empty.recorded},
                    tasks : {Empty.tasks}, messages : {Empty.messages}, events : {Empty.events},
                    asks : {Empty.asks}]
  BY DEF Empty
<1>2. DOMAIN Empty.tasks = {} /\ Empty.tasks \in [DOMAIN Empty.tasks -> Row]
  BY <1>1
<1>3. Empty.recorded \in [Versions -> {"absent", "other"} \cup {Names[v] : v \in Versions}]
  BY <1>1
<1>4. DbOK(Empty)
  BY <1>1, <1>2, <1>3 DEF DbOK
<1>5. Good(Empty)
  BY <1>1, <1>2, <1>4, FS_EmptySet DEF Good, Ended, OneEnd, Fresh
<1>6. Unharmed(Empty)
  BY <1>1 DEF Unharmed, KnownNames, OwnEvents, Plain
<1> QED
  BY <1>5, <1>6

\* The events of an old database are as this server would have left them.
LEMMA OldEventsAre ==
  ASSUME NEW T \in SUBSET Tasks, NEW ended \in SUBSET T
  PROVE  LET events == OldEvents(T, ended) IN
         /\ events \in SUBSET Event /\ IsFiniteSet(events)
         /\ \A e, f \in events :
              e.type \in TerminalTypes /\ f.type \in TerminalTypes /\ e.task = f.task => e = f
         /\ Plain(events, "task")
         /\ \A e \in events, t \in Tasks : e.id # RecoveryId(t)
         /\ \A t \in ended : \E e \in events : e.task = t /\ e.type \in TerminalTypes
<1> DEFINE a == [t \in T |-> [id |-> EventId(t, 0), task |-> t, type |-> "progress", at |-> 1, seq |-> 0]]
<1> DEFINE b == [t \in ended |->
                  [id |-> EventId(t, 1), task |-> t, type |-> "task_failed", at |-> 1, seq |-> 0]]
<1> DEFINE events == OldEvents(T, ended)
<1>1. events = {a[t] : t \in T} \cup {b[t] : t \in ended}
  BY DEF OldEvents
<1>2. ASSUME NEW t \in Tasks
      PROVE  /\ EventId(t, 0) \in Nat /\ EventId(t, 1) \in Nat /\ EventId(t, 0) # EventId(t, 1)
             /\ \A u \in Tasks : EventId(t, 0) # RecoveryId(u) /\ EventId(t, 1) # RecoveryId(u)
  <2>1. t \in Nat /\ 0 \in Nat /\ 1 \in Nat /\ Tasks \subseteq Nat
    BY TasksAssumption
  <2>2. EventId(t, 0) \in Nat /\ (\A u \in Nat : EventId(t, 0) # RecoveryId(u))
    BY <2>1, EventIdIs
  <2>3. EventId(t, 1) \in Nat /\ (\A u \in Nat : EventId(t, 1) # RecoveryId(u))
    BY <2>1, EventIdIs
  <2>4. EventId(t, 0) # EventId(t, 1)
    <3>1. EventId(t, 0) = EventId(t, 1) => 0 = 1
      BY <2>1, EventIdIs
    <3> QED BY <3>1
  <2> QED BY <2>1, <2>2, <2>3, <2>4
<1>3. IsFiniteSet(events)
  <2>1. IsFiniteSet(T) /\ IsFiniteSet(ended)
    BY TasksAssumption, FS_Subset
  <2> HIDE DEF events, a, b
  <2>2. IsFiniteSet({a[t] : t \in T}) /\ IsFiniteSet({b[t] : t \in ended})
    BY <2>1, FiniteRange
  <2> QED BY <1>1, <2>2, FS_Union
<1>4. \A t \in T : /\ a[t].id = EventId(t, 0) /\ a[t].task = t /\ a[t].type = "progress"
                   /\ a[t].at = 1 /\ a[t].seq = 0 /\ a[t] \in Event
  BY <1>2 DEF Event
<1>5. \A t \in ended : /\ b[t].id = EventId(t, 1) /\ b[t].task = t /\ b[t].type = "task_failed"
                       /\ b[t].at = 1 /\ b[t].seq = 0 /\ b[t] \in Event
  BY <1>2 DEF Event, TerminalTypes
<1>6. "progress" \notin TerminalTypes /\ "task_failed" \in TerminalTypes
  BY DEF TerminalTypes
<1> HIDE DEF events, a, b
<1>7. events \in SUBSET Event
  BY <1>1, <1>4, <1>5
<1>8. \A e, f \in events :
        e.type \in TerminalTypes /\ f.type \in TerminalTypes /\ e.task = f.task => e = f
  BY <1>1, <1>4, <1>5, <1>6
<1>9. Plain(events, "task")
  <2>1. \A e \in events : e.seq = 0
    BY <1>1, <1>4, <1>5
  <2>2. ASSUME NEW e \in events, NEW f \in events, e.task = f.task, e.id = f.id PROVE e = f
    BY <1>1, <1>2, <1>4, <1>5, <2>2
  <2> QED BY <2>1, <2>2 DEF Plain
<1>10. \A e \in events, t \in Tasks : e.id # RecoveryId(t)
  BY <1>1, <1>2, <1>4, <1>5
<1>11. \A t \in ended : \E e \in events : e.task = t /\ e.type \in TerminalTypes
  BY <1>1, <1>5, <1>6
<1> QED
  BY <1>3, <1>7, <1>8, <1>9, <1>10, <1>11 DEF events

LEMMA OldIsGood ==
  ASSUME NEW db \in OldDatabases
  PROVE  Good(db) /\ Unharmed(db)
<1>1. PICK v \in OldVersions, closable \in BOOLEAN,
            rows \in UNION {[T -> OldRow] : T \in SUBSET Tasks}, early \in SUBSET Tasks :
        db = OldDatabase(v, closable, rows, early)
  BY DEF OldDatabases
<1>2. PICK T \in SUBSET Tasks : rows \in [T -> OldRow]
  BY <1>1
<1> DEFINE ended == {t \in T : rows[t].status = "completed" \/ t \in early}
<1>3. DOMAIN rows = T /\ ended \in SUBSET T
  BY <1>2
<1>4. /\ db.schema = OldSchema(v, closable) /\ db.bad = {}
      /\ db.recorded = [u \in Versions |-> IF u <= v THEN Names[u] ELSE "absent"]
      /\ db.tasks = rows /\ db.messages = {} /\ db.events = OldEvents(T, ended)
      /\ db.asks = {t \in T : rows[t].status = "waiting_permission"}
      /\ db \in [schema : {db.schema}, bad : {db.bad}, recorded : {db.recorded}, tasks : {db.tasks},
                 messages : {db.messages}, events : {db.events}, asks : {db.asks}]
  BY <1>1, <1>3 DEF OldDatabase
<1> DEFINE events == OldEvents(T, ended)
<1>5. /\ events \in SUBSET Event /\ IsFiniteSet(events)
      /\ \A e, f \in events :
           e.type \in TerminalTypes /\ f.type \in TerminalTypes /\ e.task = f.task => e = f
      /\ Plain(events, "task") /\ (\A e \in events, t \in Tasks : e.id # RecoveryId(t))
  BY <1>3, OldEventsAre
<1>6. OldSchema(v, closable) \subseteq FullSchema
  <2>1. v \in 0 .. 5 /\ (\A u \in 1 .. v : u \in Versions)
    BY OldVersionsAssumption DEF Versions
  <2>2. DbOK(Empty) /\ Empty.schema = {}
    BY EmptyIsGood, GoodIs DEF Empty
  <2>3. Baseline(Empty).schema \subseteq FullSchema
    <3>1. PICK S \in SUBSET FullSchema : Baseline(Empty) = [Empty EXCEPT !.schema = S]
      BY <2>2, AddedByBatches
    <3>2. [Empty EXCEPT !.schema = S].schema = S
      BY DEF Empty
    <3> QED BY <3>1, <3>2
  <2>4. {<<"tasks", "session_id">>, <<"tasks", "global_id">>, ResolvedAt} \subseteq FullSchema
    <3>1. {<<"tasks", "session_id">>, <<"tasks", "global_id">>, ResolvedAt} \subseteq RepositoryTables[2]
      BY GroupOne DEF TasksTable, PermissionsTable, ResolvedAt, Whole
    <3> QED BY <3>1, PartsOfSchema DEF Groups
  <2>5. UNION {Columns[u] : u \in 1 .. v} \subseteq FullSchema
    BY <2>1, PartsOfSchema
  <2> QED BY <2>3, <2>4, <2>5, PartsOfSchema DEF OldSchema
<1>7. \A t \in T : rows[t] \in Row /\ rows[t].question = 0 /\ rows[t].status # "interrupted"
  BY <1>2 DEF OldRow, Row, Statuses, Recoverable
<1>8. db.recorded \in [Versions -> {"absent", "other"} \cup {Names[u] : u \in Versions}]
  BY <1>4
<1> HIDE DEF ended, events
<1>9. DbOK(db)
  <2>1. rows \in [DOMAIN rows -> Row]
    BY <1>2, <1>3, <1>7
  <2>2. db.events \in SUBSET Event
    BY <1>4, <1>5 DEF events
  <2>3. db.asks \subseteq Tasks
    BY <1>3, <1>4
  <2> QED BY <1>3, <1>4, <1>6, <1>8, <2>1, <2>2, <2>3 DEF DbOK
<1>10. Good(db)
  <2>1. Ended(db) /\ Fresh(db)
    BY <1>3, <1>4, <1>7 DEF Ended, Fresh
  <2>2. OneEnd(db) /\ IsFiniteSet(db.events) /\ IsFiniteSet(db.messages)
    BY <1>4, <1>5, FS_EmptySet DEF OneEnd, events
  <2> QED BY <1>9, <2>1, <2>2 DEF Good
<1>11. KnownNames(db)
  BY <1>4 DEF KnownNames
<1>12. OwnEvents(db)
  BY <1>4, <1>5 DEF OwnEvents, events
<1> QED
  BY <1>4, <1>10, <1>11, <1>12 DEF Unharmed

\* The start is a good one.
LEMMA InitInv == Init => Inv
<1> SUFFICES ASSUME Init PROVE Inv
  OBVIOUS
<1>1. Good(disk) /\ Unharmed(disk)
  BY EmptyIsGood, OldIsGood DEF Init
<1>2. AllGood
  BY <1>1, EmptyIsGood DEF Init, AllGood
<1>3. Types
  <2>1. upsets \in 0 .. MaxUpsets /\ attempt \in 1 .. 2 /\ position \in 1 .. 8 /\ step \in 1 .. 3
    BY BoundsAssumption DEF Init
  <2>2. phase \in Unopened /\ handle \in {"none", "file", "unlinked"} /\ initialized \in BOOLEAN
        /\ stale \subseteq Tasks
    BY DEF Init, Unopened
  <2> QED BY <2>1, <2>2 DEF Types
<1>4. Connected
  BY DEF Init, Connected, Unopened, Building, Prepared
<1>5. Progressed /\ InMigration /\ InTransaction
  BY DEF Init, Progressed, Unopened, InMigration, InTransaction, Prepared
<1> QED
  BY <1>2, <1>3, <1>4, <1>5 DEF Inv

-----------------------------------------------------------------------------
(* Every step keeps the invariant, and outside the reset also the history.    *)

Keeps == Inv' /\ (Extends(disk, disk') \/ (phase = "broken" /\ attempt = 1 /\ disk' = Empty))

\* What a write makes of the databases.
LEMMA Writes ==
  ASSUME AllGood, NEW n, Store(n), Good(n), Unharmed(n), Extends(Db, n),
         UNCHANGED <<handle, foreign>>
  PROVE  /\ Db' = n /\ Extends(disk, disk')
         /\ Good(disk') /\ Good(shadow') /\ Unharmed(disk)' /\ Unharmed(shadow)'
         /\ handle # "unlinked" => shadow' = shadow
<1>1. CASE handle = "unlinked"
  <2>1. shadow' = n /\ disk' = disk /\ Db' = n
    BY <1>1 DEF Store, Db
  <2> QED BY <1>1, <2>1, ExtendsItself DEF AllGood, Unharmed
<1>2. CASE handle # "unlinked"
  <2>1. disk' = n /\ shadow' = shadow /\ Db' = n /\ Db = disk
    BY <1>2 DEF Store, Db
  <2> QED BY <1>2, <2>1 DEF AllGood, Unharmed
<1> QED
  BY <1>1, <1>2

\* The steps before and after the database.
LEMMA PassKeeps ==
  ASSUME Inv, NEW from, NEW to, Passes(from, to),
         \/ from \in {"off", "config", "directories", "logging"} /\ to \in Unopened \ {"off"}
         \/ from = "tools" /\ to = "open"
         \/ from \in Prepared \ {"serving"} /\ to \in Prepared
  PROVE  Keeps
<1>1. UNCHANGED <<disk, shadow, tx, attempt, handle, initialized, position, step, stale, foreign,
                  failed, upsets>> /\ phase = from /\ phase' = to
  BY DEF Passes, Goto, connection, plan, outside
<1>2. Types' /\ Connected'
  BY <1>1 DEF Inv, Types, Connected, Unopened, Building, Prepared
<1>3. AllGood'
  BY <1>1 DEF Inv, AllGood, Unharmed, Unopened, Prepared
<1>4. Db' = Db
  BY <1>1 DEF Db
<1>5. Progressed' /\ InMigration' /\ InTransaction'
  BY <1>1, <1>4 DEF Inv, Connected, Progressed, InMigration, InTransaction, Unopened, Building, Prepared
<1> QED
  BY <1>1, <1>2, <1>3, <1>5, ExtendsItself DEF Inv, Keeps

\* The end of the process.
LEMMA GoneKeeps ==
  ASSUME Inv, Gone, UNCHANGED <<disk, foreign>>, upsets' \in 0 .. MaxUpsets
  PROVE  Keeps
<1>1. Types' /\ Connected'
  <2>1. Types'
    <3>1. attempt' \in 1 .. 2 /\ position' \in 1 .. 8 /\ step' \in 1 .. 3
      BY DEF Gone
    <3>2. phase' \in Unopened /\ handle' \in {"none", "file", "unlinked"} /\ initialized' \in BOOLEAN
          /\ stale' \subseteq Tasks
      BY DEF Gone, Unopened
    <3> QED BY <3>1, <3>2 DEF Types
  <2>2. Connected'
    BY DEF Gone, Connected, Unopened, Building, Prepared
  <2> QED BY <2>1, <2>2
<1>2. AllGood'
  BY EmptyIsGood DEF Gone, Inv, AllGood, Unharmed
<1>3. Progressed' /\ InMigration' /\ InTransaction'
  BY DEF Gone, Progressed, InMigration, InTransaction, Prepared
<1> QED
  BY <1>1, <1>2, <1>3, ExtendsItself DEF Inv, Keeps

LEMMA ExitKeeps ==
  ASSUME Inv, NEW from, Exits(from)
  PROVE  Keeps
<1>1. Gone /\ UNCHANGED <<disk, foreign>> /\ upsets' \in 0 .. MaxUpsets
  BY DEF Exits, Inv, Types
<1> QED
  BY <1>1, GoneKeeps

LEMMA KillKeeps ==
  ASSUME Inv, Kill
  PROVE  Keeps
<1>1. Gone /\ UNCHANGED <<disk, foreign>> /\ upsets' \in 0 .. MaxUpsets
  BY BoundsAssumption DEF Kill, Inv, Types
<1> QED
  BY <1>1, GoneKeeps

LEMMA OpenKeeps ==
  ASSUME Inv, OpenDatabase
  PROVE  Keeps
<1>1. /\ UNCHANGED <<disk, shadow, tx, attempt, initialized, position, step, stale, foreign, failed, upsets>>
      /\ phase = "open" /\ tx = Empty
      /\ IF initialized THEN phase' = "recover" /\ handle' = handle
                        ELSE phase' = "tables" /\ handle' = "file"
  BY DEF OpenDatabase, plan, outside, Goto, Inv, AllGood
<1>2. AllGood'
  BY <1>1 DEF Inv, AllGood, Unharmed
<1>3. position = 1
  BY <1>1 DEF Inv, Progressed
<1>4. CASE initialized
  <2>1. Types' /\ Connected'
    BY <1>1, <1>4 DEF Inv, Types, Connected, Unopened, Building, Prepared
  <2>2. Db' = Db
    BY <1>1, <1>4 DEF Db
  <2>3. Progressed' /\ InMigration' /\ InTransaction'
    BY <1>1, <1>4, <2>2 DEF Inv, Progressed, InMigration, InTransaction, Prepared
  <2> QED BY <1>1, <1>2, <2>1, <2>3, ExtendsItself DEF Inv, Keeps
<1>5. CASE ~initialized
  <2>1. Types' /\ Connected'
    BY <1>1, <1>5 DEF Inv, Types, Connected, Unopened, Building, Prepared
  <2>2. TablesIn(Db', 1)
    BY DEF TablesIn, Groups
  <2>3. Progressed' /\ InMigration' /\ InTransaction'
    BY <1>1, <1>3, <1>5, <2>2 DEF Inv, Progressed, InMigration, InTransaction, Prepared
  <2> QED BY <1>1, <1>2, <2>1, <2>3, ExtendsItself DEF Inv, Keeps
<1> QED
  BY <1>4, <1>5

LEMMA TablesGrow ==
  ASSUME NEW db, NEW n, db.schema \subseteq n.schema, NEW k, TablesIn(db, k)
  PROVE  TablesIn(n, k)
BY DEF TablesIn

LEMMA TableKeeps ==
  ASSUME Inv, CreateTable
  PROVE  Keeps
<1> DEFINE S == Created(Db.schema, RepositoryTables[position])
<1> DEFINE n == [Db EXCEPT !.schema = S]
<1>1. /\ UNCHANGED <<tx, phase, attempt, handle, initialized, step, stale, foreign, failed, upsets>>
      /\ phase = "tables" /\ position \in Groups /\ position' = position + 1 /\ tx = Empty
      /\ handle = "file" /\ Db = disk /\ Good(Db) /\ Unharmed(Db) /\ TablesIn(Db, position)
  BY DEF CreateTable, connection, outside, Inv, AllGood, Connected, Building, Progressed, Db
<1>2. Store(n)
  BY DEF CreateTable
<1>3. Db.schema \in SUBSET FullSchema
  BY <1>1 DEF Good, DbOK
<1>4. S \in SUBSET FullSchema /\ Db.schema \subseteq S /\ Kept(position) \subseteq S
  BY <1>1, <1>3, TablesAreKept
<1> HIDE DEF S
<1>5. n.schema = S
  BY <1>1 DEF Good, DbOK
<1>6. Becomes(Db, n)
  BY <1>1, <1>4, SchemaGrows
<1> HIDE DEF n
<1>7. Good(n) /\ Unharmed(n) /\ Extends(Db, n)
  BY <1>1, <1>6, BecomesUnharmed DEF Becomes
<1>8. /\ Db' = n /\ Extends(disk, disk')
      /\ Good(disk') /\ Good(shadow') /\ Unharmed(disk)' /\ Unharmed(shadow)'
  BY <1>1, <1>2, <1>7, Writes DEF Inv
<1>9. TablesIn(n, position + 1)
  <2>1. \A g \in Groups : g < position + 1 => g < position \/ g = position
    BY <1>1 DEF Groups
  <2> QED BY <1>1, <1>4, <1>5, <2>1 DEF TablesIn
<1>10. position' \in 1 .. 4
  BY <1>1 DEF Groups
<1>11. AllGood'
  BY <1>1, <1>8 DEF Inv, AllGood, Unharmed
<1>12. Types' /\ Connected'
  BY <1>1, <1>10 DEF Inv, Types, Connected
<1>13. Progressed' /\ InMigration' /\ InTransaction'
  <2>1. TablesIn(Db', position')
    BY <1>1, <1>8, <1>9
  <2>2. ~initialized'
    BY <1>1 DEF Inv, Connected, Building
  <2> QED BY <1>1, <1>10, <2>1, <2>2 DEF Progressed, InMigration, InTransaction, Unopened, Prepared
<1> QED
  BY <1>8, <1>11, <1>12, <1>13 DEF Inv, Keeps

LEMMA TablesDoneKeeps ==
  ASSUME Inv, TablesDone
  PROVE  Keeps
<1>1. /\ UNCHANGED <<disk, shadow, tx, attempt, handle, initialized, step, stale, foreign, failed, upsets>>
      /\ phase = "tables" /\ phase' = "migrate" /\ position \notin Groups /\ position' = 1
      /\ position \in 1 .. 4 /\ tx = Empty /\ TablesIn(Db, position)
  BY DEF TablesDone, connection, outside, Goto, Inv, Progressed, AllGood
<1>2. Db' = Db
  BY <1>1 DEF Db
<1>3. Migrated(Db, 1)
  <2>1. position = 4
    BY <1>1 DEF Groups
  <2>2. \A v \in Versions : ~(v < 1)
    BY DEF Versions
  <2> QED BY <1>1, <2>1, <2>2 DEF Migrated
<1>4. Types' /\ Connected'
  BY <1>1 DEF Inv, Types, Connected, Unopened, Building, Prepared
<1>5. AllGood'
  BY <1>1 DEF Inv, AllGood, Unharmed
<1>6. Progressed' /\ InMigration' /\ InTransaction'
  BY <1>1, <1>2, <1>3, <1>4 DEF Progressed, Connected, Building, InMigration, InTransaction, Unopened, Prepared
<1> QED
  BY <1>1, <1>4, <1>5, <1>6, ExtendsItself DEF Inv, Keeps

LEMMA BeginKeeps ==
  ASSUME Inv, BeginMigration
  PROVE  Keeps
<1>1. /\ UNCHANGED <<disk, shadow, attempt, handle, initialized, position, stale, foreign, failed, upsets>>
      /\ phase = "migrate" /\ phase' = "migration" /\ position \in Versions /\ step' = 1 /\ tx' = Db
      /\ ~Misnamed /\ Migrated(Db, position) /\ Good(Db) /\ Unharmed(Db)
  BY DEF BeginMigration, Migrating, connection, outside, Goto, Inv, Progressed, AllGood, Db
<1>2. Db' = Db /\ (Misnamed' <=> Misnamed)
  BY <1>1 DEF Db, Misnamed
<1>3. Becomes(Db, Db)
  BY <1>1, ExtendsItself DEF Becomes
<1>4. Types' /\ Connected'
  BY <1>1 DEF Inv, Types, Connected, Unopened, Building, Prepared
<1>5. AllGood'
  BY <1>1 DEF Inv, AllGood, Unharmed
<1>6. InMigration'
  BY <1>1, <1>2, <1>3 DEF InMigration
<1>7. Progressed' /\ InTransaction'
  BY <1>1, <1>2, <1>4 DEF Progressed, Connected, Building, InTransaction, Unopened, Prepared
<1> QED
  BY <1>1, <1>4, <1>5, <1>6, <1>7, ExtendsItself DEF Inv, Keeps

\* A step inside a migration's transaction.
LEMMA WithinKeeps ==
  ASSUME Inv, phase = "migration",
         UNCHANGED <<disk, shadow, phase, attempt, handle, initialized, position, stale, foreign, failed, upsets>>,
         Becomes(tx, tx'), tx'.recorded = tx.recorded, step' \in 2 .. 3,
         Columns[position] \subseteq tx'.schema,
         step' = 3 => BatchDone(tx', position)
  PROVE  Keeps
<1>1. Good(tx') /\ Becomes(Db, tx') /\ tx'.recorded = Db.recorded
  BY BecomesOn DEF Inv, InMigration, Becomes
<1>2. Unharmed(tx)'
  <2>1. Unharmed(tx')
    BY BecomesUnharmed DEF Inv, AllGood
  <2> QED BY <2>1 DEF Unharmed
<1>3. Db' = Db /\ (Misnamed' <=> Misnamed)
  BY DEF Db, Misnamed
<1>4. AllGood'
  BY <1>1, <1>2 DEF Inv, AllGood, Unharmed
<1>5. Types' /\ Connected'
  BY DEF Inv, Types, Connected, Unopened, Building, Prepared
<1>6. InMigration'
  BY <1>1, <1>3 DEF Inv, InMigration
<1>7. Progressed' /\ InTransaction'
  BY <1>3 DEF Inv, Progressed, InTransaction
<1> QED
  BY <1>4, <1>5, <1>6, <1>7, ExtendsItself DEF Inv, Keeps

LEMMA ColumnsKeep ==
  ASSUME Inv, ColumnSteps
  PROVE  Keeps
<1> DEFINE S == tx.schema \cup Columns[position]
<1>1. /\ UNCHANGED <<disk, shadow, phase, attempt, handle, initialized, position, stale, foreign, failed, upsets>>
      /\ phase = "migration" /\ step' = 2 /\ position \in Versions /\ Good(tx)
      /\ tx' = [tx EXCEPT !.schema = S]
  BY DEF ColumnSteps, AtColumns, Migration, Required, connection, outside, Inv, InMigration, AllGood
<1>2. S \in SUBSET FullSchema /\ tx.schema \subseteq S /\ Columns[position] \subseteq S
  BY <1>1, PartsOfSchema DEF Good, DbOK
<1> HIDE DEF S
<1>3. Becomes(tx, tx') /\ tx'.schema = S /\ tx'.recorded = tx.recorded
  BY <1>1, <1>2, SchemaWritten
<1>4. step' \in 2 .. 3 /\ step' # 3
  BY <1>1
<1> QED
  BY <1>1, <1>2, <1>3, <1>4, WithinKeeps

LEMMA BatchStepKeeps ==
  ASSUME Inv, BatchStep
  PROVE  Keeps
<1>1. /\ UNCHANGED <<disk, shadow, phase, attempt, handle, initialized, position, stale, foreign, failed, upsets>>
      /\ phase = "migration" /\ step = 2 /\ step' = 3 /\ position \in Batched /\ Good(tx)
      /\ ~Refused(position, tx) /\ tx' = Batch(position, tx)
  BY DEF BatchStep, AtBatch, Migration, connection, outside, Inv, AllGood
<1>2. /\ Becomes(tx, tx') /\ BatchDone(tx', position) /\ tx'.recorded = tx.recorded
      /\ tx.schema \subseteq tx'.schema
  BY <1>1, BatchKeeps
<1>3. Columns[position] \subseteq tx.schema
  BY <1>1 DEF Inv, InMigration
<1>4. step' \in 2 .. 3
  BY <1>1
<1> QED
  BY <1>1, <1>2, <1>3, <1>4, WithinKeeps

LEMMA CommitKeeps ==
  ASSUME Inv, CommitMigration
  PROVE  Keeps
<1> DEFINE n == [tx EXCEPT !.recorded[position] = IF @ = "absent" THEN Names[position] ELSE @]
<1>1. /\ UNCHANGED <<attempt, handle, initialized, step, stale, foreign, failed, upsets>>
      /\ phase = "migration" /\ phase' = "migrate" /\ position' = position + 1 /\ tx' = Empty
      /\ position \in Versions /\ Good(tx) /\ Unharmed(tx)
      /\ Becomes(Db, tx) /\ tx.recorded = Db.recorded /\ ~Misnamed /\ Migrated(Db, position)
      /\ handle = "file" /\ ~initialized
  BY DEF CommitMigration, Migration, connection, outside, Goto, Inv, InMigration, AllGood,
         Progressed, Connected, Building
<1>2. Store(n)
  BY DEF CommitMigration
<1>3. Columns[position] \subseteq tx.schema /\ BatchDone(tx, position)
  <2>1. step # 1 /\ (step = 2 => position \notin Batched) /\ step \in 1 .. 3
    BY <1>1 DEF CommitMigration, AtColumns, AtBatch, Migration, Inv, Types
  <2>2. step >= 2
    BY <2>1
  <2>3. Columns[position] \subseteq tx.schema
    BY <1>1, <2>2 DEF Inv, InMigration
  <2>4. CASE step = 3
    BY <1>1, <2>3, <2>4 DEF Inv, InMigration
  <2>5. CASE position \notin Batched
    BY <1>1, <2>3, <2>5 DEF BatchDone, Batched
  <2> QED BY <2>1, <2>2, <2>4, <2>5
<1>4. tx.recorded[position] \in {"absent", Names[position]}
  BY <1>1 DEF Misnamed
<1>5. /\ Becomes(tx, n) /\ n.schema = tx.schema /\ n.messages = tx.messages /\ n.events = tx.events
      /\ n.tasks = tx.tasks /\ n.recorded[position] = Names[position]
  BY <1>1, <1>4, Records
<1> HIDE DEF n
<1>6. Becomes(Db, n)
  BY <1>1, <1>5, BecomesOn
<1>7. Done(n, position)
  <2>1. \A t : Questions(n, t) = Questions(tx, t)
    BY <1>5 DEF Questions
  <2>2. Asked(tx) => Asked(n)
    BY <1>5, <2>1 DEF Asked
  <2> QED BY <1>3, <1>5, <2>2 DEF Done, BatchDone
<1>8. Migrated(n, position + 1)
  <2>1. position \in 1 .. 8
    BY <1>1 DEF Versions
  <2>2. Migrated(n, position)
    BY <1>1, <1>6, <2>1 DEF Becomes
  <2>3. \A v \in Versions : v < position + 1 => v < position \/ v = position
    BY <1>1 DEF Versions
  <2> QED BY <1>7, <2>2, <2>3 DEF Migrated
<1>9. Good(n) /\ Unharmed(n) /\ Extends(Db, n)
  BY <1>1, <1>5, <1>6, BecomesUnharmed DEF Becomes
<1>10. /\ Db' = n /\ Extends(disk, disk')
       /\ Good(disk') /\ Good(shadow') /\ Unharmed(disk)' /\ Unharmed(shadow)'
  BY <1>1, <1>2, <1>9, Writes DEF Inv
<1>11. AllGood'
  BY <1>1, <1>10, EmptyIsGood DEF Inv, AllGood, Unharmed
<1>12. position' \in 1 .. 8
  BY <1>1 DEF Versions
<1>13. Types' /\ Connected'
  BY <1>1, <1>12 DEF Inv, Types, Connected, Unopened, Building, Prepared
<1>14. Progressed' /\ InMigration' /\ InTransaction'
  <2>1. Migrated(Db', position')
    BY <1>1, <1>8, <1>10
  <2> QED BY <1>1, <2>1 DEF Progressed, InMigration, InTransaction, Unopened, Prepared
<1> QED
  BY <1>10, <1>11, <1>13, <1>14 DEF Inv, Keeps

LEMMA InitDoneKeeps ==
  ASSUME Inv, InitDone
  PROVE  Keeps
<1>1. /\ UNCHANGED <<disk, shadow, tx, attempt, handle, step, stale, foreign, failed, upsets>>
      /\ phase = "migrate" /\ phase' = "recover" /\ initialized' = TRUE /\ position' = 1
      /\ position = 8 /\ Migrated(Db, position) /\ handle = "file" /\ tx = Empty
  BY DEF InitDone, outside, Goto, Inv, Types, Versions, Progressed, Connected, Building, AllGood
<1>2. Db' = Db
  BY <1>1 DEF Db
<1>3. Ready(Db)
  BY <1>1 DEF Ready
<1>4. Types' /\ Connected'
  BY <1>1 DEF Inv, Types, Connected, Unopened, Building, Prepared
<1>5. AllGood'
  BY <1>1 DEF Inv, AllGood, Unharmed
<1>6. Progressed' /\ InMigration' /\ InTransaction'
  BY <1>1, <1>2, <1>3 DEF Progressed, InMigration, InTransaction, Unopened, Prepared
<1> QED
  BY <1>1, <1>4, <1>5, <1>6, ExtendsItself DEF Inv, Keeps

\* A failure, for a reason.
LEMMA ThrowKeeps ==
  ASSUME Inv, NEW why, Throw(why), InInit \/ InRecovery,
         \/ "statement" \in why \/ foreign \cap {"column", "record", "event"} # {}
         \/ InRecovery /\ ResolvedAt \notin Db.schema,
         upsets' \in 0 .. MaxUpsets
  PROVE  Keeps
<1>1. /\ UNCHANGED <<disk, shadow, attempt, initialized, foreign>>
      /\ phase' = "broken" /\ tx' = Empty /\ position' = 1 /\ step' = 1 /\ stale' = {}
      /\ handle' = IF InInit THEN "none" ELSE handle
      /\ failed' = failed \cup {IF InInit THEN "init" ELSE "recovery"} \cup why
  BY DEF Throw, Goto
<1>2. Types'
  <2>1. position' \in 1 .. 8 /\ step' \in 1 .. 3 /\ attempt' \in 1 .. 2
    BY <1>1 DEF Inv, Types
  <2> QED BY <1>1, <2>1 DEF Inv, Types
<1>3. AllGood'
  BY <1>1, EmptyIsGood DEF Inv, AllGood, Unharmed
<1>4. CASE InInit
  <2>1. /\ handle' = "none" /\ ~initialized' /\ failed' = failed \cup {"init"} \cup why
        /\ "statement" \in why \/ foreign \cap {"column", "record", "event"} # {}
    BY <1>1, <1>4 DEF InInit, InRecovery, Inv, Connected
  <2>2. Connected'
    BY <1>1, <2>1 DEF Inv, Connected, Unopened, Building, Prepared
  <2>3. Progressed' /\ InMigration' /\ InTransaction'
    BY <1>1, <2>1 DEF Progressed, InMigration, InTransaction, Prepared
  <2> QED BY <1>1, <1>2, <1>3, <2>2, <2>3, ExtendsItself DEF Inv, Keeps
<1>5. CASE InRecovery
  <2>1. phase \in {"recover", "recovery"} /\ initialized
    BY <1>5 DEF InRecovery, Inv, Connected
  <2>2. handle' = handle /\ failed' = failed \cup {"recovery"} \cup why /\ initialized'
    BY <1>1, <2>1 DEF InInit
  <2>3. Db' = Db
    BY <1>1, <2>2 DEF Db
  <2>4. Connected'
    BY <1>1, <2>1, <2>2, <2>3 DEF Inv, Connected, Unopened, Building, Prepared
  <2>5. Progressed' /\ InMigration' /\ InTransaction'
    BY <1>1, <2>1, <2>2, <2>3 DEF Inv, Progressed, InMigration, InTransaction, Prepared
  <2> QED BY <1>1, <1>2, <1>3, <2>4, <2>5, ExtendsItself DEF Inv, Keeps
<1> QED
  BY <1>4, <1>5

LEMMA StatementKeeps ==
  ASSUME Inv, StatementFails
  PROVE  Keeps
<1>1. Throw({"statement"}) /\ (InInit \/ InRecovery) /\ "statement" \in {"statement"}
  BY DEF StatementFails
<1>2. upsets' \in 0 .. MaxUpsets
  BY BoundsAssumption DEF StatementFails, Inv, Types
<1> QED
  BY <1>1, <1>2, ThrowKeeps

\* What this server wrote it can migrate again.
LEMMA InitThrowKeeps ==
  ASSUME Inv, InitThrows
  PROVE  Keeps
<1>1. Throw({}) /\ upsets' \in 0 .. MaxUpsets
  BY DEF InitThrows, Inv, Types
<1>2. phase \in {"migrate", "migration"} /\ ~initialized
  BY DEF InitThrows, Migrating, AtColumns, AtBatch, Migration, Inv, Connected, Building
<1>3. InInit
  BY <1>2 DEF InInit
<1>4. CASE Migrating /\ Misnamed
  <2>1. ~KnownNames(Db)
    BY <1>4 DEF Migrating, Misnamed, KnownNames
  <2>2. Unharmed(Db)
    BY DEF Inv, AllGood, Db
  <2>3. "record" \in foreign
    BY <2>1, <2>2 DEF Unharmed
  <2> QED BY <1>1, <1>3, <2>3, ThrowKeeps
<1>5. CASE AtColumns /\ Required \cap tx.bad # {}
  <2>1. "column" \in foreign
    BY <1>5 DEF Inv, AllGood, Unharmed
  <2> QED BY <1>1, <1>3, <2>1, ThrowKeeps
<1>6. CASE AtBatch /\ Refused(position, tx)
  <2>1. ~OwnEvents(tx)
    BY <1>6, OwnIsTaken DEF Inv, AllGood
  <2>2. "event" \in foreign
    BY <2>1 DEF Inv, AllGood, Unharmed
  <2> QED BY <1>1, <1>3, <2>2, ThrowKeeps
<1> QED
  BY <1>4, <1>5, <1>6 DEF InitThrows

LEMMA TurnIs ==
  ASSUME Inv, Recovering
  PROVE  InTurn \in stale /\ InTurn \in Tasks /\ InTurn \in DOMAIN tx.tasks
<1>1. stale \in SUBSET Nat /\ stale # {} /\ stale \subseteq Tasks /\ stale \subseteq DOMAIN tx.tasks
  BY TasksAssumption DEF Inv, Types, Recovering, InTransaction
<1> QED
  BY <1>1, MinIsLeast DEF InTurn

\* The event of a recovery is in nobody's way but the recovery's own.
LEMMA RecoveryThrowKeeps ==
  ASSUME Inv, RecoveryThrows
  PROVE  Keeps
<1>1. Throw({}) /\ upsets' \in 0 .. MaxUpsets
  BY DEF RecoveryThrows, Inv, Types
<1>2. InRecovery
  BY DEF RecoveryThrows, Recovering, InRecovery
<1>3. CASE phase = "recover" /\ ResolvedAt \notin Db.schema
  BY <1>1, <1>2, <1>3, ThrowKeeps
<1>4. CASE Recovering /\ Conflict(tx, InTurn)
  <2>1. InTurn \in Tasks
    BY <1>4, TurnIs
  <2>2. ~OwnEvents(tx)
    BY <1>4, <2>1 DEF Conflict, MatchingRecovery, OwnEvents
  <2>3. "event" \in foreign
    BY <2>2 DEF Inv, AllGood, Unharmed
  <2> QED
    BY <1>1, <1>2, <2>3, ThrowKeeps
<1> QED
  BY <1>3, <1>4 DEF RecoveryThrows

LEMMA ResetKeeps ==
  ASSUME Inv, ResetDatabase
  PROVE  Keeps
<1>1. /\ UNCHANGED <<tx, initialized, position, step, stale, foreign, failed>>
      /\ phase = "broken" /\ attempt = 1 /\ attempt' = 2 /\ phase' = "open"
      /\ handle \in {"none", "file"} /\ tx = Empty /\ (initialized <=> handle = "file")
      /\ "recovery" \in failed \/ ~initialized
  BY DEF ResetDatabase, plan, outside, Goto, Inv, Types, AllGood, Connected, Building
<1>2. CASE /\ disk' = Empty /\ shadow' = (IF handle = "file" THEN disk ELSE Empty)
           /\ handle' = (IF handle = "file" THEN "unlinked" ELSE "none")
           /\ UNCHANGED upsets
  <2>1. AllGood'
    BY <1>1, <1>2, EmptyIsGood DEF Inv, AllGood, Unharmed
  <2>2. Types'
    BY <1>1, <1>2 DEF Inv, Types
  <2>3. Connected'
    BY <1>1, <1>2 DEF Inv, Connected, Unopened, Building, Prepared
  <2>4. initialized => Db' = Db
    BY <1>1, <1>2 DEF Db
  <2>5. Progressed' /\ InMigration' /\ InTransaction'
    BY <1>1, <1>2, <2>4 DEF Inv, Progressed, InMigration, InTransaction, Prepared
  <2> QED
    BY <1>1, <1>2, <2>1, <2>2, <2>3, <2>5 DEF Inv, Keeps
<1>3. CASE upsets < MaxUpsets /\ upsets' = upsets + 1 /\ UNCHANGED <<disk, shadow, handle>>
  <2>1. Db' = Db
    BY <1>3 DEF Db
  <2>2. upsets' \in 0 .. MaxUpsets
    BY <1>3, BoundsAssumption DEF Inv, Types
  <2>3. AllGood'
    BY <1>1, <1>3 DEF Inv, AllGood, Unharmed
  <2>4. Types'
    BY <1>1, <1>3, <2>2 DEF Inv, Types
  <2>5. Connected'
    BY <1>1, <1>3 DEF Inv, Connected, Unopened, Building, Prepared
  <2>6. Progressed' /\ InMigration' /\ InTransaction'
    BY <1>1, <1>3, <2>1 DEF Inv, Progressed, InMigration, InTransaction, Prepared
  <2> QED
    BY <1>1, <1>3, <2>3, <2>4, <2>5, <2>6, ExtendsItself DEF Inv, Keeps
<1> QED
  BY <1>2, <1>3 DEF ResetDatabase

LEMMA BeginRecoveryKeeps ==
  ASSUME Inv, BeginRecovery
  PROVE  Keeps
<1>1. /\ UNCHANGED <<disk, shadow, attempt, handle, initialized, position, step, foreign, failed, upsets>>
      /\ phase = "recover" /\ phase' = "recovery" /\ tx' = Db /\ stale' = StaleTasks(Db)
      /\ initialized /\ Ready(Db) /\ Good(Db) /\ Unharmed(Db) /\ ResolvedAt \in Db.schema
  BY DEF BeginRecovery, connection, outside, Goto, Inv, Progressed, Connected, AllGood, Db
<1>2. Db' = Db
  BY <1>1 DEF Db
<1>3. Becomes(Db, Db)
  BY <1>1, ExtendsItself DEF Becomes
<1>4. StaleTasks(Db) \subseteq DOMAIN Db.tasks /\ StaleTasks(Db) \subseteq Tasks
  BY <1>1, GoodIs DEF StaleTasks
<1>5. AllGood'
  BY <1>1 DEF Inv, AllGood, Unharmed
<1>6. Types' /\ Connected'
  BY <1>1, <1>4 DEF Inv, Types, Connected, Unopened, Building, Prepared
<1>7. Progressed' /\ InMigration' /\ InTransaction'
  BY <1>1, <1>2, <1>3, <1>4 DEF Progressed, InMigration, InTransaction, Unopened, Prepared
<1> QED
  BY <1>1, <1>5, <1>6, <1>7, ExtendsItself DEF Inv, Keeps

LEMMA RecoverKeeps ==
  ASSUME Inv, RecoverTask
  PROVE  Keeps
<1>1. /\ UNCHANGED <<disk, shadow, phase, attempt, handle, initialized, position, step, foreign, failed, upsets>>
      /\ phase = "recovery" /\ stale' = stale \ {InTurn} /\ tx' = Interrupted(tx, InTurn)
      /\ Good(tx) /\ Ready(tx) /\ Becomes(Db, tx) /\ stale \subseteq DOMAIN tx.tasks
      /\ StaleTasks(tx) \subseteq stale /\ Unharmed(tx)
  BY DEF RecoverTask, Recovering, connection, outside, Inv, AllGood, InTransaction
<1>2. InTurn \in DOMAIN tx.tasks
  BY TurnIs DEF RecoverTask
<1>3. /\ Becomes(tx, tx') /\ Ready(tx') /\ DOMAIN tx'.tasks = DOMAIN tx.tasks
      /\ StaleTasks(tx') = StaleTasks(tx) \ {InTurn}
  BY <1>1, <1>2, InterruptedWritten
<1>4. Db' = Db
  BY <1>1 DEF Db
<1>5. Becomes(Db, tx') /\ Unharmed(tx') /\ Good(tx')
  BY <1>1, <1>3, BecomesOn, BecomesUnharmed DEF Becomes
<1>6. AllGood'
  BY <1>1, <1>5 DEF Inv, AllGood, Unharmed
<1>7. Types' /\ Connected'
  BY <1>1 DEF Inv, Types, Connected, Unopened, Building, Prepared
<1>8. Progressed' /\ InMigration' /\ InTransaction'
  BY <1>1, <1>3, <1>4, <1>5 DEF Inv, Progressed, InMigration, InTransaction
<1> QED
  BY <1>1, <1>6, <1>7, <1>8, ExtendsItself DEF Inv, Keeps

LEMMA CommitRecoveryKeeps ==
  ASSUME Inv, CommitRecovery
  PROVE  Keeps
<1>1. /\ UNCHANGED <<attempt, handle, initialized, position, step, stale, foreign, failed, upsets>>
      /\ phase = "recovery" /\ phase' = "gateway" /\ stale = {} /\ tx' = Empty /\ Store(tx)
      /\ Good(tx) /\ Unharmed(tx) /\ Ready(tx) /\ Extends(Db, tx) /\ StaleTasks(tx) = {}
      /\ initialized /\ ResolvedAt \in tx.schema
  BY DEF CommitRecovery, connection, plan, outside, Goto, Inv, AllGood, InTransaction, Becomes, Connected, Progressed
<1>2. /\ Db' = tx /\ Extends(disk, disk')
      /\ Good(disk') /\ Good(shadow') /\ Unharmed(disk)' /\ Unharmed(shadow)'
  BY <1>1, Writes DEF Inv
<1>3. AllGood'
  BY <1>1, <1>2, EmptyIsGood DEF Inv, AllGood, Unharmed
<1>4. Types' /\ Connected'
  BY <1>1 DEF Inv, Types, Connected, Unopened, Building, Prepared
<1>5. Progressed' /\ InMigration' /\ InTransaction'
  BY <1>1, <1>2 DEF Progressed, InMigration, InTransaction, Unopened, Prepared
<1> QED
  BY <1>2, <1>3, <1>4, <1>5 DEF Inv, Keeps

\* The writes of tasks.
LEMMA ServingKeeps ==
  ASSUME Inv, NEW n, Serving(n), Becomes(Db, n), Ready(n)
  PROVE  Keeps
<1>1. /\ UNCHANGED <<tx, phase, attempt, handle, initialized, position, step, stale, foreign, failed, upsets>>
      /\ phase = "serving" /\ Store(n)
      /\ Good(n) /\ Extends(Db, n) /\ Unharmed(Db) /\ ResolvedAt \in n.schema
  BY DEF Serving, connection, plan, outside, Becomes, Inv, AllGood, Db, Progressed, Prepared
<1>2. Unharmed(n)
  BY <1>1, BecomesUnharmed
<1>3. /\ Db' = n /\ Extends(disk, disk')
      /\ Good(disk') /\ Good(shadow') /\ Unharmed(disk)' /\ Unharmed(shadow)'
  BY <1>1, <1>2, Writes DEF Inv
<1>4. AllGood'
  BY <1>1, <1>3 DEF Inv, AllGood, Unharmed
<1>5. Types' /\ Connected'
  BY <1>1 DEF Inv, Types, Connected, Unopened, Building, Prepared
<1>6. Progressed' /\ InMigration' /\ InTransaction'
  BY <1>1, <1>3 DEF Progressed, InMigration, InTransaction, Unopened
<1> QED
  BY <1>3, <1>4, <1>5, <1>6 DEF Inv, Keeps

LEMMA WorkKeeps ==
  ASSUME Inv, NEW t \in Tasks, Work(t)
  PROVE  Keeps
<1>1. phase = "serving"
  BY DEF Work, CreateTask, MarkRunning, Progress, AskPermission, Decide, Answer, Announce, Serving
<1>2. Good(Db) /\ Ready(Db)
  BY <1>1 DEF Inv, AllGood, Connected, Progressed, Prepared, Db
<1>3. ASSUME NEW s \in Sessions, CreateTask(t, s) PROVE Keeps
  <2>1. t \notin DOMAIN Db.tasks
    BY <1>3 DEF CreateTask
  <2>2. PICK n : /\ Serving(n)
                 /\ n = [Db EXCEPT
                      !.tasks = [u \in DOMAIN @ \cup {t} |->
                        IF u = t
                        THEN [session |-> s, status |-> "created", at |-> 3, question |-> QuestionId(t)]
                        ELSE @[u]],
                      !.messages = @ \cup {NewMessage(Db, t, s, QuestionId(t), "user")}]
    BY <1>3 DEF CreateTask
  <2>3. Becomes(Db, n) /\ Ready(n)
    BY <1>2, <2>1, <2>2, TaskWritten
  <2> QED BY <2>2, <2>3, ServingKeeps
<1>4. CASE MarkRunning(t)
  <2>1. t \in DOMAIN Db.tasks /\ "running" \in Statuses \ {"interrupted"}
    BY <1>4 DEF MarkRunning, Statuses, Recoverable
  <2>2. PICK n : Serving(n) /\ n = [Db EXCEPT !.tasks[t].status = "running"]
    BY <1>4 DEF MarkRunning
  <2>3. Becomes(Db, n) /\ Ready(n)
    BY <1>2, <2>1, <2>2, StatusWritten
  <2> QED BY <2>2, <2>3, ServingKeeps
<1>5. CASE Progress(t)
  <2>1. t \in DOMAIN Db.tasks /\ "progress" \in TerminalTypes \cup {"progress"}
        /\ "progress" \notin TerminalTypes
    BY <1>5 DEF Progress, Running, TerminalTypes
  <2>2. PICK k \in Nat : k = Own(t) + 3
    <3> DEFINE own == {e \in Db.events : e.task = t}
    <3>1. own \in SUBSET Db.events
      OBVIOUS
    <3> HIDE DEF own
    <3>2. Cardinality(own) \in Nat
      BY <1>2, <3>1, GoodIs, FS_Subset, FS_CardinalityType
    <3> QED BY <3>2 DEF Own, own
  <2>3. PICK n : /\ Serving(n)
                 /\ n = [Db EXCEPT !.events = @ \cup {NewEvent(Db, t, EventId(t, k), "progress")}]
    BY <1>5, <2>2 DEF Progress
  <2>4. Becomes(Db, n) /\ Ready(n)
    BY <1>2, <2>1, <2>3, EventWritten
  <2> QED BY <2>3, <2>4, ServingKeeps
<1>6. CASE AskPermission(t)
  <2>1. t \in DOMAIN Db.tasks /\ Db.tasks[t].status = "running"
    BY <1>6 DEF AskPermission, Running
  <2>2. PICK n : Serving(n) /\ n = [Db EXCEPT !.asks = @ \cup {t}]
    BY <1>6 DEF AskPermission
  <2>3. Becomes(Db, n) /\ Ready(n)
    BY <1>2, <2>1, <2>2, AskWritten
  <2> QED BY <2>2, <2>3, ServingKeeps
<1>7. CASE Decide(t)
  <2>1. t \in DOMAIN Db.tasks /\ "completed" \in Statuses \ {"interrupted"}
    BY <1>7 DEF Decide, Running, Statuses
  <2>2. PICK n : Serving(n) /\ n = [Db EXCEPT !.tasks[t].status = "completed"]
    BY <1>7 DEF Decide
  <2>3. Becomes(Db, n) /\ Ready(n)
    BY <1>2, <2>1, <2>2, StatusWritten
  <2> QED BY <2>2, <2>3, ServingKeeps
<1>8. CASE Answer(t)
  <2>1. t \in DOMAIN Db.tasks
    BY <1>8 DEF Answer
  <2>2. PICK n : /\ Serving(n)
                 /\ n = [Db EXCEPT !.messages =
                      @ \cup {NewMessage(Db, t, Db.tasks[t].session, AnswerId(t), "assistant")}]
    BY <1>8 DEF Answer
  <2>3. Becomes(Db, n) /\ Ready(n)
    BY <1>2, <2>1, <2>2, AnswerWritten
  <2> QED BY <2>2, <2>3, ServingKeeps
<1>9. CASE Announce(t)
  <2>1. /\ t \in DOMAIN Db.tasks /\ ~HasTerminalEvent(Db, t)
        /\ "task_completed" \in TerminalTypes \cup {"progress"} /\ 2 \in Nat
    BY <1>9 DEF Announce, TerminalTypes
  <2>2. PICK n : /\ Serving(n)
                 /\ n = [Db EXCEPT !.events = @ \cup {NewEvent(Db, t, EventId(t, 2), "task_completed")}]
    BY <1>9 DEF Announce
  <2>3. Becomes(Db, n) /\ Ready(n)
    BY <1>2, <2>1, <2>2, EventWritten
  <2> QED BY <2>2, <2>3, ServingKeeps
<1> QED
  BY <1>3, <1>4, <1>5, <1>6, <1>7, <1>8, <1>9 DEF Work

-----------------------------------------------------------------------------
(* What others do to the file.                                                *)

LEMMA ChangeKeeps ==
  ASSUME Inv, NEW kind, NEW db, Change(kind, db), Good(db), Extends(disk, db),
         kind # "column" => db.bad = {},
         kind # "record" => KnownNames(db),
         kind # "event" => OwnEvents(db)
  PROVE  Keeps
<1>1. /\ UNCHANGED <<shadow, tx, phase, attempt, handle, initialized, position, step, stale, failed>>
      /\ phase = "off" /\ foreign = {} /\ disk' = db /\ foreign' = {kind} /\ upsets' = upsets + 1
      /\ upsets < MaxUpsets /\ shadow = Empty /\ tx = Empty
  BY DEF Change, AtRest, connection, plan, Inv, AllGood
<1>2. Unharmed(disk)'
  BY <1>1 DEF Unharmed
<1>3. Unharmed(shadow)' /\ Unharmed(tx)'
  BY <1>1, EmptyIsGood DEF Unharmed
<1>4. AllGood'
  BY <1>1, <1>2, <1>3 DEF Inv, AllGood
<1>5. upsets' \in 0 .. MaxUpsets
  BY <1>1, BoundsAssumption DEF Inv, Types
<1>6. Types' /\ Connected'
  BY <1>1, <1>5 DEF Inv, Types, Connected, Unopened, Building, Prepared
<1>7. Progressed' /\ InMigration' /\ InTransaction'
  BY <1>1 DEF Inv, Connected, Progressed, InMigration, InTransaction, Unopened, Prepared
<1> QED
  BY <1>1, <1>4, <1>6, <1>7 DEF Inv, Keeps

LEMMA OutsideKeeps ==
  ASSUME Inv, LoseIndex \/ AlterColumn \/ RenameRecord \/ \E t \in Tasks : TakeRecoveryId(t)
  PROVE  Keeps
<1>1. /\ foreign = {} /\ Good(disk) /\ DbOK(disk) /\ disk.bad = {} /\ KnownNames(disk) /\ OwnEvents(disk)
  BY GoodIs DEF LoseIndex, AlterColumn, RenameRecord, TakeRecoveryId, Change, AtRest, Inv, AllGood, Unharmed
<1>2. CASE LoseIndex
  <2>1. PICK i : Change("index", [disk EXCEPT !.schema = @ \ {i}])
    BY <1>2 DEF LoseIndex
  <2> DEFINE n == [disk EXCEPT !.schema = @ \ {i}]
  <2>2. /\ n.tasks = disk.tasks /\ n.messages = disk.messages /\ n.events = disk.events
        /\ n.asks = disk.asks /\ n.bad = {} /\ n.recorded = disk.recorded /\ DbOK(n)
    BY <1>1 DEF DbOK
  <2>3. Change("index", n)
    BY <2>1
  <2> HIDE DEF n
  <2>4. Good(n) /\ Extends(disk, n) /\ OwnEvents(n)
    BY <1>1, <2>2, SameRows
  <2>5. KnownNames(n)
    BY <1>1, <2>2 DEF KnownNames
  <2> QED BY <2>2, <2>3, <2>4, <2>5, ChangeKeeps
<1>3. CASE AlterColumn
  <2>1. PICK c \in {<<"workspaces", "description">>, <<"messages", "sequence_no">>} :
          Change("column", [disk EXCEPT !.schema = @ \cup {c}, !.bad = @ \cup {c}])
    BY <1>3 DEF AlterColumn
  <2> DEFINE n == [disk EXCEPT !.schema = @ \cup {c}, !.bad = @ \cup {c}]
  <2>2. c \in FullSchema
    <3>1. c \in Columns[2] \/ c \in Columns[6]
      BY DEF Columns
    <3> QED BY <3>1, PartsOfSchema DEF Versions
  <2>3. /\ n.tasks = disk.tasks /\ n.messages = disk.messages /\ n.events = disk.events
        /\ n.asks = disk.asks /\ n.recorded = disk.recorded
        /\ n.schema = disk.schema \cup {c} /\ n.bad = disk.bad \cup {c}
        /\ n \in [schema : {n.schema}, bad : {n.bad}, recorded : {n.recorded}, tasks : {n.tasks},
                  messages : {n.messages}, events : {n.events}, asks : {n.asks}]
    BY <1>1 DEF DbOK
  <2>4. Change("column", n)
    BY <2>1
  <2> HIDE DEF n
  <2>5. DbOK(n)
    BY <1>1, <2>2, <2>3 DEF DbOK
  <2>6. Good(n) /\ Extends(disk, n) /\ OwnEvents(n)
    BY <1>1, <2>3, <2>5, SameRows
  <2>7. KnownNames(n)
    BY <1>1, <2>3 DEF KnownNames
  <2> QED BY <2>4, <2>6, <2>7, ChangeKeeps
<1>4. CASE RenameRecord
  <2>1. PICK v \in {1, 6} : Change("record", [disk EXCEPT !.recorded[v] = "other"])
    BY <1>4 DEF RenameRecord
  <2> DEFINE n == [disk EXCEPT !.recorded[v] = "other"]
  <2>2. /\ n.tasks = disk.tasks /\ n.messages = disk.messages /\ n.events = disk.events
        /\ n.asks = disk.asks /\ n.bad = {} /\ DbOK(n)
    BY <1>1 DEF DbOK
  <2>3. Change("record", n)
    BY <2>1
  <2> HIDE DEF n
  <2>4. Good(n) /\ Extends(disk, n) /\ OwnEvents(n)
    BY <1>1, <2>2, SameRows
  <2> QED BY <2>2, <2>3, <2>4, ChangeKeeps
<1>5. ASSUME NEW t \in Tasks, TakeRecoveryId(t) PROVE Keeps
  <2>1. PICK e : e = NewEvent(disk, t, RecoveryId(t), "progress")
    OBVIOUS
  <2>2. Change("event", [disk EXCEPT !.events = @ \cup {e}])
    BY <1>5, <2>1 DEF TakeRecoveryId
  <2> DEFINE n == [disk EXCEPT !.events = @ \cup {e}]
  <2>3. /\ n.tasks = disk.tasks /\ n.messages = disk.messages /\ n.events = disk.events \cup {e}
        /\ n.asks = disk.asks /\ n.recorded = disk.recorded /\ n.bad = disk.bad /\ n.schema = disk.schema
        /\ n \in [schema : {n.schema}, bad : {n.bad}, recorded : {n.recorded}, tasks : {n.tasks},
                  messages : {n.messages}, events : {n.events}, asks : {n.asks}]
    BY <1>1 DEF DbOK
  <2>4. Change("event", n)
    BY <2>2
  <2> HIDE DEF n
  <2>5. PICK events : events = n.events /\ events = disk.events \cup {e}
    BY <2>3
  <2>6. RecoveryId(t) \in Nat /\ "progress" \in TerminalTypes \cup {"progress"}
        /\ "progress" \notin TerminalTypes
    BY TasksAssumption, RecoveryIdIs DEF TerminalTypes
  <2>7. /\ events \in SUBSET Event /\ IsFiniteSet(events)
        /\ \A f, g \in events : f.type \in TerminalTypes /\ g.type \in TerminalTypes /\ f.task = g.task
             => f = g
    BY <1>1, <2>1, <2>5, <2>6, EventAdded
  <2>8. DbOK(n)
    BY <1>1, <2>3, <2>5, <2>7 DEF DbOK
  <2>9. \A u : Questions(n, u) = Questions(disk, u) /\ (HasTerminalEvent(disk, u) => HasTerminalEvent(n, u))
    BY <2>3 DEF Questions, HasTerminalEvent
  <2>10. Asked(disk) => Asked(n)
    BY <2>3, <2>9 DEF Asked
  <2>11. Good(n)
    BY <1>1, <2>3, <2>5, <2>7, <2>8, <2>9, <2>10 DEF Good, Ended, OneEnd, Fresh
  <2>12. Extends(disk, n)
    BY <2>3 DEF Extends
  <2>13. KnownNames(n) /\ n.bad = {}
    BY <1>1, <2>3 DEF KnownNames
  <2> QED BY <2>4, <2>11, <2>12, <2>13, ChangeKeeps
<1> QED
  BY <1>2, <1>3, <1>4, <1>5

LEMMA InvNext == Inv /\ [Next]_vars => Keeps
<1> SUFFICES ASSUME Inv, [Next]_vars PROVE Keeps
  OBVIOUS
<1>1. CASE UNCHANGED vars
  <2>1. UNCHANGED <<disk, shadow, tx, phase, attempt, handle, initialized, position, step, stale,
                    foreign, failed, upsets>>
    BY <1>1 DEF vars
  <2>2. Db' = Db /\ (Misnamed' <=> Misnamed)
    BY <2>1 DEF Db, Misnamed
  <2>3. Types' /\ Connected' /\ AllGood'
    BY <2>1, <2>2 DEF Inv, Types, Connected, AllGood, Unharmed
  <2>4. Progressed' /\ InMigration' /\ InTransaction'
    BY <2>1, <2>2 DEF Inv, Progressed, InMigration, InTransaction
  <2> QED BY <2>1, <2>3, <2>4, ExtendsItself DEF Inv, Keeps
<1>2. CASE Boot
  <2>1. CASE ReadConfig \/ PrepareDirectories \/ InitLogging \/ InitTools \/ InitGateway \/ InitLlm
               \/ InitOrchestrator
    BY <2>1, PassKeeps DEF ReadConfig, PrepareDirectories, InitLogging, InitTools, InitGateway,
       InitLlm, InitOrchestrator, Unopened, Prepared
  <2>2. CASE OpenDatabase \/ CreateTable \/ TablesDone
    BY <2>2, OpenKeeps, TableKeeps, TablesDoneKeeps
  <2>3. CASE BeginMigration \/ ColumnSteps \/ BatchStep \/ CommitMigration \/ InitDone \/ InitThrows
    BY <2>3, BeginKeeps, ColumnsKeep, BatchStepKeeps, CommitKeeps, InitDoneKeeps, InitThrowKeeps
  <2>4. CASE ResetDatabase \/ GiveUp
    BY <2>4, ResetKeeps, ExitKeeps DEF GiveUp
  <2>5. CASE BeginRecovery \/ RecoverTask \/ RecoveryThrows \/ CommitRecovery
    BY <2>5, BeginRecoveryKeeps, RecoverKeeps, RecoveryThrowKeeps, CommitRecoveryKeeps
  <2> QED BY <1>2, <2>1, <2>2, <2>3, <2>4, <2>5 DEF Boot
<1>3. CASE Main
  BY <1>3, PassKeeps DEF Main, Unopened
<1>4. CASE Refusals \/ Stop
  BY <1>4, ExitKeeps DEF Refusals, Stop, ConfigMissing, DirectoriesMissing, LoggingFails, ToolsFail,
     GatewayFails, OrchestratorFails
<1>5. CASE \E t \in Tasks : Work(t)
  BY <1>5, WorkKeeps
<1>6. CASE StatementFails \/ Kill
  BY <1>6, StatementKeeps, KillKeeps
<1>7. CASE LoseIndex \/ AlterColumn \/ RenameRecord \/ \E t \in Tasks : TakeRecoveryId(t)
  BY <1>7, OutsideKeeps
<1> QED
  BY <1>1, <1>2, <1>3, <1>4, <1>5, <1>6, <1>7 DEF Next

\* The invariant holds of every state there is.
THEOREM SpecInv == Spec => []Inv
<1>1. Inv /\ [Next]_vars => Inv'
  BY InvNext DEF Keeps
<1> QED
  BY InitInv, <1>1, PTL DEF Spec

\* A server that gets past the database has one that is whole, whatever it found
\* and wherever the starts before it were cut off.
THEOREM PreparedIsWhole == Spec => []ServesPrepared
<1>1. Inv => ServesPrepared
  <2> SUFFICES ASSUME Inv PROVE ServesPrepared
    OBVIOUS
  <2>1. TypeOK
    BY GoodIs DEF Inv, AllGood, Types, TypeOK, Unopened, Building, Prepared
  <2>2. ASSUME phase \in Prepared PROVE Ready(Db) /\ Good(Db) /\ ResolvedAt \in Db.schema
    BY <2>2 DEF Inv, AllGood, Connected, Progressed, Db
  <2>3. ServesCurrentSchema
    BY <2>2, ReadyIsWhole, ReadyIs DEF ServesCurrentSchema
  <2>4. ConversationsWhole
    <3> SUFFICES ASSUME phase \in Prepared
                 PROVE  /\ \A t \in DOMAIN Db.tasks : Db.tasks[t].session # None =>
                             \E m \in Questions(Db, t) : m.id = Db.tasks[t].question
                        /\ UniqueIn(Db.messages, "session") /\ UniqueIn(Db.events, "task")
                        /\ \A r \in Db.messages \cup Db.events : r.seq > 0
      BY DEF ConversationsWhole
    <3>1. Asked(Db) /\ Numbered(Db.events, "task") /\ Good(Db)
      BY <2>2, ReadyIs
    <3>2. \A r \in Db.messages \cup Db.events : r.seq \in Nat
      BY <3>1, GoodIs DEF Message, Event
    <3> QED BY <3>1, <3>2 DEF Asked, Numbered
  <2>5. ServesTheFile
    BY DEF ServesTheFile, Inv, Types, Connected
  <2> QED BY <2>1, <2>3, <2>4, <2>5 DEF ServesPrepared
<1> QED
  BY SpecInv, <1>1, PTL

\* Recovery leaves no task running, none interrupted without an end, and none
\* with two.
THEOREM RecoveryHolds == Spec => []RecoveryIsWhole
<1>1. Inv => RecoveryIsWhole
  <2> SUFFICES ASSUME Inv PROVE RecoveryIsWhole
    OBVIOUS
  <2>1. Good(disk) /\ Good(Db)
    BY DEF Inv, AllGood, Db
  <2>2. NothingLeftRunning
    BY <2>1 DEF Inv, Progressed, StaleTasks, Good, Ended, NothingLeftRunning
  <2>3. InterruptedHasVerdict
    BY <2>1 DEF Good, Ended, InterruptedHasVerdict
  <2>4. OneVerdict
    <3> SUFFICES ASSUME NEW t \in Tasks
                 PROVE  Cardinality({e \in disk.events : e.task = t /\ e.type \in TerminalTypes}) <= 1
      BY DEF OneVerdict
    <3> DEFINE ends == {e \in disk.events : e.task = t /\ e.type \in TerminalTypes}
    <3>1. \A e, f \in ends : e = f
      BY <2>1 DEF Good, OneEnd
    <3>2. ends = {} \/ \E e : ends = {e}
      <4> HIDE DEF ends
      <4> QED BY <3>1
    <3> HIDE DEF ends
    <3>3. Cardinality(ends) = 0 \/ Cardinality(ends) = 1
      BY <3>2, FS_EmptySet, FS_Singleton
    <3> QED BY <3>3 DEF ends
  <2> QED BY <2>2, <2>3, <2>4 DEF RecoveryIsWhole
<1> QED
  BY SpecInv, <1>1, PTL

\* Nothing written is lost or renumbered but by the reset, which loses all and has
\* a reason.
THEOREM HistoryHolds == Spec => HistoryIsSafe
<1> DEFINE History == Survives \/ (phase = "broken" /\ attempt = 1 /\ disk' = Empty)
<1>1. Inv => ResetOnlyWhenBroken
  BY DEF Inv, Connected, ResetOnlyWhenBroken
<1>2. Inv /\ [Next]_vars => [History]_vars
  BY InvNext DEF Keeps, Extends, Survives
<1>3. Spec => []ResetOnlyWhenBroken
  BY SpecInv, <1>1, PTL
<1>4. HistoryKept <=> [][History]_vars
  BY DEF HistoryKept
<1> HIDE DEF History
<1>5. Spec => [][History]_vars
  BY SpecInv, <1>2, PTL DEF Spec
<1>6. Spec => HistoryKept
  BY <1>4, <1>5
<1> QED
  BY <1>3, <1>6, PTL DEF HistoryIsSafe

=============================================================================
