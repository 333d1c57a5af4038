------------------------- MODULE LlmProvidersProofs -------------------------
(***************************************************************************)
(* Proofs about LlmProviders, for any number of providers, of requests     *)
(* under way at once, of chats, of failed writes and of crashes.           *)
(***************************************************************************)
EXTENDS LlmProviders, TLAPS, WellFoundedInduction

\* The least element of a set of providers is one of them.
LEMMA MinIsMember ==
  ASSUME NEW S \in SUBSET Nat, S # {}
  PROVE  Min(S) \in S
<1>1. PICK x \in S : \A y \in S : ~ <<y, x>> \in OpToRel(<, Nat)
  BY NatLessThanWellFounded, WFMin, Zenon
<1>2. \A y \in S : x <= y
  <2> SUFFICES ASSUME NEW y \in S PROVE x <= y
    OBVIOUS
  <2>1. ~ (y < x)
    <3>1. <<y, x>> \in OpToRel(<, Nat) <=> y < x
      BY DEF OpToRel
    <3>2. QED
      BY <1>1, <3>1
  <2> QED
    BY <2>1
<1>3. QED
  BY <1>2 DEF Min

\* What Partial functions are.
LEMMA PartialIs ==
  ASSUME NEW S, NEW T, NEW f
  PROVE  f \in Partial(S, T) <=> DOMAIN f \subseteq S /\ f \in [DOMAIN f -> T]
<1>1. ASSUME f \in Partial(S, T) PROVE DOMAIN f \subseteq S /\ f \in [DOMAIN f -> T]
  <2>1. PICK D \in SUBSET S : f \in [D -> T]
    BY <1>1 DEF Partial
  <2> QED
    BY <2>1
<1>2. ASSUME DOMAIN f \subseteq S, f \in [DOMAIN f -> T] PROVE f \in Partial(S, T)
  BY <1>2 DEF Partial
<1> QED
  BY <1>1, <1>2

\* Putting and dropping keep partial functions partial.
LEMMA PutStays ==
  ASSUME NEW S, NEW T, NEW f \in Partial(S, T), NEW k \in S, NEW v \in T
  PROVE  Put(f, k, v) \in Partial(S, T)
<1>1. DOMAIN f \subseteq S /\ f \in [DOMAIN f -> T]
  BY PartialIs
<1> DEFINE g == Put(f, k, v)
<1>2. DOMAIN g \subseteq S /\ g \in [DOMAIN g -> T]
  BY <1>1 DEF Put
<1>3. g \in Partial(S, T) <=> DOMAIN g \subseteq S /\ g \in [DOMAIN g -> T]
  BY PartialIs, Zenon
<1> QED
  BY <1>2, <1>3

LEMMA DropStays ==
  ASSUME NEW S, NEW T, NEW f \in Partial(S, T), NEW k
  PROVE  Drop(f, k) \in Partial(S, T)
<1>1. DOMAIN f \subseteq S /\ f \in [DOMAIN f -> T]
  BY PartialIs
<1> DEFINE g == Drop(f, k)
<1>2. DOMAIN g \subseteq S /\ g \in [DOMAIN g -> T]
  BY <1>1 DEF Drop, Restrict
<1>3. g \in Partial(S, T) <=> DOMAIN g \subseteq S /\ g \in [DOMAIN g -> T]
  BY PartialIs, Zenon
<1> QED
  BY <1>2, <1>3

\* The empty function is a partial one.
LEMMA EmptyStays ==
  ASSUME NEW S, NEW T
  PROVE  Empty \in Partial(S, T)
<1>1. DOMAIN Empty \subseteq S /\ Empty \in [DOMAIN Empty -> T]
  BY DEF Empty
<1> QED
  BY <1>1, PartialIs

\* What the two files may hold, taken apart and put together.
LEMMA DocumentIs ==
  ASSUME NEW d \in Documents
  PROVE  /\ d.torn \in BOOLEAN /\ d.default \in Providers \union {None}
         /\ d.of \in Partial(Providers, EntryKinds)
         /\ DOMAIN d.of \subseteq Providers /\ d.of \in [DOMAIN d.of -> EntryKinds]
         /\ d.torn => d = CutDocument
<1>1. /\ d \in [torn : BOOLEAN, default : Providers \union {None}, of : Partial(Providers, EntryKinds)]
      /\ d.torn => d = CutDocument
  BY DEF Documents
<1>2. d.of \in Partial(Providers, EntryKinds)
  BY <1>1
<1> QED
  BY <1>1, <1>2, PartialIs

LEMMA DocumentFrom ==
  ASSUME NEW d \in Documents, ~d.torn, NEW x \in Providers \union {None},
         NEW f \in Partial(Providers, EntryKinds)
  PROVE  [d EXCEPT !.of = f, !.default = x] \in Documents
BY DEF Documents

LEMMA KeyFileIs ==
  ASSUME NEW k \in KeyFiles
  PROVE  /\ k.torn \in BOOLEAN /\ k.legacy \in {NoKey, LegacyKey}
         /\ k.of \in Partial(Providers, Keys)
         /\ DOMAIN k.of \subseteq Providers /\ k.of \in [DOMAIN k.of -> Keys]
         /\ k.torn => k = CutKeys
         /\ \A p \in DOMAIN k.of : k.of[p] \in KeysOf(p)
<1>1. /\ k \in [torn : BOOLEAN, legacy : {NoKey, LegacyKey}, of : Partial(Providers, Keys)]
      /\ k.torn => k = CutKeys
      /\ \A p \in DOMAIN k.of : k.of[p] \in KeysOf(p)
  BY DEF KeyFiles
<1>2. k.of \in Partial(Providers, Keys)
  BY <1>1
<1> QED
  BY <1>1, <1>2, PartialIs

LEMMA KeyFileFrom ==
  ASSUME NEW k \in KeyFiles, ~k.torn, NEW l \in {NoKey, LegacyKey},
         NEW f \in Partial(Providers, Keys), \A p \in DOMAIN f : f[p] \in KeysOf(p)
  PROVE  [k EXCEPT !.of = f, !.legacy = l] \in KeyFiles
BY DEF KeyFiles

\* The empty files, whole and cut short, are files.
LEMMA EmptyFiles ==
  /\ NoDocument \in Documents /\ CutDocument \in Documents
  /\ NoKeys \in KeyFiles /\ CutKeys \in KeyFiles
<1>1. Empty \in Partial(Providers, EntryKinds) /\ Empty \in Partial(Providers, Keys)
  BY EmptyStays
<1>2. NoDocument \in Documents /\ CutDocument \in Documents
  BY <1>1 DEF Documents, NoDocument, CutDocument
<1>3. NoKeys \in KeyFiles /\ CutKeys \in KeyFiles
  <2>1. DOMAIN Empty = {}
    BY DEF Empty
  <2> QED
    BY <1>1, <2>1 DEF KeyFiles, NoKeys, CutKeys
<1> QED
  BY <1>2, <1>3

-----------------------------------------------------------------------------
(* The facade's table.                                                     *)

Configurations == [kind : EntryKinds, key : Keys, avail : BOOLEAN]
ClientKinds == [http : BOOLEAN, key : Keys]
Tables ==
  [up : BOOLEAN, dflt : Providers \union {None}, prior : Providers \union {None},
   confs : Partial(Providers, Configurations), clients : Partial(Providers, ClientKinds)]

\* A provider is available only if its client speaks HTTP; every client has its own key,
\* the one of its environment variable, or the only one of an old file.
TableFits(t) ==
  /\ \A p \in DOMAIN t.confs : t.confs[p].avail => p \in DOMAIN t.clients /\ t.clients[p].http
  /\ \A p \in DOMAIN t.clients : t.clients[p].key \in KeysOf(p) \union {EnvKey(p), LegacyKey, NoKey}
  /\ \A p, q \in DOMAIN t.clients :
       t.clients[p].key = LegacyKey /\ t.clients[q].key = LegacyKey => p = q

LEMMA TableIs ==
  ASSUME NEW t \in Tables
  PROVE  /\ t = [up |-> t.up, dflt |-> t.dflt, prior |-> t.prior, confs |-> t.confs, clients |-> t.clients]
         /\ t.up \in BOOLEAN /\ t.dflt \in Providers \union {None} /\ t.prior \in Providers \union {None}
         /\ t.confs \in Partial(Providers, Configurations)
         /\ t.clients \in Partial(Providers, ClientKinds)
         /\ DOMAIN t.confs \subseteq Providers /\ t.confs \in [DOMAIN t.confs -> Configurations]
         /\ DOMAIN t.clients \subseteq Providers /\ t.clients \in [DOMAIN t.clients -> ClientKinds]
<1>1. t.confs \in Partial(Providers, Configurations) /\ t.clients \in Partial(Providers, ClientKinds)
  BY DEF Tables
<1>2. /\ t.up \in BOOLEAN /\ t.dflt \in Providers \union {None} /\ t.prior \in Providers \union {None}
      /\ t = [up |-> t.up, dflt |-> t.dflt, prior |-> t.prior, confs |-> t.confs, clients |-> t.clients]
  BY DEF Tables
<1> QED
  BY <1>1, <1>2, PartialIs

\* What loadProvidersFromConfig leaves lists entries of the document, none of them available yet.
LEMMA ListedIs ==
  ASSUME NEW doc \in Documents
  PROVE  /\ Listed(doc) \in Partial(Providers, Configurations)
         /\ DOMAIN Listed(doc) \subseteq DOMAIN doc.of
         /\ \A p \in DOMAIN Listed(doc) : /\ Listed(doc)[p].kind = doc.of[p]
                                          /\ Listed(doc)[p].avail = FALSE
         /\ Broken(doc) = {} => DOMAIN Listed(doc) = DOMAIN doc.of
<1>1. DOMAIN doc.of \subseteq Providers /\ doc.of \in [DOMAIN doc.of -> EntryKinds]
  BY DocumentIs
<1>2. NoKey \in Keys
  BY DEF Keys
<1> DEFINE f == Listed(doc)
<1>3. /\ DOMAIN f = {q \in DOMAIN doc.of : \A b \in Broken(doc) : q < b}
      /\ \A p \in DOMAIN f : f[p] = [kind |-> doc.of[p], key |-> NoKey, avail |-> FALSE]
      /\ f = [p \in DOMAIN f |-> f[p]]
  BY DEF Listed
<1>4. \A p \in DOMAIN f : f[p] \in Configurations /\ f[p].kind = doc.of[p] /\ f[p].avail = FALSE
  <2> HIDE DEF f
  <2> SUFFICES ASSUME NEW p \in DOMAIN f
               PROVE  f[p] \in Configurations /\ f[p].kind = doc.of[p] /\ f[p].avail = FALSE
    OBVIOUS
  <2>1. doc.of[p] \in EntryKinds /\ f[p] = [kind |-> doc.of[p], key |-> NoKey, avail |-> FALSE]
    BY <1>1, <1>3
  <2> QED
    BY <2>1, <1>2 DEF Configurations
<1>5. f \in [DOMAIN f -> Configurations] /\ DOMAIN f \subseteq Providers
  <2> HIDE DEF f
  <2> QED
    BY <1>1, <1>3, <1>4
<1>6. f \in Partial(Providers, Configurations) <=>
        DOMAIN f \subseteq Providers /\ f \in [DOMAIN f -> Configurations]
  BY PartialIs, Zenon
<1>7. Broken(doc) = {} => DOMAIN f = DOMAIN doc.of
  BY <1>3
<1>8. DOMAIN f \subseteq DOMAIN doc.of
  BY <1>3
<1>9. /\ f \in Partial(Providers, Configurations)
      /\ DOMAIN f \subseteq DOMAIN doc.of
      /\ \A p \in DOMAIN f : f[p].kind = doc.of[p] /\ f[p].avail = FALSE
      /\ Broken(doc) = {} => DOMAIN f = DOMAIN doc.of
  <2> HIDE DEF f
  <2> QED
    BY <1>4, <1>5, <1>6, <1>7, <1>8
<1> QED
  BY <1>9, Zenon

\* Its document replaces the list and the default of the table, and no client.
LEMMA WithDocumentFits ==
  ASSUME NEW t \in Tables, TableFits(t), NEW doc \in Documents
  PROVE  LET u == WithDocument(t, doc) IN
         /\ u \in Tables /\ TableFits(u)
         /\ [u EXCEPT !.prior = None] \in Tables /\ TableFits([u EXCEPT !.prior = None])
         /\ u.clients = t.clients /\ u.up = t.up /\ u.confs = Listed(doc) /\ u.prior = t.dflt
         /\ u.dflt = IF doc.torn THEN t.dflt ELSE doc.default
<1> DEFINE u == WithDocument(t, doc)
           v == [u EXCEPT !.prior = None]
<1>1. Listed(doc) \in Partial(Providers, Configurations)
  BY ListedIs
<1>2. (IF doc.torn THEN t.dflt ELSE doc.default) \in Providers \union {None}
  BY TableIs, DocumentIs
<1>3. /\ u \in Tables /\ v \in Tables
      /\ u.up = t.up /\ u.dflt = (IF doc.torn THEN t.dflt ELSE doc.default) /\ u.prior = t.dflt
      /\ u.confs = Listed(doc) /\ u.clients = t.clients
      /\ v.confs = Listed(doc) /\ v.clients = t.clients
  BY <1>1, <1>2 DEF WithDocument, Tables
<1> HIDE DEF u, v
<1>4. TableFits(u) /\ TableFits(v)
  <2>1. \A p \in DOMAIN Listed(doc) : ~ Listed(doc)[p].avail
    BY ListedIs
  <2> QED
    BY <2>1, <1>3 DEF TableFits
<1>5. /\ u \in Tables /\ TableFits(u)
      /\ v \in Tables /\ TableFits(v)
      /\ u.clients = t.clients /\ u.up = t.up /\ u.confs = Listed(doc) /\ u.prior = t.dflt
      /\ u.dflt = IF doc.torn THEN t.dflt ELSE doc.default
  BY <1>3, <1>4
<1> QED
  BY <1>5 DEF u, v

\* The key a provider is given is its own or, for the default, the old one.
LEMMA KeyLoadedIs ==
  ASSUME NEW t, NEW keys \in KeyFiles, NEW p \in Providers
  PROVE  LET k == KeyLoaded(t, keys, p) IN
         /\ k \in Keys /\ k \in KeysOf(p) \union {LegacyKey, NoKey}
         /\ k = LegacyKey => p = t.dflt
<1>1. /\ keys.legacy \in {NoKey, LegacyKey}
      /\ keys.of \in [DOMAIN keys.of -> Keys]
      /\ \A q \in DOMAIN keys.of : keys.of[q] \in KeysOf(q)
  BY KeyFileIs
<1>2. LegacyKey \notin KeysOf(p) /\ LegacyKey # NoKey /\ LegacyKey \in Keys /\ NoKey \in Keys
  BY ConstantsAssumption DEF LegacyKey, NoKey, KeysOf, None, Keys
<1>3. CASE p \in DOMAIN keys.of
  BY <1>1, <1>2, <1>3 DEF KeyLoaded
<1>4. CASE p \notin DOMAIN keys.of
  BY <1>1, <1>2, <1>4 DEF KeyLoaded
<1> QED
  BY <1>3, <1>4

LEMMA KeyUsedIs ==
  ASSUME NEW p \in Providers, NEW kind, NEW k \in Keys, k \in KeysOf(p) \union {LegacyKey, NoKey}
  PROVE  LET u == KeyUsed(p, kind, k) IN
         /\ u \in Keys /\ u \in KeysOf(p) \union {EnvKey(p), LegacyKey, NoKey}
         /\ u = LegacyKey => k = LegacyKey
<1>1. EnvKey(p) # LegacyKey /\ EnvKey(p) \in Keys
  BY ConstantsAssumption DEF LegacyKey, EnvKey, Keys, None
<1> QED
  BY <1>1 DEF KeyUsed

\* What loadLocalOverrides and buildClients make of a table.
LEMMA BuiltFits ==
  ASSUME NEW t \in Tables, NEW keys \in KeyFiles
  PROVE  LET u == Built(t, keys) IN
         /\ u \in Tables /\ TableFits(u)
         /\ u.up = t.up /\ u.dflt = t.dflt /\ u.prior = t.prior
         /\ DOMAIN u.confs = DOMAIN t.confs /\ DOMAIN u.clients = DOMAIN t.confs
         /\ \A p \in DOMAIN t.confs :
              LET k == KeyLoaded(t, keys, p) IN
              /\ u.confs[p] = [kind |-> t.confs[p].kind, key |-> k,
                               avail |-> Configured(p, t.confs[p].kind, k)]
              /\ u.clients[p] = [http |-> Configured(p, t.confs[p].kind, k),
                                 key |-> KeyUsed(p, t.confs[p].kind, k)]
<1> DEFINE k(p) == KeyLoaded(t, keys, p)
           ok(p) == Configured(p, t.confs[p].kind, k(p))
           confs == [p \in DOMAIN t.confs |-> [kind |-> t.confs[p].kind, key |-> k(p), avail |-> ok(p)]]
           clients == [p \in DOMAIN t.confs |-> [http |-> ok(p), key |-> KeyUsed(p, t.confs[p].kind, k(p))]]
           u == Built(t, keys)
<1>1. u = [t EXCEPT !.confs = confs, !.clients = clients]
  BY DEF Built
<1>2. DOMAIN t.confs \subseteq Providers /\ t.confs \in [DOMAIN t.confs -> Configurations]
  BY TableIs
<1>3. \A p \in DOMAIN t.confs : t.confs[p].kind \in EntryKinds
  BY <1>2 DEF Configurations
<1>4. \A p \in DOMAIN t.confs : ok(p) \in BOOLEAN
  BY DEF Configured
<1>5. \A p \in DOMAIN t.confs : /\ k(p) \in Keys /\ k(p) \in KeysOf(p) \union {LegacyKey, NoKey}
                                /\ k(p) = LegacyKey => p = t.dflt
  BY <1>2, KeyLoadedIs
<1>6. \A p \in DOMAIN t.confs :
        LET v == KeyUsed(p, t.confs[p].kind, k(p)) IN
        /\ v \in Keys /\ v \in KeysOf(p) \union {EnvKey(p), LegacyKey, NoKey}
        /\ v = LegacyKey => k(p) = LegacyKey
  <2> HIDE DEF k
  <2> QED
    BY <1>2, <1>5, KeyUsedIs
<1> HIDE DEF k, ok
<1>7. /\ DOMAIN confs \subseteq Providers /\ confs \in [DOMAIN confs -> Configurations]
      /\ DOMAIN clients \subseteq Providers /\ clients \in [DOMAIN clients -> ClientKinds]
  BY <1>2, <1>3, <1>4, <1>5, <1>6 DEF Configurations, ClientKinds
<1>8. \A p \in DOMAIN t.confs :
        /\ confs[p] = [kind |-> t.confs[p].kind, key |-> k(p), avail |-> ok(p)]
        /\ clients[p] = [http |-> ok(p), key |-> KeyUsed(p, t.confs[p].kind, k(p))]
  OBVIOUS
<1> HIDE DEF k, ok
<1>16. \A p \in DOMAIN t.confs :
         /\ confs[p].avail = ok(p) /\ clients[p].http = ok(p)
         /\ clients[p].key = KeyUsed(p, t.confs[p].kind, k(p))
  OBVIOUS
<1>9. DOMAIN confs = DOMAIN t.confs /\ DOMAIN clients = DOMAIN t.confs
  OBVIOUS
<1> HIDE DEF confs, clients, u
<1>10. confs \in Partial(Providers, Configurations) /\ clients \in Partial(Providers, ClientKinds)
  BY <1>7, PartialIs
<1>11. u \in Tables
  BY <1>1, <1>10 DEF Tables
<1>12. /\ u.confs = confs /\ u.clients = clients
       /\ u.up = t.up /\ u.dflt = t.dflt /\ u.prior = t.prior
  BY <1>1 DEF Tables
<1>13. TableFits(u)
  <2>1. \A p \in DOMAIN t.confs : (confs[p].avail <=> clients[p].http)
                                  /\ clients[p].key = KeyUsed(p, t.confs[p].kind, k(p))
    <3> SUFFICES ASSUME NEW p \in DOMAIN t.confs
                 PROVE  (confs[p].avail <=> clients[p].http)
                        /\ clients[p].key = KeyUsed(p, t.confs[p].kind, k(p))
      OBVIOUS
    <3> QED
      BY <1>16, Zenon
  <2>2. \A p, q \in DOMAIN t.confs : clients[p].key = LegacyKey /\ clients[q].key = LegacyKey => p = q
    BY <2>1, <1>5, <1>6
  <2> QED
    BY <2>1, <2>2, <1>6, <1>9, <1>12 DEF TableFits
<1>14. /\ u \in Tables /\ TableFits(u)
       /\ u.up = t.up /\ u.dflt = t.dflt /\ u.prior = t.prior
       /\ DOMAIN u.confs = DOMAIN t.confs /\ DOMAIN u.clients = DOMAIN t.confs
  BY <1>9, <1>11, <1>12, <1>13
<1>15. \A p \in DOMAIN t.confs :
         /\ u.confs[p] = [kind |-> t.confs[p].kind, key |-> k(p), avail |-> ok(p)]
         /\ u.clients[p] = [http |-> ok(p), key |-> KeyUsed(p, t.confs[p].kind, k(p))]
  BY <1>8, <1>12
<1> QED
  BY <1>14, <1>15 DEF u, ok, k

\* What a start makes of the files.
LEMMA BootedFits ==
  ASSUME NEW doc \in Documents, NEW keys \in KeyFiles
  PROVE  LET t == Booted(doc, keys)
             listed == WithDocument(Unloaded, doc)
         IN /\ t \in Tables /\ TableFits(t)
            /\ t.up <=> Broken(doc) = {}
            /\ listed \in Tables /\ listed.confs = Listed(doc)
            /\ listed.dflt = IF doc.torn THEN None ELSE doc.default
            /\ Broken(doc) = {} =>
                 /\ t.confs = Built(listed, keys).confs /\ t.clients = Built(listed, keys).clients
                 /\ t.dflt = listed.dflt
<1>1. Unloaded \in Tables /\ TableFits(Unloaded) /\ Unloaded.dflt = None /\ Unloaded.up = FALSE
  <2>1. Empty \in Partial(Providers, Configurations) /\ Empty \in Partial(Providers, ClientKinds)
    BY EmptyStays
  <2>2. DOMAIN Empty = {}
    BY DEF Empty
  <2> QED
    BY <2>1, <2>2 DEF Unloaded, Tables, TableFits
<1> DEFINE listed == WithDocument(Unloaded, doc)
           built == Built(listed, keys)
           t == Booted(doc, keys)
<1>2. /\ listed \in Tables /\ TableFits(listed) /\ listed.confs = Listed(doc) /\ listed.up = FALSE
      /\ listed.dflt = IF doc.torn THEN None ELSE doc.default
  BY <1>1, WithDocumentFits
<1>3. t = IF Broken(doc) # {} THEN listed ELSE [built EXCEPT !.up = TRUE]
  BY DEF Booted
<1> HIDE DEF listed
<1>4. built \in Tables /\ TableFits(built) /\ built.dflt = listed.dflt
  BY <1>2, BuiltFits
<1> HIDE DEF built, t
<1>5. CASE Broken(doc) # {}
  <2>1. t = listed
    BY <1>3, <1>5
  <2>2. /\ t \in Tables /\ TableFits(t)
        /\ t.up <=> Broken(doc) = {}
    BY <2>1, <1>2, <1>5
  <2> QED
    BY <2>2, <1>2, <1>5 DEF t, listed
<1>6. CASE Broken(doc) = {}
  <2>1. t = [built EXCEPT !.up = TRUE]
    BY <1>3, <1>6
  <2>2. /\ t \in Tables /\ t.up = TRUE /\ t.confs = built.confs /\ t.clients = built.clients
        /\ t.dflt = built.dflt
    BY <2>1, <1>4 DEF Tables
  <2>3. TableFits(t)
    BY <2>2, <1>4 DEF TableFits
  <2>4. /\ t \in Tables /\ TableFits(t)
        /\ t.up <=> Broken(doc) = {}
        /\ listed \in Tables /\ listed.confs = Listed(doc)
        /\ listed.dflt = IF doc.torn THEN None ELSE doc.default
        /\ t.confs = built.confs /\ t.clients = built.clients
        /\ t.dflt = listed.dflt
    BY <2>2, <2>3, <1>2, <1>4, <1>6
  <2> QED
    BY <2>4 DEF t, listed, built
<1> QED
  BY <1>5, <1>6

\* The table is what a start would make of these files; a default that the document does not
\* name may be an older one.
Agrees(t, doc, keys) ==
  LET fresh == Booted(doc, keys) IN
  /\ t.confs = fresh.confs /\ t.clients = fresh.clients
  /\ fresh.dflt \in {t.dflt, None}

\* The keys a provider is given depend on the default of the table alone.
LEMMA SameDefaultSameKeys ==
  ASSUME NEW t, NEW u, NEW keys, NEW p, t.dflt = u.dflt
  PROVE  KeyLoaded(t, keys, p) = KeyLoaded(u, keys, p)
BY DEF KeyLoaded

\* A table that lists the entries of a document and has its default agrees with it once the
\* keys are loaded and the clients are built.
LEMMA BuiltAgrees ==
  ASSUME NEW t \in Tables, NEW doc \in Documents, NEW keys \in KeyFiles,
         Broken(doc) = {}, t.confs = Listed(doc), ~doc.torn => t.dflt = doc.default,
         NEW u, u.confs = Built(t, keys).confs, u.clients = Built(t, keys).clients,
         ~doc.torn /\ doc.default # None => u.dflt = doc.default
  PROVE  Agrees(u, doc, keys)
<1> DEFINE listed == WithDocument(Unloaded, doc)
           f == Built(t, keys)
           g == Built(listed, keys)
           b == Booted(doc, keys)
<1>1. /\ listed \in Tables /\ listed.confs = Listed(doc)
      /\ listed.dflt = IF doc.torn THEN None ELSE doc.default
      /\ b.confs = g.confs /\ b.clients = g.clients /\ b.dflt = listed.dflt
  BY BootedFits
<1>2. doc.torn => DOMAIN Listed(doc) = {}
  BY DocumentIs, ListedIs DEF CutDocument, NoDocument, Empty
<1> HIDE DEF listed
<1>3. \A p \in DOMAIN t.confs : KeyLoaded(t, keys, p) = KeyLoaded(listed, keys, p)
  <2>1. CASE doc.torn
    BY <2>1, <1>2
  <2>2. CASE ~doc.torn
    <3>1. t.dflt = listed.dflt
      BY <2>2, <1>1
    <3> QED
      BY <3>1, SameDefaultSameKeys
  <2> QED
    BY <2>1, <2>2
<1>4. /\ f \in Tables /\ DOMAIN f.confs = DOMAIN t.confs /\ DOMAIN f.clients = DOMAIN t.confs
      /\ \A p \in DOMAIN t.confs :
           LET k == KeyLoaded(t, keys, p) IN
           /\ f.confs[p] = [kind |-> t.confs[p].kind, key |-> k,
                            avail |-> Configured(p, t.confs[p].kind, k)]
           /\ f.clients[p] = [http |-> Configured(p, t.confs[p].kind, k),
                              key |-> KeyUsed(p, t.confs[p].kind, k)]
  BY BuiltFits
<1>5. /\ g \in Tables /\ DOMAIN g.confs = DOMAIN t.confs /\ DOMAIN g.clients = DOMAIN t.confs
      /\ \A p \in DOMAIN t.confs :
           LET k == KeyLoaded(listed, keys, p) IN
           /\ g.confs[p] = [kind |-> t.confs[p].kind, key |-> k,
                            avail |-> Configured(p, t.confs[p].kind, k)]
           /\ g.clients[p] = [http |-> Configured(p, t.confs[p].kind, k),
                              key |-> KeyUsed(p, t.confs[p].kind, k)]
  BY <1>1, BuiltFits
<1> HIDE DEF f, g, b
<1>6. \A p \in DOMAIN t.confs : f.confs[p] = g.confs[p] /\ f.clients[p] = g.clients[p]
  BY <1>3, <1>4, <1>5
<1>7. f.confs = g.confs /\ f.clients = g.clients
  BY <1>4, <1>5, <1>6, TableIs
<1>8. b.dflt \in {u.dflt, None}
  BY <1>1
<1>9. u.confs = f.confs /\ u.clients = f.clients
  BY DEF f
<1> QED
  BY <1>1, <1>7, <1>8, <1>9 DEF Agrees, b

-----------------------------------------------------------------------------
(* The invariant, part by part.                                            *)

Handlings ==
  [pc : HandlerPcs, req : Requests \union {Request}, llm : Documents, local : KeyFiles,
   alone : BOOLEAN, before : Documents \X KeyFiles]
Calls ==
  [pc : CallPcs, used : Providers \union {None}, key : Keys, flag : BOOLEAN,
   stop : {"none", "due", "shut"}, changed : BOOLEAN, text : BOOLEAN,
   got : {"none", "ok", "part", "error", "mock", "cancelled", "failed", "unconfigured"}]

\* Every variable has its shape.
Shape ==
  /\ llmFile \in Documents /\ localFile \in KeyFiles
  /\ table \in Tables
  /\ lock \in Handlers \union Callers \union {None}
  /\ handler \in [Handlers -> Handlings] /\ call \in [Callers -> Calls]
  /\ skew \in BOOLEAN /\ ops \in 0 .. MaxOps /\ upsets \in 0 .. MaxUpsets

\* A handler holds the mutex while it loads or tests.
HandlersLock == \A h \in Handlers : handler[h].pc \in {"build", "testing", "testPiece"} => lock = h

\* A chat holds the mutex from the registration of its request to its end, and its client is
\* in the table as it was registered; a chat that asks has seen a provider available, and the
\* table has not changed since or the chat knows it.
Running == {"registered", "posting", "inflight", "piece", "returned"}
ChatFits(c) ==
  /\ call[c].pc \in Running =>
       /\ lock = c
       /\ call[c].used \in DOMAIN table.clients
       /\ table.clients[call[c].used] = [http |-> TRUE, key |-> call[c].key]
  /\ call[c].pc = "asking" /\ ~call[c].changed => SomeAvailable(table)
  /\ call[c].got = "mock" => call[c].changed
  /\ call[c].pc \notin {"returned", "done"} => call[c].got = "none"
  /\ call[c].pc = "returned" => call[c].got \in {"ok", "part", "error"}
  /\ call[c].key # NoKey => call[c].key[1] \in {call[c].used, None}
ChatsFit == \A c \in Callers : ChatFits(c)

-----------------------------------------------------------------------------
(* The chats.                                                              *)

\* With some provider available, the one that resolveProvider finds is available.
LEMMA ResolvedIsAvailable ==
  ASSUME NEW t \in Tables, NEW wanted, SomeAvailable(t)
  PROVE  Available(t, Resolve(t, wanted))
<1> DEFINE S == {p \in DOMAIN t.confs : t.confs[p].avail}
<1>1. S \in SUBSET Nat /\ S # {}
  BY TableIs, ConstantsAssumption DEF SomeAvailable, Available
<1>2. Min(S) \in S
  BY <1>1, MinIsMember
<1>3. Available(t, Min(S))
  BY <1>2 DEF Available
<1> QED
  BY <1>3 DEF Resolve

\* An available provider has a client that is no mock.
LEMMA AvailableIsNoMock ==
  ASSUME NEW t, TableFits(t), NEW p, Available(t, p)
  PROVE  ~Mocked(t, p)
BY DEF TableFits, Available, Mocked

\* Who steps from outside the chats while the mutex is not a chat's finds no chat running.
LEMMA NobodyRuns ==
  ASSUME ChatsFit, lock \in Handlers \union {None}
  PROVE  \A c \in Callers : call[c].pc \notin Running
BY ConstantsAssumption DEF ChatsFit, ChatFits

\* A chat that steps, and takes or gives back the mutex if at all, disturbs no other chat and
\* no handler.
LEMMA OtherChats ==
  ASSUME Shape, HandlersLock, ChatsFit, NEW c \in Callers, NEW rec \in Calls,
         call' = [call EXCEPT ![c] = rec], UNCHANGED <<table, handler>>,
         \/ lock' = lock
         \/ lock = None /\ lock' = c
         \/ lock = c /\ lock' = None,
         ChatFits(c)'
  PROVE  /\ call' \in [Callers -> Calls] /\ ChatsFit' /\ HandlersLock'
         /\ lock' \in Handlers \union Callers \union {None}
<1>1. /\ call \in [Callers -> Calls] /\ lock \in Handlers \union Callers \union {None}
      /\ handler \in [Handlers -> Handlings]
  BY DEF Shape
<1>2. call' \in [Callers -> Calls] /\ \A d \in Callers \ {c} : call'[d] = call[d]
  BY <1>1
<1>3. ASSUME NEW d \in Callers PROVE ChatFits(d)'
  <2>1. CASE d = c
    BY <2>1
  <2>2. CASE d # c
    <3>1. ChatFits(d) /\ call'[d] = call[d]
      BY <1>2, <2>2 DEF ChatsFit
    <3>2. call[d].pc \in Running => lock' = lock
      BY <3>1, <2>2, ConstantsAssumption DEF ChatFits
    <3> QED
      BY <3>1, <3>2 DEF ChatFits, SomeAvailable, Available
  <2> QED
    BY <2>1, <2>2
<1>4. HandlersLock'
  BY <1>1, ConstantsAssumption DEF HandlersLock
<1> QED
  BY <1>1, <1>2, <1>3, <1>4 DEF ChatsFit

\* The record of a chat that ends, and of one that has not begun.
LEMMA EndedIs ==
  ASSUME Shape, NEW c \in Callers,
         NEW got \in {"ok", "part", "error", "mock", "cancelled", "failed", "unconfigured"}, Ends(c, got)
  PROVE  LET rec == [Silent EXCEPT !.pc = "done", !.got = got,
                                         !.changed = got = "mock" /\ call[c].changed] IN
         /\ rec \in Calls /\ call' = [call EXCEPT ![c] = rec]
         /\ rec.pc = "done" /\ rec.got = got /\ rec.key = NoKey
         /\ rec.changed = (got = "mock" /\ call[c].changed)
<1>1. (got = "mock" /\ call[c].changed) \in BOOLEAN
  OBVIOUS
<1>2. NoKey \in Keys
  BY DEF Keys
<1> QED
  BY <1>1, <1>2 DEF Ends, Becomes, Silent, Calls, CallPcs

\* An end keeps everything, if what it answers with is no mock or the table has changed.
LEMMA EndFits ==
  ASSUME Shape, HandlersLock, ChatsFit, NEW c \in Callers,
         NEW got \in {"ok", "part", "error", "mock", "cancelled", "failed", "unconfigured"}, Ends(c, got),
         got = "mock" => call[c].changed,
         lock' = lock \/ (lock = c /\ lock' = None), UNCHANGED <<table, handler>>
  PROVE  /\ call' \in [Callers -> Calls] /\ ChatsFit' /\ HandlersLock'
         /\ lock' \in Handlers \union Callers \union {None}
<1> DEFINE rec == [Silent EXCEPT !.pc = "done", !.got = got,
                                         !.changed = got = "mock" /\ call[c].changed]
<1>1. /\ rec \in Calls /\ call' = [call EXCEPT ![c] = rec]
      /\ rec.pc = "done" /\ rec.got = got /\ rec.key = NoKey
      /\ rec.changed = (got = "mock" /\ call[c].changed)
  BY EndedIs
<1> HIDE DEF rec
<1>2. call'[c] = rec
  BY <1>1 DEF Shape
<1>3. ChatFits(c)'
  BY <1>1, <1>2 DEF ChatFits, Running
<1> QED
  BY <1>1, <1>3, OtherChats

\* The steps of one chat.
ChatActs(c) ==
  Ask(c) \/ SetFlag(c) \/ LowerFlag(c) \/ Served(c) \/ CallStep(c) \/ StopRequests(c)

LEMMA ChatKeeps ==
  ASSUME Shape, HandlersLock, ChatsFit, TableFits(table), NEW c \in Callers, ChatActs(c)
  PROVE  /\ call' \in [Callers -> Calls] /\ ChatsFit' /\ HandlersLock'
         /\ lock' \in Handlers \union Callers \union {None}
         /\ UNCHANGED <<files, table, handler, ops, skew>> /\ upsets' \in 0 .. MaxUpsets
<1> DEFINE Goal == /\ call' \in [Callers -> Calls] /\ ChatsFit' /\ HandlersLock'
                   /\ lock' \in Handlers \union Callers \union {None}
<1>1. UNCHANGED <<files, table, handler, ops, skew>>
  BY DEF ChatActs, CallStep, Served, Ask, SetFlag, LowerFlag, Respond, SendPiece, TakePiece, TakeLock, Post, Connect,
         TimeOut, SocketShut, Finish, StopRequests
<1>0. upsets' \in 0 .. MaxUpsets
  <2>1. upsets' = upsets \/ Fails
    BY DEF ChatActs, CallStep, Served, Ask, SetFlag, LowerFlag, Respond, SendPiece, TakePiece, TakeLock, Post, Connect,
           TimeOut, SocketShut, Finish, StopRequests
  <2> QED
    BY <2>1, ConstantsAssumption DEF Shape, Fails
<1> SUFFICES Goal
  BY <1>0, <1>1
<1>2. table \in Tables /\ call \in [Callers -> Calls] /\ call[c] \in Calls /\ ChatFits(c)
  BY DEF Shape, ChatsFit
<1>3. ASSUME NEW rec \in Calls, call' = [call EXCEPT ![c] = rec], lock' = lock,
             \/ rec.pc = call[c].pc
             \/ call[c].pc \in Running /\ rec.pc \in Running
             \/ rec.pc = "asking" /\ SomeAvailable(table) /\ call[c].pc = "idle",
             rec.used = call[c].used, rec.key = call[c].key, rec.changed = call[c].changed,
             \/ rec.got = call[c].got /\ (rec.pc \in {"returned", "done"} <=> call[c].pc \in {"returned", "done"})
             \/ rec.pc = "returned" /\ rec.got \in {"ok", "part", "error"}
      PROVE  Goal
  <2>1. call'[c] = rec
    BY <1>2, <1>3
  <2>2. ChatFits(c)'
    BY <1>1, <1>2, <1>3, <2>1 DEF ChatFits, Running, SomeAvailable, Available
  <2> QED
    BY <1>1, <1>3, <2>2, OtherChats
<1>4. CASE Ask(c)
  <2>1. CASE SomeAvailable(table)
    BY <1>2, <1>3, <1>4, <2>1 DEF Ask, Becomes, Calls, CallPcs
  <2>2. CASE ~SomeAvailable(table)
    BY <1>1, <1>4, <2>2, EndFits DEF Ask
  <2> QED
    BY <2>1, <2>2
<1>5. CASE SetFlag(c)
  BY <1>2, <1>3, <1>5 DEF SetFlag, Becomes, Calls, CallPcs
<1>14. ASSUME NEW got \in {"ok", "part", "error"}, Returned(c, got), call[c].pc \in Running, lock' = lock
       PROVE  Goal
  <2> DEFINE stop == IF call[c].stop = "shut" THEN "none" ELSE call[c].stop
             rec == [call[c] EXCEPT !.pc = "returned", !.got = got, !.text = FALSE, !.stop = stop]
  <2>1. stop \in {"none", "due", "shut"}
    BY <1>2 DEF Calls
  <2>2. call' = [call EXCEPT ![c] = rec]
    BY <1>14 DEF Returned, Becomes
  <2> HIDE DEF stop
  <2>3. /\ rec \in Calls /\ rec.pc = "returned" /\ rec.used = call[c].used /\ rec.key = call[c].key
        /\ rec.changed = call[c].changed /\ rec.got = got
    BY <1>2, <2>1 DEF Calls, CallPcs
  <2> HIDE DEF rec
  <2> QED
    BY <1>3, <1>14, <2>2, <2>3 DEF Running
<1>15. ASSUME BreaksOff(c), call[c].pc \in Running, lock' = lock PROVE Goal
  BY <1>14, <1>15 DEF BreaksOff
<1>6. CASE Served(c)
  <2>1. CASE Respond(c)
    <3>1. call[c].pc \in Running /\ lock' = lock
      BY <2>1 DEF Respond, Running
    <3> QED
      BY <1>14, <1>15, <2>1, <3>1 DEF Respond
  <2>2. CASE SendPiece(c)
    BY <1>2, <1>3, <2>2 DEF SendPiece, Becomes, Calls, CallPcs, Running
  <2>3. CASE Connect(c)
    BY <1>2, <1>3, <2>3 DEF Connect, Becomes, Calls, CallPcs, Running
  <2> QED
    BY <1>6, <2>1, <2>2, <2>3 DEF Served
<1>7. ASSUME NEW wanted \in Providers \union {None}, TakeLock(c, wanted) PROVE Goal
  <2> DEFINE p == Resolve(table, wanted)
  <2>1. CASE ~table.up
    BY <1>1, <1>7, <2>1, EndFits DEF TakeLock
  <2>2. CASE table.up /\ call[c].flag
    BY <1>1, <1>7, <2>2, EndFits DEF TakeLock
  <2>3. CASE table.up /\ ~call[c].flag /\ Mocked(table, p)
    <3>1. ~SomeAvailable(table)
      BY <1>2, <2>3, ResolvedIsAvailable, AvailableIsNoMock
    <3>2. call[c].changed /\ Ends(c, "mock") /\ lock' = lock
      BY <1>2, <1>7, <2>3, <3>1 DEF TakeLock, ChatFits
    <3> QED
      BY <1>1, <3>2, EndFits
  <2>4. CASE table.up /\ ~call[c].flag /\ ~Mocked(table, p)
    <3>1. p \in DOMAIN table.clients /\ table.clients[p].http
      BY <2>4 DEF Mocked
    <3>2. p \in Providers /\ table.clients[p] \in ClientKinds
      BY <1>2, <3>1, TableIs
    <3>3. Register(c, p) /\ lock = None /\ call[c].pc = "asking"
      BY <1>7, <2>4 DEF TakeLock
    <3> HIDE DEF p
    <3> DEFINE rec == [call[c] EXCEPT !.pc = "registered", !.used = p, !.key = table.clients[p].key,
                                      !.changed = FALSE]
    <3>4. rec \in Calls /\ call' = [call EXCEPT ![c] = rec] /\ lock' = c
      BY <1>2, <3>2, <3>3 DEF Register, Becomes, Calls, CallPcs, ClientKinds
    <3>5. /\ rec.pc = "registered" /\ rec.used = p /\ rec.key = table.clients[p].key
          /\ rec.got = call[c].got /\ call[c].got = "none"
      BY <1>2, <3>3 DEF Calls, ChatFits
    <3>6. table.clients[p] = [http |-> TRUE, key |-> rec.key]
      BY <3>1, <3>2, <3>5 DEF ClientKinds
    <3>7. rec.key # NoKey => rec.key[1] \in {p, None}
      <4>1. table.clients[p].key \in KeysOf(p) \union {EnvKey(p), LegacyKey, NoKey}
        BY <3>1 DEF TableFits
      <4> QED
        BY <3>5, <4>1 DEF KeysOf, EnvKey, LegacyKey
    <3> HIDE DEF rec
    <3>8. call'[c] = rec
      BY <1>2, <3>4
    <3>9. ChatFits(c)'
      BY <1>1, <1>2, <3>1, <3>3, <3>4, <3>5, <3>6, <3>7, <3>8 DEF ChatFits, Running
    <3> QED
      BY <1>1, <3>3, <3>4, <3>9, OtherChats
  <2> QED
    BY <2>1, <2>2, <2>3, <2>4
<1>8. CASE Post(c)
  <2>1. CASE call[c].flag
    <3>1. Ends(c, "cancelled") /\ lock = c /\ lock' = None
      BY <1>2, <1>8, <2>1 DEF Post, ChatFits, Running
    <3> QED
      BY <1>1, <3>1, EndFits
  <2>2. CASE ~call[c].flag
    BY <1>2, <1>3, <1>8, <2>2 DEF Post, Becomes, Calls, CallPcs, Running
  <2> QED
    BY <2>1, <2>2
<1>9. CASE TakePiece(c)
  <2>1. call[c].pc \in Running /\ call[c].pc = "piece" /\ lock' = lock
    BY <1>9 DEF TakePiece, Running
  <2>2. CASE Becomes(c, [call[c] EXCEPT !.pc = "inflight"])
    BY <1>2, <1>3, <2>1, <2>2 DEF Becomes, Calls, CallPcs, Running
  <2>3. CASE Becomes(c, [call[c] EXCEPT !.pc = "inflight", !.text = TRUE])
    <3> DEFINE rec == [call[c] EXCEPT !.pc = "inflight", !.text = TRUE]
    <3>1. /\ rec \in Calls /\ rec.pc = "inflight" /\ rec.used = call[c].used /\ rec.key = call[c].key
          /\ rec.changed = call[c].changed /\ rec.got = call[c].got
      BY <1>2 DEF Calls, CallPcs
    <3>2. call' = [call EXCEPT ![c] = rec]
      BY <2>3 DEF Becomes
    <3> HIDE DEF rec
    <3> QED
      BY <1>3, <2>1, <3>1, <3>2 DEF Running
  <2>4. CASE BreaksOff(c)
    BY <1>15, <2>1, <2>4
  <2> QED
    BY <1>9, <2>2, <2>3, <2>4 DEF TakePiece
<1>10. CASE TimeOut(c)
  BY <1>10, <1>15 DEF TimeOut, Running
<1>11. CASE SocketShut(c)
  BY <1>11, <1>15 DEF SocketShut, Running
<1>12. CASE Finish(c)
  <2>1. Ends(c, Outcome(call[c])) /\ lock = c /\ lock' = None
    BY <1>2, <1>12 DEF Finish, ChatFits, Running
  <2>2. Outcome(call[c]) \in {"ok", "part", "error", "cancelled"}
    BY <1>2, <1>12 DEF Finish, Outcome, ChatFits
  <2> QED
    BY <1>1, <2>1, <2>2, EndFits
<1>13. CASE StopRequests(c)
  BY <1>2, <1>3, <1>13 DEF StopRequests, Becomes, Calls, CallPcs
<1>16. CASE LowerFlag(c)
  BY <1>2, <1>3, <1>16 DEF LowerFlag, Becomes, Calls, CallPcs
<1> QED
  BY <1>4, <1>5, <1>6, <1>7, <1>8, <1>9, <1>10, <1>11, <1>12, <1>13, <1>16 DEF ChatActs, CallStep

-----------------------------------------------------------------------------
(* What a request makes of the two files.                                  *)

\* Sensible requests, taken apart.
LEMMA RequestIs ==
  ASSUME NEW r \in Requests
  PROVE  /\ r.op \in Ops /\ r.p \in Providers \union {None} /\ r.entry \in EntryKinds
         /\ r.key \in {NoKey} \union ({r.p} \X Versions)
         /\ r.p = None => r.op = "keys" /\ r.key # NoKey
         /\ r.key # NoKey => r.op \notin {"delete", "document"}
         /\ r.first => r.op = "update"
         /\ r.op \in {"add", "update"} => r.entry # "blank"
         /\ r.op = "add" => r.entry # "broken"
BY ConstantsAssumption DEF Sensible

\* The default of a document is one of its providers, or there is none.
DefaultFits(doc) == doc.default \in DOMAIN doc.of \union {None}

\* Adding, updating and deleting keep a document well formed.
LEMMA ChangedIs ==
  ASSUME NEW doc \in Documents, NEW r \in Requests, r.op \in {"add", "update", "delete"},
         ~Refused(doc, r)
  PROVE  /\ Changed(doc, r) \in Documents
         /\ ~Changed(doc, r).torn
         /\ DefaultFits(doc) => DefaultFits(Changed(doc, r))
<1>1. /\ ~doc.torn /\ doc.of \in Partial(Providers, EntryKinds)
      /\ doc.default \in Providers \union {None} /\ DOMAIN doc.of \subseteq Providers
  BY DocumentIs DEF Refused
<1>2. r.p \in Providers /\ r.entry \in EntryKinds
  BY RequestIs
<1>3. CASE r.op \in {"add", "update"}
  <2> DEFINE x == IF r.op = "update" /\ r.first THEN r.p ELSE doc.default
             f == Put(doc.of, r.p, r.entry)
             new == Changed(doc, r)
  <2>1. f \in Partial(Providers, EntryKinds)
    BY <1>1, <1>2, PutStays
  <2>2. DOMAIN f = DOMAIN doc.of \union {r.p}
    BY DEF Put
  <2> HIDE DEF f
  <2>3. /\ new = [doc EXCEPT !.of = f]
        \/ new = [doc EXCEPT !.of = f, !.default = x]
    BY <1>3 DEF Changed, f
  <2>4. /\ new \in Documents /\ ~new.torn /\ new.of = f
        /\ new.default = doc.default \/ new.default = r.p
    BY <1>1, <1>2, <2>1, <2>3 DEF Documents
  <2> QED
    BY <1>1, <2>2, <2>4 DEF DefaultFits
<1>4. CASE r.op = "delete"
  <2> DEFINE left == Drop(doc.of, r.p)
             x == IF doc.default # r.p THEN doc.default
                  ELSE IF DOMAIN left = {} THEN None ELSE Min(DOMAIN left)
             new == Changed(doc, r)
  <2>1. left \in Partial(Providers, EntryKinds)
    BY <1>1, DropStays
  <2>2. DOMAIN left = DOMAIN doc.of \ {r.p}
    BY DEF Drop, Restrict
  <2> HIDE DEF left
  <2>3. DOMAIN left # {} => Min(DOMAIN left) \in DOMAIN left
    BY <1>1, <2>2, ConstantsAssumption, MinIsMember
  <2>4. x \in Providers \union {None}
    BY <1>1, <2>2, <2>3
  <2>5. new = [doc EXCEPT !.of = left, !.default = x]
    BY <1>4 DEF Changed, AfterDelete, left
  <2>6. new \in Documents /\ ~new.torn /\ new.of = left /\ new.default = x
    <3> HIDE DEF x
    <3> QED
      BY <1>1, <2>1, <2>4, <2>5 DEF Documents
  <2> QED
    BY <2>2, <2>3, <2>6 DEF DefaultFits
<1> QED
  BY <1>3, <1>4

\* A whole new document is well formed.
NewDocument(r) == [torn |-> FALSE, default |-> r.p, of |-> Put(Empty, r.p, r.entry)]

LEMMA NewDocumentIs ==
  ASSUME NEW r \in Requests, r.op = "document"
  PROVE  /\ NewDocument(r) \in Documents /\ ~NewDocument(r).torn /\ DefaultFits(NewDocument(r))
         /\ DOMAIN NewDocument(r).of = {r.p}
<1>1. r.p \in Providers /\ r.entry \in EntryKinds
  BY RequestIs
<1>2. Put(Empty, r.p, r.entry) \in Partial(Providers, EntryKinds)
  BY <1>1, EmptyStays, PutStays
<1>3. DOMAIN Put(Empty, r.p, r.entry) = {r.p}
  BY DEF Put, Empty
<1> QED
  BY <1>1, <1>2, <1>3 DEF NewDocument, Documents, DefaultFits

\* A key given to a provider is filed under it.
LEMMA KeyPut ==
  ASSUME NEW keys \in KeyFiles, ~keys.torn, NEW p \in Providers, NEW k \in KeysOf(p),
         NEW l \in {NoKey, LegacyKey}
  PROVE  /\ [keys EXCEPT !.of = Put(@, p, k)] \in KeyFiles
         /\ [keys EXCEPT !.of = Put(@, p, k), !.legacy = l] \in KeyFiles
<1> DEFINE f == Put(keys.of, p, k)
<1>1. keys.of \in Partial(Providers, Keys) /\ \A q \in DOMAIN keys.of : keys.of[q] \in KeysOf(q)
  BY KeyFileIs
<1>2. k \in Keys
  BY DEF KeysOf, Keys
<1>3. f \in Partial(Providers, Keys)
  BY <1>1, <1>2, PutStays
<1>4. \A q \in DOMAIN f : f[q] \in KeysOf(q)
  BY <1>1 DEF Put
<1> HIDE DEF f
<1>5. [keys EXCEPT !.of = f] \in KeyFiles /\ [keys EXCEPT !.of = f, !.legacy = l] \in KeyFiles
  BY <1>3, <1>4 DEF KeyFiles
<1> QED
  BY <1>5 DEF f

LEMMA GivenKeyIs ==
  ASSUME NEW r \in Requests, r.key # NoKey
  PROVE  /\ r.p \in Providers => r.key \in KeysOf(r.p)
         /\ \A p \in Providers : <<p, r.key[2]>> \in KeysOf(p)
<1>1. r.key \in {r.p} \X Versions
  BY RequestIs
<1> QED
  BY <1>1 DEF KeysOf

\* Keys are added to whole files only; a torn one is carried along as it is.
LEMMA KeysAfterIs ==
  ASSUME NEW keys \in KeyFiles, NEW r \in Requests, ~(keys.torn /\ r.key # NoKey),
         r.op \in {"add", "update", "delete"}
  PROVE  KeysAfter(keys, r) \in KeyFiles
<1>1. /\ keys.of \in Partial(Providers, Keys)
      /\ keys.torn => keys = CutKeys
      /\ \A q \in DOMAIN keys.of : keys.of[q] \in KeysOf(q)
  BY KeyFileIs
<1>2. r.p \in Providers
  BY RequestIs
<1>3. CASE r.op = "delete"
  <2> DEFINE f == Drop(keys.of, r.p)
  <2>1. f \in Partial(Providers, Keys)
    BY <1>1, DropStays
  <2>2. \A q \in DOMAIN f : f[q] \in KeysOf(q)
    BY <1>1 DEF Drop, Restrict
  <2>3. keys.torn => f = keys.of
    <3>1. CutKeys.of = Empty
      BY DEF CutKeys, NoKeys
    <3>2. Drop(Empty, r.p) = Empty
      BY DEF Empty, Drop, Restrict
    <3>3. keys.torn => keys.of = Empty
      BY <1>1, <3>1
    <3> QED
      BY <3>2, <3>3, Zenon
  <2> HIDE DEF f
  <2>4. [keys EXCEPT !.of = f] \in KeyFiles
    <3>1. CASE keys.torn
      <4>1. [keys EXCEPT !.of = f] = keys
        BY <2>3, <3>1 DEF KeyFiles
      <4> QED
        BY <4>1
    <3>2. CASE ~keys.torn
      BY <2>1, <2>2, <3>2 DEF KeyFiles
    <3> QED
      BY <3>1, <3>2
  <2> QED
    BY <1>3, <2>4 DEF KeysAfter, f
<1>4. CASE r.op # "delete" /\ r.key = NoKey
  BY <1>4 DEF KeysAfter
<1>5. CASE r.op # "delete" /\ r.key # NoKey
  <2>1. r.key \in KeysOf(r.p)
    BY <1>2, <1>5, GivenKeyIs
  <2>2. [keys EXCEPT !.of = Put(@, r.p, r.key)] \in KeyFiles
    BY <1>2, <1>5, <2>1, KeyPut
  <2> QED
    BY <1>5, <2>2 DEF KeysAfter
<1> QED
  BY <1>3, <1>4, <1>5

-----------------------------------------------------------------------------
(* The configuration requests.                                             *)

\* Each place belongs to certain requests, and the copy of llm.json that is about to be
\* written is whole and names a default of its own.
PlaceFits(h) ==
  LET pc == handler[h].pc
      op == handler[h].req.op
  IN /\ pc # "idle" => handler[h].req \in Requests
     /\ pc = "readKeys" => op \in {"add", "update", "delete"}
     /\ pc \in {"openLlm", "closeLlm"} => op \in {"add", "update", "delete", "document"}
     /\ pc = "readDefault" => op = "keys" /\ handler[h].req.p = None
     /\ pc \in {"openLocal", "closeLocal"} => op \in {"add", "update", "delete", "keys"}
     /\ pc \in {"load", "init", "build"} => op # "test"
     /\ pc = "init" => op \in {"add", "document"}
     /\ pc \in {"readKeys", "openLlm", "closeLlm"} =>
          ~handler[h].llm.torn /\ DefaultFits(handler[h].llm)

\* What a request that meets no other makes of the files it has found.
WantedDocument(h) ==
  LET r == handler[h].req IN
  IF r.op \in {"add", "update", "delete"} THEN Changed(handler[h].before[1], r)
  ELSE IF r.op = "document" THEN NewDocument(r)
  ELSE handler[h].before[1]
KeysFor(before, r) ==
  LET keys == before[2]
      p == before[1].default
  IN IF r.op \in {"add", "update", "delete"} THEN KeysAfter(keys, r)
     ELSE IF r.op # "keys" THEN keys
     ELSE IF r.p # None THEN IF r.key = NoKey THEN keys ELSE [keys EXCEPT !.of = Put(@, r.p, r.key)]
     ELSE IF p = None THEN keys
     ELSE [keys EXCEPT !.of = Put(@, p, <<p, r.key[2]>>), !.legacy = NoKey]
WantedKeys(h) == KeysFor(handler[h].before, handler[h].req)

\* How far such a request has come: nobody else is under way, the files are as it has found
\* them or as it wants them, and it is about to write what it wants.
FilesRead == {"readKeys", "readDefault", "openLlm"}
AloneFits(h) ==
  LET pc == handler[h].pc
      r == handler[h].req
      before == handler[h].before
      edits == r.op \in {"add", "update", "delete"}
  IN handler[h].alone /\ pc # "idle" =>
     /\ \A g \in Handlers \ {h} : handler[g].pc = "idle"
     /\ pc \in FilesRead => llmFile = before[1]
     /\ pc \in FilesRead \union {"closeLlm", "openLocal"} => localFile = before[2]
     /\ pc \in {"readKeys", "openLlm", "closeLlm"} => handler[h].llm = WantedDocument(h)
     /\ pc \in {"openLlm", "closeLlm", "openLocal", "closeLocal"} /\ r.op # "document" =>
          handler[h].local = WantedKeys(h)
     /\ pc = "readDefault" => handler[h].local = before[2]
     /\ pc \in {"openLocal", "closeLocal", "load", "init", "build"} => llmFile = WantedDocument(h)
     /\ pc \in {"load", "init", "build"} => localFile = WantedKeys(h)
     /\ edits => ~Refused(before[1], r)
     /\ pc = "build" => ~skew
     /\ pc = "init" => ~table.up

HandlersFit == \A h \in Handlers : PlaceFits(h) /\ AloneFits(h)

\* The record of a worker that waits for a request.
LEMMA RestingIs ==
  /\ Resting \in Handlings /\ Resting.pc = "idle"
  /\ Resting.req = Request /\ Resting.before = <<NoDocument, NoKeys>>
BY EmptyFiles DEF Resting, Handlings, HandlerPcs

\* A worker that steps disturbs no other: none of them is alone while it is busy.
LEMMA OtherHandlers ==
  ASSUME Shape, HandlersFit, NEW h \in Handlers, handler[h].pc # "idle",
         NEW rec \in Handlings, handler' = [handler EXCEPT ![h] = rec],
         PlaceFits(h)', AloneFits(h)'
  PROVE  handler' \in [Handlers -> Handlings] /\ HandlersFit'
<1>1. handler \in [Handlers -> Handlings]
  BY DEF Shape
<1>2. handler' \in [Handlers -> Handlings] /\ \A g \in Handlers \ {h} : handler'[g] = handler[g]
  BY <1>1
<1>3. ASSUME NEW g \in Handlers PROVE PlaceFits(g)' /\ AloneFits(g)'
  <2>1. CASE g = h
    BY <2>1
  <2>2. CASE g # h
    <3>1. handler'[g] = handler[g] /\ PlaceFits(g) /\ AloneFits(g)
      BY <1>2, <2>2 DEF HandlersFit
    <3>2. ~(handler[g].alone /\ handler[g].pc # "idle")
      BY <2>2, <3>1 DEF AloneFits
    <3>3. PlaceFits(g)'
      BY <3>1 DEF PlaceFits, DefaultFits
    <3>4. AloneFits(g)'
      BY <3>1, <3>2 DEF AloneFits
    <3> QED
      BY <3>3, <3>4
  <2> QED
    BY <2>1, <2>2
<1> QED
  BY <1>2, <1>3 DEF HandlersFit

\* A worker that has answered waits for the next request.
LEMMA AnswerKeeps ==
  ASSUME Shape, HandlersFit, NEW h \in Handlers, handler[h].pc # "idle", Answer(h)
  PROVE  handler' \in [Handlers -> Handlings] /\ HandlersFit' /\ handler'[h] = Resting
<1>1. handler' = [handler EXCEPT ![h] = Resting] /\ handler'[h] = Resting
  BY DEF Answer, Shape
<1>2. PlaceFits(h)' /\ AloneFits(h)'
  BY <1>1, RestingIs DEF PlaceFits, AloneFits
<1> QED
  BY <1>1, <1>2, RestingIs, OtherHandlers

\* Steps that touch neither the workers nor the files.
LEMMA HandlersStand ==
  ASSUME HandlersFit, handler' = handler, llmFile' = llmFile, localFile' = localFile,
         skew' = skew, table' = table
  PROVE  HandlersFit'
<1>1. ASSUME NEW g \in Handlers PROVE PlaceFits(g)' /\ AloneFits(g)'
  <2>1. PlaceFits(g) /\ AloneFits(g)
    BY DEF HandlersFit
  <2>2. WantedDocument(g)' = WantedDocument(g)
    BY DEF WantedDocument
  <2>3. WantedKeys(g)' = WantedKeys(g)
    BY DEF WantedKeys
  <2> QED
    BY <2>1, <2>2, <2>3 DEF PlaceFits, DefaultFits, AloneFits
<1> QED
  BY <1>1 DEF HandlersFit

\* A worker that moves on keeps its request and what it has found, and so what it wants.
LEMMA MoveKeeps ==
  ASSUME Shape, HandlersFit, NEW h \in Handlers, handler[h].pc # "idle",
         NEW rec \in Handlings, handler' = [handler EXCEPT ![h] = rec],
         rec.req = handler[h].req, rec.before = handler[h].before, rec.alone = handler[h].alone,
         PlaceFits(h)',
         rec.alone /\ rec.pc # "idle" =>
           /\ rec.pc \in FilesRead => llmFile' = rec.before[1]
           /\ rec.pc \in FilesRead \union {"closeLlm", "openLocal"} => localFile' = rec.before[2]
           /\ rec.pc \in {"readKeys", "openLlm", "closeLlm"} => rec.llm = WantedDocument(h)
           /\ rec.pc \in {"openLlm", "closeLlm", "openLocal", "closeLocal"} /\ rec.req.op # "document" =>
                rec.local = WantedKeys(h)
           /\ rec.pc = "readDefault" => rec.local = rec.before[2]
           /\ rec.pc \in {"openLocal", "closeLocal", "load", "init", "build"} => llmFile' = WantedDocument(h)
           /\ rec.pc \in {"load", "init", "build"} => localFile' = WantedKeys(h)
           /\ rec.pc = "build" => ~skew'
           /\ rec.pc = "init" => ~table'.up
  PROVE  handler' \in [Handlers -> Handlings] /\ HandlersFit' /\ handler'[h] = rec
<1>1. handler'[h] = rec /\ \A g \in Handlers \ {h} : handler'[g] = handler[g]
  BY DEF Shape
<1>2. WantedDocument(h)' = WantedDocument(h) /\ WantedKeys(h)' = WantedKeys(h)
  <2>1. handler'[h].req = handler[h].req /\ handler'[h].before = handler[h].before
    BY <1>1
  <2>2. WantedDocument(h)' = WantedDocument(h)
    BY <2>1 DEF WantedDocument
  <2>3. WantedKeys(h)' = WantedKeys(h)
    BY <2>1 DEF WantedKeys
  <2> QED
    BY <2>2, <2>3
<1>3. AloneFits(h)'
  <2>1. AloneFits(h)
    BY DEF HandlersFit
  <2> QED
    BY <1>1, <1>2, <2>1 DEF AloneFits
<1> QED
  BY <1>1, <1>3, OtherHandlers

\* The steps of a worker before it asks the facade to load.
LEMMA EarlySteps ==
  ASSUME Shape, HandlersFit, NEW h \in Handlers, DefaultFits(llmFile),
         \/ ReadDefault(h) \/ ReadKeys(h) \/ OpenLlm(h) \/ CloseLlm(h)
         \/ OpenLocal(h) \/ CloseLocal(h)
  PROVE  /\ handler' \in [Handlers -> Handlings] /\ HandlersFit'
         /\ llmFile' \in Documents /\ DefaultFits(llmFile') /\ localFile' \in KeyFiles
         /\ skew' \in BOOLEAN /\ upsets' \in 0 .. MaxUpsets
         /\ handler'[h].pc \notin {"build", "testing", "testPiece"}
         /\ \A g \in Handlers \ {h} : handler'[g] = handler[g]
         /\ UNCHANGED <<table, lock, call, ops>>
<1> DEFINE r == handler[h].req
           Same == /\ llmFile' \in Documents /\ DefaultFits(llmFile') /\ localFile' \in KeyFiles
                   /\ skew' \in BOOLEAN /\ upsets' \in 0 .. MaxUpsets
           Kept == handler' \in [Handlers -> Handlings] /\ HandlersFit'
           Away == handler'[h].pc \notin {"build", "testing", "testPiece"}
<1>1. UNCHANGED <<table, lock, call, ops>>
  BY DEF ReadDefault, ReadKeys, OpenLlm, CloseLlm, OpenLocal, CloseLocal
<1>2. \A g \in Handlers \ {h} : handler'[g] = handler[g]
  <2>1. \E rec : handler' = [handler EXCEPT ![h] = rec]
    BY DEF ReadDefault, ReadKeys, OpenLlm, CloseLlm, Closed, CutShort, OpenLocal, CloseLocal, Answer
  <2> QED
    BY <2>1 DEF Shape
<1>3. /\ llmFile \in Documents /\ localFile \in KeyFiles
      /\ skew \in BOOLEAN /\ upsets \in 0 .. MaxUpsets
      /\ handler[h] \in Handlings /\ PlaceFits(h) /\ AloneFits(h)
  BY DEF Shape, HandlersFit
<1>4. handler[h].pc # "idle"
  BY DEF ReadDefault, ReadKeys, OpenLlm, CloseLlm, OpenLocal, CloseLocal
<1>5. ASSUME Answer(h) PROVE Kept /\ Away
  BY <1>4, <1>5, AnswerKeeps, RestingIs
<1>6. CASE ReadDefault(h)
  <2> DEFINE p == llmFile.default
             key == <<p, r.key[2]>>
             keys == IF p = None THEN handler[h].local
                     ELSE [handler[h].local EXCEPT !.of = Put(@, p, key), !.legacy = NoKey]
             rec == [handler[h] EXCEPT !.pc = "openLocal", !.local = keys]
  <2>1. Same
    BY <1>3, <1>6 DEF ReadDefault, files
  <2>2. CASE llmFile.torn \/ (p # None /\ handler[h].local.torn)
    BY <1>5, <1>6, <2>1, <2>2, <1>1, <1>2 DEF ReadDefault
  <2>3. CASE ~(llmFile.torn \/ (p # None /\ handler[h].local.torn))
    <3>1. r \in Requests /\ r.op = "keys" /\ r.p = None /\ r.key # NoKey
      BY <1>3, <1>6, RequestIs DEF PlaceFits, ReadDefault
    <3>2. keys \in KeyFiles
      <4>1. CASE p = None
        BY <1>3, <4>1 DEF Handlings
      <4>2. CASE p # None
        <5>1. p \in Providers /\ handler[h].local \in KeyFiles /\ ~handler[h].local.torn
          BY <1>3, <2>3, <4>2, DocumentIs DEF Handlings
        <5>2. key \in KeysOf(p)
          BY <3>1, <5>1, GivenKeyIs
        <5>3. [handler[h].local EXCEPT !.of = Put(@, p, key), !.legacy = NoKey] \in KeyFiles
          BY <5>1, <5>2, KeyPut
        <5> QED
          BY <4>2, <5>3
      <4> QED
        BY <4>1, <4>2
    <3>3. handler' = [handler EXCEPT ![h].pc = "openLocal", ![h].local = keys]
      BY <1>6, <2>3 DEF ReadDefault
    <3> HIDE DEF keys
    <3>4. /\ rec \in Handlings /\ rec.pc = "openLocal" /\ rec.local = keys
          /\ rec.req = r /\ rec.before = handler[h].before /\ rec.alone = handler[h].alone
      BY <1>3, <3>2 DEF Handlings, HandlerPcs
    <3>5. handler' = [handler EXCEPT ![h] = rec]
      BY <3>3 DEF Shape
    <3> HIDE DEF rec
    <3>6. PlaceFits(h)'
      <4>1. handler'[h] = rec
        BY <3>5 DEF Shape
      <4> QED
        BY <3>1, <3>4, <4>1 DEF PlaceFits
    <3>7. handler[h].alone => llmFile' = WantedDocument(h) /\ localFile' = handler[h].before[2]
                              /\ keys = WantedKeys(h)
      <4> SUFFICES ASSUME handler[h].alone
                   PROVE  llmFile' = WantedDocument(h) /\ localFile' = handler[h].before[2]
                          /\ keys = WantedKeys(h)
        OBVIOUS
      <4>1. /\ llmFile = handler[h].before[1] /\ localFile = handler[h].before[2]
            /\ handler[h].local = handler[h].before[2]
        BY <1>3, <1>6 DEF AloneFits, FilesRead, ReadDefault
      <4>2. llmFile' = llmFile /\ localFile' = localFile
        BY <1>6 DEF ReadDefault, files
      <4> QED
        BY <3>1, <4>1, <4>2 DEF WantedDocument, WantedKeys, KeysFor, keys
    <3>8. Kept /\ handler'[h] = rec
      BY <1>4, <3>4, <3>5, <3>6, <3>7, MoveKeeps DEF FilesRead
    <3> QED
      BY <1>1, <1>2, <2>1, <3>4, <3>8
  <2> QED
    BY <2>2, <2>3
<1>7. CASE ReadKeys(h)
  <2> DEFINE keys == KeysAfter(localFile, r)
             rec == [handler[h] EXCEPT !.pc = "openLlm", !.local = keys]
  <2>1. Same
    BY <1>3, <1>7 DEF ReadKeys, files
  <2>2. CASE localFile.torn /\ r.key # NoKey
    BY <1>5, <1>7, <2>1, <2>2, <1>1, <1>2 DEF ReadKeys
  <2>3. CASE ~(localFile.torn /\ r.key # NoKey)
    <3>1. r \in Requests /\ r.op \in {"add", "update", "delete"}
          /\ ~handler[h].llm.torn /\ DefaultFits(handler[h].llm)
      BY <1>3, <1>7 DEF PlaceFits, ReadKeys
    <3>2. keys \in KeyFiles
      BY <1>3, <2>3, <3>1, KeysAfterIs
    <3>3. handler' = [handler EXCEPT ![h].pc = "openLlm", ![h].local = keys]
      BY <1>7, <2>3 DEF ReadKeys
    <3> HIDE DEF keys
    <3>4. /\ rec \in Handlings /\ rec.pc = "openLlm" /\ rec.local = keys /\ rec.llm = handler[h].llm
          /\ rec.req = r /\ rec.before = handler[h].before /\ rec.alone = handler[h].alone
      BY <1>3, <3>2 DEF Handlings, HandlerPcs
    <3>5. handler' = [handler EXCEPT ![h] = rec]
      BY <3>3 DEF Shape
    <3> HIDE DEF rec
    <3>6. PlaceFits(h)'
      <4>1. handler'[h] = rec
        BY <3>5 DEF Shape
      <4> QED
        BY <3>1, <3>4, <4>1 DEF PlaceFits, DefaultFits
    <3>7. handler[h].alone => /\ llmFile' = handler[h].before[1] /\ localFile' = handler[h].before[2]
                              /\ handler[h].llm = WantedDocument(h) /\ keys = WantedKeys(h)
      BY <1>3, <1>7, <3>1 DEF AloneFits, FilesRead, ReadKeys, files, WantedKeys, KeysFor, keys
    <3>8. Kept /\ handler'[h] = rec
      BY <1>4, <3>4, <3>5, <3>6, <3>7, MoveKeeps DEF FilesRead
    <3> QED
      BY <1>1, <1>2, <2>1, <3>4, <3>8
  <2> QED
    BY <2>2, <2>3
<1>8. ASSUME NEW pc \in HandlerPcs \ {"idle", "build", "testing", "testPiece"}, handler' = [handler EXCEPT ![h].pc = pc],
             /\ pc \in {"load", "init"} => r.op # "test"
             /\ pc # "readKeys" /\ pc # "readDefault" /\ pc # "openLlm" /\ pc # "init"
             /\ pc \in {"openLlm", "closeLlm"} => handler[h].pc = "openLlm"
             /\ pc \in {"openLocal", "closeLocal"} => r.op \in {"add", "update", "delete", "keys"},
             handler[h].alone =>
               /\ pc \in {"closeLlm", "openLocal"} => localFile' = handler[h].before[2]
               /\ pc \in {"openLocal", "closeLocal"} => handler[h].local = WantedKeys(h)
               /\ pc \in {"openLocal", "closeLocal", "load"} => llmFile' = WantedDocument(h)
               /\ pc \in {"load"} => localFile' = WantedKeys(h)
      PROVE  Kept /\ Away
  <2> DEFINE rec == [handler[h] EXCEPT !.pc = pc]
  <2>1. /\ rec \in Handlings /\ rec.pc = pc /\ rec.local = handler[h].local /\ rec.llm = handler[h].llm
        /\ rec.req = r /\ rec.before = handler[h].before /\ rec.alone = handler[h].alone
    BY <1>3 DEF Handlings
  <2>2. handler' = [handler EXCEPT ![h] = rec]
    BY <1>8 DEF Shape
  <2> HIDE DEF rec
  <2>3. handler'[h] = rec
    BY <2>2 DEF Shape
  <2>4. PlaceFits(h)'
    BY <1>3, <1>4, <1>8, <2>1, <2>3 DEF PlaceFits, DefaultFits
  <2>5. rec.alone /\ pc = "closeLlm" =>
          /\ rec.llm = WantedDocument(h)
          /\ rec.req.op # "document" => rec.local = WantedKeys(h)
    BY <1>3, <1>8, <2>1 DEF AloneFits
  <2>6. Kept
    BY <1>4, <1>8, <2>1, <2>2, <2>4, <2>5, MoveKeeps DEF FilesRead
  <2> QED
    BY <1>8, <2>1, <2>3, <2>6
<1>9. CASE OpenLlm(h)
  <2>1. CASE llmFile' \in {NoDocument, CutDocument} /\ handler' = [handler EXCEPT ![h].pc = "closeLlm"]
             /\ UNCHANGED upsets
    <3>1. Same
      <4>1. DefaultFits(NoDocument) /\ DefaultFits(CutDocument)
        BY DEF DefaultFits, NoDocument, CutDocument
      <4> QED
        BY <1>3, <1>9, <2>1, <4>1, EmptyFiles DEF OpenLlm
    <3>2. handler[h].alone => localFile' = handler[h].before[2]
      BY <1>3, <1>9 DEF OpenLlm, AloneFits, FilesRead
    <3>3. Kept /\ Away
      BY <1>8, <1>9, <2>1, <3>2 DEF OpenLlm, HandlerPcs
    <3> QED
      BY <1>1, <1>2, <3>1, <3>3
  <2>2. CASE Fails /\ Answer(h) /\ UNCHANGED llmFile
    <3>1. Same
      BY <1>3, <1>9, <2>2, ConstantsAssumption DEF OpenLlm, Fails
    <3> QED
      BY <1>1, <1>2, <1>5, <2>2, <3>1
  <2> QED
    BY <1>9, <2>1, <2>2 DEF OpenLlm
<1>13. ASSUME NEW pc \in {"openLocal", "load"}, CutShort(h, pc), skew' = skew,
              r.op # "test" /\ (pc = "openLocal" => r.op \in {"add", "update", "delete", "keys"})
       PROVE  Same /\ Kept /\ Away
  <2> DEFINE rec == [handler[h] EXCEPT !.pc = pc, !.alone = FALSE, !.before = Resting.before]
  <2>1. Same
    <3>1. llmFile' = llmFile /\ localFile' = localFile /\ skew' = skew
      BY <1>13 DEF CutShort, files
    <3>2. upsets' \in 0 .. MaxUpsets
      BY <1>3, <1>13, ConstantsAssumption DEF CutShort, Fails
    <3> QED
      BY <1>3, <3>1, <3>2
  <2>2. Resting.before \in Documents \X KeyFiles
    BY RestingIs DEF Handlings
  <2>3. /\ rec \in Handlings /\ rec.pc = pc /\ rec.req = r /\ ~rec.alone
        /\ handler' = [handler EXCEPT ![h] = rec]
    BY <1>3, <1>13, <2>2 DEF CutShort, Handlings, HandlerPcs, Shape
  <2> HIDE DEF rec
  <2>4. handler'[h] = rec
    BY <2>3 DEF Shape
  <2>5. r \in Requests
    BY <1>3, <1>4 DEF PlaceFits
  <2>6. PlaceFits(h)' /\ AloneFits(h)'
    BY <1>13, <2>3, <2>4, <2>5 DEF PlaceFits, AloneFits
  <2> QED
    BY <1>4, <2>1, <2>3, <2>4, <2>6, OtherHandlers
<1>10. CASE CloseLlm(h) /\ ~CutShort(h, IF r.op = "document" THEN "load" ELSE "openLocal")
  <2> DEFINE pc == IF r.op = "document" THEN "load" ELSE "openLocal"
  <2>0. llmFile' = handler[h].llm /\ Closed(h, pc)
    BY <1>10 DEF CloseLlm
  <2>1. Same
    BY <1>3, <1>10, <2>0 DEF CloseLlm, Closed, PlaceFits, Handlings
  <2>2. r.op \in {"add", "update", "delete", "document"}
    BY <1>3, <1>10 DEF CloseLlm, PlaceFits
  <2>3. handler[h].alone =>
          /\ localFile' = handler[h].before[2] /\ llmFile' = WantedDocument(h)
          /\ r.op # "document" => handler[h].local = WantedKeys(h)
          /\ r.op = "document" => localFile' = WantedKeys(h)
    BY <1>3, <1>10, <2>0 DEF CloseLlm, AloneFits, WantedKeys, KeysFor
  <2>4. handler' = [handler EXCEPT ![h].pc = pc]
    BY <2>0 DEF Closed
  <2>5. CASE r.op = "document"
    <3>1. Kept /\ Away
      BY <1>8, <2>3, <2>4, <2>5 DEF HandlerPcs
    <3> QED
      BY <1>1, <1>2, <2>1, <3>1
  <2>6. CASE r.op # "document"
    <3>1. Kept /\ Away
      BY <1>8, <2>2, <2>3, <2>4, <2>6 DEF HandlerPcs
    <3> QED
      BY <1>1, <1>2, <2>1, <3>1
  <2> QED
    BY <2>5, <2>6
<1>11. CASE OpenLocal(h)
  <2>0. UNCHANGED <<llmFile, table, lock, call, ops>>
    BY <1>11 DEF OpenLocal
  <2>1. CASE localFile' \in {NoKeys, CutKeys} /\ handler' = [handler EXCEPT ![h].pc = "closeLocal"]
             /\ UNCHANGED <<upsets, skew>>
    <3>1. Same
      BY <1>3, <2>0, <2>1, EmptyFiles
    <3>2. handler[h].alone => handler[h].local = WantedKeys(h) /\ llmFile' = WantedDocument(h)
      <4>1. r.op # "document"
        BY <1>3, <1>11 DEF OpenLocal, PlaceFits
      <4> QED
        BY <1>3, <1>11, <2>0, <4>1 DEF OpenLocal, AloneFits
    <3>3. r.op \in {"add", "update", "delete", "keys"}
      BY <1>3, <1>11 DEF OpenLocal, PlaceFits
    <3>4. Kept /\ Away
      BY <1>8, <2>1, <3>2, <3>3 DEF HandlerPcs
    <3> QED
      BY <1>1, <1>2, <3>1, <3>4
  <2>2. CASE Fails /\ Answer(h) /\ skew' = (skew \/ r.op # "keys") /\ UNCHANGED localFile
    <3>1. upsets' \in 0 .. MaxUpsets
      BY <1>3, <2>2, ConstantsAssumption DEF Fails
    <3>2. skew' \in BOOLEAN
      BY <2>2
    <3>3. Same
      BY <1>3, <2>0, <2>2, <3>1, <3>2
    <3> QED
      BY <1>1, <1>2, <1>5, <2>2, <3>3
  <2> QED
    BY <1>11, <2>1, <2>2 DEF OpenLocal
<1>12. CASE CloseLocal(h)
  <2>2. r.op \in {"add", "update", "delete", "keys"}
    BY <1>3, <1>12 DEF CloseLocal, PlaceFits
  <2>5. CASE CutShort(h, "load")
    <3>1. skew' = skew
      BY <1>12 DEF CloseLocal
    <3> QED
      BY <1>1, <1>2, <1>13, <2>2, <2>5, <3>1
  <2>6. CASE ~CutShort(h, "load")
    <3>0. localFile' = handler[h].local /\ Closed(h, "load") /\ UNCHANGED <<llmFile, skew>>
      BY <1>12, <2>6 DEF CloseLocal
    <3>1. Same
      BY <1>3, <3>0 DEF Closed, Handlings
    <3>3. handler[h].alone => localFile' = WantedKeys(h) /\ llmFile' = WantedDocument(h)
      BY <1>3, <1>12, <2>2, <3>0 DEF CloseLocal, AloneFits
    <3>4. Kept /\ Away
      BY <1>8, <2>2, <3>0, <3>3 DEF HandlerPcs, Closed
    <3> QED
      BY <1>1, <1>2, <3>1, <3>4
  <2> QED
    BY <2>5, <2>6
<1>14. CASE CloseLlm(h) /\ CutShort(h, IF r.op = "document" THEN "load" ELSE "openLocal")
  <2>1. r.op \in {"add", "update", "delete", "document"}
    BY <1>3, <1>14 DEF CloseLlm, PlaceFits
  <2>2. skew' = skew
    BY <1>14 DEF CloseLlm
  <2> QED
    BY <1>1, <1>2, <1>13, <1>14, <2>1, <2>2
<1> QED
  BY <1>6, <1>7, <1>9, <1>10, <1>11, <1>12, <1>14

\* Chats that are left alone, while the mutex goes from hand to hand among the workers.
LEMMA ChatsStand ==
  ASSUME Shape, ChatsFit, UNCHANGED <<call, table>>, lock' = lock \/ lock \in Handlers \union {None}
  PROVE  call' \in [Callers -> Calls] /\ ChatsFit'
<1>1. call \in [Callers -> Calls]
  BY DEF Shape
<1>2. lock' = lock \/ \A c \in Callers : call[c].pc \notin Running
  BY NobodyRuns
<1>3. ASSUME NEW c \in Callers PROVE ChatFits(c)'
  BY <1>2 DEF ChatsFit, ChatFits, SomeAvailable, Available
<1> QED
  BY <1>1, <1>3 DEF ChatsFit

\* A new table: nobody runs on the old one, and who asks is told.
LEMMA ChatsTold ==
  ASSUME Shape, ChatsFit, TableChanges, lock \in Handlers \union {None}
  PROVE  call' \in [Callers -> Calls] /\ ChatsFit'
<1>1. call \in [Callers -> Calls]
  BY DEF Shape
<1>2. \A c \in Callers : call[c].pc \notin Running
  BY NobodyRuns
<1>3. ASSUME NEW c \in Callers PROVE ChatFits(c)' /\ call'[c] \in Calls
  <2> DEFINE rec == [call[c] EXCEPT !.changed = call[c].changed \/ call[c].pc = "asking"]
  <2>1. call'[c] = rec
    BY DEF TableChanges
  <2>2. call[c] \in Calls /\ ChatFits(c) /\ call[c].changed \in BOOLEAN
    BY <1>1 DEF ChatsFit, Calls
  <2>3. (call[c].changed \/ call[c].pc = "asking") \in BOOLEAN
    OBVIOUS
  <2>4. /\ rec \in Calls /\ rec.pc = call[c].pc /\ rec.used = call[c].used /\ rec.key = call[c].key
        /\ rec.got = call[c].got
        /\ rec.changed = (call[c].changed \/ call[c].pc = "asking")
    BY <2>2, <2>3 DEF Calls
  <2> HIDE DEF rec
  <2>5. call[c].changed => rec.changed
    BY <2>4
  <2>6. call[c].pc = "asking" => rec.changed
    BY <2>4
  <2> QED
    BY <1>2, <2>1, <2>2, <2>4, <2>5, <2>6 DEF ChatFits
<1>4. call' \in [Callers -> Calls]
  <2>1. call' = [c \in Callers |-> call'[c]]
    BY DEF TableChanges
  <2> QED
    BY <1>3, <2>1
<1> QED
  BY <1>3, <1>4 DEF ChatsFit

\* What every step of a worker keeps.
WorkerKeeps ==
  /\ handler' \in [Handlers -> Handlings] /\ HandlersFit' /\ HandlersLock'
  /\ table' \in Tables /\ TableFits(table')
  /\ lock' \in Handlers \union Callers \union {None}
  /\ call' \in [Callers -> Calls] /\ ChatsFit'
  /\ skew' \in BOOLEAN

\* The steps of a worker from the loading on.
LEMMA LateSteps ==
  ASSUME Shape, HandlersFit, HandlersLock, ChatsFit, TableFits(table), NEW h \in Handlers,
         \/ SkipLoad(h) \/ WantInit(h) \/ SkipInit(h) \/ BeginLoad(h) \/ EndLoad(h)
         \/ BeginTest(h) \/ EndTest(h) \/ TestPiece(h) \/ TakeTestPiece(h)
  PROVE  WorkerKeeps /\ UNCHANGED <<files, ops, upsets>>
<1> DEFINE r == handler[h].req
<1>1. UNCHANGED <<files, ops, upsets>>
  BY DEF SkipLoad, WantInit, SkipInit, BeginLoad, EndLoad, BeginTest, EndTest, TestPiece, TakeTestPiece, files
<1>2. /\ llmFile \in Documents /\ localFile \in KeyFiles /\ table \in Tables
      /\ handler \in [Handlers -> Handlings] /\ call \in [Callers -> Calls]
      /\ lock \in Handlers \union Callers \union {None} /\ skew \in BOOLEAN
      /\ handler[h] \in Handlings /\ PlaceFits(h) /\ AloneFits(h)
  BY DEF Shape, HandlersFit
<1>3. handler[h].pc # "idle"
  BY DEF SkipLoad, WantInit, SkipInit, BeginLoad, EndLoad, BeginTest, EndTest, TestPiece, TakeTestPiece, MayLoad
<1>4. llmFile' = llmFile /\ localFile' = localFile
  BY <1>1 DEF files
<1>5. ASSUME NEW pc \in {"init", "build", "testing", "testPiece"}, handler' = [handler EXCEPT ![h].pc = pc],
             pc \in {"init", "build"} => handler[h].pc \in {"load", "init"},
             pc = "init" => r.op \in {"add", "document"} /\ ~table'.up,
             pc = "build" => skew' = FALSE
      PROVE  /\ handler' \in [Handlers -> Handlings] /\ HandlersFit' /\ handler'[h].pc = pc
             /\ \A g \in Handlers \ {h} : handler'[g] = handler[g]
  <2> DEFINE rec == [handler[h] EXCEPT !.pc = pc]
  <2>1. /\ rec \in Handlings /\ rec.pc = pc /\ rec.local = handler[h].local /\ rec.llm = handler[h].llm
        /\ rec.req = r /\ rec.before = handler[h].before /\ rec.alone = handler[h].alone
    BY <1>2 DEF Handlings, HandlerPcs
  <2>2. handler' = [handler EXCEPT ![h] = rec]
    BY <1>5 DEF Shape
  <2> HIDE DEF rec
  <2>3. handler'[h] = rec /\ \A g \in Handlers \ {h} : handler'[g] = handler[g]
    BY <2>2, <1>2
  <2>4. PlaceFits(h)'
    BY <1>2, <1>3, <1>5, <2>1, <2>3 DEF PlaceFits, DefaultFits
  <2>5. rec.alone /\ pc \in {"init", "build"} =>
          llmFile' = WantedDocument(h) /\ localFile' = WantedKeys(h)
    BY <1>2, <1>4, <1>5, <2>1 DEF AloneFits
  <2>6. handler' \in [Handlers -> Handlings] /\ HandlersFit'
    BY <1>3, <1>5, <2>1, <2>2, <2>4, <2>5, MoveKeeps DEF FilesRead
  <2> QED
    BY <2>1, <2>3, <2>6
<1>6. ASSUME Answer(h)
      PROVE  /\ handler' \in [Handlers -> Handlings] /\ HandlersFit' /\ handler'[h].pc = "idle"
             /\ \A g \in Handlers \ {h} : handler'[g] = handler[g]
  BY <1>2, <1>3, <1>6, AnswerKeeps, RestingIs DEF Answer
<1>7. ASSUME lock = None \/ lock = h, \A g \in Handlers \ {h} : handler'[g] = handler[g],
             handler'[h].pc \in {"build", "testing", "testPiece"} => lock' = h
      PROVE  HandlersLock'
  BY <1>7, ConstantsAssumption DEF HandlersLock
<1>8. CASE SkipLoad(h) \/ SkipInit(h)
  <2>1. Answer(h) /\ UNCHANGED <<table, lock, call>> /\ skew' = TRUE
    BY <1>8 DEF SkipLoad, SkipInit
  <2>2. HandlersLock'
    BY <1>6, <2>1 DEF HandlersLock
  <2> QED
    BY <1>1, <1>2, <1>6, <2>1, <2>2, ChatsStand DEF WorkerKeeps
<1>9. CASE WantInit(h)
  <2>1. handler' = [handler EXCEPT ![h].pc = "init"] /\ UNCHANGED <<table, lock, call, skew>>
        /\ handler[h].pc = "load" /\ r.op \in {"add", "document"} /\ ~table.up
    BY <1>9 DEF WantInit
  <2>2. /\ handler' \in [Handlers -> Handlings] /\ HandlersFit' /\ handler'[h].pc = "init"
        /\ \A g \in Handlers \ {h} : handler'[g] = handler[g]
    BY <1>5, <2>1
  <2>3. HandlersLock'
    BY <2>1, <2>2 DEF HandlersLock
  <2> QED
    BY <1>1, <1>2, <2>1, <2>2, <2>3, ChatsStand DEF WorkerKeeps
<1>10. CASE BeginLoad(h)
  <2>1. lock = None /\ TableChanges /\ handler[h].pc \in {"load", "init"}
    BY <1>10 DEF BeginLoad, MayLoad
  <2>2. call' \in [Callers -> Calls] /\ ChatsFit'
    BY <2>1, ChatsTold
  <2>3. CASE Broken(llmFile) # {}
    <3>1. /\ table' = [WithDocument(table, llmFile) EXCEPT !.prior = None]
          /\ Answer(h) /\ skew' = TRUE /\ lock' = lock
      BY <1>10, <2>3 DEF BeginLoad
    <3>2. table' \in Tables /\ TableFits(table')
      BY <1>2, <3>1, WithDocumentFits
    <3>3. HandlersLock'
      BY <1>6, <1>7, <2>1, <3>1
    <3> QED
      BY <1>1, <1>2, <1>6, <2>2, <3>1, <3>2, <3>3 DEF WorkerKeeps
  <2>4. CASE Broken(llmFile) = {}
    <3>1. /\ table' = WithDocument(table, llmFile)
          /\ handler' = [handler EXCEPT ![h].pc = "build"]
          /\ lock' = h /\ skew' = FALSE
      BY <1>10, <2>4 DEF BeginLoad
    <3>2. table' \in Tables /\ TableFits(table')
      BY <1>2, <3>1, WithDocumentFits
    <3>3. /\ handler' \in [Handlers -> Handlings] /\ HandlersFit' /\ handler'[h].pc = "build"
          /\ \A g \in Handlers \ {h} : handler'[g] = handler[g]
      BY <1>5, <2>1, <3>1
    <3>4. HandlersLock'
      BY <1>7, <2>1, <3>1, <3>3
    <3> QED
      BY <1>1, <1>2, <2>2, <3>1, <3>2, <3>3, <3>4 DEF WorkerKeeps
  <2> QED
    BY <2>3, <2>4
<1>11. CASE EndLoad(h)
  <2> DEFINE built == Built(table, localFile)
  <2>1. /\ lock = h /\ lock' = None /\ TableChanges /\ Answer(h) /\ skew' = skew
        /\ table' = [built EXCEPT !.up = TRUE, !.prior = None,
                       !.dflt = IF @ = None /\ table.up THEN table.prior ELSE @]
    BY <1>11 DEF EndLoad, HandlersLock
  <2>2. call' \in [Callers -> Calls] /\ ChatsFit'
    BY <2>1, ChatsTold
  <2>3. built \in Tables /\ TableFits(built)
    BY <1>2, BuiltFits
  <2> HIDE DEF built
  <2>4. table' \in Tables /\ table'.confs = built.confs /\ table'.clients = built.clients
    BY <1>2, <2>1, <2>3 DEF Tables
  <2>5. TableFits(table')
    BY <2>3, <2>4 DEF TableFits
  <2>6. HandlersLock'
    BY <1>6, <1>7, <2>1
  <2> QED
    BY <1>1, <1>2, <1>6, <2>1, <2>2, <2>4, <2>5, <2>6 DEF WorkerKeeps
<1>12. CASE BeginTest(h)
  <2>1. lock = None /\ UNCHANGED <<table, call, skew>>
    BY <1>12 DEF BeginTest
  <2>2. call' \in [Callers -> Calls] /\ ChatsFit'
    BY <2>1, ChatsStand
  <2>3. CASE Answer(h) /\ lock' = lock
    <3>1. HandlersLock'
      BY <1>6, <1>7, <2>1, <2>3
    <3> QED
      BY <1>1, <1>2, <1>6, <2>1, <2>2, <2>3, <3>1 DEF WorkerKeeps
  <2>4. CASE lock' = h /\ handler' = [handler EXCEPT ![h].pc = "testing"]
    <3>1. /\ handler' \in [Handlers -> Handlings] /\ HandlersFit' /\ handler'[h].pc = "testing"
          /\ \A g \in Handlers \ {h} : handler'[g] = handler[g]
      BY <1>5, <2>4
    <3>2. HandlersLock'
      BY <1>7, <2>1, <2>4, <3>1
    <3> QED
      BY <1>1, <1>2, <2>1, <2>2, <2>4, <3>1, <3>2 DEF WorkerKeeps
  <2> QED
    BY <1>12, <2>3, <2>4 DEF BeginTest
<1>13. CASE EndTest(h)
  <2>1. lock = h /\ lock' = None /\ UNCHANGED <<table, call, skew>> /\ Answer(h)
    BY <1>13 DEF EndTest, HandlersLock
  <2>2. call' \in [Callers -> Calls] /\ ChatsFit'
    BY <2>1, ChatsStand
  <2>3. HandlersLock'
    BY <1>6, <1>7, <2>1
  <2> QED
    BY <1>1, <1>2, <1>6, <2>1, <2>2, <2>3 DEF WorkerKeeps
<1>14. CASE TestPiece(h) \/ TakeTestPiece(h)
  <2>1. lock = h /\ lock' = lock /\ UNCHANGED <<table, call, skew>>
    BY <1>14 DEF TestPiece, TakeTestPiece, HandlersLock
  <2>2. call' \in [Callers -> Calls] /\ ChatsFit'
    BY <2>1, ChatsStand
  <2>3. PICK pc \in {"testing", "testPiece"} : handler' = [handler EXCEPT ![h].pc = pc]
    BY <1>14 DEF TestPiece, TakeTestPiece
  <2>4. /\ handler' \in [Handlers -> Handlings] /\ HandlersFit' /\ handler'[h].pc = pc
        /\ \A g \in Handlers \ {h} : handler'[g] = handler[g]
    BY <1>5, <2>3
  <2>5. HandlersLock'
    BY <1>7, <2>1, <2>4
  <2> QED
    BY <1>1, <1>2, <2>1, <2>2, <2>4, <2>5 DEF WorkerKeeps
<1> QED
  BY <1>8, <1>9, <1>10, <1>11, <1>12, <1>13, <1>14

\* What a worker does, and what a service does to one that tests it.
Works(h) == HandlerStep(h) \/ EndTest(h) \/ TestPiece(h)

\* A request that comes in moves nobody who is under way, and loads nothing.
OthersGoOn ==
  \A g \in Handlers :
    /\ handler[g].pc # "idle" => handler'[g].pc = handler[g].pc /\ handler'[g].req = handler[g].req
    /\ handler'[g].pc = "build" => handler[g].pc = "build"

\* It ends the solitude of those under way.
LEMMA EnterKeeps ==
  ASSUME Shape, HandlersFit, HandlersLock, NEW h \in Handlers, handler[h].pc = "idle",
         NEW rec \in Handlings, Enter(h, rec), rec.pc \notin {"idle", "build", "testing", "testPiece"},
         UNCHANGED lock, rec.alone => Busy = {}, PlaceFits(h)',
         rec.alone =>
           /\ rec.pc \in FilesRead => llmFile' = rec.before[1]
           /\ rec.pc \in FilesRead \union {"closeLlm", "openLocal"} => localFile' = rec.before[2]
           /\ rec.pc \in {"readKeys", "openLlm", "closeLlm"} => rec.llm = WantedDocument(h)'
           /\ rec.pc \in {"openLlm", "closeLlm", "openLocal", "closeLocal"} /\ rec.req.op # "document" =>
                rec.local = WantedKeys(h)'
           /\ rec.pc = "readDefault" => rec.local = rec.before[2]
           /\ rec.pc \in {"openLocal", "closeLocal"} => llmFile' = WantedDocument(h)'
           /\ rec.pc \notin {"load", "init"}
           /\ rec.req.op \in {"add", "update", "delete"} => ~Refused(rec.before[1], rec.req)
  PROVE  handler' \in [Handlers -> Handlings] /\ HandlersFit' /\ HandlersLock' /\ OthersGoOn
<1> DEFINE lost(g) == [handler[g] EXCEPT !.alone = FALSE, !.before = Resting.before]
<1>1. handler \in [Handlers -> Handlings]
  BY DEF Shape
<1>2. \A g \in Handlers : lost(g) \in Handlings /\ lost(g).pc = handler[g].pc /\ lost(g).req = handler[g].req
                          /\ lost(g).llm = handler[g].llm /\ lost(g).alone = FALSE
  BY <1>1, RestingIs DEF Handlings
<1>3. handler' = [g \in Handlers |-> IF g = h THEN rec ELSE IF g \in Busy THEN lost(g) ELSE Resting]
  BY DEF Enter
<1> HIDE DEF lost
<1>4. handler' \in [Handlers -> Handlings]
  BY <1>2, <1>3, RestingIs
<1>5. handler'[h] = rec
  BY <1>3
<1>6. ASSUME NEW g \in Handlers, g # h
      PROVE  /\ handler'[g].pc = handler[g].pc
             /\ handler[g].pc # "idle" => handler'[g].req = handler[g].req
             /\ PlaceFits(g)' /\ AloneFits(g)'
  <2>1. PlaceFits(g)
    BY DEF HandlersFit
  <2>2. CASE g \in Busy
    <3>1. handler'[g] = lost(g)
      BY <1>3, <1>6, <2>2
    <3>2. handler'[g].pc = handler[g].pc /\ handler'[g].req = handler[g].req
          /\ handler'[g].llm = handler[g].llm /\ handler'[g].alone = FALSE
      BY <1>2, <3>1
    <3>3. PlaceFits(g)'
      BY <2>1, <3>2 DEF PlaceFits, DefaultFits
    <3>4. AloneFits(g)'
      BY <3>2 DEF AloneFits
    <3> QED
      BY <3>2, <3>3, <3>4
  <2>3. CASE g \notin Busy
    <3>1. handler'[g] = Resting /\ handler[g].pc = "idle"
      BY <1>3, <1>6, <2>3 DEF Busy
    <3>2. handler'[g].pc = "idle"
      BY <3>1, RestingIs
    <3> QED
      BY <3>1, <3>2 DEF PlaceFits, AloneFits
  <2> QED
    BY <2>2, <2>3
<1>7. AloneFits(h)'
  <2>1. rec.alone => \A g \in Handlers \ {h} : handler'[g].pc = "idle"
    BY <1>6 DEF Busy
  <2> QED
    BY <1>5, <2>1 DEF AloneFits
<1>8. HandlersLock'
  BY <1>5, <1>6 DEF HandlersLock
<1>9. OthersGoOn
  BY <1>5, <1>6 DEF OthersGoOn
<1> QED
  BY <1>4, <1>6, <1>7, <1>8, <1>9 DEF HandlersFit

\* A worker takes a request.
LEMMA AcceptKeeps ==
  ASSUME Shape, HandlersFit, HandlersLock, DefaultFits(llmFile), NEW h \in Handlers, Accept(h)
  PROVE  /\ handler' \in [Handlers -> Handlings] /\ HandlersFit' /\ HandlersLock'
         /\ OthersGoOn /\ ops' \in 0 .. MaxOps
         /\ UNCHANGED <<files, table, lock, call, upsets, skew>>
<1>1. handler[h].pc = "idle"
  BY DEF Accept, Busy
<1>2. /\ UNCHANGED <<files, table, lock, call, upsets, skew>>
      /\ llmFile' = llmFile /\ localFile' = localFile /\ lock' = lock
  BY DEF Accept, files
<1>3. ops' \in 0 .. MaxOps
  BY ConstantsAssumption DEF Accept, Shape
<1>4. llmFile \in Documents /\ localFile \in KeyFiles /\ handler \in [Handlers -> Handlings]
  BY DEF Shape
<1> DEFINE Kept == handler' \in [Handlers -> Handlings] /\ HandlersFit' /\ HandlersLock' /\ OthersGoOn
<1>5. ASSUME UNCHANGED handler PROVE Kept
  <2>1. HandlersFit'
    BY <1>2, <1>5, HandlersStand
  <2> QED
    BY <1>2, <1>4, <1>5, <2>1 DEF HandlersLock, OthersGoOn
<1>6. PICK r \in Requests : ReadProviders(h, r) \/ TakeDocument(h, r) \/ ReadLocal(h, r) \/ TakeDraft(h, r)
  BY DEF Accept
<1>7. /\ Begun(r) \in Handlings /\ Begun(r).req = r
      /\ Begun(r).alone => Busy = {} /\ Begun(r).before = <<llmFile, localFile>>
  <2>1. CASE Busy = {}
    <3>1. Begun(r) = [Resting EXCEPT !.req = r, !.before = <<llmFile, localFile>>]
      BY <2>1 DEF Begun, files
    <3>2. <<llmFile, localFile>> \in Documents \X KeyFiles
      BY <1>4
    <3>3. /\ Begun(r) \in Handlings /\ Begun(r).req = r
          /\ Begun(r).before = <<llmFile, localFile>>
      BY <3>1, <3>2, RestingIs DEF Handlings
    <3> QED
      BY <2>1, <3>3
  <2>2. CASE Busy # {}
    <3>1. Begun(r) = [Resting EXCEPT !.req = r, !.alone = FALSE]
      BY <2>2 DEF Begun
    <3> QED
      BY <2>2, <3>1, RestingIs DEF Handlings
  <2> QED
    BY <2>1, <2>2
<1> DEFINE b == Begun(r)
<1> HIDE DEF b
<1>8. /\ b \in Handlings /\ b.req = r /\ b = Begun(r)
      /\ b.alone => Busy = {}
      /\ b.alone => b.before[1] = llmFile /\ b.before[2] = localFile
  BY <1>7 DEF b
<1>9. ASSUME NEW rec \in Handlings, Enter(h, rec) PROVE handler'[h] = rec
  BY <1>9 DEF Enter
<1>10. CASE ReadProviders(h, r)
  <2>1. CASE Refused(llmFile, r)
    BY <1>2, <1>3, <1>5, <1>10, <2>1 DEF ReadProviders
  <2>2. CASE ~Refused(llmFile, r)
    <3> DEFINE doc == Changed(llmFile, r)
               rec == [b EXCEPT !.pc = "readKeys", !.llm = doc]
    <3>1. r.op \in {"add", "update", "delete"} /\ Enter(h, rec)
      BY <1>8, <1>10, <2>2 DEF ReadProviders
    <3>2. doc \in Documents /\ ~doc.torn /\ DefaultFits(doc)
      BY <1>4, <2>2, <3>1, ChangedIs
    <3> HIDE DEF doc
    <3>3. /\ rec \in Handlings /\ rec.pc = "readKeys" /\ rec.llm = doc
          /\ rec.req = r /\ rec.before = b.before /\ rec.alone = b.alone
      BY <1>8, <3>2 DEF Handlings, HandlerPcs
    <3> HIDE DEF rec
    <3>4. handler'[h] = rec
      BY <1>9, <3>1, <3>3
    <3>5. PlaceFits(h)'
      BY <3>1, <3>2, <3>3, <3>4 DEF PlaceFits, DefaultFits
    <3>6. rec.alone => doc = WantedDocument(h)'
      <4>1. rec.alone => doc = Changed(rec.before[1], r)
        BY <1>8, <3>3 DEF doc
      <4> QED
        BY <3>1, <3>3, <3>4, <4>1 DEF WantedDocument
    <3>7. Kept
      BY <1>1, <1>2, <1>8, <2>2, <3>1, <3>3, <3>5, <3>6, EnterKeeps DEF FilesRead
    <3> QED
      BY <1>2, <1>3, <3>7
  <2> QED
    BY <2>1, <2>2
<1>11. CASE TakeDocument(h, r)
  <2> DEFINE doc == NewDocument(r)
             rec == [b EXCEPT !.pc = "openLlm", !.llm = doc]
  <2>1. r.op = "document" /\ Enter(h, rec)
    BY <1>8, <1>11 DEF TakeDocument, NewDocument
  <2>2. doc \in Documents /\ ~doc.torn /\ DefaultFits(doc)
    BY <2>1, NewDocumentIs
  <2> HIDE DEF doc
  <2>3. /\ rec \in Handlings /\ rec.pc = "openLlm" /\ rec.llm = doc
        /\ rec.req = r /\ rec.before = b.before /\ rec.alone = b.alone
    BY <1>8, <2>2 DEF Handlings, HandlerPcs
  <2> HIDE DEF rec
  <2>4. handler'[h] = rec
    BY <1>9, <2>1, <2>3
  <2>5. PlaceFits(h)'
    BY <2>1, <2>2, <2>3, <2>4 DEF PlaceFits, DefaultFits
  <2>6. doc = WantedDocument(h)'
    BY <2>1, <2>3, <2>4 DEF WantedDocument, doc
  <2>7. Kept
    BY <1>1, <1>2, <1>8, <2>1, <2>3, <2>5, <2>6, EnterKeeps DEF FilesRead
  <2> QED
    BY <1>2, <1>3, <2>7
<1>12. CASE ReadLocal(h, r)
  <2>1. CASE localFile.torn /\ r.p # None
    BY <1>2, <1>3, <1>5, <1>12, <2>1 DEF ReadLocal
  <2>2. CASE ~(localFile.torn /\ r.p # None)
    <3> DEFINE pc == IF r.p = None THEN "readDefault" ELSE "openLocal"
               keys == IF r.p = None \/ r.key = NoKey THEN localFile
                       ELSE [localFile EXCEPT !.of = Put(@, r.p, r.key)]
               rec == [b EXCEPT !.pc = pc, !.local = keys]
    <3>1. r.op = "keys" /\ Enter(h, rec)
      BY <1>8, <1>12, <2>2 DEF ReadLocal
    <3>2. keys \in KeyFiles
      <4>1. CASE r.p = None \/ r.key = NoKey
        BY <1>4, <4>1
      <4>2. CASE ~(r.p = None \/ r.key = NoKey)
        <5>1. r.p \in Providers /\ r.key \in KeysOf(r.p) /\ ~localFile.torn
          BY <2>2, <4>2, RequestIs, GivenKeyIs
        <5>2. [localFile EXCEPT !.of = Put(@, r.p, r.key)] \in KeyFiles
          BY <1>4, <5>1, KeyPut
        <5> QED
          BY <4>2, <5>2
      <4> QED
        BY <4>1, <4>2
    <3>3. keys = IF r.p = None \/ r.key = NoKey THEN localFile
                 ELSE [localFile EXCEPT !.of = Put(@, r.p, r.key)]
      OBVIOUS
    <3> HIDE DEF keys
    <3>4. /\ rec \in Handlings /\ rec.pc = pc /\ rec.local = keys
          /\ rec.req = r /\ rec.before = b.before /\ rec.alone = b.alone
      BY <1>8, <3>2 DEF Handlings, HandlerPcs
    <3> HIDE DEF rec
    <3>5. handler'[h] = rec
      BY <1>9, <3>1, <3>4
    <3>6. PlaceFits(h)'
      BY <3>1, <3>4, <3>5 DEF PlaceFits
    <3>7. rec.alone => llmFile' = WantedDocument(h)'
      BY <1>2, <1>8, <3>1, <3>4, <3>5 DEF WantedDocument
    <3>8. rec.alone /\ r.p # None => keys = WantedKeys(h)'
      <4> SUFFICES ASSUME rec.alone, r.p # None PROVE keys = WantedKeys(h)'
        OBVIOUS
      <4>1. rec.before[2] = localFile
        BY <1>8, <3>4
      <4>2. WantedKeys(h)' = KeysFor(rec.before, r)
        BY <3>4, <3>5 DEF WantedKeys
      <4> QED
        BY <3>1, <3>3, <4>1, <4>2 DEF KeysFor
    <3>9. Kept
      BY <1>1, <1>2, <1>8, <3>1, <3>3, <3>4, <3>6, <3>7, <3>8, EnterKeeps DEF FilesRead
    <3> QED
      BY <1>2, <1>3, <3>9
  <2> QED
    BY <2>1, <2>2
<1>13. CASE TakeDraft(h, r)
  <2> DEFINE rec == [b EXCEPT !.pc = "test"]
  <2>1. r.op = "test" /\ Enter(h, rec)
    BY <1>8, <1>13 DEF TakeDraft
  <2>2. /\ rec \in Handlings /\ rec.pc = "test"
        /\ rec.req = r /\ rec.before = b.before /\ rec.alone = b.alone
    BY <1>8 DEF Handlings, HandlerPcs
  <2> HIDE DEF rec
  <2>3. handler'[h] = rec
    BY <1>9, <2>1, <2>2
  <2>4. PlaceFits(h)'
    BY <2>1, <2>2, <2>3 DEF PlaceFits
  <2>5. Kept
    BY <1>1, <1>2, <1>8, <2>1, <2>2, <2>4, EnterKeeps DEF FilesRead
  <2> QED
    BY <1>2, <1>3, <2>5
<1> QED
  BY <1>6, <1>10, <1>11, <1>12, <1>13

\* A start, the first one or the one after a crash.
LEMMA StartIs ==
  ASSUME NEW doc \in Documents, NEW keys \in KeyFiles
  PROVE  /\ Booted(doc, keys) \in Tables /\ TableFits(Booted(doc, keys))
         /\ [h \in Handlers |-> Resting] \in [Handlers -> Handlings]
         /\ [c \in Callers |-> Silent] \in [Callers -> Calls]
         /\ Silent.pc = "idle" /\ Silent.got = "none" /\ Silent.key = NoKey
<1>1. NoKey \in Keys
  BY DEF Keys
<1>2. Silent \in Calls /\ Silent.pc = "idle" /\ Silent.got = "none" /\ Silent.key = NoKey
  BY <1>1 DEF Silent, Calls, CallPcs
<1>3. Booted(doc, keys) \in Tables /\ TableFits(Booted(doc, keys))
  BY BootedFits
<1> QED
  BY <1>2, <1>3, RestingIs

-----------------------------------------------------------------------------
(* The facade and the files.                                               *)

\* Someone has written to a file, or is going to finish a write, and has not loaded yet.
Pending(h) ==
  \/ handler[h].pc \in {"closeLlm", "closeLocal", "load", "init"}
  \/ handler[h].pc = "openLocal" /\ handler[h].req.op # "keys"
Settled == ~skew /\ \A h \in Handlers : ~Pending(h)

\* When nothing has failed and nobody is still going to load, a facade that is loading lists
\* the document there is, and one that is not is what a start would make of the files.
RuntimeFits ==
  Settled =>
    /\ \A h \in Handlers : handler[h].pc = "build" =>
         /\ Broken(llmFile) = {} /\ table.confs = Listed(llmFile)
         /\ ~llmFile.torn => table.dflt = llmFile.default
    /\ table.up /\ (\A h \in Handlers : handler[h].pc # "build") =>
         Broken(llmFile) = {} /\ Agrees(table, llmFile, localFile)

Inv ==
  /\ Shape /\ TableFits(table) /\ DefaultFits(llmFile)
  /\ HandlersLock /\ ChatsFit /\ HandlersFit /\ RuntimeFits

\* Steps that touch neither the files nor the table, and by which no load is spared.
LEMMA RuntimeStands ==
  ASSUME RuntimeFits, UNCHANGED <<llmFile, localFile, table>>,
         Settled' => Settled,
         \A h \in Handlers : handler'[h].pc = "build" <=> handler[h].pc = "build"
  PROVE  RuntimeFits'
BY DEF RuntimeFits, Agrees

\* The facade and the files after a step of a worker.
LEMMA WorkerRuntime ==
  ASSUME Inv, NEW h \in Handlers, Works(h)
  PROVE  RuntimeFits'
<1>1. /\ handler \in [Handlers -> Handlings] /\ llmFile \in Documents /\ localFile \in KeyFiles
      /\ table \in Tables /\ TableFits(table) /\ skew \in BOOLEAN /\ HandlersLock
      /\ RuntimeFits /\ PlaceFits(h) /\ handler[h] \in Handlings
  BY DEF Inv, Shape, HandlersFit
<1>2. ASSUME handler'[h].pc \in {"closeLlm", "closeLocal", "load", "init"} \/ skew' PROVE RuntimeFits'
  BY <1>2 DEF RuntimeFits, Settled, Pending
<1>3. ASSUME Answer(h) PROVE /\ handler'[h].pc = "idle" /\ ~Pending(h)'
                             /\ \A g \in Handlers \ {h} : handler'[g] = handler[g]
  BY <1>1, <1>3, RestingIs DEF Answer, Pending
<1>4. ASSUME \A g \in Handlers \ {h} : handler'[g] = handler[g], ~skew' => ~skew, ~Pending(h) \/ Pending(h)'
      PROVE  Settled' => Settled
  <2>1. \A g \in Handlers \ {h} : Pending(g) <=> Pending(g)'
    BY <1>4 DEF Pending
  <2> QED
    BY <1>4, <2>1 DEF Settled
<1>5. ASSUME UNCHANGED <<llmFile, localFile, table>>, ~skew' => ~skew,
             \A g \in Handlers \ {h} : handler'[g] = handler[g], ~Pending(h) \/ Pending(h)',
             handler[h].pc # "build", handler'[h].pc # "build"
      PROVE  RuntimeFits'
  <2>1. \A g \in Handlers : handler'[g].pc = "build" <=> handler[g].pc = "build"
    BY <1>5
  <2> QED
    BY <1>1, <1>4, <1>5, <2>1, RuntimeStands
<1>6. CASE ReadDefault(h)
  <2>1. UNCHANGED <<llmFile, localFile, table, skew>> /\ handler[h].pc = "readDefault"
    BY <1>6 DEF ReadDefault, files
  <2>2. CASE Answer(h)
    BY <1>3, <1>5, <2>1, <2>2 DEF Pending
  <2>3. CASE ~Answer(h)
    <3>1. handler'[h].pc = "openLocal" /\ \A g \in Handlers \ {h} : handler'[g] = handler[g]
      BY <1>1, <1>6, <2>3 DEF ReadDefault, Handlings
    <3> QED
      BY <1>5, <2>1, <3>1 DEF Pending
  <2> QED
    BY <2>2, <2>3
<1>7. CASE ReadKeys(h)
  <2>1. UNCHANGED <<llmFile, localFile, table, skew>> /\ handler[h].pc = "readKeys"
    BY <1>7 DEF ReadKeys, files
  <2>2. CASE Answer(h)
    BY <1>3, <1>5, <2>1, <2>2 DEF Pending
  <2>3. CASE ~Answer(h)
    <3>1. handler'[h].pc = "openLlm" /\ \A g \in Handlers \ {h} : handler'[g] = handler[g]
      BY <1>1, <1>7, <2>3 DEF ReadKeys, Handlings
    <3> QED
      BY <1>5, <2>1, <3>1 DEF Pending
  <2> QED
    BY <2>2, <2>3
<1>8. CASE OpenLlm(h)
  <2>1. UNCHANGED <<localFile, table, skew>> /\ handler[h].pc = "openLlm"
    BY <1>8 DEF OpenLlm
  <2>2. CASE Answer(h) /\ UNCHANGED llmFile
    BY <1>3, <1>5, <2>1, <2>2 DEF Pending
  <2>3. CASE handler' = [handler EXCEPT ![h].pc = "closeLlm"]
    BY <1>1, <1>2, <2>3 DEF Handlings
  <2> QED
    BY <1>8, <2>2, <2>3 DEF OpenLlm
<1>9. CASE CloseLlm(h)
  <2>1. handler[h].req.op # "keys"
    BY <1>1, <1>9 DEF CloseLlm, PlaceFits
  <2>2. /\ handler'[h].req = handler[h].req
        /\ handler'[h].pc = IF handler[h].req.op = "document" THEN "load" ELSE "openLocal"
    BY <1>1, <1>9 DEF CloseLlm, Closed, CutShort, Handlings
  <2>3. Pending(h)'
    BY <2>1, <2>2 DEF Pending
  <2> QED
    BY <2>3 DEF RuntimeFits, Settled
<1>10. CASE OpenLocal(h)
  <2>1. UNCHANGED <<llmFile, table>> /\ handler[h].pc = "openLocal"
    BY <1>10 DEF OpenLocal
  <2>2. CASE Answer(h) /\ UNCHANGED localFile /\ skew' = (skew \/ handler[h].req.op # "keys")
    <3>1. CASE handler[h].req.op # "keys"
      <4>1. skew'
        BY <2>2, <3>1
      <4> QED
        BY <1>2, <4>1
    <3>2. CASE handler[h].req.op = "keys"
      <4>1. ~skew' => ~skew
        BY <2>2
      <4> QED
        BY <1>3, <1>5, <2>1, <2>2, <3>2, <4>1 DEF Pending
    <3> QED
      BY <3>1, <3>2
  <2>3. CASE handler' = [handler EXCEPT ![h].pc = "closeLocal"]
    BY <1>1, <1>2, <2>3
  <2> QED
    BY <1>10, <2>2, <2>3 DEF OpenLocal
<1>11. CASE CloseLocal(h)
  <2>1. handler'[h].pc = "load"
    BY <1>1, <1>11 DEF CloseLocal, Closed, CutShort, Handlings
  <2> QED
    BY <1>2, <2>1
<1>12. CASE SkipLoad(h) \/ SkipInit(h)
  BY <1>2, <1>12 DEF SkipLoad, SkipInit
<1>13. CASE WantInit(h)
  BY <1>1, <1>2, <1>13 DEF WantInit
<1>14. CASE BeginLoad(h)
  <2>1. CASE Broken(llmFile) # {}
    BY <1>2, <1>14, <2>1 DEF BeginLoad
  <2>2. CASE Broken(llmFile) = {}
    <3>1. /\ table' = WithDocument(table, llmFile)
          /\ handler'[h].pc = "build" /\ \A g \in Handlers \ {h} : handler'[g] = handler[g]
          /\ UNCHANGED <<llmFile, localFile>>
      BY <1>1, <1>14, <2>2 DEF BeginLoad, files, Handlings
    <3>2. /\ table'.confs = Listed(llmFile)
          /\ ~llmFile.torn => table'.dflt = llmFile.default
      BY <1>1, <3>1, WithDocumentFits
    <3> QED
      BY <2>2, <3>1, <3>2 DEF RuntimeFits
  <2> QED
    BY <2>1, <2>2
<1>15. CASE EndLoad(h)
  <2> DEFINE built == Built(table, localFile)
             dflt == IF built.dflt = None /\ table.up THEN table.prior ELSE built.dflt
  <2>1. /\ table' = [built EXCEPT !.up = TRUE, !.prior = None, !.dflt = dflt]
        /\ handler[h].pc = "build" /\ lock = h /\ Answer(h)
        /\ UNCHANGED <<llmFile, localFile, skew>>
    BY <1>1, <1>15 DEF EndLoad, HandlersLock, files
  <2>2. built \in Tables /\ built.dflt = table.dflt
    BY <1>1, BuiltFits
  <2> HIDE DEF built
  <2>3. table'.confs = built.confs /\ table'.clients = built.clients /\ table'.dflt = dflt
    BY <2>1, <2>2 DEF Tables
  <2>4. ASSUME Settled'
        PROVE  Broken(llmFile') = {} /\ Agrees(table', llmFile', localFile')
    <3>1. Settled
      <4>1. ~Pending(h)
        BY <2>1 DEF Pending
      <4>2. skew' = skew
        BY <2>1
      <4> QED
        BY <1>3, <1>4, <2>1, <2>4, <4>1, <4>2
    <3>2. /\ Broken(llmFile) = {} /\ table.confs = Listed(llmFile)
          /\ ~llmFile.torn => table.dflt = llmFile.default
      BY <1>1, <2>1, <3>1 DEF RuntimeFits
    <3>3. ~llmFile.torn /\ llmFile.default # None => table'.dflt = llmFile.default
      BY <2>2, <2>3, <3>2
    <3>4. Agrees(table', llmFile, localFile)
      BY <1>1, <2>3, <3>2, <3>3, BuiltAgrees DEF built
    <3> QED
      BY <2>1, <3>2, <3>4
  <2>5. \A g \in Handlers : handler'[g].pc # "build"
    BY <1>1, <1>3, <2>1 DEF HandlersLock
  <2> QED
    BY <2>4, <2>5 DEF RuntimeFits
<1>16. CASE BeginTest(h)
  <2>1. UNCHANGED <<llmFile, localFile, table, skew>> /\ handler[h].pc = "test"
    BY <1>16 DEF BeginTest, files
  <2>2. CASE Answer(h)
    BY <1>3, <1>5, <2>1, <2>2 DEF Pending
  <2>3. CASE ~Answer(h)
    <3>1. handler'[h].pc = "testing" /\ \A g \in Handlers \ {h} : handler'[g] = handler[g]
      BY <1>1, <1>16, <2>3 DEF BeginTest, Handlings
    <3> QED
      BY <1>5, <2>1, <3>1 DEF Pending
  <2> QED
    BY <2>2, <2>3
<1>17. CASE EndTest(h)
  <2>1. UNCHANGED <<llmFile, localFile, table, skew>> /\ handler[h].pc = "testing" /\ Answer(h)
    BY <1>17 DEF EndTest, files
  <2> QED
    BY <1>3, <1>5, <2>1 DEF Pending
<1>18. CASE TestPiece(h) \/ TakeTestPiece(h)
  <2>1. UNCHANGED <<llmFile, localFile, table, skew>> /\ handler[h].pc \in {"testing", "testPiece"}
    BY <1>18 DEF TestPiece, TakeTestPiece, files
  <2>2. handler'[h].pc \in {"testing", "testPiece"} /\ \A g \in Handlers \ {h} : handler'[g] = handler[g]
    BY <1>1, <1>18 DEF TestPiece, TakeTestPiece, Handlings
  <2> QED
    BY <1>5, <2>1, <2>2 DEF Pending
<1> QED
  BY <1>6, <1>7, <1>8, <1>9, <1>10, <1>11, <1>12, <1>13, <1>14, <1>15, <1>16, <1>17, <1>18
     DEF Works, HandlerStep, TimeOutTest

-----------------------------------------------------------------------------
(* The invariant holds.                                                    *)

LEMMA InitInv == Init => Inv
<1> SUFFICES ASSUME Init PROVE Inv
  OBVIOUS
<1>1. PICK old \in OldFiles : llmFile = old[1] /\ localFile = old[2]
  BY DEF Init
<1>2. llmFile \in Documents /\ localFile \in KeyFiles /\ DefaultFits(llmFile)
  BY <1>1, ConstantsAssumption DEF DefaultFits
<1>3. /\ table = Booted(llmFile, localFile) /\ lock = None
      /\ handler = [h \in Handlers |-> Resting] /\ call = [c \in Callers |-> Silent]
      /\ ops = 0 /\ upsets = 0 /\ skew = (Broken(llmFile) # {})
  BY DEF Init
<1>4. /\ table \in Tables /\ TableFits(table)
      /\ handler \in [Handlers -> Handlings] /\ call \in [Callers -> Calls]
      /\ \A h \in Handlers : handler[h].pc = "idle"
      /\ \A c \in Callers : call[c].pc = "idle" /\ call[c].got = "none" /\ call[c].key = NoKey
  BY <1>2, <1>3, StartIs, RestingIs
<1>5. Shape
  <2>1. skew \in BOOLEAN
    BY <1>3
  <2> QED
    BY <1>2, <1>3, <1>4, <2>1, ConstantsAssumption DEF Shape
<1>6. HandlersLock /\ HandlersFit /\ ChatsFit
  BY <1>4 DEF HandlersLock, HandlersFit, PlaceFits, AloneFits, ChatsFit, ChatFits, Running
<1>7. RuntimeFits
  <2>1. ~skew => Broken(llmFile) = {}
    BY <1>3
  <2>2. Agrees(table, llmFile, localFile)
    BY <1>3 DEF Agrees
  <2> QED
    BY <1>4, <2>1, <2>2 DEF RuntimeFits, Settled
<1> QED
  BY <1>2, <1>4, <1>5, <1>6, <1>7 DEF Inv

\* A restart finds files of the same shapes, and nobody under way.
LEMMA CrashKeeps ==
  ASSUME Inv, Crash
  PROVE  Inv'
<1>1. /\ llmFile \in Documents /\ localFile \in KeyFiles /\ DefaultFits(llmFile)
      /\ upsets \in 0 .. MaxUpsets /\ ops \in 0 .. MaxOps
  BY DEF Inv, Shape
<1>2. /\ table' = Booted(llmFile, localFile) /\ lock' = None
      /\ handler' = [h \in Handlers |-> Resting] /\ call' = [c \in Callers |-> Silent]
      /\ ops' = ops /\ skew' = (Broken(llmFile) # {})
      /\ llmFile' = llmFile /\ localFile' = localFile
      /\ upsets < MaxUpsets /\ upsets' = upsets + 1
  BY DEF Crash, Fails, files
<1>3. /\ table' \in Tables /\ TableFits(table')
      /\ handler' \in [Handlers -> Handlings] /\ call' \in [Callers -> Calls]
      /\ \A h \in Handlers : handler'[h].pc = "idle"
      /\ \A c \in Callers : call'[c].pc = "idle" /\ call'[c].got = "none" /\ call'[c].key = NoKey
  BY <1>1, <1>2, StartIs, RestingIs
<1>4. Shape'
  <2>1. skew' \in BOOLEAN
    BY <1>2
  <2>2. upsets' \in 0 .. MaxUpsets
    BY <1>1, <1>2, ConstantsAssumption
  <2> QED
    BY <1>1, <1>2, <1>3, <2>1, <2>2, ConstantsAssumption DEF Shape
<1>5. HandlersLock' /\ HandlersFit' /\ ChatsFit'
  BY <1>3 DEF HandlersLock, HandlersFit, PlaceFits, AloneFits, ChatsFit, ChatFits, Running
<1>6. RuntimeFits'
  <2>1. ~skew' => Broken(llmFile') = {}
    BY <1>2
  <2>2. Agrees(table', llmFile', localFile')
    BY <1>2 DEF Agrees
  <2> QED
    BY <1>3, <2>1, <2>2 DEF RuntimeFits, Settled
<1> QED
  BY <1>1, <1>2, <1>3, <1>4, <1>5, <1>6 DEF Inv

LEMMA StepInv ==
  ASSUME Inv, [Next]_vars
  PROVE  Inv'
<1>1. /\ Shape /\ TableFits(table) /\ DefaultFits(llmFile)
      /\ HandlersLock /\ ChatsFit /\ HandlersFit /\ RuntimeFits
  BY DEF Inv
<1>2. ASSUME NEW h \in Handlers, Accept(h) PROVE Inv'
  <2>1. /\ handler' \in [Handlers -> Handlings] /\ HandlersFit' /\ HandlersLock'
        /\ OthersGoOn /\ ops' \in 0 .. MaxOps
        /\ UNCHANGED <<files, table, lock, call, upsets, skew>>
    BY <1>1, <1>2, AcceptKeeps
  <2>2. /\ llmFile' = llmFile /\ localFile' = localFile /\ table' = table /\ lock' = lock
        /\ call' = call /\ upsets' = upsets /\ skew' = skew
    BY <2>1 DEF files
  <2>3. call' \in [Callers -> Calls] /\ ChatsFit'
    BY <1>1, <2>2, ChatsStand
  <2>4. RuntimeFits'
    <3>1. Settled' => Settled
      BY <2>1, <2>2 DEF Settled, Pending, OthersGoOn
    <3>2. \A g \in Handlers : handler'[g].pc = "build" <=> handler[g].pc = "build"
      BY <2>1 DEF OthersGoOn
    <3> QED
      BY <1>1, <2>2, <3>1, <3>2, RuntimeStands
  <2> QED
    BY <1>1, <2>1, <2>2, <2>3, <2>4 DEF Inv, Shape
<1>3. ASSUME NEW h \in Handlers, Works(h) PROVE Inv'
  <2>1. RuntimeFits'
    BY <1>3, WorkerRuntime
  <2>2. CASE \/ ReadDefault(h) \/ ReadKeys(h) \/ OpenLlm(h) \/ CloseLlm(h)
             \/ OpenLocal(h) \/ CloseLocal(h)
    <3>1. /\ handler' \in [Handlers -> Handlings] /\ HandlersFit'
          /\ llmFile' \in Documents /\ DefaultFits(llmFile') /\ localFile' \in KeyFiles
          /\ skew' \in BOOLEAN /\ upsets' \in 0 .. MaxUpsets
          /\ handler'[h].pc \notin {"build", "testing", "testPiece"}
          /\ \A g \in Handlers \ {h} : handler'[g] = handler[g]
          /\ UNCHANGED <<table, lock, call, ops>>
      BY <1>1, <2>2, EarlySteps
    <3>2. call' \in [Callers -> Calls] /\ ChatsFit'
      BY <1>1, <3>1, ChatsStand
    <3>3. HandlersLock'
      BY <1>1, <3>1 DEF HandlersLock
    <3>4. Shape'
      BY <1>1, <3>1, <3>2 DEF Shape
    <3> QED
      BY <1>1, <2>1, <3>1, <3>2, <3>3, <3>4 DEF Inv
  <2>3. CASE \/ SkipLoad(h) \/ WantInit(h) \/ SkipInit(h) \/ BeginLoad(h) \/ EndLoad(h)
             \/ BeginTest(h) \/ EndTest(h) \/ TestPiece(h) \/ TakeTestPiece(h)
    <3>1. WorkerKeeps /\ UNCHANGED <<files, ops, upsets>>
      BY <1>1, <2>3, LateSteps
    <3>2. llmFile' = llmFile /\ localFile' = localFile /\ ops' = ops /\ upsets' = upsets
      BY <3>1 DEF files
    <3>3. Shape'
      BY <1>1, <3>1, <3>2 DEF Shape, WorkerKeeps
    <3> QED
      BY <1>1, <2>1, <3>1, <3>2, <3>3 DEF Inv, WorkerKeeps
  <2> QED
    BY <1>3, <2>2, <2>3 DEF Works, HandlerStep, TimeOutTest
<1>4. ASSUME NEW c \in Callers, ChatActs(c) PROVE Inv'
  <2>1. /\ call' \in [Callers -> Calls] /\ ChatsFit' /\ HandlersLock'
        /\ lock' \in Handlers \union Callers \union {None}
        /\ UNCHANGED <<files, table, handler, ops, skew>> /\ upsets' \in 0 .. MaxUpsets
    BY <1>1, <1>4, ChatKeeps
  <2>2. /\ llmFile' = llmFile /\ localFile' = localFile /\ table' = table /\ handler' = handler
        /\ ops' = ops /\ skew' = skew
    BY <2>1 DEF files
  <2>3. HandlersFit'
    BY <1>1, <2>2, HandlersStand
  <2>4. RuntimeFits'
    BY <1>1, <2>2, RuntimeStands DEF Settled, Pending
  <2>5. Shape'
    BY <1>1, <2>1, <2>2 DEF Shape
  <2> QED
    BY <1>1, <2>1, <2>2, <2>3, <2>4, <2>5 DEF Inv
<1>5. CASE Crash
  BY <1>5, CrashKeeps
<1>6. CASE UNCHANGED vars
  <2>1. /\ llmFile' = llmFile /\ localFile' = localFile /\ table' = table /\ handler' = handler
        /\ ops' = ops /\ upsets' = upsets /\ skew' = skew /\ call' = call /\ lock' = lock
    BY <1>6 DEF vars
  <2>2. HandlersFit'
    BY <1>1, <2>1, HandlersStand
  <2>3. RuntimeFits'
    BY <1>1, <2>1, RuntimeStands DEF Settled, Pending
  <2>4. ChatsFit'
    BY <1>1, <2>1, ChatsStand
  <2>5. Shape' /\ HandlersLock'
    BY <1>1, <2>1 DEF Shape, HandlersLock
  <2> QED
    BY <1>1, <2>1, <2>2, <2>3, <2>4, <2>5 DEF Inv
<1> QED
  BY <1>2, <1>3, <1>4, <1>5, <1>6 DEF Next, ChatActs, Works

\* The inductive invariant holds throughout.
THEOREM Invariance == Spec => []Inv
BY InitInv, StepInv, PTL DEF Spec

-----------------------------------------------------------------------------
(* The files, the runtime and the pages.                                   *)

\* When requests come to rest and the last writes and loads succeeded, the facade is what a
\* restart would make of the files, the default is a provider, and the pages are told of
\* every provider whether it has a key.
THEOREM RuntimeFollows == Spec => []RuntimeFollowsFiles
<1>1. ASSUME Inv PROVE RuntimeFollowsFiles
  <2>1. /\ llmFile \in Documents /\ localFile \in KeyFiles /\ table \in Tables
        /\ handler \in [Handlers -> Handlings] /\ call \in [Callers -> Calls]
    BY <1>1 DEF Inv, Shape
  <2>2. TypeOK
    <3>1. \A h \in Handlers : handler[h].pc \in HandlerPcs /\ handler[h].llm \in Documents
                              /\ handler[h].local \in KeyFiles
      BY <2>1 DEF Handlings
    <3>2. \A c \in Callers : call[c].pc \in CallPcs /\ call[c].key \in Keys
      BY <2>1 DEF Calls
    <3>3. /\ DOMAIN table.confs \subseteq Providers /\ DOMAIN table.clients \subseteq Providers
          /\ table.dflt \in Providers \union {None} /\ table.up \in BOOLEAN
      BY <2>1, TableIs
    <3> QED
      BY <1>1, <3>1, <3>2, <3>3 DEF Inv, Shape, TypeOK
  <2>3. Busy = {} /\ ~skew /\ table.up =>
          Broken(llmFile) = {} /\ Agrees(table, llmFile, localFile)
    BY <1>1 DEF Inv, RuntimeFits, Settled, Pending, Busy
  <2>4. RuntimeMatchesFiles
    BY <2>3 DEF RuntimeMatchesFiles, Agrees
  <2>5. DefaultIsAProvider
    BY <1>1 DEF Inv, DefaultFits, DefaultIsAProvider
  <2>6. ListAgreesWithRuntime
    <3> SUFFICES ASSUME Busy = {} /\ ~skew /\ table.up, NEW p \in DOMAIN llmFile.of
                 PROVE  Masked(llmFile, localFile, p) <=> table.confs[p].key # NoKey
      BY DEF ListAgreesWithRuntime
    <3> DEFINE listed == WithDocument(Unloaded, llmFile)
               built == Built(listed, localFile)
    <3>1. Broken(llmFile) = {} /\ Agrees(table, llmFile, localFile)
      BY <2>3
    <3>2. /\ listed \in Tables /\ listed.confs = Listed(llmFile)
          /\ listed.dflt = IF llmFile.torn THEN None ELSE llmFile.default
          /\ table.confs = built.confs
      BY <2>1, <3>1, BootedFits DEF Agrees
    <3>3. p \in DOMAIN listed.confs /\ p \in Providers
      BY <2>1, <3>1, <3>2, ListedIs, DocumentIs
    <3> HIDE DEF listed
    <3>4. table.confs[p].key = KeyLoaded(listed, localFile, p)
      <4>1. built.confs[p] = [kind |-> listed.confs[p].kind, key |-> KeyLoaded(listed, localFile, p),
                              avail |-> Configured(p, listed.confs[p].kind, KeyLoaded(listed, localFile, p))]
        BY <2>1, <3>2, <3>3, BuiltFits, Zenon
      <4> QED
        BY <3>2, <4>1
    <3>5. ~llmFile.torn
      BY <2>1, DocumentIs DEF CutDocument, NoDocument, Empty
    <3>6. /\ localFile.legacy \in {NoKey, LegacyKey}
          /\ p \in DOMAIN localFile.of => localFile.of[p] \in KeysOf(p)
      BY <2>1, KeyFileIs
    <3>7. NoKey \notin KeysOf(p)
      BY <3>3, ConstantsAssumption DEF NoKey, KeysOf, None
    <3> QED
      BY <3>2, <3>4, <3>5, <3>6, <3>7 DEF KeyLoaded, Masked
  <2> QED
    BY <2>2, <2>4, <2>5, <2>6 DEF RuntimeFollowsFiles
<1> QED
  BY <1>1, Invariance, PTL

-----------------------------------------------------------------------------
(* The chats obey their cancels.                                           *)

\* A chat whose flag is set goes nowhere near the service, and takes no answer home.
Obeys(c) ==
  call[c].flag /\ call[c].pc # "done" =>
    /\ call[c].pc \in {"asking", "registered"} => call'[c].pc \notin {"posting", "inflight"}
    /\ call'[c].got \in {"ok", "part", "mock"} => call'[c].pc = "returned"

\* A chat that stays as it is, but for what it is told of the table and of its flag, obeys.
LEMMA StandingObeys ==
  ASSUME ChatsFit, NEW c \in Callers, call'[c].pc = call[c].pc, call'[c].got = call[c].got
  PROVE  Obeys(c)
BY DEF ChatsFit, ChatFits, Obeys

\* A chat that ends with another answer than a model's obeys.
LEMMA EndObeys ==
  ASSUME Shape, NEW c \in Callers, NEW got \in {"error", "cancelled", "failed", "unconfigured"},
         Ends(c, got)
  PROVE  Obeys(c)
<1> DEFINE rec == [Silent EXCEPT !.pc = "done", !.got = got,
                                         !.changed = got = "mock" /\ call[c].changed]
<1>1. call' = [call EXCEPT ![c] = rec]
  BY DEF Ends, Becomes
<1>2. rec.pc = "done" /\ rec.got = got
  BY DEF Silent
<1> HIDE DEF rec
<1>3. call'[c].pc = "done" /\ call'[c].got = got
  BY <1>1, <1>2 DEF Shape
<1> QED
  BY <1>3 DEF Obeys

\* So does one that goes elsewhere than to the service and has no answer yet.
LEMMA MoveObeys ==
  ASSUME Shape, ChatsFit, NEW c \in Callers, NEW rec, Becomes(c, rec),
         \/ rec.pc = "returned"
         \/ rec.got = call[c].got /\ call[c].pc \notin {"returned", "done"}
            /\ (rec.pc \in {"posting", "inflight"} => call[c].pc \notin {"asking", "registered"})
  PROVE  Obeys(c)
<1>1. call'[c] = rec
  BY DEF Becomes, Shape
<1>2. call[c].pc \notin {"returned", "done"} => call[c].got = "none"
  BY DEF ChatsFit, ChatFits
<1> QED
  BY <1>1, <1>2 DEF Obeys

\* The steps of a chat.
LEMMA ActingObeys ==
  ASSUME Inv, NEW c \in Callers, ChatActs(c), call[c].flag
  PROVE  Obeys(c)
<1>1. Shape /\ ChatsFit /\ call[c] \in Calls
  BY DEF Inv, Shape
<1>2. CASE Ask(c)
  <2>1. CASE SomeAvailable(table)
    <3>1. /\ Becomes(c, [call[c] EXCEPT !.pc = "asking"]) /\ call[c].pc = "idle"
          /\ [call[c] EXCEPT !.pc = "asking"].pc = "asking"
          /\ [call[c] EXCEPT !.pc = "asking"].got = call[c].got
      BY <1>1, <1>2, <2>1 DEF Ask, Calls
    <3> QED
      BY <1>1, <3>1, MoveObeys
  <2>2. CASE ~SomeAvailable(table)
    BY <1>1, <1>2, <2>2, EndObeys DEF Ask
  <2> QED
    BY <2>1, <2>2
<1>11. ASSUME NEW got, Returned(c, got) PROVE Obeys(c)
  <2> DEFINE rec == [call[c] EXCEPT !.pc = "returned", !.got = got, !.text = FALSE,
                                    !.stop = IF @ = "shut" THEN "none" ELSE @]
  <2>1. rec.pc = "returned" /\ Becomes(c, rec)
    BY <1>1, <1>11 DEF Calls, Returned
  <2> HIDE DEF rec
  <2> QED
    BY <1>1, <2>1, MoveObeys
<1>12. ASSUME BreaksOff(c) PROVE Obeys(c)
  BY <1>11, <1>12 DEF BreaksOff
<1>3. CASE Respond(c) \/ TimeOut(c) \/ SocketShut(c)
  BY <1>3, <1>11, <1>12 DEF Respond, TimeOut, SocketShut
<1>4. ASSUME NEW wanted, TakeLock(c, wanted) PROVE Obeys(c)
  <2>1. Ends(c, "unconfigured") \/ Ends(c, "cancelled")
    BY <1>4 DEF TakeLock
  <2> QED
    BY <1>1, <2>1, EndObeys
<1>5. CASE Post(c)
  <2>1. Ends(c, "cancelled")
    BY <1>5 DEF Post
  <2> QED
    BY <1>1, <2>1, EndObeys
<1>6. CASE Connect(c)
  <2>1. /\ Becomes(c, [call[c] EXCEPT !.pc = "inflight"]) /\ call[c].pc = "posting"
        /\ [call[c] EXCEPT !.pc = "inflight"].got = call[c].got
    BY <1>1, <1>6 DEF Connect, Calls
  <2> QED
    BY <1>1, <2>1, MoveObeys
<1>7. CASE SendPiece(c) \/ TakePiece(c)
  <2>1. CASE SendPiece(c)
    <3>1. /\ Becomes(c, [call[c] EXCEPT !.pc = "piece"]) /\ call[c].pc = "inflight"
          /\ [call[c] EXCEPT !.pc = "piece"].got = call[c].got
          /\ [call[c] EXCEPT !.pc = "piece"].pc = "piece"
      BY <1>1, <2>1 DEF SendPiece, Calls
    <3> QED
      BY <1>1, <3>1, MoveObeys
  <2>2. CASE TakePiece(c)
    <3>1. /\ call[c].pc = "piece"
          /\ Becomes(c, [call[c] EXCEPT !.pc = "inflight"]) \/ BreaksOff(c)
          /\ [call[c] EXCEPT !.pc = "inflight"].got = call[c].got
      BY <1>1, <2>2 DEF TakePiece, Calls
    <3> QED
      BY <1>1, <1>12, <3>1, MoveObeys
  <2> QED
    BY <1>7, <2>1, <2>2
<1>8. CASE Finish(c)
  <2>1. Ends(c, "cancelled")
    BY <1>8 DEF Finish, Outcome
  <2> QED
    BY <1>1, <2>1, EndObeys
<1>9. CASE StopRequests(c)
  <2> DEFINE stop == IF call[c].pc \in {"inflight", "piece"} THEN "shut" ELSE "none"
  <2>1. call' = [call EXCEPT ![c] = [call[c] EXCEPT !.stop = stop]]
    BY <1>9 DEF StopRequests, Becomes
  <2>2. call'[c].pc = call[c].pc /\ call'[c].got = call[c].got
    BY <1>1, <2>1 DEF Shape, Calls
  <2> QED
    BY <1>1, <2>2, StandingObeys
<1>10. ~SetFlag(c)
  BY DEF SetFlag
<1>13. CASE LowerFlag(c)
  <2>1. call' = [call EXCEPT ![c] = [call[c] EXCEPT !.flag = FALSE]]
    BY <1>13 DEF LowerFlag, Becomes
  <2>2. call'[c].pc = call[c].pc /\ call'[c].got = call[c].got
    BY <1>1, <2>1 DEF Shape, Calls
  <2> QED
    BY <1>1, <2>2, StandingObeys
<1> QED
  BY <1>2, <1>3, <1>4, <1>5, <1>6, <1>7, <1>8, <1>9, <1>10, <1>13 DEF ChatActs, CallStep, Served

\* Every step of the system.
LEMMA ChatsObey ==
  ASSUME Inv, [Next]_vars, NEW c \in Callers
  PROVE  Obeys(c)
<1>1. Shape /\ ChatsFit /\ call[c] \in Calls
  BY DEF Inv, Shape
<1>2. ASSUME NEW d \in Callers, ChatActs(d), call[c].flag PROVE Obeys(c)
  <2>1. CASE d = c
    BY <1>2, <2>1, ActingObeys
  <2>2. CASE d # c
    <3>1. \E rec : call' = [call EXCEPT ![d] = rec]
      BY <1>2 DEF ChatActs, CallStep, Served, Ask, SetFlag, LowerFlag, Respond, SendPiece, TakePiece, TakeLock, Register,
                  Post, Connect, TimeOut, SocketShut, Finish, StopRequests, Returned, BreaksOff, Ends, Becomes
    <3>2. call'[c] = call[c]
      BY <1>1, <2>2, <3>1 DEF Shape
    <3> QED
      BY <1>1, <3>2, StandingObeys
  <2> QED
    BY <2>1, <2>2
<1>3. CASE TableChanges
  <2>1. call'[c] = [call[c] EXCEPT !.changed = @ \/ call[c].pc = "asking"]
    BY <1>3 DEF TableChanges
  <2>2. call'[c].pc = call[c].pc /\ call'[c].got = call[c].got
    BY <1>1, <2>1 DEF Calls
  <2> QED
    BY <1>1, <2>2, StandingObeys
<1>4. CASE call' = call
  BY <1>1, <1>4, StandingObeys
<1>5. CASE Crash
  <2>1. call'[c].got = "none"
    BY <1>5, StartIs DEF Crash, Silent
  <2>2. call'[c].pc = "idle"
    BY <1>5, StartIs DEF Crash, Silent
  <2> QED
    BY <2>1, <2>2 DEF Obeys
<1>6. ASSUME NEW h \in Handlers, Works(h) PROVE TableChanges \/ call' = call
  BY <1>6 DEF Works, HandlerStep, TimeOutTest, ReadDefault, ReadKeys, OpenLlm, CloseLlm, OpenLocal, CloseLocal, SkipLoad, WantInit, SkipInit,
              BeginLoad, EndLoad, BeginTest, EndTest, TestPiece, TakeTestPiece
<1>7. ASSUME NEW h \in Handlers, Accept(h) PROVE call' = call
  BY <1>7 DEF Accept
<1>8. CASE ~call[c].flag
  BY <1>8 DEF Obeys
<1>9. CASE UNCHANGED vars
  BY <1>4, <1>9 DEF vars
<1> QED
  BY <1>2, <1>3, <1>4, <1>5, <1>6, <1>7, <1>8, <1>9 DEF Next, ChatActs, Works

\* A chat stays with its provider, key and client through reloads, is answered by a model
\* unless the table changed under it, and obeys its cancel at every step.
THEOREM ChatsAreTrue == Spec => ChatIsTrue
<1>1. ASSUME Inv PROVE OwnKeyOnly /\ MockOnlyAfterChange /\ ClientOutlivesChat
  <2>1. OwnKeyOnly
    BY <1>1 DEF Inv, ChatsFit, ChatFits, TableFits, OwnKeyOnly
  <2>2. MockOnlyAfterChange
    BY <1>1 DEF Inv, ChatsFit, ChatFits, MockOnlyAfterChange
  <2>3. ClientOutlivesChat
    BY <1>1 DEF Inv, ChatsFit, ChatFits, Running, ClientOutlivesChat
  <2> QED
    BY <2>1, <2>2, <2>3
<1>2. ASSUME Inv, [Next]_vars
      PROVE  [\A c \in Callers : Obeys(c)]_vars
  BY <1>2, ChatsObey
<1>3. [][\A c \in Callers : Obeys(c)]_vars <=> CancelWins
  BY DEF Obeys, CancelWins
<1> QED
  BY <1>1, <1>2, <1>3, Invariance, PTL DEF Spec, ChatIsTrue

-----------------------------------------------------------------------------
(* What a request that met no other has done when it is answered.          *)

\* Such a request is answered with success at the end of its load, or without one by a facade
\* that never came up.
LEMMA SucceededIs ==
  ASSUME Inv, [Next]_vars, NEW h \in Handlers, handler[h].alone, Succeeded(h)
  PROVE  EndLoad(h) \/ SkipLoad(h)
<1>1. Shape
  BY DEF Inv
<1>0. handler[h].pc = "init" => ~table.up
  BY DEF Inv, HandlersFit, AloneFits
<1>2. ASSUME NEW g \in Handlers, Works(g) PROVE EndLoad(h) \/ SkipLoad(h)
  <2>1. CASE g = h
    <3>1. CASE BeginLoad(h)
      <4>1. CASE Broken(llmFile) # {}
        BY <3>1, <4>1 DEF BeginLoad, Succeeded
      <4>2. CASE Broken(llmFile) = {}
        <5>1. handler' = [handler EXCEPT ![h].pc = "build"]
          BY <3>1, <4>2 DEF BeginLoad
        <5>2. handler'[h].pc = "build"
          BY <1>1, <5>1 DEF Shape, Handlings
        <5> QED
          BY <5>2 DEF Succeeded
      <4> QED
        BY <4>1, <4>2
    <3>2. CASE CloseLocal(h)
      <4>1. handler'[h].pc = "load"
        BY <1>1, <3>2 DEF CloseLocal, Closed, CutShort, Shape, Handlings
      <4> QED
        BY <4>1 DEF Succeeded
    <3>3. CASE WantInit(h)
      <4>1. handler'[h].pc = "init"
        BY <1>1, <3>3 DEF WantInit, Shape, Handlings
      <4> QED
        BY <4>1 DEF Succeeded
    <3>4. ~SkipInit(h)
      BY <1>0 DEF SkipInit
    <3> QED
      BY <1>2, <2>1, <3>1, <3>2, <3>3, <3>4 DEF Works, HandlerStep, TimeOutTest, ReadDefault, ReadKeys, OpenLlm, CloseLlm,
            OpenLocal, BeginTest, EndTest, TestPiece, TakeTestPiece, Succeeded
  <2>2. CASE g # h
    <3>1. handler' = handler \/ \E rec : handler' = [handler EXCEPT ![g] = rec]
      BY <1>2 DEF Works, HandlerStep, TimeOutTest, ReadDefault, ReadKeys, OpenLlm, CloseLlm, Closed, CutShort, OpenLocal,
                  CloseLocal, SkipLoad, WantInit, SkipInit, BeginLoad, EndLoad, BeginTest, EndTest, TestPiece,
                  TakeTestPiece, Answer
    <3>2. handler'[h] = handler[h]
      BY <1>1, <2>2, <3>1 DEF Shape
    <3> QED
      BY <3>2 DEF Succeeded
  <2> QED
    BY <2>1, <2>2
<1>3. ASSUME NEW g \in Handlers, Accept(g) PROVE FALSE
  <2>1. OthersGoOn
    BY <1>3, AcceptKeeps DEF Inv
  <2> QED
    BY <2>1 DEF OthersGoOn, Succeeded
<1>4. ASSUME NEW c \in Callers, ChatActs(c) PROVE FALSE
  <2>1. handler' = handler
    BY <1>4, ChatKeeps DEF Inv
  <2> QED
    BY <2>1 DEF Succeeded
<1>5. ~Crash
  <2>1. upsets \in Int
    BY <1>1, ConstantsAssumption DEF Shape
  <2> QED
    BY <2>1 DEF Crash, Fails, Succeeded
<1>6. ~ UNCHANGED vars
  BY DEF vars, Succeeded
<1> QED
  BY <1>2, <1>3, <1>4, <1>5, <1>6 DEF Next, ChatActs, Works

\* Before that the files are what it wants.
LEMMA AloneIsWritten ==
  ASSUME Inv, NEW h \in Handlers, handler[h].pc \in {"load", "build"}, handler[h].alone
  PROVE  /\ handler[h].req \in Requests /\ handler[h].req.op # "test"
         /\ handler[h].before \in Documents \X KeyFiles
         /\ handler[h].req.op \in {"add", "update", "delete"} => ~Refused(handler[h].before[1], handler[h].req)
         /\ llmFile = WantedDocument(h) /\ localFile = WantedKeys(h)
<1>1. PlaceFits(h) /\ AloneFits(h) /\ handler[h] \in Handlings
  BY DEF Inv, HandlersFit, Shape
<1> QED
  BY <1>1 DEF PlaceFits, AloneFits, Handlings

\* By then the files are what it wants, and the table is built from them.
LoadedFrom(doc, keys) ==
  /\ table'.confs \in [DOMAIN doc.of -> Configurations] /\ DOMAIN table'.clients = DOMAIN doc.of
  /\ \A p \in DOMAIN doc.of :
       /\ table'.confs[p].kind = doc.of[p]
       /\ p \in DOMAIN keys.of =>
            /\ table'.confs[p].key = keys.of[p]
            /\ table'.confs[p].avail <=> Configured(p, doc.of[p], keys.of[p])
  /\ doc.default # None => table'.dflt = doc.default

LEMMA AloneIsLoaded ==
  ASSUME Inv, NEW h \in Handlers, EndLoad(h), handler[h].alone
  PROVE  /\ handler[h].req \in Requests /\ handler[h].req.op # "test"
         /\ handler[h].before \in Documents \X KeyFiles
         /\ handler[h].req.op \in {"add", "update", "delete"} => ~Refused(handler[h].before[1], handler[h].req)
         /\ llmFile = WantedDocument(h) /\ localFile = WantedKeys(h)
         /\ LoadedFrom(llmFile, localFile)
<1> DEFINE built == Built(table, localFile)
           dflt == IF built.dflt = None /\ table.up THEN table.prior ELSE built.dflt
<1>1. /\ llmFile \in Documents /\ localFile \in KeyFiles /\ table \in Tables
      /\ handler[h] \in Handlings
  BY DEF Inv, Shape
<1>2. PlaceFits(h) /\ AloneFits(h) /\ handler[h].pc = "build"
  BY DEF Inv, HandlersFit, EndLoad
<1>3. /\ handler[h].req \in Requests /\ handler[h].req.op # "test"
      /\ handler[h].req.op \in {"add", "update", "delete"} => ~Refused(handler[h].before[1], handler[h].req)
      /\ llmFile = WantedDocument(h) /\ localFile = WantedKeys(h)
      /\ ~skew /\ \A g \in Handlers \ {h} : handler[g].pc = "idle"
  BY <1>2 DEF PlaceFits, AloneFits
<1>4. handler[h].before \in Documents \X KeyFiles
  BY <1>1 DEF Handlings
<1>5. Settled
  BY <1>2, <1>3 DEF Settled, Pending
<1>6. /\ Broken(llmFile) = {} /\ table.confs = Listed(llmFile)
      /\ ~llmFile.torn => table.dflt = llmFile.default
  BY <1>2, <1>5 DEF Inv, RuntimeFits
<1>7. /\ DOMAIN table.confs = DOMAIN llmFile.of
      /\ \A p \in DOMAIN llmFile.of : table.confs[p].kind = llmFile.of[p]
  BY <1>1, <1>6, ListedIs
<1>8. /\ built \in Tables /\ built.dflt = table.dflt
      /\ DOMAIN built.confs = DOMAIN llmFile.of /\ DOMAIN built.clients = DOMAIN llmFile.of
  BY <1>1, <1>7, BuiltFits
<1>9. ASSUME NEW p \in DOMAIN llmFile.of
      PROVE  /\ built.confs[p].kind = llmFile.of[p]
             /\ p \in DOMAIN localFile.of =>
                  /\ built.confs[p].key = localFile.of[p]
                  /\ built.confs[p].avail <=> Configured(p, llmFile.of[p], localFile.of[p])
  <2> DEFINE key == KeyLoaded(table, localFile, p)
  <2>1. p \in DOMAIN table.confs /\ table.confs[p].kind = llmFile.of[p]
    BY <1>7
  <2>2. built.confs[p] = [kind |-> table.confs[p].kind, key |-> key,
                          avail |-> Configured(p, table.confs[p].kind, key)]
    BY <1>1, <2>1, BuiltFits, Zenon
  <2>3. p \in DOMAIN localFile.of => key = localFile.of[p]
    BY DEF KeyLoaded
  <2> HIDE DEF key, built
  <2>4. /\ built.confs[p].kind = llmFile.of[p] /\ built.confs[p].key = key
        /\ built.confs[p].avail = Configured(p, llmFile.of[p], key)
    BY <2>1, <2>2
  <2> QED
    BY <2>3, <2>4, Zenon
<1>10. table' = [built EXCEPT !.up = TRUE, !.prior = None, !.dflt = dflt]
  BY DEF EndLoad
<1> HIDE DEF built
<1>11. table'.confs = built.confs /\ table'.clients = built.clients /\ table'.dflt = dflt
  BY <1>8, <1>10 DEF Tables
<1>12. llmFile.default # None => table'.dflt = llmFile.default
  <2>1. llmFile.torn => llmFile.default = None
    BY <1>1, DocumentIs DEF CutDocument, NoDocument
  <2> QED
    BY <1>6, <1>8, <1>11, <2>1
<1>13. table'.confs \in [DOMAIN llmFile.of -> Configurations]
  BY <1>8, <1>11, TableIs
<1>14. LoadedFrom(llmFile, localFile)
  BY <1>8, <1>9, <1>11, <1>12, <1>13 DEF LoadedFrom
<1> QED
  BY <1>3, <1>4, <1>14


\* What each request makes of the files it has found: its own entry, its own key.
LEMMA OwnEntry ==
  ASSUME NEW doc \in Documents, NEW r \in Requests, r.op \in {"add", "update", "delete"}, ~Refused(doc, r)
  PROVE  LET new == Changed(doc, r) IN
         /\ r.op \in {"add", "update"} => new.of = Put(doc.of, r.p, r.entry)
         /\ r.op = "delete" => new.of = Drop(doc.of, r.p)
         /\ r.first => new.default = r.p
<1>1. doc \in [torn : BOOLEAN, default : Providers \union {None}, of : Partial(Providers, EntryKinds)]
  BY DEF Documents
<1>2. r.first => r.op = "update"
  BY RequestIs
<1>3. CASE r.op = "add"
  BY <1>1, <1>2, <1>3 DEF Changed
<1>4. CASE r.op = "update"
  BY <1>1, <1>4 DEF Changed
<1>5. CASE r.op = "delete"
  BY <1>1, <1>2, <1>5 DEF Changed, AfterDelete
<1> QED
  BY <1>3, <1>4, <1>5

LEMMA OwnKey ==
  ASSUME NEW doc \in Documents, NEW keys \in KeyFiles, NEW r \in Requests,
         NEW new, new = KeysFor(<<doc, keys>>, r),
         NEW p, p = IF r.p = None THEN doc.default ELSE r.p
  PROVE  /\ r.op = "delete" => new.of = Drop(keys.of, p)
         /\ r.op \in {"add", "update"} => new.of = IF r.key = NoKey THEN keys.of ELSE Put(keys.of, p, r.key)
         /\ r.op = "keys" /\ r.p # None => new.of = IF r.key = NoKey THEN keys.of ELSE Put(keys.of, p, r.key)
         /\ r.op = "keys" /\ r.p = None =>
              new.of = IF p = None THEN keys.of ELSE Put(keys.of, p, <<p, r.key[2]>>)
         /\ r.op \in {"document", "test"} => new.of = keys.of
<1>1. keys \in [torn : BOOLEAN, legacy : {NoKey, LegacyKey}, of : Partial(Providers, Keys)]
  BY DEF KeyFiles
<1>2. /\ r.op \in Ops /\ (r.p = None => r.op = "keys" /\ r.key # NoKey)
  BY RequestIs
<1>3. CASE r.op \in {"add", "update", "delete"}
  BY <1>1, <1>2, <1>3 DEF KeysFor, KeysAfter
<1>4. CASE r.op = "keys"
  BY <1>1, <1>2, <1>4 DEF KeysFor
<1>5. CASE r.op \in {"document", "test"}
  BY <1>1, <1>5 DEF KeysFor
<1> QED
  BY <1>2, <1>3, <1>4, <1>5 DEF Ops

\* A request that met no other, and is answered at the end of its load, is in force.
LEMMA InForceIs ==
  ASSUME Inv, NEW h \in Handlers, EndLoad(h), handler[h].alone
  PROVE  InForce(handler[h].before, handler[h].req)
<1> DEFINE r == handler[h].req
           doc == handler[h].before[1]
           keys == handler[h].before[2]
<1>1. /\ r \in Requests /\ r.op # "test" /\ doc \in Documents /\ keys \in KeyFiles
      /\ handler[h].before = <<doc, keys>>
      /\ r.op \in {"add", "update", "delete"} => ~Refused(doc, r)
      /\ llmFile = WantedDocument(h) /\ localFile = WantedKeys(h) /\ LoadedFrom(llmFile, localFile)
  BY AloneIsLoaded
<1>2. /\ r.op \in Ops /\ r.p \in Providers \union {None} /\ r.entry \in EntryKinds
      /\ r.p = None => r.op = "keys" /\ r.key # NoKey
      /\ r.key # NoKey => r.op \notin {"delete", "document"}
      /\ r.first => r.op = "update"
      /\ r.op \in {"add", "update"} => r.entry # "blank"
      /\ r.op = "add" => r.entry # "broken"
  BY <1>1, RequestIs
<1>3. /\ r.op \in {"add", "update"} => llmFile.of = Put(doc.of, r.p, r.entry)
      /\ r.op = "delete" => llmFile.of = Drop(doc.of, r.p)
      /\ r.op \in {"add", "update", "delete"} /\ r.first => llmFile.default = r.p
  BY <1>1, OwnEntry DEF WantedDocument
<1>4. /\ r.op = "document" => llmFile = NewDocument(r)
      /\ r.op = "keys" => llmFile = doc
  BY <1>1, <1>2 DEF WantedDocument
<1>5. localFile = KeysFor(<<doc, keys>>, r)
  BY <1>1 DEF WantedKeys
<1>6. /\ r.op \in {"add", "update"} => localFile.of = IF r.key = NoKey THEN keys.of ELSE Put(keys.of, r.p, r.key)
      /\ r.op = "keys" /\ r.p # None => localFile.of = IF r.key = NoKey THEN keys.of ELSE Put(keys.of, r.p, r.key)
  <2> DEFINE p == IF r.p = None THEN doc.default ELSE r.p
  <2>1. r.op \in {"add", "update"} \/ (r.op = "keys" /\ r.p # None) => p = r.p
    BY <1>2
  <2> HIDE DEF r, doc, keys, p
  <2>2. /\ r.op = "delete" => localFile.of = Drop(keys.of, p)
        /\ r.op \in {"add", "update"} => localFile.of = IF r.key = NoKey THEN keys.of ELSE Put(keys.of, p, r.key)
        /\ r.op = "keys" /\ r.p # None => localFile.of = IF r.key = NoKey THEN keys.of ELSE Put(keys.of, p, r.key)
        /\ r.op = "keys" /\ r.p = None =>
             localFile.of = IF p = None THEN keys.of ELSE Put(keys.of, p, <<p, r.key[2]>>)
        /\ r.op \in {"document", "test"} => localFile.of = keys.of
    BY <1>1, <1>5, OwnKey DEF p
  <2> QED
    BY <2>1, <2>2
<1>7. /\ DOMAIN table'.confs = DOMAIN llmFile.of /\ DOMAIN table'.clients = DOMAIN llmFile.of
      /\ \A p \in DOMAIN llmFile.of :
           /\ table'.confs[p].kind = llmFile.of[p]
           /\ p \in DOMAIN localFile.of =>
                /\ table'.confs[p].key = localFile.of[p]
                /\ table'.confs[p].avail <=> Configured(p, llmFile.of[p], localFile.of[p])
      /\ llmFile.default # None => table'.dflt = llmFile.default
  BY <1>1 DEF LoadedFrom
<1>8. None \notin Providers
  BY ConstantsAssumption DEF None
<1> HIDE DEF r, doc, keys
<1>9. CASE r.op = "add"
  <2>1. r.key # NoKey /\ r.p # None
    BY <1>1, <1>2, <1>9 DEF Refused
  <2>2. r.p \in DOMAIN llmFile.of /\ llmFile.of[r.p] = r.entry
    BY <1>3, <1>9 DEF Put
  <2>3. r.p \in DOMAIN localFile.of /\ localFile.of[r.p] = r.key
    BY <1>6, <1>9, <2>1 DEF Put
  <2>4. Configured(r.p, r.entry, r.key)
    BY <1>2, <1>9, <2>1 DEF Configured, KeyUsed, EntryKinds
  <2>5. /\ r.p \in DOMAIN table'.confs /\ table'.confs[r.p].key = r.key /\ table'.confs[r.p].avail
    BY <1>7, <2>2, <2>3, <2>4
  <2> QED
    BY <1>9, <2>5 DEF InForce, r
<1>10. CASE r.op = "update"
  <2>1. r.p # None
    BY <1>2, <1>10
  <2>2. r.p \in DOMAIN llmFile.of /\ llmFile.of[r.p] = r.entry
    BY <1>3, <1>10 DEF Put
  <2>3. r.p \in DOMAIN table'.confs /\ table'.confs[r.p].kind = r.entry
    BY <1>7, <2>2
  <2>4. r.first => table'.dflt = r.p
    BY <1>3, <1>7, <1>10, <2>1
  <2>5. r.key = NoKey => (r.p \in DOMAIN keys.of => table'.confs[r.p].key = keys.of[r.p])
    BY <1>6, <1>7, <1>10, <2>2
  <2>6. r.key # NoKey => table'.confs[r.p].key = r.key
    <3> SUFFICES ASSUME r.key # NoKey PROVE table'.confs[r.p].key = r.key
      OBVIOUS
    <3>1. r.p \in DOMAIN localFile.of /\ localFile.of[r.p] = r.key
      BY <1>6, <1>10 DEF Put
    <3> QED
      BY <1>7, <2>2, <3>1
  <2> QED
    BY <1>10, <2>3, <2>4, <2>5, <2>6 DEF InForce, r, keys
<1>11. CASE r.op = "delete"
  <2>1. r.p \notin DOMAIN llmFile.of
    BY <1>3, <1>11 DEF Drop, Restrict
  <2>2. r.p \notin DOMAIN table'.confs /\ r.p \notin DOMAIN table'.clients
    BY <1>7, <2>1
  <2> QED
    BY <1>11, <2>2 DEF InForce, r
<1>12. CASE r.op = "keys"
  <2>1. r.p \in DOMAIN table'.confs /\ r.key # NoKey => table'.confs[r.p].key = r.key
    <3> SUFFICES ASSUME r.p \in DOMAIN table'.confs, r.key # NoKey PROVE table'.confs[r.p].key = r.key
      OBVIOUS
    <3>1. DOMAIN llmFile.of \subseteq Providers /\ r.p \in DOMAIN llmFile.of
      BY <1>1, <1>4, <1>7, <1>12, DocumentIs
    <3>2. r.p # None
      BY <1>8, <3>1
    <3>3. r.p \in DOMAIN localFile.of /\ localFile.of[r.p] = r.key
      BY <1>6, <1>12, <3>2 DEF Put
    <3> QED
      BY <1>7, <3>1, <3>3
  <2> QED
    BY <1>12, <2>1 DEF InForce, r
<1>13. CASE r.op = "document"
  <2>1. r.p # None
    BY <1>2, <1>13
  <2>2. DOMAIN llmFile.of = {r.p} /\ llmFile.default = r.p
    <3>1. DOMAIN NewDocument(r).of = {r.p}
      BY <1>1, <1>13, NewDocumentIs
    <3>2. NewDocument(r).default = r.p
      BY DEF NewDocument
    <3> QED
      BY <1>4, <1>13, <3>1, <3>2
  <2>3. DOMAIN table'.confs = {r.p} /\ table'.dflt = r.p
    BY <1>7, <2>1, <2>2
  <2> QED
    BY <1>13, <2>3 DEF InForce, r
<1> QED
  BY <1>1, <1>2, <1>9, <1>10, <1>11, <1>12, <1>13 DEF Ops, r

\* It leaves the entries and the keys of the other providers as it has found them.
LEMMA PutKeepsOthers ==
  ASSUME NEW f, NEW k, NEW v, NEW q, q # k
  PROVE  SameAt(f, Put(f, k, v), q) /\ SameAt(f, Drop(f, k), q) /\ SameAt(f, f, q)
<1>1. SameAt(f, Put(f, k, v), q)
  BY DEF Put, SameAt
<1>2. SameAt(f, Drop(f, k), q)
  BY DEF Drop, Restrict, SameAt
<1>3. SameAt(f, f, q)
  BY DEF SameAt
<1> QED
  BY <1>1, <1>2, <1>3

LEMMA OthersAreKept ==
  ASSUME Inv, NEW h \in Handlers, handler[h].pc \in {"load", "build"}, handler[h].alone, NEW q \in Providers,
         q # Target(handler[h].before, handler[h].req)
  PROVE  /\ handler[h].req.op # "document" => SameAt(handler[h].before[1].of, llmFile.of, q)
         /\ SameAt(handler[h].before[2].of, localFile.of, q)
<1> DEFINE r == handler[h].req
           doc == handler[h].before[1]
           keys == handler[h].before[2]
           p == IF r.p = None THEN doc.default ELSE r.p
<1>1. /\ r \in Requests /\ r.op # "test" /\ doc \in Documents /\ keys \in KeyFiles
      /\ handler[h].before = <<doc, keys>>
      /\ r.op \in {"add", "update", "delete"} => ~Refused(doc, r)
      /\ llmFile = WantedDocument(h) /\ localFile = WantedKeys(h)
  BY AloneIsWritten
<1>2. r.op \in Ops /\ (r.p = None => r.op = "keys")
  BY <1>1, RequestIs
<1>3. r.op # "document" => SameAt(doc.of, llmFile.of, q)
  <2>1. CASE r.op \in {"add", "update", "delete"}
    <3>1. q # r.p
      BY <1>2, <2>1 DEF Target
    <3>2. llmFile.of = Put(doc.of, r.p, r.entry) \/ llmFile.of = Drop(doc.of, r.p)
      BY <1>1, <2>1, OwnEntry DEF WantedDocument
    <3> HIDE DEF r, doc
    <3> QED
      BY <3>1, <3>2, PutKeepsOthers
  <2>2. CASE r.op = "keys"
    BY <1>1, <2>2, PutKeepsOthers DEF WantedDocument
  <2> QED
    BY <1>1, <1>2, <2>1, <2>2 DEF Ops
<1>4. SameAt(keys.of, localFile.of, q)
  <2>1. localFile = KeysFor(<<doc, keys>>, r)
    BY <1>1 DEF WantedKeys
  <2>2. q # p
    BY DEF Target
  <2>3. \/ localFile.of = keys.of \/ localFile.of = Drop(keys.of, p)
        \/ \E v : localFile.of = Put(keys.of, p, v)
    <3> HIDE DEF r, doc, keys, p
    <3>1. /\ r.op = "delete" => localFile.of = Drop(keys.of, p)
          /\ r.op \in {"add", "update"} => localFile.of = IF r.key = NoKey THEN keys.of ELSE Put(keys.of, p, r.key)
          /\ r.op = "keys" /\ r.p # None => localFile.of = IF r.key = NoKey THEN keys.of ELSE Put(keys.of, p, r.key)
          /\ r.op = "keys" /\ r.p = None =>
               localFile.of = IF p = None THEN keys.of ELSE Put(keys.of, p, <<p, r.key[2]>>)
          /\ r.op \in {"document", "test"} => localFile.of = keys.of
      BY <1>1, <2>1, OwnKey DEF p
    <3> QED
      BY <1>2, <3>1 DEF Ops
  <2> HIDE DEF p, keys
  <2> QED
    BY <2>2, <2>3, PutKeepsOthers
<1> QED
  BY <1>3, <1>4

\* It is saved.
LEMMA SavedIs ==
  ASSUME Inv, NEW h \in Handlers, handler[h].pc \in {"load", "build"}, handler[h].alone
  PROVE  Saved(handler[h].before, handler[h].req)
<1> DEFINE r == handler[h].req
           doc == handler[h].before[1]
           keys == handler[h].before[2]
           p == IF r.p = None THEN doc.default ELSE r.p
<1>1. /\ r \in Requests /\ r.op # "test" /\ doc \in Documents /\ keys \in KeyFiles
      /\ handler[h].before = <<doc, keys>>
      /\ r.op \in {"add", "update", "delete"} => ~Refused(doc, r)
      /\ llmFile = WantedDocument(h) /\ localFile = WantedKeys(h)
  BY AloneIsWritten
<1>2. /\ r.op \in Ops /\ r.p \in Providers \union {None}
      /\ r.p = None => r.op = "keys" /\ r.key # NoKey
      /\ r.key # NoKey => r.op \notin {"delete", "document"}
      /\ r.first => r.op = "update"
  BY <1>1, RequestIs
<1>3. r.key \in {NoKey} \union ({r.p} \X Versions)
  BY <1>1, ConstantsAssumption DEF Sensible
<1>4. /\ r.op \in {"add", "update"} => llmFile.of = Put(doc.of, r.p, r.entry)
      /\ r.op = "delete" => llmFile.of = Drop(doc.of, r.p)
      /\ r.op \in {"add", "update", "delete"} /\ r.first => llmFile.default = r.p
  BY <1>1, OwnEntry DEF WantedDocument
<1>5. r.op = "document" => llmFile = NewDocument(r)
  BY <1>1, <1>2 DEF WantedDocument
<1>6. localFile = KeysFor(<<doc, keys>>, r)
  BY <1>1 DEF WantedKeys
<1>7. /\ r.op = "delete" => localFile.of = Drop(keys.of, p)
      /\ r.op \in {"add", "update"} => localFile.of = IF r.key = NoKey THEN keys.of ELSE Put(keys.of, p, r.key)
      /\ r.op = "keys" /\ r.p # None => localFile.of = IF r.key = NoKey THEN keys.of ELSE Put(keys.of, p, r.key)
      /\ r.op = "keys" /\ r.p = None =>
           localFile.of = IF p = None THEN keys.of ELSE Put(keys.of, p, <<p, r.key[2]>>)
      /\ r.op \in {"document", "test"} => localFile.of = keys.of
  <2> HIDE DEF r, doc, keys, p
  <2> QED
    BY <1>1, <1>6, OwnKey DEF p
<1>8. Target(handler[h].before, r) = p
  BY DEF Target
<1>9. \A q \in Providers \ {p} : /\ r.op # "document" => SameAt(doc.of, llmFile.of, q)
                                /\ SameAt(keys.of, localFile.of, q)
  BY <1>8, OthersAreKept
<1> HIDE DEF r, doc, keys
<1>10. r.op \in {"add", "update", "document"} => Holds(llmFile.of, r.p, r.entry)
  <2>1. r.op = "document" => llmFile.of = Put(Empty, r.p, r.entry)
    BY <1>5 DEF NewDocument
  <2> QED
    BY <1>4, <2>1 DEF Put, Holds
<1>11. r.op = "document" \/ r.first => llmFile.default = r.p
  BY <1>2, <1>4, <1>5 DEF NewDocument
<1>12. r.op = "delete" => p \notin DOMAIN llmFile.of \union DOMAIN localFile.of
  <2>1. r.op = "delete" => p = r.p
    BY <1>2
  <2> HIDE DEF p
  <2> QED
    BY <1>4, <1>7, <2>1 DEF Drop, Restrict
<1>13. r.key # NoKey /\ p # None => Holds(localFile.of, p, <<p, r.key[2]>>)
  <2> SUFFICES ASSUME r.key # NoKey, p # None PROVE Holds(localFile.of, p, <<p, r.key[2]>>)
    OBVIOUS
  <2>1. r.op \in {"add", "update", "keys"}
    BY <1>1, <1>2 DEF Ops
  <2>2. r.p # None => r.key = <<p, r.key[2]>>
    BY <1>3
  <2> HIDE DEF p
  <2>3. localFile.of = Put(keys.of, p, <<p, r.key[2]>>)
    BY <1>2, <1>7, <2>1, <2>2
  <2> QED
    BY <2>3 DEF Put, Holds
<1>14. r.key = NoKey /\ r.op # "delete" => localFile.of = keys.of
  BY <1>1, <1>2, <1>7 DEF Ops
<1> HIDE DEF p
<1> QED
  BY <1>8, <1>9, <1>10, <1>11, <1>12, <1>13, <1>14 DEF Saved, doc, keys, r

\* Requests that meet no other and are answered with success are in the files, which keep
\* the other providers, and in force in a facade that is up; in one that never came up an
\* edit, a removal or a key waits for the next load.
THEOREM RequestsAreApplied == Spec => RequestsApply
<1> DEFINE Does == \A h \in Handlers :
             LET r == handler[h].req IN
             handler[h].alone /\ Succeeded(h) =>
               /\ Saved(handler[h].before, r)
               /\ IF table'.up THEN InForce(handler[h].before, r)
                  ELSE r.op \in {"update", "delete", "keys"}
<1>1. ASSUME Inv, [Next]_vars PROVE Does
  <2> SUFFICES ASSUME NEW h \in Handlers, handler[h].alone, Succeeded(h)
               PROVE  /\ Saved(handler[h].before, handler[h].req)
                      /\ IF table'.up THEN InForce(handler[h].before, handler[h].req)
                         ELSE handler[h].req.op \in {"update", "delete", "keys"}
    OBVIOUS
  <2>1. EndLoad(h) \/ SkipLoad(h)
    BY <1>1, SucceededIs
  <2>2. Saved(handler[h].before, handler[h].req)
    BY <1>1, <2>1, SavedIs DEF EndLoad, SkipLoad
  <2>3. CASE EndLoad(h)
    <3>1. InForce(handler[h].before, handler[h].req)
      BY <1>1, <2>3, InForceIs
    <3>2. table'.up
      <4>1. Built(table, localFile) \in Tables
        BY <1>1, BuiltFits DEF Inv, Shape
      <4> HIDE DEF Does
      <4> QED
        BY <2>3, <4>1 DEF EndLoad, Tables
    <3> QED
      BY <2>2, <3>1, <3>2
  <2>4. CASE SkipLoad(h)
    <3>1. ~table'.up
      BY <2>4 DEF SkipLoad
    <3>2. handler[h].req.op \in Ops \ {"test", "add", "document"}
      BY <1>1, <2>4, AloneIsWritten, RequestIs DEF SkipLoad
    <3> QED
      BY <2>2, <3>1, <3>2 DEF Ops
  <2> QED
    BY <2>1, <2>3, <2>4
<1>2. ASSUME Inv, [Next]_vars PROVE [Does]_vars
  BY <1>1, <1>2
<1>3. [][Does]_vars <=> RequestsApply
  BY DEF RequestsApply
<1> HIDE DEF Does
<1> QED
  BY <1>2, <1>3, Invariance, PTL DEF Spec
=============================================================================
