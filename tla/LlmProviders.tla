---------------------------- MODULE LlmProviders ----------------------------
(***************************************************************************)
(* The language-model providers of the server.  Their definitions live in  *)
(* config/llm.json and their keys in config/llm.local.json.  The handlers  *)
(* of ConfigController read both files, change their copies and write the  *)
(* files back one after the other, without a lock; then they ask           *)
(* LlmClientFacade to load the files again.  The facade keeps the table of *)
(* providers and one client for each behind one mutex, which a chat holds  *)
(* for as long as its HTTP request runs, and so does chatStream, by which   *)
(* the direct answer takes its text piece by piece.  A task that is        *)
(* cancelled sets its flag and shuts the socket of the request registered  *)
(* under it.                                                               *)
(***************************************************************************)
EXTENDS Integers, FiniteSetsExt, Functions

CONSTANTS
  Providers,    \* provider ids, positive numbers in the order of JSON's keys
  Versions,     \* positive numbers that tell the keys of one provider apart
  Handlers,     \* worker threads that serve configuration requests
  Callers,      \* tasks that ask a model
  Untimed,      \* providers whose timeout_seconds is no limit: nobody checks it
  Requests,     \* the requests the pages send
  OldFiles,     \* pairs of files the server may first start from
  MaxOps,       \* bound on the configuration requests
  MaxUpsets     \* bound on writes that fail and crashes, together

Ops == {"add", "update", "delete", "keys", "document", "test"}
(* An entry is plain, or names an environment variable that is set, or has *)
(* no usable address or model, or has a field of the wrong type.           *)
EntryKinds == {"plain", "env", "blank", "broken"}
None == 0
NoKey == <<None, 0>>
(* A blank or masked key counts as none; only the whole document may hold  *)
(* an entry that is not complete.  Without a provider, keys is the old     *)
(* form of the request, which gives one key for the default.               *)
Sensible(r) ==
  /\ r.op \in Ops /\ r.p \in Providers \union {None} /\ r.entry \in EntryKinds /\ r.first \in BOOLEAN
  /\ r.key \in {NoKey} \union ({r.p} \X Versions)
  /\ r.p = None => r.op = "keys" /\ r.key # NoKey
  /\ r.key # NoKey => r.op \notin {"delete", "document"}
  /\ r.first => r.op = "update"
  /\ r.op \in {"delete", "keys", "test"} => r.entry = "plain"
  /\ r.op \in {"add", "update"} => r.entry # "blank"
  /\ r.op = "add" => r.entry # "broken"

VARIABLES
  llmFile,      \* config/llm.json
  localFile,    \* config/llm.local.json
  table,        \* the facade's configs_, clients_, defaultProvider_, initialized_
  lock,         \* who holds the facade's mutex_
  handler,      \* the request each worker is serving
  call,         \* the chat each chain is in
  ops, upsets,  \* requests made, failures met
  skew          \* a write or a load has failed, or was left out, since the
                \* last complete load began

files == <<llmFile, localFile>>
vars == <<llmFile, localFile, table, lock, handler, call, ops, upsets, skew>>

Empty == [q \in {} |-> None]
LegacyKey == <<None, 1>>                 \* the top-level api_key of an old file
EnvKey(p) == <<p, 0>>
KeysOf(p) == {p} \X Versions
Keys == {NoKey, LegacyKey} \union (Providers \X (Versions \union {0}))
Put(f, k, v) == [q \in DOMAIN f \union {k} |-> IF q = k THEN v ELSE f[q]]
Drop(f, k) == Restrict(f, DOMAIN f \ {k})
Partial(S, T) == UNION {[D -> T] : D \in SUBSET S}

(* A missing file reads as an empty object, and so does a file that has    *)
(* just been truncated; a file cut short does not parse.                   *)
NoDocument == [torn |-> FALSE, default |-> None, of |-> Empty]
NoKeys == [torn |-> FALSE, legacy |-> NoKey, of |-> Empty]
CutDocument == [NoDocument EXCEPT !.torn = TRUE]
CutKeys == [NoKeys EXCEPT !.torn = TRUE]

(* What the two files may hold.  A key is named after the provider it was  *)
(* given to, the one at the top of an old file after none.                 *)
Documents ==
  {d \in [torn : BOOLEAN, default : Providers \union {None}, of : Partial(Providers, EntryKinds)] :
     d.torn => d = CutDocument}
KeyFiles ==
  {k \in [torn : BOOLEAN, legacy : {NoKey, LegacyKey}, of : Partial(Providers, Keys)] :
     /\ k.torn => k = CutKeys
     /\ \A p \in DOMAIN k.of : k.of[p] \in KeysOf(p)}

(* A worker thread and the thread of a chain are different threads; the    *)
(* default of the first files is one of their providers.                   *)
ASSUME ConstantsAssumption ==
  /\ Providers \subseteq Nat \ {0} /\ IsFiniteSet(Providers)
  /\ Versions \subseteq Nat \ {0} /\ \A r \in Requests : Sensible(r)
  /\ Handlers \intersect Callers = {} /\ None \notin Handlers \union Callers
  /\ Untimed \subseteq Providers
  /\ \A old \in OldFiles :
       /\ old \in Documents \X KeyFiles
       /\ old[1].default \in DOMAIN old[1].of \union {None}
  /\ MaxOps \in Nat /\ MaxUpsets \in Nat

(* A request is alone while it has met no other and all its writes have    *)
(* come through; before is what the files held when it began.              *)
Request == [op |-> "none", p |-> None, key |-> NoKey, entry |-> "plain", first |-> FALSE]
Resting == [pc |-> "idle", req |-> Request, llm |-> NoDocument, local |-> NoKeys,
            alone |-> TRUE, before |-> <<NoDocument, NoKeys>>]
(* Text is what a stream has brought so far, or not: a reply has none      *)
(* before it is whole.  Changed is told to those who wait for the mutex.   *)
Silent == [pc |-> "idle", used |-> None, key |-> NoKey, flag |-> FALSE, stop |-> "none",
           changed |-> FALSE, text |-> FALSE, got |-> "none"]
Unloaded == [up |-> FALSE, dflt |-> None, prior |-> None, confs |-> Empty, clients |-> Empty]

-----------------------------------------------------------------------------
(* What the facade makes of the two files.                                 *)

(* loadProvidersFromConfig stops at the first entry it cannot read; by     *)
(* then it has replaced the default and the entries before that one.       *)
Broken(doc) == {p \in DOMAIN doc.of : doc.of[p] = "broken"}
Listed(doc) ==
  [p \in {q \in DOMAIN doc.of : \A b \in Broken(doc) : q < b} |->
     [kind |-> doc.of[p], key |-> NoKey, avail |-> FALSE]]
WithDocument(t, doc) ==
  [t EXCEPT !.confs = Listed(doc), !.prior = t.dflt,
            !.dflt = IF doc.torn THEN @ ELSE doc.default]

(* loadLocalOverrides: the key stored for the provider, or the old         *)
(* top-level key if it is the default one.                                 *)
KeyLoaded(t, keys, p) ==
  IF p \in DOMAIN keys.of THEN keys.of[p]
  ELSE IF p = t.dflt THEN keys.legacy ELSE NoKey

(* resolveApiKey: the stored key comes before the environment's.           *)
KeyUsed(p, kind, key) == IF key = NoKey /\ kind = "env" THEN EnvKey(p) ELSE key
Configured(p, kind, key) == kind \in {"plain", "env"} /\ KeyUsed(p, kind, key) # NoKey

(* buildClients: a client for each provider, a mock for an unusable one.   *)
Built(t, keys) ==
  LET key(p) == KeyLoaded(t, keys, p)
      usable(p) == Configured(p, t.confs[p].kind, key(p))
  IN [t EXCEPT
        !.confs = [p \in DOMAIN t.confs |->
           [kind |-> t.confs[p].kind, key |-> key(p), avail |-> usable(p)]],
        !.clients = [p \in DOMAIN t.confs |->
           [http |-> usable(p), key |-> KeyUsed(p, t.confs[p].kind, key(p))]]]

Booted(doc, keys) ==
  LET listed == WithDocument(Unloaded, doc)
  IN IF Broken(doc) # {} THEN listed ELSE [Built(listed, keys) EXCEPT !.up = TRUE]

(* resolveProvider: the wanted one, the default, the first usable, any.    *)
Available(t, p) == p \in DOMAIN t.confs /\ t.confs[p].avail
SomeAvailable(t) == \E p \in DOMAIN t.confs : t.confs[p].avail

Resolve(t, wanted) ==
  IF Available(t, wanted) THEN wanted
  ELSE IF Available(t, t.dflt) THEN t.dflt
  ELSE IF SomeAvailable(t) THEN Min({p \in DOMAIN t.confs : t.confs[p].avail})
  ELSE IF DOMAIN t.confs # {} THEN Min(DOMAIN t.confs)
  ELSE None

-----------------------------------------------------------------------------
Init ==
  /\ \E old \in OldFiles : llmFile = old[1] /\ localFile = old[2]
  /\ table = Booted(llmFile, localFile)
  /\ lock = None
  /\ handler = [h \in Handlers |-> Resting]
  /\ call = [c \in Callers |-> Silent]
  /\ ops = 0 /\ upsets = 0
  /\ skew = (Broken(llmFile) # {})

-----------------------------------------------------------------------------
(* The configuration requests.                                             *)

Busy == {h \in Handlers : handler[h].pc # "idle"}
Answer(h) == handler' = [handler EXCEPT ![h] = Resting]
Begun(r) ==
  IF Busy = {} THEN [Resting EXCEPT !.req = r, !.before = files]
  ELSE [Resting EXCEPT !.req = r, !.alone = FALSE]
(* A request that starts is no longer alone, nor are those under way.      *)
Enter(h, rec) ==
  handler' = [g \in Handlers |->
                IF g = h THEN rec
                ELSE IF g \in Busy
                THEN [handler[g] EXCEPT !.alone = FALSE, !.before = Resting.before]
                ELSE Resting]
(* A text that does not parse makes the handler throw: the reply is 500.   *)
Refused(doc, r) ==
  \/ doc.torn
  \/ r.op = "add" /\ (r.key = NoKey \/ r.p \in DOMAIN doc.of)
  \/ r.op \in {"update", "delete"} /\ r.p \notin DOMAIN doc.of

AfterDelete(doc, p) ==
  LET left == Drop(doc.of, p)
  IN [doc EXCEPT !.of = left,
                 !.default = IF @ # p THEN @ ELSE IF DOMAIN left = {} THEN None ELSE Min(DOMAIN left)]

Changed(doc, r) ==
  CASE r.op = "add" -> [doc EXCEPT !.of = Put(@, r.p, r.entry)]
    [] r.op = "update" -> [doc EXCEPT !.of = Put(@, r.p, r.entry),
                                      !.default = IF r.first THEN r.p ELSE @]
    [] r.op = "delete" -> AfterDelete(doc, r.p)

(* addLlmProvider, updateLlmProvider and deleteLlmProvider read llm.json   *)
(* and change the copy they have read.                                     *)
ReadProviders(h, r) ==
  /\ r.op \in {"add", "update", "delete"}
  /\ IF Refused(llmFile, r)
     THEN UNCHANGED handler
     ELSE Enter(h, [Begun(r) EXCEPT !.pc = "readKeys", !.llm = Changed(llmFile, r)])

(* setLlmConfig takes the request's text for the whole of llm.json.        *)
TakeDocument(h, r) ==
  /\ r.op = "document"
  /\ Enter(h, [Begun(r) EXCEPT !.pc = "openLlm",
       !.llm = [torn |-> FALSE, default |-> r.p, of |-> Put(Empty, r.p, r.entry)]])

(* setLlmLocalConfig reads llm.local.json, and llm.json only to find the   *)
(* default provider.                                                       *)
ReadLocal(h, r) ==
  /\ r.op = "keys"
  /\ IF localFile.torn /\ r.p # None
     THEN UNCHANGED handler
     ELSE Enter(h, [Begun(r) EXCEPT
            !.pc = IF r.p = None THEN "readDefault" ELSE "openLocal",
            !.local = IF r.p = None \/ r.key = NoKey THEN localFile
                      ELSE [localFile EXCEPT !.of = Put(@, r.p, r.key)]])

(* testLlmConnection reads and writes no file.                             *)
TakeDraft(h, r) ==
  /\ r.op = "test"
  /\ Enter(h, [Begun(r) EXCEPT !.pc = "test"])

(* A request is served by a free worker, no matter which.                  *)
Accept(h) ==
  /\ Busy # Handlers /\ h = CHOOSE g \in Handlers \ Busy : TRUE
  /\ ops < MaxOps
  /\ ops' = ops + 1
  /\ \E r \in Requests :
       ReadProviders(h, r) \/ TakeDocument(h, r) \/ ReadLocal(h, r) \/ TakeDraft(h, r)
  /\ UNCHANGED <<files, table, lock, call, upsets, skew>>

(* The old form of the request gives its key to the default provider.      *)
ReadDefault(h) ==
  LET p == llmFile.default
      local == handler[h].local
      key == <<p, handler[h].req.key[2]>>
  IN
  /\ handler[h].pc = "readDefault"
  /\ IF llmFile.torn \/ (p # None /\ local.torn)
     THEN Answer(h)
     ELSE handler' = [handler EXCEPT
            ![h].pc = "openLocal",
            ![h].local = IF p = None THEN local
                         ELSE [local EXCEPT !.of = Put(@, p, key), !.legacy = NoKey]]
  /\ UNCHANGED <<files, table, lock, call, ops, upsets, skew>>

(* MUTANT: the key of one provider replaces those of all.                  *)
KeysReplaced(keys, r) ==
  IF r.op = "delete" THEN [keys EXCEPT !.of = Drop(@, r.p)]
  ELSE IF r.key = NoKey THEN keys
  ELSE [keys EXCEPT !.of = Put(Empty, r.p, r.key)]

(* The second file is read when the first has been changed in memory.  A   *)
(* text that did not parse and is not touched is written back as it is.    *)
KeysAfter(keys, r) ==
  IF r.op = "delete" THEN [keys EXCEPT !.of = Drop(@, r.p)]
  ELSE IF r.key = NoKey THEN keys
  ELSE [keys EXCEPT !.of = Put(@, r.p, r.key)]

ReadKeys(h) ==
  LET r == handler[h].req IN
  /\ handler[h].pc = "readKeys"
  /\ IF localFile.torn /\ r.key # NoKey
     THEN Answer(h)
     ELSE handler' = [handler EXCEPT ![h].pc = "openLlm",
                                     ![h].local = KeysAfter(localFile, r)]
  /\ UNCHANGED <<files, table, lock, call, ops, upsets, skew>>

(* writeConfigFile: opening the file empties it, and what readers see until *)
(* it is closed is nothing or a first part.                                *)
Fails == upsets < MaxUpsets /\ upsets' = upsets + 1

OpenLlm(h) ==
  /\ handler[h].pc = "openLlm"
  /\ \/ /\ llmFile' \in {NoDocument, CutDocument}
        /\ handler' = [handler EXCEPT ![h].pc = "closeLlm"]
        /\ UNCHANGED upsets
     \/ Fails /\ Answer(h) /\ UNCHANGED llmFile
  /\ UNCHANGED <<localFile, table, lock, call, ops, skew>>

(* The stream is not looked at after the write: one that fails leaves      *)
(* nothing or a first part behind, as readers have seen it since it was    *)
(* opened, and the handler goes on.                                        *)
Closed(h, next) ==
  /\ handler' = [handler EXCEPT ![h].pc = next]
  /\ UNCHANGED upsets
CutShort(h, next) ==
  /\ Fails /\ UNCHANGED files
  /\ handler' = [handler EXCEPT ![h].pc = next, ![h].alone = FALSE, ![h].before = Resting.before]

CloseLlm(h) ==
  LET next == IF handler[h].req.op = "document" THEN "load" ELSE "openLocal" IN
  /\ handler[h].pc = "closeLlm"
  /\ \/ llmFile' = handler[h].llm /\ Closed(h, next)
     \/ CutShort(h, next)
  /\ UNCHANGED <<localFile, table, lock, call, ops, skew>>

OpenLocal(h) ==
  /\ handler[h].pc = "openLocal"
  /\ \/ /\ localFile' \in {NoKeys, CutKeys}
        /\ handler' = [handler EXCEPT ![h].pc = "closeLocal"]
        /\ UNCHANGED <<upsets, skew>>
     \/ /\ Fails /\ Answer(h)
        /\ skew' = (skew \/ handler[h].req.op # "keys")
        /\ UNCHANGED localFile
  /\ UNCHANGED <<llmFile, table, lock, call, ops>>

(* MUTANT: new keys are saved and not loaded.                              *)
CloseLocalNoLoad(h) ==
  /\ handler[h].pc = "closeLocal"
  /\ localFile' = handler[h].local
  /\ IF handler[h].req.op = "keys" THEN Answer(h) ELSE handler' = [handler EXCEPT ![h].pc = "load"]
  /\ UNCHANGED <<llmFile, table, lock, call, ops, upsets, skew>>

CloseLocal(h) ==
  /\ handler[h].pc = "closeLocal"
  /\ \/ localFile' = handler[h].local /\ Closed(h, "load")
     \/ CutShort(h, "load")
  /\ UNCHANGED <<llmFile, table, lock, call, ops, skew>>

-----------------------------------------------------------------------------
(* The facade.                                                             *)

(* A chain that has found a provider available may find others later.      *)
TableChanges ==
  call' = [c \in Callers |->
             [call[c] EXCEPT !.changed = @ \/ call[c].pc = "asking"]]

(* isInitialized is read without the mutex.  A facade that never came up   *)
(* is left as it is by the requests other than a new document or provider, *)
(* which are answered with success ...                                     *)
SkipLoad(h) ==
  /\ handler[h].pc = "load"
  /\ ~table.up /\ handler[h].req.op \notin {"add", "document"}
  /\ Answer(h) /\ skew' = TRUE
  /\ UNCHANGED <<files, table, lock, call, ops, upsets>>

(* ... and started by those two; init loads nothing if somebody else has   *)
(* started it meanwhile.                                                   *)
WantInit(h) ==
  /\ handler[h].pc = "load"
  /\ ~table.up /\ handler[h].req.op \in {"add", "document"}
  /\ handler' = [handler EXCEPT ![h].pc = "init"]
  /\ UNCHANGED <<files, table, lock, call, ops, upsets, skew>>
SkipInit(h) ==
  /\ handler[h].pc = "init"
  /\ lock = None /\ table.up
  /\ Answer(h) /\ skew' = TRUE
  /\ UNCHANGED <<files, table, lock, call, ops, upsets>>

MayLoad(h) == handler[h].pc = (IF table.up THEN "load" ELSE "init")

(* MUTANT: the table is loaded without waiting for the mutex.              *)
BeginLoadUnlocked(h) ==
  /\ MayLoad(h)
  /\ Broken(llmFile) = {}
  /\ table' = Built(WithDocument(table, llmFile), localFile)
  /\ Answer(h) /\ TableChanges
  /\ UNCHANGED <<files, lock, ops, upsets, skew>>

(* reloadConfig or init, up to the end of llm.json.                        *)
BeginLoad(h) ==
  /\ MayLoad(h)
  /\ lock = None
  /\ TableChanges
  /\ IF Broken(llmFile) # {}
     THEN /\ table' = [WithDocument(table, llmFile) EXCEPT !.prior = None]
          /\ Answer(h) /\ skew' = TRUE /\ UNCHANGED lock
     ELSE /\ table' = WithDocument(table, llmFile)
          /\ handler' = [handler EXCEPT ![h].pc = "build"]
          /\ lock' = h
          /\ skew' = FALSE
  /\ UNCHANGED <<files, ops, upsets>>

(* The keys, the clients, and the old default if there is no new one.      *)
EndLoad(h) ==
  /\ handler[h].pc = "build"
  /\ table' = [Built(table, localFile) EXCEPT
                 !.up = TRUE, !.prior = None,
                 !.dflt = IF @ = None /\ table.up THEN table.prior ELSE @]
  /\ lock' = None
  /\ TableChanges
  /\ Answer(h)
  /\ UNCHANGED <<files, ops, upsets, skew>>

(* testConnection: the draft's key or the saved one, under the mutex for   *)
(* as long as the request to the service lasts.                            *)
SavedKey(t, p) == IF p \in DOMAIN t.confs THEN KeyUsed(p, t.confs[p].kind, t.confs[p].key) ELSE NoKey
BeginTest(h) ==
  LET r == handler[h].req IN
  /\ handler[h].pc = "test"
  /\ lock = None
  /\ IF r.key = NoKey /\ SavedKey(table, r.p) = NoKey
     THEN Answer(h) /\ UNCHANGED lock
     ELSE lock' = h /\ handler' = [handler EXCEPT ![h].pc = "testing"]
  /\ UNCHANGED <<files, table, call, ops, upsets, skew>>
EndTest(h) ==
  /\ handler[h].pc = "testing"
  /\ lock' = None
  /\ Answer(h)
  /\ UNCHANGED <<files, table, call, ops, upsets, skew>>

(* The time limit is one for connecting and for each read: a service that  *)
(* sends a little before it has passed starts it anew.                     *)
Timed(p) == p \notin Untimed
TimeOutTest(h) == Timed(handler[h].req.p) /\ EndTest(h)
TestPiece(h) ==
  /\ handler[h].pc = "testing"
  /\ handler' = [handler EXCEPT ![h].pc = "testPiece"]
  /\ UNCHANGED <<files, table, lock, call, ops, upsets, skew>>
TakeTestPiece(h) ==
  /\ handler[h].pc = "testPiece"
  /\ handler' = [handler EXCEPT ![h].pc = "testing"]
  /\ UNCHANGED <<files, table, lock, call, ops, upsets, skew>>

-----------------------------------------------------------------------------
(* The chats.                                                              *)

Becomes(c, rec) == call' = [call EXCEPT ![c] = rec]
Ends(c, got) ==
  Becomes(c, [Silent EXCEPT !.pc = "done", !.got = got,
                            !.changed = got = "mock" /\ call[c].changed])

(* A task asks only if some provider is available: a chain for a reply,    *)
(* the direct answer for a stream.                                         *)
Ask(c) ==
  /\ call[c].pc = "idle"
  /\ lock = None
  /\ IF SomeAvailable(table)
     THEN Becomes(c, [call[c] EXCEPT !.pc = "asking"])
     ELSE Ends(c, "failed")
  /\ UNCHANGED <<files, table, lock, handler, ops, upsets, skew>>

(* chat and chatStream take the mutex, resolve the provider and register   *)
(* the request under the flag of the task.                                 *)
Mocked(t, p) == p \notin DOMAIN t.clients \/ ~t.clients[p].http
Register(c, p) ==
  /\ lock' = c
  /\ Becomes(c, [call[c] EXCEPT !.pc = "registered", !.used = p, !.key = table.clients[p].key,
                            !.changed = FALSE])

TakeLock(c, wanted) ==
  LET p == Resolve(table, wanted) IN
  /\ call[c].pc = "asking"
  /\ lock = None
  /\ IF ~table.up THEN Ends(c, "unconfigured") /\ UNCHANGED lock
     ELSE IF call[c].flag THEN Ends(c, "cancelled") /\ UNCHANGED lock
     ELSE IF Mocked(table, p) THEN Ends(c, "mock") /\ UNCHANGED lock
     ELSE Register(c, p)
  /\ UNCHANGED <<files, table, handler, ops, upsets, skew>>

(* The flag is polled again when the request is registered.                *)
Post(c) ==
  /\ call[c].pc = "registered"
  /\ IF call[c].flag
     THEN Ends(c, "cancelled") /\ lock' = None
     ELSE /\ Becomes(c, [call[c] EXCEPT !.pc = "posting"])
          /\ UNCHANGED lock
  /\ UNCHANGED <<files, table, handler, ops, upsets, skew>>

Connect(c) ==
  /\ call[c].pc = "posting"
  /\ Becomes(c, [call[c] EXCEPT !.pc = "inflight"])
  /\ UNCHANGED <<files, table, lock, handler, ops, upsets, skew>>

Returned(c, got) ==
  Becomes(c, [call[c] EXCEPT !.pc = "returned", !.got = got, !.text = FALSE,
                             !.stop = IF @ = "shut" THEN "none" ELSE @])
(* What a stream has brought when it breaks off is taken for the answer.   *)
BreaksOff(c) == Returned(c, IF call[c].text THEN "part" ELSE "error")

(* The service replies, with an answer or with an error of any kind.       *)
Respond(c) ==
  /\ call[c].pc = "inflight"
  /\ Returned(c, "ok") \/ BreaksOff(c)
  /\ UNCHANGED <<files, table, lock, handler, ops, upsets, skew>>

(* Or it sends a piece of the reply; once the socket is shut none arrives. *)
(* A piece of a stream may bring text; the first of the content that is    *)
(* read under a raised flag ends the request, one of the headers does not. *)
SendPiece(c) ==
  /\ call[c].pc = "inflight" /\ call[c].stop # "shut"
  /\ Becomes(c, [call[c] EXCEPT !.pc = "piece"])
  /\ UNCHANGED <<files, table, lock, handler, ops, upsets, skew>>
TakePiece(c) ==
  /\ call[c].pc = "piece"
  /\ \/ Becomes(c, [call[c] EXCEPT !.pc = "inflight"])
     \/ /\ ~call[c].flag
        /\ Becomes(c, [call[c] EXCEPT !.pc = "inflight", !.text = TRUE])
     \/ call[c].flag /\ BreaksOff(c)
  /\ UNCHANGED <<files, table, lock, handler, ops, upsets, skew>>

(* MUTANT: no limit for reading the reply.                                 *)
TimeOutConnecting(c) ==
  /\ call[c].pc = "posting" /\ Timed(call[c].used)
  /\ BreaksOff(c)
  /\ UNCHANGED <<files, table, lock, handler, ops, upsets, skew>>

(* Connecting has the provider's time limit, and so has each read.         *)
TimeOut(c) ==
  /\ call[c].pc \in {"posting", "inflight"} /\ Timed(call[c].used)
  /\ BreaksOff(c)
  /\ UNCHANGED <<files, table, lock, handler, ops, upsets, skew>>

(* A socket that has been shut down ends the request.                      *)
SocketShut(c) ==
  /\ call[c].pc = "inflight" /\ call[c].stop = "shut"
  /\ BreaksOff(c)
  /\ UNCHANGED <<files, table, lock, handler, ops, upsets, skew>>

(* Whatever has come back, a cancelled request answers that it was.        *)
Outcome(rec) == IF rec.flag THEN "cancelled" ELSE rec.got

Finish(c) ==
  /\ call[c].pc = "returned"
  /\ Ends(c, Outcome(call[c]))
  /\ lock' = None
  /\ UNCHANGED <<files, table, handler, ops, upsets, skew>>

(* cancelTask sets the flag of the task, then stops the requests           *)
(* registered under it; only a request that has a socket notices.          *)
SetFlag(c) ==
  /\ call[c].pc \notin {"idle", "done"} /\ ~call[c].flag
  /\ Becomes(c, [call[c] EXCEPT !.flag = TRUE, !.stop = "due"])
  /\ UNCHANGED <<files, table, lock, handler, ops, upsets, skew>>

StopRequests(c) ==
  /\ call[c].stop = "due"
  /\ Becomes(c, [call[c] EXCEPT
                   !.stop = IF call[c].pc \in {"inflight", "piece"} THEN "shut" ELSE "none"])
  /\ UNCHANGED <<files, table, lock, handler, ops, upsets, skew>>

(* A cancel whose row cannot be saved is refused and takes the flag back.  *)
LowerFlag(c) ==
  /\ call[c].flag /\ call[c].stop # "due" /\ Fails
  /\ Becomes(c, [call[c] EXCEPT !.flag = FALSE])
  /\ UNCHANGED <<files, table, lock, handler, ops, skew>>

-----------------------------------------------------------------------------
(* The process dies and is started again on the files it finds.            *)
Crash ==
  /\ Fails
  /\ table' = Booted(llmFile, localFile)
  /\ skew' = (Broken(llmFile) # {})
  /\ lock' = None
  /\ handler' = [h \in Handlers |-> Resting]
  /\ call' = [c \in Callers |-> Silent]
  /\ UNCHANGED <<files, ops>>

HandlerStep(h) ==
  \/ ReadDefault(h) \/ ReadKeys(h) \/ OpenLlm(h) \/ CloseLlm(h)
  \/ OpenLocal(h) \/ CloseLocal(h) \/ SkipLoad(h) \/ WantInit(h) \/ SkipInit(h)
  \/ BeginLoad(h) \/ EndLoad(h)
  \/ BeginTest(h) \/ TimeOutTest(h) \/ TakeTestPiece(h)
CallStep(c) ==
  \/ \E wanted \in Providers \union {None} : TakeLock(c, wanted)
  \/ Post(c) \/ TimeOut(c) \/ TakePiece(c) \/ SocketShut(c) \/ Finish(c)
Served(c) == Connect(c) \/ SendPiece(c) \/ Respond(c)

Next ==
  \/ \E h \in Handlers : Accept(h) \/ HandlerStep(h) \/ EndTest(h) \/ TestPiece(h)
  \/ \E c \in Callers : Ask(c) \/ SetFlag(c) \/ LowerFlag(c) \/ Served(c)
                       \/ CallStep(c) \/ StopRequests(c)
  \/ Crash

(* Threads run on, and a time limit passes while the service is silent;    *)
(* nobody has to ask or to cancel, no service has to accept a connection,  *)
(* to send or to reply, and nothing has to fail.                           *)
Spec ==
  /\ Init /\ [][Next]_vars
  /\ \A h \in Handlers : WF_vars(HandlerStep(h))
  /\ \A c \in Callers : WF_vars(CallStep(c)) /\ WF_vars(StopRequests(c))

-----------------------------------------------------------------------------
(* Properties.                                                             *)

HandlerPcs == {"idle", "readKeys", "readDefault", "openLlm", "closeLlm", "openLocal",
               "closeLocal", "load", "init", "build", "test", "testing", "testPiece"}
CallPcs == {"idle", "asking", "registered", "posting", "inflight", "piece", "returned", "done"}

(* The files, the facade's table, the requests and the chats keep their    *)
(* shapes.                                                                 *)
TypeOK ==
  /\ llmFile \in Documents /\ localFile \in KeyFiles
  /\ DOMAIN table.confs \subseteq Providers /\ DOMAIN table.clients \subseteq Providers
  /\ table.dflt \in Providers \union {None} /\ table.up \in BOOLEAN
  /\ lock \in Handlers \union Callers \union {None}
  /\ \A h \in Handlers :
       handler[h].pc \in HandlerPcs /\ handler[h].llm \in Documents /\ handler[h].local \in KeyFiles
  /\ \A c \in Callers : call[c].pc \in CallPcs /\ call[c].key \in Keys
  /\ skew \in BOOLEAN /\ ops \in 0 .. MaxOps /\ upsets \in 0 .. MaxUpsets

(* A request to a model carries the key stored for its provider or the one *)
(* of its environment variable; the old top-level key reaches one provider *)
(* at most (LlmClientFacade.cpp:127).                                      *)
OwnKeyOnly ==
  /\ \A c \in Callers : call[c].key # NoKey => call[c].key[1] \in {call[c].used, None}
  /\ \A p, q \in DOMAIN table.clients :
       table.clients[p].key = LegacyKey /\ table.clients[q].key = LegacyKey => p = q

(* When no request is under way and the last writes and loads succeeded,   *)
(* the facade is what a restart would make of the files, whatever requests *)
(* overlapped before: whoever writes last also loads last.                 *)
RuntimeMatchesFiles ==
  LET fresh == Booted(llmFile, localFile) IN
  Busy = {} /\ ~skew /\ table.up =>
    /\ table.confs = fresh.confs /\ table.clients = fresh.clients
    /\ fresh.dflt \in {table.dflt, None}

(* The default named in llm.json is one of its providers: both are written *)
(* from one copy, so overlapping requests cannot part them.                *)
DefaultIsAProvider == llmFile.default \in DOMAIN llmFile.of \union {None}

(* listLlmProviders works out from the files whether a provider has a key. *)
Masked(doc, keys, p) ==
  p \in DOMAIN keys.of \/ (p = doc.default /\ keys.legacy # NoKey)

(* Its answer is what the facade has loaded.                               *)
ListAgreesWithRuntime ==
  Busy = {} /\ ~skew /\ table.up =>
    \A p \in DOMAIN llmFile.of :
      Masked(llmFile, localFile, p) <=> table.confs[p].key # NoKey

(* Files, runtime and what the pages are shown of them go together again    *)
(* as soon as requests come to rest.                                       *)
RuntimeFollowsFiles == TypeOK /\ RuntimeMatchesFiles /\ DefaultIsAProvider /\ ListAgreesWithRuntime

(* A chain that has found some provider available is answered by a model   *)
(* and not by the mock, unless the table changed before it got the mutex.  *)
MockOnlyAfterChange == \A c \in Callers : call[c].got = "mock" => call[c].changed

(* The client a chat runs on stays in the table until the chat has ended:  *)
(* chat uses it through an iterator.                                       *)
ClientOutlivesChat ==
  \A c \in Callers :
    call[c].pc \in {"registered", "posting", "inflight", "piece", "returned"} =>
      /\ call[c].used \in DOMAIN table.clients
      /\ table.clients[call[c].used] = [http |-> TRUE, key |-> call[c].key]

(* A request that met no other and is answered with success is saved: the  *)
(* files hold what it asked for, and have kept the other providers.        *)
SameAt(f, g, q) == (q \in DOMAIN f <=> q \in DOMAIN g) /\ (q \in DOMAIN f => f[q] = g[q])
Holds(f, q, v) == q \in DOMAIN f /\ f[q] = v
Target(before, r) == IF r.p = None THEN before[1].default ELSE r.p
Saved(before, r) ==
  LET p == Target(before, r) IN
  /\ r.op \in {"add", "update", "document"} => Holds(llmFile.of, r.p, r.entry)
  /\ r.op = "document" \/ r.first => llmFile.default = r.p
  /\ r.op = "delete" => p \notin DOMAIN llmFile.of \union DOMAIN localFile.of
  /\ r.key # NoKey /\ p # None => Holds(localFile.of, p, <<p, r.key[2]>>)
  /\ r.key = NoKey /\ r.op # "delete" => localFile.of = before[2].of
  /\ \A q \in Providers \ {p} :
       /\ r.op # "document" => SameAt(before[1].of, llmFile.of, q)
       /\ SameAt(before[2].of, localFile.of, q)

(* And it is in force in a facade that is up: test_llm_provider_config.cpp *)
(* sends such requests one after the other and asks the facade.            *)
InForce(before, r) ==
  LET confs == table'.confs
      old == before[2].of
      has == r.p \in DOMAIN confs
  IN CASE r.op = "add" -> has /\ confs[r.p].key = r.key /\ confs[r.p].avail
       [] r.op = "update" -> /\ has /\ confs[r.p].kind = r.entry
                             /\ r.first => table'.dflt = r.p
                             /\ r.key # NoKey => confs[r.p].key = r.key
                             /\ r.key = NoKey /\ r.p \in DOMAIN old => confs[r.p].key = old[r.p]
       [] r.op = "delete" -> ~has /\ r.p \notin DOMAIN table'.clients
       [] r.op = "keys" -> has /\ r.key # NoKey => confs[r.p].key = r.key
       [] r.op = "document" -> DOMAIN confs = {r.p} /\ table'.dflt = r.p

(* A facade that did not come up when the server started is brought up by  *)
(* a new document or provider only: what the others are answered for waits *)
(* in the files for the next load.                                         *)
Succeeded(h) ==
  /\ handler[h].pc \in {"closeLocal", "load", "init", "build"} /\ handler'[h].pc = "idle"
  /\ upsets' = upsets
  /\ ~(MayLoad(h) /\ Broken(llmFile) # {})
RequestsApply ==
  [][\A h \in Handlers :
       LET r == handler[h].req IN
       handler[h].alone /\ Succeeded(h) =>
         /\ Saved(handler[h].before, r)
         /\ IF table'.up THEN InForce(handler[h].before, r)
            ELSE r.op \in {"update", "delete", "keys"}]_vars

(* While the flag of a task is set, its chat does not post if it had not   *)
(* begun to, and is not answered by a model or by the mock.                *)
CancelWins ==
  [][\A c \in Callers :
       call[c].flag /\ call[c].pc # "done" =>
         /\ call[c].pc \in {"asking", "registered"} => call'[c].pc \notin {"posting", "inflight"}
         /\ call'[c].got \in {"ok", "part", "mock"} => call'[c].pc = "returned"]_vars

(* A chat stays with its provider, key and client through reloads, is      *)
(* answered by a model, and obeys its cancel.                              *)
ChatIsTrue == [](OwnKeyOnly /\ MockOnlyAfterChange /\ ClientOutlivesChat) /\ CancelWins

(* Whoever has the mutex gives it back, though a chat, a stream and a test *)
(* hold it for a whole request: a silent service is given up after its     *)
(* time limit.  That limit is one for each read, so nothing is said of a   *)
(* service that sends on for ever without an end, nor of a limit that is   *)
(* none; but a chat whose socket a cancel has shut ends in either case.    *)
Receiving ==
  \/ \E c \in Callers : call[c].pc = "piece"
  \/ \E h \in Handlers : handler[h].pc = "testPiece"
Unlimited ==
  \/ lock \in Callers /\ ~Timed(call[lock].used)
  \/ lock \in Handlers /\ handler[lock].pc = "testing" /\ ~Timed(handler[lock].req.p)
MutexIsReleased ==
  /\ ~[]<>Receiving => (lock # None ~> lock = None \/ Unlimited)
  /\ \A c \in Callers : call[c].stop = "shut" ~> lock # c
=============================================================================
