----------------------------- MODULE ExpertStore -----------------------------
(***************************************************************************)
(* AgentConfiguration and ExpertController: the experts in memory, the     *)
(* JSON text they came from (rawJson_), and the file behind both.  Every   *)
(* method locks the mutex, so a method is a step; a handler is several.    *)
(* The file is opened, which empties it, and written outside the mutex,    *)
(* while chains that start read it.                                        *)
(*                                                                         *)
(* A text is whole or torn.  Of an expert the model keeps whether it is    *)
(* there, its tools, the number of its routes, its own model (NoModel when *)
(* it leaves the choice to the text's top level) and double_check.  `ui'   *)
(* stands for the canvas positions and comments at the text's top level.   *)
(***************************************************************************)
EXTENDS Integers, FiniteSets

CONSTANTS
  Names,       \* names of experts
  Tools,       \* registered tools
  Models,      \* LLM models
  NoModel,     \* llm_model is not set
  Clients,     \* threads that handle requests
  Documents,   \* whole texts: the file at the start, and what users import
  MaxRoutes,   \* bound on the routes of an expert
  MaxRequests  \* bound on the requests handled

VARIABLES
  experts,   \* experts_
  raw,       \* rawJson_
  file,      \* the text on disk
  stage,     \* where each client's handler is
  read,      \* what it read before it changes the store
  snap,      \* the content saveToFile took under the mutex
  requests,  \* requests begun
  overlap,   \* two threads have touched the store or the file at once
  half,      \* an import threw when it had loaded a part of its document
  unsaved    \* the latest change was not saved: the file did not open, or an import was refused

store == <<experts, raw>>
audit == <<overlap, half, unsaved>>  \* only for the properties
vars  == <<experts, raw, file, stage, read, snap, requests, overlap, half, unsaved>>

LLMs   == Models \cup {NoModel}
Expert == [there: BOOLEAN, tools: SUBSET Tools, routes: 0 .. MaxRoutes, llm: LLMs, check: BOOLEAN]
Gone   == [there |-> FALSE, tools |-> {}, routes |-> 0, llm |-> NoModel, check |-> FALSE]
Text   == [whole: BOOLEAN, experts: [Names -> Expert], top: LLMs, ui: BOOLEAN]
Torn   == [whole |-> FALSE, experts |-> [n \in Names |-> Gone], top |-> NoModel, ui |-> FALSE]

NothingRead == [name |-> CHOOSE n \in Names : TRUE, tools |-> {}, text |-> Torn]

ASSUME StoreAssumption ==
  /\ Names # {}
  /\ NoModel \notin Models
  /\ MaxRoutes \in Nat \ {0}
  /\ MaxRequests \in Nat
  /\ Documents \subseteq Text
  /\ \A d \in Documents : d.whole

Stages == {"idle", "ready", "tools", "positions", "save", "open", "write", "shared"}

TypeOK ==
  /\ experts \in [Names -> Expert]
  /\ raw \in Text
  /\ file \in Text
  /\ stage \in [Clients -> Stages]
  /\ read \in [Clients -> [name: Names, tools: SUBSET Tools, text: Text]]
  /\ snap \in [Clients -> Text]
  /\ requests \in 0 .. MaxRequests
  /\ <<overlap, half, unsaved>> \in BOOLEAN \X BOOLEAN \X BOOLEAN

-----------------------------------------------------------------------------
(***************************************************************************)
(* Texts and experts.                                                      *)
(***************************************************************************)
\* What reconfigure makes of a text: an expert without a model gets the top level's.
Injected(text) ==
  [n \in Names |->
     IF text.experts[n].there /\ text.experts[n].llm = NoModel
     THEN [text.experts[n] EXCEPT !.llm = text.top]
     ELSE text.experts[n]]

\* What is written of the experts: all but double_check.
Dumped(es) == [n \in Names |-> [es[n] EXCEPT !.check = FALSE]]

\* rebuildRawJson: the top level of the old text is kept; a text that does not parse stays.
Rebuilt(es) == IF raw.whole THEN [raw EXCEPT !.experts = Dumped(es)] ELSE raw

\* exportJson: the experts, and nothing of the text's top level.
Exported == [whole |-> TRUE, experts |-> Dumped(experts), top |-> NoModel, ui |-> FALSE]

\* expertFromJson: the body of a request as an expert; it does not read double_check.
FromRequest(tools, llm) ==
  [there |-> TRUE, tools |-> tools, routes |-> 0, llm |-> llm, check |-> FALSE]

IsReady == \E n \in Names : experts[n].there

-----------------------------------------------------------------------------
(***************************************************************************)
(* The methods of AgentConfiguration that change the store; each runs      *)
(* under the mutex.                                                        *)
(***************************************************************************)
Put(n, e) ==
  /\ experts' = [experts EXCEPT ![n] = e]
  /\ raw' = Rebuilt(experts')

AddExpert(n, e) == ~experts[n].there /\ Put(n, e)

UpdateExpert(n, e) == experts[n].there /\ Put(n, e)

PatchExpert(n, tools, llm) ==
  /\ experts[n].there
  /\ Put(n, [experts[n] EXCEPT !.tools = tools, !.llm = llm])

RemoveExpert(n) == experts[n].there /\ Put(n, Gone)

SetExpertTools(n, tools) ==
  /\ experts[n].there
  /\ Put(n, [experts[n] EXCEPT !.tools = tools])

\* Mutant of SetExpertRoutes: rawJson_ is not rebuilt.
SetExpertRoutesOnly(n, count) ==
  /\ experts[n].there
  /\ experts' = [experts EXCEPT ![n].routes = count]
  /\ UNCHANGED raw

SetExpertRoutes(n, count) ==
  /\ experts[n].there
  /\ Put(n, [experts[n] EXCEPT !.routes = count])

AddExpertRoute(n) ==
  /\ experts[n].there
  /\ experts[n].routes < MaxRoutes
  /\ Put(n, [experts[n] EXCEPT !.routes = @ + 1])

RemoveExpertRoute(n, index) ==
  /\ experts[n].there
  /\ index < experts[n].routes
  /\ Put(n, [experts[n] EXCEPT !.routes = @ - 1])

SetExpertLlm(n, llm) ==
  /\ experts[n].there
  /\ Put(n, [experts[n] EXCEPT !.llm = llm])

SetGlobalLlmDefaults(llm) ==
  /\ raw.whole
  /\ raw' = [raw EXCEPT !.top = llm]
  /\ UNCHANGED experts

ImportJson(text) ==
  /\ text.whole
  /\ experts' = text.experts
  /\ raw' = text

\* importJson clears the experts and throws at an entry it cannot read.
ImportHalf(part) ==
  /\ experts' = part
  /\ UNCHANGED raw

\* Mutant of Reconfigure: the experts are cleared before the text is parsed.
ReconfigureCleared(text) ==
  /\ raw' = text
  /\ experts' = IF text.whole THEN Injected(text) ELSE Torn.experts

\* reconfigure: the text is taken over before it is parsed, the experts after.
Reconfigure(text) ==
  /\ raw' = text
  /\ experts' = IF text.whole THEN Injected(text) ELSE experts

-----------------------------------------------------------------------------
(***************************************************************************)
(* A handler: checkReady, the change, and saveToFile in three steps.       *)
(***************************************************************************)
Others(k)  == {j \in Clients \ {k} : stage[j] # "idle"}
Moves(k, s) == stage' = [stage EXCEPT ![k] = s]

\* Every handler but the import asks checkReady first, and replies an error if nothing is loaded.
Begin(k) ==
  /\ stage[k] = "idle"
  /\ requests < MaxRequests
  /\ requests' = requests + 1
  /\ overlap' = (overlap \/ Others(k) # {})
  /\ IsReady
  /\ Moves(k, "ready")
  /\ UNCHANGED <<store, file, read, snap, half, unsaved>>

\* The store refuses (not found, conflict, bad index), or the request was no good.
Refused(k) ==
  /\ stage[k] = "ready"
  /\ Moves(k, "idle")
  /\ UNCHANGED <<store, file, read, snap, requests, audit>>

Changes(k, from) ==
  /\ stage[k] = from
  /\ Moves(k, "save")
  /\ read' = [read EXCEPT ![k] = NothingRead]
  /\ UNCHANGED <<file, snap, requests, overlap, unsaved>>

Keeps == UNCHANGED half

CreateExpert(k) ==
  /\ Changes(k, "ready") /\ Keeps
  /\ \E n \in Names, tools \in SUBSET Tools, llm \in LLMs : AddExpert(n, FromRequest(tools, llm))

UpdateExpertRequest(k) ==
  /\ Changes(k, "ready") /\ Keeps
  /\ \E n \in Names, tools \in SUBSET Tools, llm \in LLMs : UpdateExpert(n, FromRequest(tools, llm))

PatchExpertRequest(k) ==
  /\ Changes(k, "ready") /\ Keeps
  /\ \E n \in Names, tools \in SUBSET Tools, llm \in LLMs : PatchExpert(n, tools, llm)

DeleteExpert(k) ==
  /\ Changes(k, "ready") /\ Keeps
  /\ \E n \in Names : RemoveExpert(n)

SetTools(k) ==
  /\ Changes(k, "ready") /\ Keeps
  /\ \E n \in Names, tools \in SUBSET Tools : SetExpertTools(n, tools)

\* addTool and removeTool read the expert's tools, and then set them.
ReadsTools(k, n, tools) ==
  /\ stage[k] = "ready"
  /\ experts[n].there
  /\ read' = [read EXCEPT ![k].name = n, ![k].tools = tools]
  /\ Moves(k, "tools")
  /\ UNCHANGED <<store, file, snap, requests, audit>>

AddTool(k) == \E n \in Names, t \in Tools : ReadsTools(k, n, experts[n].tools \cup {t})

RemoveTool(k) == \E n \in Names, t \in Tools : ReadsTools(k, n, experts[n].tools \ {t})

\* The result of setExpertTools is not looked at: the expert may be gone.
StoreTools(k) ==
  /\ Changes(k, "tools") /\ Keeps
  /\ \/ SetExpertTools(read[k].name, read[k].tools)
     \/ ~experts[read[k].name].there /\ UNCHANGED store

SetRoutes(k) ==
  /\ Changes(k, "ready") /\ Keeps
  /\ \E n \in Names, count \in 0 .. MaxRoutes : SetExpertRoutes(n, count)

AddRoute(k) ==
  /\ Changes(k, "ready") /\ Keeps
  /\ \E n \in Names : AddExpertRoute(n)

RemoveRoute(k) ==
  /\ Changes(k, "ready") /\ Keeps
  /\ \E n \in Names, index \in 0 .. MaxRoutes - 1 : RemoveExpertRoute(n, index)

SetLlm(k) ==
  /\ Changes(k, "ready") /\ Keeps
  /\ \E n \in Names, llm \in LLMs : SetExpertLlm(n, llm)

EditsExpert(k) ==
  \/ CreateExpert(k) \/ UpdateExpertRequest(k) \/ PatchExpertRequest(k) \/ DeleteExpert(k)
  \/ SetTools(k) \/ StoreTools(k) \/ SetRoutes(k) \/ AddRoute(k) \/ RemoveRoute(k) \/ SetLlm(k)

-----------------------------------------------------------------------------
\* importConfig: validate lets a document through whose entries importJson cannot all read;
\* its result is not looked at, and there is no checkReady.
BeginUnchecked(k, s) ==
  /\ stage[k] = "idle"
  /\ requests < MaxRequests
  /\ requests' = requests + 1
  /\ overlap' = (overlap \/ Others(k) # {})
  /\ Moves(k, s)
  /\ UNCHANGED <<file, read, snap, unsaved>>

ImportConfig(k) ==
  /\ BeginUnchecked(k, "save")
  /\ \/ \E d \in Documents \cup {Exported} : ImportJson(d) /\ half' = FALSE
     \/ \E d \in Documents, lost \in (SUBSET Names) \ {{}} :
          /\ ImportHalf([n \in Names |-> IF n \in lost THEN Gone ELSE d.experts[n]])
          /\ half' = TRUE

\* Mutant of SetGlobalDefaults: the text is changed and not saved.
SetGlobalInMemory(k) ==
  \/ \E llm \in Models :
       BeginUnchecked(k, "idle") /\ SetGlobalLlmDefaults(llm) /\ UNCHANGED half
  \/ ~raw.whole /\ BeginUnchecked(k, "idle") /\ UNCHANGED <<store, half>>

\* setGlobalLlmDefaults: an error when the text does not parse.
SetGlobalDefaults(k) ==
  \/ \E llm \in Models :
       BeginUnchecked(k, "save") /\ SetGlobalLlmDefaults(llm) /\ UNCHANGED half
  \/ ~raw.whole /\ BeginUnchecked(k, "idle") /\ UNCHANGED <<store, half>>

\* savePositions: the text is read, changed and imported; other handlers run in between.
ReadPositions(k) ==
  /\ stage[k] = "ready"
  /\ raw.whole
  /\ read' = [read EXCEPT ![k].text = [raw EXCEPT !.ui = TRUE]]
  /\ Moves(k, "positions")
  /\ UNCHANGED <<store, file, snap, requests, audit>>

SavePositions(k) ==
  /\ stage[k] = "positions"
  /\ ImportJson(read[k].text)
  /\ half' = FALSE
  /\ IF \E n \in Names : read[k].text.experts[n].there
     THEN Moves(k, "save") /\ UNCHANGED unsaved
     ELSE Moves(k, "idle") /\ unsaved' = TRUE
  /\ read' = [read EXCEPT ![k] = NothingRead]
  /\ UNCHANGED <<file, snap, requests, overlap>>

-----------------------------------------------------------------------------
(***************************************************************************)
(* saveToFile.                                                             *)
(***************************************************************************)
Snapshot(k) ==
  /\ stage[k] = "save"
  /\ snap' = [snap EXCEPT ![k] = raw]
  /\ Moves(k, "open")
  /\ UNCHANGED <<store, file, read, requests, audit>>

\* Opening the file empties it, for the others that write it too.
Open(k) ==
  /\ stage[k] = "open"
  /\ file' = Torn
  /\ stage' = [j \in Clients |-> IF j = k \/ stage[j] = "shared" THEN "write" ELSE stage[j]]
  /\ UNCHANGED <<store, read, snap, requests, audit>>

OpenFails(k) ==
  /\ stage[k] = "open"
  /\ unsaved' = TRUE
  /\ snap' = [snap EXCEPT ![k] = Torn]
  /\ Moves(k, "idle")
  /\ UNCHANGED <<store, file, read, requests, overlap, half>>

\* Two that write at once leave one text over the other.
Write(k) ==
  /\ stage[k] \in {"write", "shared"}
  /\ \/ file' = snap[k]
     \/ /\ stage[k] = "shared" \/ \E j \in Others(k) : stage[j] \in {"write", "shared"}
        /\ file' = Torn
  /\ stage' = [j \in Clients |-> IF j = k THEN "idle" ELSE IF stage[j] = "write" THEN "shared" ELSE stage[j]]
  /\ snap' = [snap EXCEPT ![k] = Torn]
  /\ unsaved' = FALSE
  /\ UNCHANGED <<store, read, requests, overlap, half>>

-----------------------------------------------------------------------------
(***************************************************************************)
(* AgentLoop::run reads the file again at the start of every chain; a      *)
(* restart of the process reads it into an empty store.                    *)
(***************************************************************************)
ChainStart ==
  /\ Reconfigure(file)
  /\ overlap' = (overlap \/ \E k \in Clients : stage[k] # "idle")
  /\ half' = (half /\ ~file.whole)
  /\ UNCHANGED <<file, stage, read, snap, requests, unsaved>>

Restart ==
  /\ raw' = file
  /\ experts' = IF file.whole THEN Injected(file) ELSE Torn.experts
  /\ stage' = [k \in Clients |-> "idle"]
  /\ overlap' = FALSE
  /\ half' = FALSE
  /\ unsaved' = FALSE
  /\ read' = [k \in Clients |-> NothingRead]
  /\ snap' = [k \in Clients |-> Torn]
  /\ UNCHANGED <<file, requests>>

Init ==
  /\ file \in Documents
  /\ raw = file
  /\ experts = Injected(file)
  /\ stage = [k \in Clients |-> "idle"]
  /\ read = [k \in Clients |-> NothingRead]
  /\ snap = [k \in Clients |-> Torn]
  /\ requests = 0
  /\ overlap = FALSE
  /\ half = FALSE
  /\ unsaved = FALSE

Handler(k) ==
  \/ Begin(k) \/ Refused(k) \/ EditsExpert(k) \/ AddTool(k) \/ RemoveTool(k)
  \/ ImportConfig(k) \/ SetGlobalDefaults(k) \/ ReadPositions(k) \/ SavePositions(k)
  \/ Snapshot(k) \/ Open(k) \/ OpenFails(k) \/ Write(k)

Next == (\E k \in Clients : Handler(k)) \/ ChainStart \/ Restart

Spec == Init /\ [][Next]_vars

-----------------------------------------------------------------------------
(***************************************************************************)
(* Properties.                                                             *)
(***************************************************************************)
\* Whatever edits, imports, saved positions, chain starts and restarts came before: while the text
\* in memory parses and no import was cut short, it lists the experts in memory as they are, but
\* for the models they took from the top level.
RawMatchesMemory ==
  raw.whole /\ ~half =>
    \A n \in Names :
      LET e == experts[n]
          r == raw.experts[n]
      IN /\ <<e.there, e.tools, e.routes>> = <<r.there, r.tools, r.routes>>
         /\ r.llm # NoModel => e.llm = r.llm
         /\ r.check => e.check

\* When requests were handled one at a time, no chain started during one, and the file could be
\* opened, the file holds the text in memory whenever no request is being handled.
QuietMeansSaved ==
  (\A k \in Clients : stage[k] = "idle") /\ ~overlap /\ ~unsaved => file = raw

\* A chain that starts while the file is being written reads a torn text; it keeps the experts
\* that were loaded, so that the server never runs out of experts because of a save.
TornTextKeepsExperts == [][ChainStart /\ ~raw'.whole => UNCHANGED experts]_vars

\* No edit of an expert loses the model everybody else falls back to, or the canvas.
MetadataSurvives ==
  [][(\E k \in Clients : EditsExpert(k)) => /\ raw'.top = raw.top
                                            /\ raw'.ui = raw.ui
                                            /\ raw'.whole = raw.whole]_vars

\* Neither a save seen half done nor an edit costs anybody what it was not about.
NothingElseIsLost == TornTextKeepsExperts /\ MetadataSurvives
=============================================================================
