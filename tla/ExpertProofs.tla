---------------------------- MODULE ExpertProofs ----------------------------
(***************************************************************************)
(* Proofs about the experts: the chain that runs them (ExpertChain), for   *)
(* every configuration of experts, every graph of routes and every set of  *)
(* replies; and the store that keeps them (ExpertStore), for any number of *)
(* experts, of clients and of requests.                                    *)
(***************************************************************************)
EXTENDS ExpertChain, ExpertStore, TLAPS

-----------------------------------------------------------------------------
(* The chain.                                                              *)

\* A call is made, and a review is due, only while rounds are left.
RoundsLeft ==
  /\ at \in {"waiting", "reply", "review"} => rounds >= 1
  /\ at = "check" /\ HasEnd(last) => rounds >= 1

\* A reply that ends the visit is not followed by another round.
OneEnd == at \in {"loop", "waiting"} => ~HasEnd(last)

\* The history of an isolated expert is its own from the moment it is entered.
OwnHistory == at \in {"loop", "waiting", "reply"} /\ expert \in Isolated => history \subseteq {expert}

\* A rejected expert is on its one retry until its work is reviewed or routed.
OnRetry ==
  verdict = "rejected" =>
    /\ at \notin {"review", "route"}
    /\ at # "ended" /\ expert \notin Isolated => "review" \in history
    /\ at # "ended" /\ expert \notin Isolated => rounds <= 1
    /\ at = "enter" => rounds = 1 /\ ~fresh

\* There is no result before the end.
NoResultYet == at # "ended" => result = "none"

ChainInv == NoResultYet /\ ChainTypeOK /\ RoundsLeft /\ OneEnd /\ OwnHistory /\ OnRetry /\ NoUnreviewedWork

\* The chain starts within the invariant.
LEMMA ChainInitInv == ChainInit => ChainInv
<1> SUFFICES ASSUME ChainInit PROVE ChainInv
  OBVIOUS
<1>1. ChainTypeOK
  <2>1. fresh \in BOOLEAN /\ flag \in BOOLEAN
    BY Zenon DEF ChainInit
  <2>2. QED
    BY <2>1, ChainAssumption DEF ChainInit, ChainTypeOK, Steps, Results, Verdicts, StepStates, MaxAttempts
<1>2. NoResultYet /\ RoundsLeft /\ OneEnd /\ OwnHistory /\ OnRetry /\ NoUnreviewedWork
  BY DEF ChainInit, NoResultYet, RoundsLeft, OneEnd, OwnHistory, OnRetry, NoUnreviewedWork
<1>3. QED
  BY <1>1, <1>2 DEF ChainInv

\* An end keeps everything but the place and the result.
LEMMA EndKeeps ==
  ASSUME NEW r \in Results, ChainInv, Ends(r)
  PROVE  ChainInv'
BY DEF Ends, ChainInv, ChainTypeOK, NoResultYet, RoundsLeft, OneEnd, OwnHistory, OnRetry, NoUnreviewedWork, Steps, Results,
       HasEnd, HasDone

\* Every step of the worker and every cancel keeps the invariant, action by action.
LEMMA ChainStepInv ==
  ASSUME ChainInv, [ChainNext]_chainVars
  PROVE  ChainInv'
<1> USE DEF Steps, Results, Verdicts
<1>1. CASE RunOut
  BY <1>1, EndKeeps DEF RunOut
<1>2. CASE CancelAtEntry
  BY <1>2, EndKeeps DEF CancelAtEntry
<1>3. CASE Enter
  BY <1>3, ChainAssumption
     DEF Enter, Granted, Kept, StageLeft, MaxAttempts, ChainInv, ChainTypeOK, NoResultYet, RoundsLeft, OneEnd, OwnHistory, OnRetry,
         NoUnreviewedWork, HasEnd, HasDone
<1>4. CASE LeaveLoop
  BY <1>4
     DEF LeaveLoop, ChainInv, ChainTypeOK, NoResultYet, RoundsLeft, OneEnd, OwnHistory, OnRetry, NoUnreviewedWork, HasEnd, HasDone
<1>5. CASE CancelInLoop
  BY <1>5, EndKeeps DEF CancelInLoop
<1>6. CASE ModelGone
  BY <1>6, EndKeeps DEF ModelGone
<1>7. CASE CallModel
  <2>1. ChainTypeOK'
    <3>1. fresh' \in BOOLEAN
      BY <1>7, Zenon DEF CallModel
    <3>2. attempts' \in 0 .. MaxAttempts
      BY <1>7 DEF CallModel, MaxAttempts, ChainInv, ChainTypeOK
    <3>3. QED
      BY <1>7, <3>1, <3>2 DEF CallModel, ChainInv, ChainTypeOK
  <2>2. NoResultYet' /\ RoundsLeft' /\ OneEnd'
    BY <1>7 DEF CallModel, MayCall, MaxAttempts, ChainInv, ChainTypeOK, NoResultYet, RoundsLeft, OneEnd, HasEnd, HasDone
  <2>3. OwnHistory' /\ OnRetry' /\ NoUnreviewedWork'
    BY <1>7 DEF CallModel, MayCall, MaxAttempts, ChainInv, ChainTypeOK, OwnHistory, OnRetry, NoUnreviewedWork
  <2>4. QED
    BY <2>1, <2>2, <2>3 DEF ChainInv
<1>8. CASE CancelledCall
  BY <1>8, EndKeeps DEF CancelledCall
<1>9. CASE CallFails
  BY <1>9
     DEF CallFails, ChainInv, ChainTypeOK, NoResultYet, RoundsLeft, OneEnd, OwnHistory, OnRetry, NoUnreviewedWork, HasEnd, HasDone
<1>10. CASE CallAnswers
  BY <1>10, ChainAssumption
     DEF CallAnswers, ChainInv, ChainTypeOK, NoResultYet, RoundsLeft, OneEnd, OwnHistory, OnRetry, NoUnreviewedWork, HasEnd, HasDone
<1>11. CASE CancelledTool
  BY <1>11, EndKeeps DEF CancelledTool
<1>12. CASE TakeReply
  BY <1>12
     DEF TakeReply, PlansAfter, ChainInv, ChainTypeOK, NoResultYet, RoundsLeft, OneEnd, OwnHistory, OnRetry, NoUnreviewedWork,
         HasEnd, HasDone
<1>13. CASE Exhausted
  BY <1>13, EndKeeps DEF Exhausted
<1>14. CASE EndLoop
  BY <1>14
     DEF EndLoop, WantsReview, ModelIsThere, ChainInv, ChainTypeOK, NoResultYet, RoundsLeft, OneEnd, OwnHistory, OnRetry,
         NoUnreviewedWork, HasEnd, HasDone
<1>15. CASE ReviewSkipped
  BY <1>15
     DEF ReviewSkipped, ChainInv, ChainTypeOK, NoResultYet, RoundsLeft, OneEnd, OwnHistory, OnRetry, NoUnreviewedWork, HasEnd, HasDone
<1>16. CASE ReviewPasses
  BY <1>16, ChainAssumption
     DEF ReviewPasses, ChainInv, ChainTypeOK, NoResultYet, RoundsLeft, OneEnd, OwnHistory, OnRetry, NoUnreviewedWork, HasEnd, HasDone
<1>17. CASE ReviewRejects
  <2>1. ChainTypeOK'
    BY <1>17, ChainAssumption DEF ReviewRejects, WithReview, ChainInv, ChainTypeOK
  <2>2. NoResultYet' /\ RoundsLeft' /\ OneEnd'
    BY <1>17, ChainAssumption DEF ReviewRejects, WithReview, ChainInv, ChainTypeOK, NoResultYet, RoundsLeft, OneEnd, HasEnd, HasDone
  <2>3. OwnHistory' /\ OnRetry' /\ NoUnreviewedWork'
    BY <1>17, ChainAssumption DEF ReviewRejects, WithReview, ChainInv, ChainTypeOK, OwnHistory, OnRetry, NoUnreviewedWork
  <2>4. QED
    BY <2>1, <2>2, <2>3 DEF ChainInv
<1>18. CASE CancelAtRoute
  BY <1>18, EndKeeps DEF CancelAtRoute
<1>19. CASE Finish
  BY <1>19, EndKeeps DEF Finish, StatusOfDone
<1>20. CASE HandOver
  BY <1>20
     DEF HandOver, ChainInv, ChainTypeOK, NoResultYet, RoundsLeft, OneEnd, OwnHistory, OnRetry, NoUnreviewedWork, HasEnd, HasDone
<1>21. CASE Cancel
  BY <1>21
     DEF Cancel, ChainInv, ChainTypeOK, NoResultYet, RoundsLeft, OneEnd, OwnHistory, OnRetry, NoUnreviewedWork, HasEnd, HasDone
<1>22. CASE UNCHANGED chainVars
  BY <1>22
     DEF chainVars, ChainInv, ChainTypeOK, NoResultYet, RoundsLeft, OneEnd, OwnHistory, OnRetry, NoUnreviewedWork, HasEnd, HasDone
<1>23. QED
  BY <1>1, <1>2, <1>3, <1>4, <1>5, <1>6, <1>7, <1>8, <1>9, <1>10, <1>11, <1>12, <1>13, <1>14, <1>15,
     <1>16, <1>17, <1>18, <1>19, <1>20, <1>21, <1>22
     DEF ChainNext, Work, OuterStep, RoundStep, EndStep

\* The inductive invariant holds throughout.
THEOREM ChainInvariant == ChainSpec => []ChainInv
BY ChainInitInv, ChainStepInv, PTL DEF ChainSpec

\* The variables keep their types; the stages never exceed MaxSteps.
THEOREM ChainTypes == ChainSpec => []ChainTypeOK
BY ChainInvariant, PTL DEF ChainInv

\* An isolated expert is never shown what others wrote.
THEOREM IsolationIsKept == ChainSpec => []IsolationHolds
<1>1. ChainInv => IsolationHolds
  BY DEF ChainInv, OwnHistory, IsolationHolds
<1>2. QED
  BY <1>1, ChainInvariant, PTL

\* Work under double check is not routed unreviewed.
THEOREM DoubleCheckIsMade == ChainSpec => []NoUnreviewedWork
BY ChainInvariant, PTL DEF ChainInv

\* A retry has one round and the reviewer's words.
THEOREM RetryIsInformed == ChainSpec => []RetryKnowsWhy
<1>1. ChainInv => RetryKnowsWhy
  BY DEF ChainInv, ChainTypeOK, RoundsLeft, OnRetry, RetryKnowsWhy
<1>2. QED
  BY <1>1, ChainInvariant, PTL

\* The values of the record Rank.
LEMMA Ranks ==
  /\ Rank["loop"] = 7 /\ Rank["waiting"] = 6 /\ Rank["reply"] = 5 /\ Rank["check"] = 4
  /\ Rank["review"] = 3 /\ Rank["route"] = 2 /\ Rank["enter"] = 1 /\ Rank["ended"] = 0
BY DEF Rank, Steps

\* The ends of a chain are the lowest place of all.
LEMMA EndIsPaid ==
  ASSUME NEW r, ChainInv, at # "ended", Ends(r)
  PROVE  Paid
BY Ranks DEF Ends, Paid, ChainInv, ChainTypeOK, Steps

\* Every step of the worker spends a stage, a round or a place within the round: from the
\* bound on each, no chain goes on for ever.
LEMMA StepIsPaid ==
  ASSUME ChainInv, Work
  PROVE  Paid
<1> USE DEF Steps
<1>1. CASE RunOut \/ CancelAtEntry \/ CancelInLoop \/ ModelGone \/ CancelledCall \/ CancelledTool
           \/ Exhausted \/ CancelAtRoute \/ Finish
  BY <1>1, EndIsPaid
     DEF RunOut, CancelAtEntry, CancelInLoop, ModelGone, CancelledCall, CancelledTool, Exhausted,
         CancelAtRoute, Finish
<1>2. CASE Enter
  BY <1>2 DEF Enter, Paid, ChainInv, ChainTypeOK
<1>3. CASE LeaveLoop
  BY <1>3, Ranks DEF LeaveLoop, Paid, ChainInv, ChainTypeOK
<1>4. CASE CallModel
  BY <1>4, Ranks DEF CallModel, Paid, ChainInv, ChainTypeOK
<1>5. CASE CallFails
  BY <1>5, Ranks DEF CallFails, Paid, ChainInv, ChainTypeOK, RoundsLeft
<1>6. CASE CallAnswers
  BY <1>6, Ranks DEF CallAnswers, Paid, ChainInv, ChainTypeOK
<1>7. CASE TakeReply
  BY <1>7, Ranks DEF TakeReply, Paid, ChainInv, ChainTypeOK, RoundsLeft
<1>8. CASE EndLoop
  BY <1>8, Ranks DEF EndLoop, Paid, ChainInv, ChainTypeOK
<1>9. CASE ReviewSkipped \/ ReviewPasses
  BY <1>9, Ranks DEF ReviewSkipped, ReviewPasses, Paid, ChainInv, ChainTypeOK
<1>10. CASE ReviewRejects
  BY <1>10, Ranks DEF ReviewRejects, Paid, ChainInv, ChainTypeOK, RoundsLeft
<1>11. CASE HandOver
  BY <1>11, Ranks DEF HandOver, Paid, ChainInv, ChainTypeOK
<1>12. QED
  BY <1>1, <1>2, <1>3, <1>4, <1>5, <1>6, <1>7, <1>8, <1>9, <1>10, <1>11
     DEF Work, OuterStep, RoundStep, EndStep

\* Every step of the worker is paid for with something bounded.
THEOREM ChainsAreBounded == ChainSpec => EveryStepIsPaid
<1>1. ASSUME ChainInv, [ChainNext]_chainVars
      PROVE  [flag' = flag => Paid]_chainVars
  <2>1. CASE Work
    BY <1>1, <2>1, StepIsPaid
  <2>2. CASE Cancel
    BY <2>2 DEF Cancel
  <2>3. CASE UNCHANGED chainVars
    BY <2>3
  <2>4. QED
    BY <1>1, <2>1, <2>2, <2>3 DEF ChainNext
<1>2. QED
  BY <1>1, ChainInvariant, PTL DEF ChainSpec, EveryStepIsPaid

\* No call and no completion after the cancel.
THEOREM CancelIsFinal == ChainSpec => CancelIsObeyed
<1>1. ASSUME ChainInv, [ChainNext]_chainVars
      PROVE  [flag => (at' = "waiting" => at = "waiting") /\ result' # "completed"]_chainVars
  <2>1. CASE RunOut \/ CancelAtEntry \/ CancelInLoop \/ ModelGone \/ CancelledCall \/ CancelledTool
             \/ Exhausted
    BY <2>1 DEF RunOut, CancelAtEntry, CancelInLoop, ModelGone, CancelledCall, CancelledTool, Exhausted, Ends
  <2>2. CASE CancelAtRoute \/ Finish
    BY <2>2 DEF CancelAtRoute, Finish, Ends
  <2>3. CASE Enter \/ LeaveLoop \/ CallModel \/ CallFails \/ CallAnswers \/ TakeReply
    BY <1>1, <2>3
       DEF Enter, LeaveLoop, CallModel, MayCall, CallFails, CallAnswers, TakeReply, ChainInv, NoResultYet
  <2>4. CASE EndLoop \/ ReviewSkipped \/ ReviewPasses \/ ReviewRejects \/ HandOver
    BY <1>1, <2>4
       DEF EndLoop, ReviewSkipped, ReviewPasses, ReviewRejects, HandOver, ChainInv, NoResultYet
  <2>5. CASE Cancel \/ UNCHANGED chainVars
    BY <2>5 DEF Cancel, chainVars
  <2>6. QED
    BY <1>1, <2>1, <2>2, <2>3, <2>4, <2>5 DEF ChainNext, Work, OuterStep, RoundStep, EndStep
<1>2. QED
  BY <1>1, ChainInvariant, PTL DEF ChainSpec, CancelIsObeyed

\* Isolation, reviews and retries, for every configuration and every reply.
THEOREM SoundWork == ChainSpec => []WorkIsSound
<1>1. IsolationHolds /\ NoUnreviewedWork /\ RetryKnowsWhy => WorkIsSound
  BY DEF WorkIsSound
<1> QED
  BY IsolationIsKept, DoubleCheckIsMade, RetryIsInformed, <1>1, PTL

-----------------------------------------------------------------------------
(* The store.                                                              *)

-----------------------------------------------------------------------------
(***************************************************************************)
(* Texts and experts.                                                      *)
(***************************************************************************)
LEMMA GoneType == Gone \in Expert
BY StoreAssumption DEF Gone, Expert, LLMs

LEMMA TornType == Torn \in Text /\ ~Torn.whole
BY GoneType, StoreAssumption DEF Torn, Text, LLMs

LEMMA InjectedType ==
  ASSUME NEW text \in Text
  PROVE  Injected(text) \in [Names -> Expert]
<1>1. \A n \in Names : text.experts[n] \in Expert
  BY DEF Text
<1>2. \A n \in Names : [text.experts[n] EXCEPT !.llm = text.top] \in Expert
  BY <1>1 DEF Text, Expert
<1> QED
  BY <1>1, <1>2 DEF Injected

\* An expert that a text lists is loaded as it is, but for the model it does not name.
LEMMA InjectedMatches ==
  ASSUME NEW text \in Text, NEW n \in Names
  PROVE  LET e == Injected(text)[n]
             r == text.experts[n]
         IN /\ <<e.there, e.tools, e.routes>> = <<r.there, r.tools, r.routes>>
            /\ r.llm # NoModel => e.llm = r.llm
            /\ r.check => e.check
<1>1. text.experts[n] \in Expert
  BY DEF Text
<1>2. Injected(text)[n] = IF text.experts[n].there /\ text.experts[n].llm = NoModel
                          THEN [text.experts[n] EXCEPT !.llm = text.top]
                          ELSE text.experts[n]
  BY DEF Injected
<1> QED
  BY <1>1, <1>2 DEF Expert

LEMMA DumpedMatches ==
  ASSUME NEW es \in [Names -> Expert]
  PROVE  /\ Dumped(es) \in [Names -> Expert]
         /\ \A n \in Names : LET e == es[n]
                                 r == Dumped(es)[n]
                             IN /\ <<e.there, e.tools, e.routes>> = <<r.there, r.tools, r.routes>>
                                /\ r.llm # NoModel => e.llm = r.llm
                                /\ r.check => e.check
<1>1. \A n \in Names : es[n] \in Expert /\ [es[n] EXCEPT !.check = FALSE] \in Expert
  BY DEF Expert
<1>2. \A n \in Names : Dumped(es)[n] = [es[n] EXCEPT !.check = FALSE]
  BY DEF Dumped
<1>3. Dumped(es) \in [Names -> Expert]
  BY <1>1 DEF Dumped
<1>4. ASSUME NEW n \in Names
      PROVE  LET e == es[n]
                 r == Dumped(es)[n]
             IN /\ <<e.there, e.tools, e.routes>> = <<r.there, r.tools, r.routes>>
                /\ r.llm # NoModel => e.llm = r.llm
                /\ r.check => e.check
  BY <1>1, <1>2 DEF Expert
<1> QED
  BY <1>3, <1>4

LEMMA FromRequestType ==
  ASSUME NEW tools \in SUBSET Tools, NEW llm \in LLMs
  PROVE  FromRequest(tools, llm) \in Expert
BY StoreAssumption DEF FromRequest, Expert

\* What the store's invariant is: its types, and that text and memory agree.
Agrees == RawMatchesMemory
Stored == experts \in [Names -> Expert] /\ raw \in Text /\ half \in BOOLEAN

-----------------------------------------------------------------------------
(***************************************************************************)
(* The methods.                                                            *)
(***************************************************************************)
\* Whatever is put into the experts, the text is rebuilt to match, or does not parse.
LEMMA PutStores ==
  ASSUME Stored, NEW n \in Names, NEW e \in Expert, Put(n, e)
  PROVE  experts' \in [Names -> Expert] /\ raw' \in Text /\ Agrees'
         /\ raw'.top = raw.top /\ raw'.ui = raw.ui /\ raw'.whole = raw.whole
<1>1. experts' \in [Names -> Expert]
  BY DEF Stored, Put
<1>2. raw' = IF raw.whole THEN [raw EXCEPT !.experts = Dumped(experts')] ELSE raw
  BY DEF Put, Rebuilt
<1>3. Dumped(experts') \in [Names -> Expert]
  BY <1>1, DumpedMatches
<1>4. raw \in Text
  BY DEF Stored
<1>5. CASE ~raw.whole
  BY <1>1, <1>2, <1>4, <1>5 DEF Agrees, RawMatchesMemory
<1>6. CASE raw.whole
  <2>1. raw' = [raw EXCEPT !.experts = Dumped(experts')]
    BY <1>2, <1>6
  <2>2. raw' \in Text /\ raw'.experts = Dumped(experts')
        /\ raw'.top = raw.top /\ raw'.ui = raw.ui /\ raw'.whole = raw.whole
    BY <2>1, <1>3, <1>4 DEF Text
  <2>3. Agrees'
    BY <2>2, <1>1, DumpedMatches DEF Agrees, RawMatchesMemory
  <2> QED
    BY <2>2, <2>3, <1>1
<1> QED
  BY <1>5, <1>6

LEMMA ImportStores ==
  ASSUME NEW text \in Text, ImportJson(text)
  PROVE  experts' \in [Names -> Expert] /\ raw' \in Text /\ Agrees'
<1>1. experts' = text.experts /\ raw' = text
  BY DEF ImportJson
<1>2. experts' \in [Names -> Expert] /\ raw' \in Text
  BY <1>1 DEF Text
<1>3. raw'.experts = experts'
  BY <1>1
<1> QED
  BY <1>2, <1>3 DEF Agrees, RawMatchesMemory

LEMMA ReconfigureStores ==
  ASSUME Stored, NEW text \in Text, Reconfigure(text)
  PROVE  experts' \in [Names -> Expert] /\ raw' \in Text /\ Agrees'
<1>1. raw' = text /\ experts' = IF text.whole THEN Injected(text) ELSE experts
  BY DEF Reconfigure
<1>2. experts' \in [Names -> Expert] /\ raw' \in Text
  BY <1>1, InjectedType DEF Stored
<1>3. raw'.whole => experts' = Injected(raw')
  BY <1>1
<1> QED
  BY <1>2, <1>3, InjectedMatches DEF Agrees, RawMatchesMemory

-----------------------------------------------------------------------------
(***************************************************************************)
(* An edit puts one expert into the store.                                 *)
(***************************************************************************)
LEMMA EditPuts ==
  ASSUME TypeOK, NEW k \in Clients, EditsExpert(k)
  PROVE  (\E n \in Names, e \in Expert : Put(n, e)) \/ UNCHANGED store
<1> DEFINE Puts == \E n \in Names, e \in Expert : Put(n, e)
<1>0. \A n \in Names : experts[n] \in Expert
  BY DEF TypeOK
<1>00. \A n \in Names : experts[n].routes \in 0 .. MaxRoutes
  BY <1>0 DEF Expert
<1>01. read[k].name \in Names /\ read[k].tools \in SUBSET Tools
  BY DEF TypeOK
<1>02. /\ \A n \in Names, tools \in SUBSET Tools, llm \in LLMs :
            [experts[n] EXCEPT !.tools = tools, !.llm = llm] \in Expert
       /\ \A n \in Names, tools \in SUBSET Tools : [experts[n] EXCEPT !.tools = tools] \in Expert
       /\ \A n \in Names, llm \in LLMs : [experts[n] EXCEPT !.llm = llm] \in Expert
       /\ \A n \in Names, count \in 0 .. MaxRoutes : [experts[n] EXCEPT !.routes = count] \in Expert
  BY <1>0 DEF Expert
<1>1. CASE CreateExpert(k)
  BY <1>1, FromRequestType DEF CreateExpert, AddExpert
<1>2. CASE UpdateExpertRequest(k)
  BY <1>2, FromRequestType DEF UpdateExpertRequest, UpdateExpert
<1>3. CASE PatchExpertRequest(k)
  <2>1. PICK n \in Names, tools \in SUBSET Tools, llm \in LLMs : PatchExpert(n, tools, llm)
    BY <1>3 DEF PatchExpertRequest
  <2> QED
    BY <2>1, <1>02 DEF PatchExpert
<1>4. CASE DeleteExpert(k)
  BY <1>4, GoneType DEF DeleteExpert, RemoveExpert
<1>5. CASE SetTools(k)
  <2>1. PICK n \in Names, tools \in SUBSET Tools : SetExpertTools(n, tools)
    BY <1>5 DEF SetTools
  <2> QED
    BY <2>1, <1>02 DEF SetExpertTools
<1>6. CASE StoreTools(k)
  <2>1. CASE SetExpertTools(read[k].name, read[k].tools)
    BY <2>1, <1>01, <1>02 DEF SetExpertTools
  <2> QED
    BY <1>6, <2>1 DEF StoreTools
<1>7. CASE SetRoutes(k)
  <2>1. PICK n \in Names, count \in 0 .. MaxRoutes : SetExpertRoutes(n, count)
    BY <1>7 DEF SetRoutes
  <2> QED
    BY <2>1, <1>02 DEF SetExpertRoutes
<1>8. CASE AddRoute(k)
  <2>1. PICK n \in Names : AddExpertRoute(n)
    BY <1>8 DEF AddRoute
  <2>2. experts[n].routes + 1 \in 0 .. MaxRoutes
    BY <2>1, <1>00, StoreAssumption DEF AddExpertRoute
  <2>3. Put(n, [experts[n] EXCEPT !.routes = experts[n].routes + 1])
    BY <2>1 DEF AddExpertRoute
  <2> QED
    BY <2>2, <2>3, <1>02
<1>9. CASE RemoveRoute(k)
  <2>1. PICK n \in Names, index \in 0 .. MaxRoutes - 1 : RemoveExpertRoute(n, index)
    BY <1>9 DEF RemoveRoute
  <2>2. experts[n].routes - 1 \in 0 .. MaxRoutes
    BY <2>1, <1>00, StoreAssumption DEF RemoveExpertRoute
  <2>3. Put(n, [experts[n] EXCEPT !.routes = experts[n].routes - 1])
    BY <2>1 DEF RemoveExpertRoute
  <2> QED
    BY <2>2, <2>3, <1>02
<1>10. CASE SetLlm(k)
  <2>1. PICK n \in Names, llm \in LLMs : SetExpertLlm(n, llm)
    BY <1>10 DEF SetLlm
  <2> QED
    BY <2>1, <1>02 DEF SetExpertLlm
<1> QED
  BY <1>1, <1>2, <1>3, <1>4, <1>5, <1>6, <1>7, <1>8, <1>9, <1>10 DEF EditsExpert

\* An edit leaves the text's top level, and the client's own affairs, in order.
LEMMA EditFrame ==
  ASSUME NEW k \in Clients, EditsExpert(k)
  PROVE  \E from \in {"ready", "tools"} : Changes(k, from) /\ UNCHANGED half
BY DEF EditsExpert, CreateExpert, UpdateExpertRequest, PatchExpertRequest, DeleteExpert, SetTools,
       StoreTools, SetRoutes, AddRoute, RemoveRoute, SetLlm, Keeps

-----------------------------------------------------------------------------
(***************************************************************************)
(* The theorems.                                                           *)
(***************************************************************************)
Inv == TypeOK /\ Agrees

LEMMA NothingReadType == NothingRead \in [name: Names, tools: SUBSET Tools, text: Text]
<1>1. (CHOOSE n \in Names : TRUE) \in Names
  BY StoreAssumption
<1> QED
  BY <1>1, TornType DEF NothingRead

\* The types of what belongs to the clients and the file.
Rest == /\ file \in Text
        /\ stage \in [Clients -> Stages]
        /\ read \in [Clients -> [name: Names, tools: SUBSET Tools, text: Text]]
        /\ snap \in [Clients -> Text]
        /\ requests \in 0 .. MaxRequests
        /\ overlap \in BOOLEAN
        /\ half \in BOOLEAN
        /\ unsaved \in BOOLEAN

LEMMA TypeParts == TypeOK <=> experts \in [Names -> Expert] /\ raw \in Text /\ Rest
BY DEF TypeOK, Rest

LEMMA InitInv == Init => Inv
<1> SUFFICES ASSUME Init PROVE Inv
  OBVIOUS
<1>1. file \in Text /\ raw = file /\ experts = Injected(file)
  BY StoreAssumption DEF Init
<1>2. experts \in [Names -> Expert]
  BY <1>1, InjectedType
<1>3. Rest
  <2>1. stage \in [Clients -> Stages] /\ requests \in 0 .. MaxRequests
    BY StoreAssumption DEF Init, Stages
  <2>4. overlap \in BOOLEAN /\ half \in BOOLEAN /\ unsaved \in BOOLEAN
    BY Zenon DEF Init
  <2>2. read \in [Clients -> [name: Names, tools: SUBSET Tools, text: Text]]
    BY NothingReadType DEF Init
  <2>3. snap \in [Clients -> Text]
    BY TornType DEF Init
  <2> QED
    BY <1>1, <2>1, <2>2, <2>3, <2>4 DEF Rest
<1>4. Agrees
  BY <1>1, InjectedMatches DEF Agrees, RawMatchesMemory
<1> QED
  BY <1>1, <1>2, <1>3, <1>4, TypeParts DEF Inv

LEMMA TypePartsNext ==
  ASSUME experts' \in [Names -> Expert], raw' \in Text, Rest'
  PROVE  TypeOK'
BY DEF TypeOK, Rest

LEMMA HandlerRest ==
  ASSUME TypeOK, NEW k \in Clients, Handler(k)
  PROVE  Rest'
<1>0. Rest
  BY TypeParts
<1>1. CASE Begin(k)
  <2>1. overlap' \in BOOLEAN
    BY <1>1, Zenon DEF Begin
  <2> QED
    BY <1>0, <1>1, <2>1, StoreAssumption DEF Begin, Rest, Moves, Stages
<1>2. CASE Refused(k)
  BY <1>0, <1>2 DEF Refused, Rest, Moves, Stages, audit
<1>3. CASE EditsExpert(k)
  BY <1>0, <1>3, EditFrame, NothingReadType DEF Changes, Rest, Moves, Stages
<1>4. CASE AddTool(k)
  <2>1. PICK n \in Names, t \in Tools : ReadsTools(k, n, experts[n].tools \cup {t})
    BY <1>4 DEF AddTool
  <2>2. experts[n].tools \cup {t} \in SUBSET Tools
    BY DEF TypeOK, Expert
  <2> QED
    BY <1>0, <2>1, <2>2 DEF ReadsTools, Rest, Moves, Stages, audit
<1>5. CASE RemoveTool(k)
  <2>1. PICK n \in Names, t \in Tools : ReadsTools(k, n, experts[n].tools \ {t})
    BY <1>5 DEF RemoveTool
  <2>2. experts[n].tools \ {t} \in SUBSET Tools
    BY DEF TypeOK, Expert
  <2> QED
    BY <1>0, <2>1, <2>2 DEF ReadsTools, Rest, Moves, Stages, audit
<1>6. CASE \E s \in Stages : BeginUnchecked(k, s) /\ half' \in BOOLEAN
  <2>1. overlap' \in BOOLEAN
    BY <1>6, Zenon DEF BeginUnchecked
  <2> QED
    BY <1>0, <1>6, <2>1, StoreAssumption DEF BeginUnchecked, Rest, Moves
<1>7. CASE ImportConfig(k)
  <2>1. half' \in BOOLEAN
    BY <1>7, Zenon DEF ImportConfig
  <2> QED
    BY <1>6, <1>7, <2>1 DEF ImportConfig, Stages
<1>8. CASE SetGlobalDefaults(k)
  <2>1. half' \in BOOLEAN
    BY <1>0, <1>8, Zenon DEF SetGlobalDefaults, Rest
  <2> QED
    BY <1>6, <1>8, <2>1 DEF SetGlobalDefaults, Stages
<1>9. CASE ReadPositions(k)
  <2>1. [raw EXCEPT !.ui = TRUE] \in Text
    BY DEF TypeOK, Text
  <2> QED
    BY <1>0, <1>9, <2>1 DEF ReadPositions, Rest, Moves, Stages, audit
<1>10. CASE SavePositions(k)
  BY <1>0, <1>10, NothingReadType DEF SavePositions, Rest, Moves, Stages
<1>11. CASE Snapshot(k)
  BY <1>0, <1>11 DEF Snapshot, Rest, Moves, Stages, audit, store, TypeOK
<1>12. CASE Open(k)
  BY <1>0, <1>12, TornType DEF Open, Rest, Stages, audit
<1>13. CASE OpenFails(k)
  BY <1>0, <1>13, TornType DEF OpenFails, Rest, Moves, Stages
<1>14. CASE Write(k)
  BY <1>0, <1>14, TornType DEF Write, Rest, Stages
<1> QED
  BY <1>1, <1>2, <1>3, <1>4, <1>5, <1>7, <1>8, <1>9, <1>10, <1>11, <1>12, <1>13, <1>14 DEF Handler

LEMMA UnchangedStores ==
  ASSUME Inv, UNCHANGED <<experts, raw>>, half' = half
  PROVE  experts' \in [Names -> Expert] /\ raw' \in Text /\ Agrees'
BY DEF Inv, TypeOK, Agrees, RawMatchesMemory

LEMMA HandlerStores ==
  ASSUME Inv, NEW k \in Clients, Handler(k)
  PROVE  experts' \in [Names -> Expert] /\ raw' \in Text /\ Agrees'
<1>0. TypeOK /\ Stored
  BY DEF Inv, TypeOK, Stored
<1>1. CASE EditsExpert(k)
  <2>1. CASE UNCHANGED store
    BY <1>1, <2>1, EditFrame, UnchangedStores DEF store
  <2>2. ASSUME NEW n \in Names, NEW e \in Expert, Put(n, e)
        PROVE  experts' \in [Names -> Expert] /\ raw' \in Text /\ Agrees'
    BY <1>0, <2>2, PutStores
  <2> QED
    BY <1>0, <1>1, <2>1, <2>2, EditPuts
<1>2. CASE ImportConfig(k)
  <2>1. Exported \in Text
    BY <1>0, DumpedMatches, StoreAssumption DEF Exported, Text, LLMs, TypeOK
  <2>2. ASSUME NEW d \in Documents \cup {Exported}, ImportJson(d)
        PROVE  experts' \in [Names -> Expert] /\ raw' \in Text /\ Agrees'
    BY <2>1, <2>2, StoreAssumption, ImportStores
  <2>3. ASSUME NEW d \in Documents, NEW lost \in (SUBSET Names) \ {{}}, half' = TRUE,
               ImportHalf([n \in Names |-> IF n \in lost THEN Gone ELSE d.experts[n]])
        PROVE  experts' \in [Names -> Expert] /\ raw' \in Text /\ Agrees'
    <3>1. d.experts \in [Names -> Expert]
      BY StoreAssumption DEF Text
    <3>2. experts' \in [Names -> Expert]
      BY <2>3, <3>1, GoneType DEF ImportHalf
    <3> QED
      BY <1>0, <2>3, <3>2 DEF ImportHalf, TypeOK, Agrees, RawMatchesMemory
  <2> QED
    BY <1>2, <2>2, <2>3 DEF ImportConfig
<1>3. CASE SetGlobalDefaults(k)
  <2>1. CASE UNCHANGED store /\ half' = half
    BY <2>1, UnchangedStores DEF store
  <2>2. ASSUME NEW llm \in Models, SetGlobalLlmDefaults(llm), half' = half
        PROVE  experts' \in [Names -> Expert] /\ raw' \in Text /\ Agrees'
    <3>1. raw' = [raw EXCEPT !.top = llm] /\ experts' = experts
      BY <2>2 DEF SetGlobalLlmDefaults
    <3>2. raw' \in Text /\ raw'.whole = raw.whole /\ raw'.experts = raw.experts
      BY <1>0, <3>1 DEF Stored, Text, LLMs
    <3> QED
      BY <1>0, <2>2, <3>1, <3>2 DEF Inv, Stored, Agrees, RawMatchesMemory
  <2> QED
    BY <1>3, <2>1, <2>2 DEF SetGlobalDefaults
<1>4. CASE SavePositions(k)
  <2>1. read[k].text \in Text
    BY <1>0 DEF TypeOK
  <2> QED
    BY <1>4, <2>1, ImportStores DEF SavePositions
<1>5. CASE UNCHANGED store /\ half' = half
  BY <1>5, UnchangedStores DEF store
<1> QED
  BY <1>1, <1>2, <1>3, <1>4, <1>5
  DEF Handler, Begin, Refused, AddTool, RemoveTool, ReadsTools, ReadPositions, Snapshot, Open,
      OpenFails, Write, audit

LEMMA NextInv == Inv /\ [Next]_vars => Inv'
<1> SUFFICES ASSUME Inv, [Next]_vars PROVE Inv'
  OBVIOUS
<1>0. TypeOK /\ Stored /\ Rest
  BY TypeParts DEF Inv, TypeOK, Stored
<1>1. ASSUME NEW k \in Clients, Handler(k)
      PROVE  Inv'
  BY <1>0, <1>1, HandlerRest, HandlerStores, TypePartsNext DEF Inv
<1>2. CASE ChainStart
  <2>1. experts' \in [Names -> Expert] /\ raw' \in Text /\ Agrees'
    BY <1>0, <1>2, ReconfigureStores DEF ChainStart, Rest
  <2>2. overlap' \in BOOLEAN /\ half' \in BOOLEAN
    BY <1>2, Zenon DEF ChainStart
  <2>3. Rest'
    BY <1>0, <1>2, <2>2 DEF ChainStart, Rest
  <2> QED
    BY <2>1, <2>3, TypePartsNext DEF Inv
<1>3. CASE Restart
  <2>1. experts' \in [Names -> Expert] /\ raw' \in Text
    BY <1>0, <1>3, InjectedType, TornType DEF Restart, Rest, Text
  <2>2. raw'.whole => experts' = Injected(raw')
    BY <1>3 DEF Restart
  <2>3. Agrees'
    BY <2>1, <2>2, InjectedMatches DEF Agrees, RawMatchesMemory
  <2>4. Rest'
    BY <1>0, <1>3, NothingReadType, TornType DEF Restart, Rest, Stages
  <2> QED
    BY <2>1, <2>3, <2>4, TypePartsNext DEF Inv
<1>4. CASE UNCHANGED vars
  BY <1>4 DEF vars, Inv, TypeOK, Agrees, RawMatchesMemory
<1> QED
  BY <1>1, <1>2, <1>3, <1>4 DEF Next

LEMMA InvHolds == Spec => []Inv
BY InitInv, NextInv, PTL DEF Spec

\* The store, the file and the handlers stay within their types.
THEOREM TypeCorrect == Spec => []TypeOK
BY InvHolds, PTL DEF Inv

\* A text that parses lists the experts in memory, after any mix of edits, imports, saved
\* positions, chain starts and restarts by any number of clients.
THEOREM TextMatchesMemory == Spec => []RawMatchesMemory
BY InvHolds, PTL DEF Inv, Agrees

\* A chain that reads a file in the middle of a save keeps the experts it had.
THEOREM TornTextIsHarmless == Spec => TornTextKeepsExperts
<1>1. [Next]_vars => [ChainStart /\ ~raw'.whole => UNCHANGED experts]_vars
  BY DEF ChainStart, Reconfigure
<1> QED
  BY <1>1, PTL DEF Spec, TornTextKeepsExperts

\* No edit of an expert touches the top level of the text.
THEOREM TopLevelSurvives == Spec => MetadataSurvives
<1>1. ASSUME TypeOK, NEW k \in Clients, EditsExpert(k)
      PROVE  raw'.top = raw.top /\ raw'.ui = raw.ui /\ raw'.whole = raw.whole
  <2>0. Stored
    BY <1>1 DEF TypeOK, Stored
  <2>1. ASSUME NEW n \in Names, NEW e \in Expert, Put(n, e)
        PROVE  raw'.top = raw.top /\ raw'.ui = raw.ui /\ raw'.whole = raw.whole
    BY <2>0, <2>1, PutStores
  <2> QED
    BY <1>1, <2>1, EditPuts DEF store
<1>2. TypeOK /\ [Next]_vars =>
        [(\E k \in Clients : EditsExpert(k)) => /\ raw'.top = raw.top
                                                /\ raw'.ui = raw.ui
                                                /\ raw'.whole = raw.whole]_vars
  BY <1>1
<1> QED
  BY <1>2, TypeCorrect, PTL DEF Spec, MetadataSurvives

\* Neither half a save nor an edit of an expert costs what it is not about.
THEOREM OthersSurvive == Spec => NothingElseIsLost
BY TornTextIsHarmless, TopLevelSurvives DEF NothingElseIsLost

-----------------------------------------------------------------------------
(***************************************************************************)
(* The file.                                                               *)
(***************************************************************************)
\* As long as nothing has overlapped there is one request at most; what it has taken to
\* write is the text in memory, and only its save is missing from the file.
OneAtATime ==
  ~overlap =>
    /\ \A j, k \in Clients : stage[j] # "idle" /\ stage[k] # "idle" => j = k
    /\ \A k \in Clients : stage[k] # "shared" /\ (stage[k] \in {"open", "write"} => snap[k] = raw)
    /\ unsaved \/ file = raw \/ \E k \in Clients : stage[k] \in {"save", "open", "write"}

\* A request that goes from one place to another, alone, and leaves the file.
LEMMA StepAlone ==
  ASSUME TypeOK, OneAtATime, NEW k \in Clients, NEW s \in Stages, Moves(k, s), ~overlap',
         stage[k] # "idle" => ~overlap, stage[k] = "idle" => ~overlap /\ Others(k) = {},
         s # "shared", \A j \in Clients \ {k} : snap'[j] = snap[j],
         s \in {"open", "write"} => snap'[k] = raw',
         unsaved' \/ s \in {"save", "open", "write"}
                  \/ file' = raw' \/ (UNCHANGED <<file, raw, unsaved>> /\ stage[k] \notin {"save", "open", "write"})
  PROVE  OneAtATime'
<1>1. ~overlap
  OBVIOUS
<1>2. \A j \in Clients : stage'[j] = IF j = k THEN s ELSE stage[j]
  BY DEF Moves, TypeOK
<1>3. \A j \in Clients \ {k} : stage[j] = "idle"
  BY <1>1 DEF OneAtATime, Others
<1>4. \A i, j \in Clients : stage'[i] # "idle" /\ stage'[j] # "idle" => i = j
  BY <1>2, <1>3
<1>5. \A j \in Clients : stage'[j] # "shared" /\ (stage'[j] \in {"open", "write"} => snap'[j] = raw')
  BY <1>2, <1>3
<1>6. unsaved' \/ file' = raw' \/ \E j \in Clients : stage'[j] \in {"save", "open", "write"}
  <2>1. CASE s \in {"save", "open", "write"}
    BY <1>2, <2>1
  <2>2. CASE UNCHANGED <<file, raw, unsaved>> /\ stage[k] \notin {"save", "open", "write"}
    <3>1. unsaved \/ file = raw \/ \E j \in Clients : stage[j] \in {"save", "open", "write"}
      BY <1>1 DEF OneAtATime
    <3>2. \A j \in Clients : stage[j] \notin {"save", "open", "write"}
      BY <1>3, <2>2
    <3> QED
      BY <2>2, <3>1, <3>2
  <2> QED
    BY <2>1, <2>2
<1> QED
  BY <1>4, <1>5, <1>6 DEF OneAtATime

LEMMA HandlerAlone ==
  ASSUME TypeOK, OneAtATime, NEW k \in Clients, Handler(k)
  PROVE  OneAtATime'
<1> SUFFICES ASSUME ~overlap' PROVE OneAtATime'
  BY DEF OneAtATime
<1>1. CASE Begin(k)
  BY <1>1, StepAlone DEF Begin, Stages, store
<1>2. CASE Refused(k)
  BY <1>2, StepAlone DEF Refused, Stages, store, audit
<1>3. CASE EditsExpert(k)
  BY <1>3, EditFrame, StepAlone DEF Changes, Stages
<1>4. CASE AddTool(k) \/ RemoveTool(k)
  <2>1. PICK n \in Names : \E tools : ReadsTools(k, n, tools)
    BY <1>4 DEF AddTool, RemoveTool
  <2>2. PICK tools : ReadsTools(k, n, tools)
    BY <2>1
  <2> QED
    BY <2>2, StepAlone DEF ReadsTools, Stages, store, audit
<1>5. CASE ImportConfig(k)
  <2>1. BeginUnchecked(k, "save")
    BY <1>5 DEF ImportConfig
  <2> QED
    BY <2>1, StepAlone DEF BeginUnchecked, Stages
<1>6. CASE SetGlobalDefaults(k)
  <2>1. CASE BeginUnchecked(k, "save")
    BY <2>1, StepAlone DEF BeginUnchecked, Stages
  <2>2. CASE BeginUnchecked(k, "idle") /\ UNCHANGED store
    BY <2>2, StepAlone DEF BeginUnchecked, Stages, store
  <2> QED
    BY <1>6, <2>1, <2>2 DEF SetGlobalDefaults
<1>7. CASE ReadPositions(k)
  BY <1>7, StepAlone DEF ReadPositions, Stages, store, audit
<1>8. CASE SavePositions(k)
  <2>1. stage[k] = "positions" /\ UNCHANGED <<snap, overlap>>
    BY <1>8 DEF SavePositions
  <2>2. Moves(k, "save") \/ (Moves(k, "idle") /\ unsaved')
    BY <1>8 DEF SavePositions
  <2> QED
    BY <2>1, <2>2, StepAlone DEF Stages
<1>9. CASE Snapshot(k)
  BY <1>9, StepAlone DEF Snapshot, Stages, store, audit, TypeOK
<1>10. CASE Open(k)
  <2>1. stage[k] = "open" /\ UNCHANGED <<raw, snap, overlap>>
    BY <1>10 DEF Open, store, audit
  <2>2. snap[k] = raw /\ \A j \in Clients : stage[j] # "shared"
    BY <2>1 DEF OneAtATime
  <2>3. Moves(k, "write")
    BY <1>10, <2>2 DEF Open, Moves, TypeOK
  <2> QED
    BY <2>1, <2>2, <2>3, StepAlone DEF Stages
<1>11. CASE OpenFails(k)
  BY <1>11, StepAlone DEF OpenFails, Stages, TypeOK
<1>12. CASE Write(k)
  <2>1. stage[k] = "write" /\ UNCHANGED <<raw, overlap>> /\ ~overlap
        /\ \A j \in Clients \ {k} : stage[j] = "idle" /\ snap'[j] = snap[j]
    BY <1>12 DEF Write, OneAtATime, store, TypeOK
  <2>2. file' = snap[k]
    BY <1>12, <2>1 DEF Write, Others
  <2>3. snap[k] = raw
    BY <2>1 DEF OneAtATime
  <2>4. Moves(k, "idle")
    <3>1. stage' = [j \in Clients |-> IF j = k THEN "idle" ELSE IF stage[j] = "write" THEN "shared" ELSE stage[j]]
      BY <1>12 DEF Write
    <3>2. \A j \in Clients : stage'[j] = IF j = k THEN "idle" ELSE stage[j]
      BY <2>1, <3>1
    <3>3. stage' = [j \in Clients |-> IF j = k THEN "idle" ELSE stage[j]]
      BY <3>1, <3>2
    <3> QED
      BY <3>3 DEF Moves, TypeOK
  <2> QED
    BY <2>1, <2>2, <2>3, <2>4, StepAlone DEF Stages
<1> QED
  BY <1>1, <1>2, <1>3, <1>4, <1>5, <1>6, <1>7, <1>8, <1>9, <1>10, <1>11, <1>12 DEF Handler

LEMMA NextAlone == TypeOK /\ OneAtATime /\ [Next]_vars => OneAtATime'
<1> SUFFICES ASSUME TypeOK, OneAtATime, [Next]_vars PROVE OneAtATime'
  OBVIOUS
<1>1. CASE ChainStart
  <2>1. SUFFICES ASSUME ~overlap' PROVE OneAtATime'
    BY DEF OneAtATime
  <2>2. (\A k \in Clients : stage'[k] = "idle") /\ file' = raw'
    BY <1>1, <2>1 DEF ChainStart, Reconfigure
  <2> QED
    BY <2>2 DEF OneAtATime
<1>2. CASE Restart
  BY <1>2 DEF Restart, OneAtATime
<1>3. CASE UNCHANGED vars
  BY <1>3 DEF vars, OneAtATime
<1> QED
  BY <1>1, <1>2, <1>3, HandlerAlone DEF Next

\* With requests one at a time, no chain start during one and a file that opens, every change
\* is in the file once its request is answered, whatever requests and restarts there were.
THEOREM ChangesAreSaved == Spec => []QuietMeansSaved
<1>1. Init => OneAtATime
  BY DEF Init, OneAtATime
<1>2. OneAtATime => QuietMeansSaved
  BY DEF OneAtATime, QuietMeansSaved
<1> QED
  BY <1>1, <1>2, NextAlone, TypeCorrect, PTL DEF Spec
=============================================================================
