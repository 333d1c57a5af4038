----------------------------- MODULE ExpertChain -----------------------------
(***************************************************************************)
(* AgentLoop::runExpertChain: one task walks a graph of experts.  An       *)
(* expert converses with the model for a few rounds, may have its work     *)
(* reviewed, and its last reply picks the next expert.  What the model     *)
(* replies, when a call fails and when the user cancels is anyone's guess. *)
(*                                                                         *)
(* A reply is the set of tags MessageBus finds in it; `text' stands for    *)
(* readable text around them, `done' for a done tag with content, `blank'  *)
(* for one without, `note' for the tags that only add to the history.      *)
(* Prompts, tool results and summaries are left out; the history is the    *)
(* set of those who wrote into it.                                         *)
(***************************************************************************)
EXTENDS Integers, Sequences

CONSTANTS
  Experts,      \* names in the configuration
  Entry,        \* the expert getEntryExpert returns
  Marked,       \* experts with is_entry
  Executor, Summarizer,  \* the two names the code knows
  Rounds,       \* max_internal_rounds, by expert
  Isolated,     \* experts with context_isolation
  Planners,     \* experts with can_modify_plan
  Toolless,     \* experts without visible tools
  Reviewed,     \* experts with double_check
  Rules,        \* next_rules, by expert: [on, value, to, priority]
  OnFail,       \* on_fail, by expert; "" when it is not set
  MaxSteps,     \* options.maxSteps, validated to be within 1 .. 20
  Replies,      \* the replies considered
  ModelMayGo    \* TRUE: the last provider may be unconfigured meanwhile

Tags == {"done", "blank", "fail", "ask", "plan", "cmd", "note", "text"}

ASSUME ChainAssumption ==
  /\ Entry \in Experts
  /\ Marked \subseteq Experts
  /\ Marked # {} => Entry \in Marked
  /\ Rounds \in [Experts -> Nat]
  /\ MaxSteps \in 1 .. 20
  /\ Replies \subseteq SUBSET Tags
  /\ ModelMayGo \in BOOLEAN
  /\ "review" \notin Experts

VARIABLES
  at,        \* where the worker thread is
  expert,    \* currentExpert
  switches,  \* expertSwitches
  rounds,    \* roundsLeft
  fresh,     \* firstRoundInExpert
  attempts,  \* llmAttempts, which is only compared with MaxAttempts, counted up to it
  history,   \* who wrote into sessionHistory since it was last cleared
  plan,      \* the states of the plan's steps
  last,      \* the tags of lastOutput
  result,    \* status of the AgentLoopResult
  flag,      \* the task's cancel flag
  verdict    \* of the review of the expert's latest work, for the properties

chainVars == <<at, expert, switches, rounds, fresh, attempts, history, plan, last, result, flag,
          verdict>>

Steps    == {"enter", "loop", "waiting", "reply", "check", "review", "route", "ended"}
Results  == {"none", "completed", "failed", "cancelled", "config_error"}
Verdicts == {"none", "passed", "skipped", "rejected"}
StepStates == {"pending", "done", "failed"}

MaxAttempts == 2  \* kMaxLlmAttemptsPerExpert

ChainTypeOK ==
  /\ at \in Steps
  /\ expert \in Experts
  /\ switches \in 0 .. MaxSteps
  /\ rounds \in Nat
  /\ fresh \in BOOLEAN
  /\ attempts \in 0 .. MaxAttempts
  /\ history \subseteq Experts \cup {"review"}
  /\ plan \subseteq StepStates
  /\ last \subseteq Tags
  /\ result \in Results
  /\ flag \in BOOLEAN
  /\ verdict \in Verdicts

ChainInit ==
  /\ at = "enter"
  /\ expert = Entry
  /\ switches = 0
  /\ rounds = 0
  /\ fresh = TRUE
  /\ attempts = 0
  /\ history = {}
  /\ plan = {}
  /\ last = {}
  /\ result = "none"
  /\ flag = FALSE
  /\ verdict = "none"

HasDone(tags) == tags \cap {"done", "blank"} # {}
HasEnd(tags)  == HasDone(tags) \/ "fail" \in tags

\* isAvailable: some provider is configured.
ModelIsThere(up) == up \in BOOLEAN /\ (up \/ ModelMayGo)

-----------------------------------------------------------------------------
(***************************************************************************)
(* The ends of a chain.                                                    *)
(***************************************************************************)
Ends(r) ==
  /\ at' = "ended"
  /\ result' = r
  /\ UNCHANGED <<expert, switches, rounds, fresh, attempts, history, plan, last, flag, verdict>>

Cancel ==
  /\ at # "ended"
  /\ ~flag
  /\ flag' = TRUE
  /\ UNCHANGED <<at, expert, switches, rounds, fresh, attempts, history, plan, last, result,
                 verdict>>

-----------------------------------------------------------------------------
(***************************************************************************)
(* The outer loop.                                                         *)
(***************************************************************************)

StageLeft == switches < MaxSteps

\* The stage budget is used up.
RunOut == at = "enter" /\ ~StageLeft /\ Ends("failed")

CancelAtEntry == at = "enter" /\ StageLeft /\ flag /\ Ends("cancelled")

\* The rounds of an expert that is entered anew; one that comes back from a review,
\* or that shares the history, finds what is left.
Granted(e, first) == IF first THEN Rounds[e] ELSE rounds

\* An isolated expert starts with an empty history, also when it comes back from a review.
Kept == IF expert \in Isolated THEN {} ELSE history

Enter ==
  /\ at = "enter" /\ StageLeft /\ ~flag
  /\ LET first == fresh \/ expert \in Isolated
     IN /\ history' = Kept
        /\ fresh' = first
        /\ rounds' = Granted(expert, first)
        /\ IF expert = Executor /\ Kept = {} /\ plan = {} /\ expert \notin Marked
           THEN at' = "ended" /\ result' = "failed"
           ELSE at' = "loop" /\ UNCHANGED result
  /\ switches' = switches + 1
  /\ attempts' = 0
  /\ last' = {}
  /\ UNCHANGED <<expert, plan, flag, verdict>>

-----------------------------------------------------------------------------
(***************************************************************************)
(* The inner loop: one round.                                              *)
(***************************************************************************)
LeaveLoop ==
  /\ at = "loop" /\ rounds = 0
  /\ at' = "check"
  /\ UNCHANGED <<expert, switches, rounds, fresh, attempts, history, plan, last, result, flag,
                 verdict>>

CancelInLoop == at = "loop" /\ rounds > 0 /\ flag /\ Ends("cancelled")

ModelGone == at = "loop" /\ rounds > 0 /\ ~flag /\ ModelIsThere(FALSE) /\ Ends("failed")

\* Mutant of MayCall: the loop does not look at the flag.
MayCallAlways == TRUE

MayCall == ~flag

CallModel ==
  /\ at = "loop" /\ rounds > 0 /\ MayCall
  /\ at' = "waiting"
  /\ fresh' = FALSE
  /\ attempts' = IF attempts < MaxAttempts THEN attempts + 1 ELSE attempts
  /\ UNCHANGED <<expert, switches, rounds, history, plan, last, result, flag, verdict>>

\* Mutant of CancelledCall: nobody answers for a review that was cancelled.
CancelledWait == at = "waiting" /\ flag /\ Ends("cancelled")

CancelledCall == at \in {"waiting", "review"} /\ flag /\ Ends("cancelled")

\* An error or an unreadable reply: one more attempt, then the chain fails.
CallFails ==
  /\ at = "waiting" /\ ~flag
  /\ history' = history \cup {expert}
  /\ IF attempts >= MaxAttempts
     THEN at' = "ended" /\ result' = "failed" /\ UNCHANGED rounds
     ELSE at' = "loop" /\ rounds' = rounds - 1 /\ UNCHANGED result
  /\ UNCHANGED <<expert, switches, fresh, attempts, plan, last, flag, verdict>>

\* A summarizer that forgot the protocol: its text is the answer of a failed task.
CallAnswers ==
  /\ at = "waiting" /\ ~flag
  /\ \E tags \in Replies :
       /\ last' = tags
       /\ IF expert = Summarizer /\ ~HasEnd(tags) /\ "text" \in tags
          THEN at' = "ended" /\ result' = "failed"
          ELSE at' = "reply" /\ UNCHANGED result
  /\ UNCHANGED <<expert, switches, rounds, fresh, attempts, history, plan, flag, verdict>>

\* The flag is looked at before each command and after each tool.
CancelledTool == at = "reply" /\ "cmd" \in last /\ flag /\ Ends("cancelled")

\* What plan tags may do: steps are added, completed or failed, never removed, and a
\* settled one stays settled.
Settled == {"done", "failed"}
PlansAfter == {p \in SUBSET StepStates :
                 /\ plan # {} => p # {}
                 /\ plan \cap Settled # {} => p \cap Settled # {}}

\* Mutant of TakeReply: a reply whose commands were all refused is for free.
TakeReplyForFree ==
  /\ at = "reply" /\ ~("cmd" \in last /\ flag)
  /\ at' = IF HasEnd(last) THEN "check" ELSE "loop"
  /\ rounds' = IF HasEnd(last) \/ "cmd" \in last THEN rounds ELSE rounds - 1
  /\ history' = IF HasEnd(last) THEN history ELSE history \cup {expert}
  /\ attempts' = 0
  /\ UNCHANGED <<expert, switches, fresh, plan, last, result, flag, verdict>>

\* Commands, plan, notes; then the reply ends the visit or costs a round.
TakeReply ==
  /\ at = "reply" /\ ~("cmd" \in last /\ flag)
  /\ LET planned == "plan" \in last /\ expert \in Planners
         over    == (planned /\ expert \in Toolless) \/ HasEnd(last)
     IN /\ IF planned THEN plan' \in PlansAfter ELSE UNCHANGED plan
        /\ history' = IF ~over \/ planned \/ last \cap {"cmd", "note"} # {}
                      THEN history \cup {expert} ELSE history
        /\ rounds' = IF over THEN rounds ELSE rounds - 1
        /\ at' = IF over THEN "check" ELSE "loop"
  /\ UNCHANGED <<expert, switches, fresh, attempts, last, result, flag, verdict>>

-----------------------------------------------------------------------------
(***************************************************************************)
(* After the loop: out of rounds, the review, the route.                   *)
(***************************************************************************)
Exhausted == at = "check" /\ rounds = 0 /\ ~HasEnd(last) /\ Ends("failed")

WantsReview == expert \in Reviewed /\ HasDone(last) /\ "fail" \notin last

\* up: whether the model is there when the review is due.
EndLoop ==
  /\ at = "check" /\ ~(rounds = 0 /\ ~HasEnd(last))
  /\ \E up \in BOOLEAN :
       /\ ModelIsThere(up)
       /\ at' = IF WantsReview /\ up THEN "review" ELSE "route"
       /\ verdict' = IF WantsReview /\ ~up THEN "skipped" ELSE "none"
  /\ UNCHANGED <<expert, switches, rounds, fresh, attempts, history, plan, last, result, flag>>

\* The review failed to run: the work is taken as it is.
ReviewSkipped ==
  /\ at = "review" /\ ~flag
  /\ at' = "route"
  /\ verdict' = "skipped"
  /\ UNCHANGED <<expert, switches, rounds, fresh, attempts, history, plan, last, result, flag>>

\* The reviewer's words replace the expert's.
ReviewPasses ==
  /\ at = "review" /\ ~flag
  /\ \E tags \in Replies : HasDone(tags) /\ last' = tags
  /\ at' = "route"
  /\ verdict' = "passed"
  /\ UNCHANGED <<expert, switches, rounds, fresh, attempts, history, plan, result, flag>>

\* Mutant of WithReview: the reviewer's words are dropped.
WithoutReview == history \cup {expert}

WithReview == history \cup {expert, "review"}

\* The reviewer's words go into the history, and the same expert is entered again.
ReviewRejects ==
  /\ at = "review" /\ ~flag
  /\ \E tags \in Replies : ~HasDone(tags) /\ last' = tags
  /\ history' = WithReview
  /\ rounds' = 1
  /\ fresh' = FALSE
  /\ at' = "enter"
  /\ verdict' = "rejected"
  /\ UNCHANGED <<expert, switches, attempts, plan, result, flag>>

\* What a plan can be asked for.
PlanSays == [
  all_done    |-> plan = {"done"},
  has_failed  |-> "failed" \in plan,
  has_pending |-> "pending" \in plan,
  is_empty    |-> plan = {}]

\* RouteEngine::matchCondition.
Matches(rule) ==
  \/ rule.on = "tag" /\ IF rule.value = "done" THEN HasDone(last) ELSE rule.value \in last
  \/ rule.on = "plan" /\ rule.value \in DOMAIN PlanSays /\ PlanSays[rule.value]
  \/ rule.on = "default"

\* The rule of the highest priority, the first of its equals; bestPriority starts below zero,
\* and a rule that is no higher is never taken.
Best(rules) ==
  {i \in DOMAIN rules :
     /\ Matches(rules[i]) /\ rules[i].priority >= 0
     /\ \A j \in DOMAIN rules : Matches(rules[j]) =>
          \/ rules[j].priority < rules[i].priority
          \/ rules[j].priority = rules[i].priority /\ i <= j}

\* RouteEngine::resolve.
Resolve ==
  LET rules == Rules[expert]
      best  == Best(rules)
  IN CASE "ask" \in last  -> "_user_interrupt"
       [] "ask" \notin last /\ "fail" \in last ->
            IF OnFail[expert] = "" THEN "_done" ELSE OnFail[expert]
       [] "ask" \notin last /\ "fail" \notin last /\ best # {} -> rules[CHOOSE i \in best : TRUE].to
       [] OTHER -> IF HasDone(last) THEN "_done" ELSE ""

\* A done tag with content completes the task, even beside a fail tag.
StatusOfDone == IF "done" \notin last /\ "fail" \in last THEN "failed" ELSE "completed"

CancelAtRoute == at = "route" /\ flag /\ Ends("cancelled")

Finish ==
  /\ at = "route" /\ ~flag
  /\ \/ Resolve = "_done" /\ Ends(StatusOfDone)
     \/ Resolve = "_user_interrupt" /\ Ends("completed")
     \/ Resolve = "" /\ Ends("failed")
     \/ Resolve \notin Experts \cup {"_done", "_user_interrupt", ""} /\ Ends("config_error")

HandOver ==
  /\ at = "route" /\ ~flag
  /\ Resolve \in Experts
  /\ expert' = Resolve
  /\ at' = "enter"
  /\ UNCHANGED <<switches, rounds, fresh, attempts, history, plan, last, result, flag, verdict>>

-----------------------------------------------------------------------------
OuterStep == RunOut \/ CancelAtEntry \/ Enter

RoundStep ==
  \/ LeaveLoop \/ CancelInLoop \/ ModelGone \/ CallModel
  \/ CancelledCall \/ CallFails \/ CallAnswers
  \/ CancelledTool \/ TakeReply

EndStep ==
  \/ Exhausted \/ EndLoop \/ ReviewSkipped \/ ReviewPasses \/ ReviewRejects
  \/ CancelAtRoute \/ Finish \/ HandOver

Work == OuterStep \/ RoundStep \/ EndStep

ChainNext == Work \/ Cancel

ChainSpec == ChainInit /\ [][ChainNext]_chainVars

\* The worker thread keeps running, every model call has a timeout and every permission
\* a deadline.
FairChainSpec == ChainSpec /\ WF_chainVars(Work)

-----------------------------------------------------------------------------
(***************************************************************************)
(* Properties.                                                             *)
(***************************************************************************)

\* An isolated expert is never shown what others wrote (the prompt of each round is built
\* from sessionHistory).
IsolationHolds == at = "waiting" /\ expert \in Isolated => history \subseteq {expert}

\* Work that an expert under double check calls done is not routed before a review passed
\* it or could not be made; a rejected piece is reviewed anew.
NoUnreviewedWork ==
  at = "route" /\ expert \in Reviewed /\ HasDone(last) /\ "fail" \notin last
    => verdict \in {"passed", "skipped"}

\* The retry after a rejection has one round, and its prompt holds the reviewer's words;
\* isolated experts are left out, since entering one clears the history and renews its
\* rounds.
RetryKnowsWhy ==
  at = "waiting" /\ verdict = "rejected" /\ expert \notin Isolated
    => rounds = 1 /\ "review" \in history

\* What an expert is shown and what is taken from it: nothing of others when it is isolated,
\* no work without the review it is due, no retry without the reviewer's words.
WorkIsSound == IsolationHolds /\ NoUnreviewedWork /\ RetryKnowsWhy

\* Once the flag is up no round calls the model, and the chain does not complete.
CancelIsObeyed ==
  [][flag => (at' = "waiting" => at = "waiting") /\ result' # "completed"]_chainVars

\* Steps within a visit, in the order in which they can follow each other in one round.
Rank == [s \in Steps |->
  CASE s = "loop" -> 7 [] s = "waiting" -> 6 [] s = "reply" -> 5 [] s = "check" -> 4
    [] s = "review" -> 3 [] s = "route" -> 2 [] s = "enter" -> 1 [] s = "ended" -> 0]

Paid ==
  \/ switches' > switches
  \/ switches' = switches /\ rounds' < rounds
  \/ switches' = switches /\ rounds' = rounds /\ Rank[at'] < Rank[at]

\* Every step of the worker is paid for: with a stage, with a round of the visit, or by
\* moving on within the round.  Stages and rounds being bounded, refused commands, failed
\* calls and rejected reviews cannot keep a chain going for ever.
EveryStepIsPaid == [][flag' = flag => Paid]_chainVars

\* A chain comes to its end, cancelled or not.
Terminates == <>(at = "ended")
=============================================================================
