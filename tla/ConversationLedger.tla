------------------------- MODULE ConversationLedger -------------------------
(* What the message table promises to whoever reads a conversation: each      *)
(* session has one sequence of messages that only grows at its end; a task    *)
(* asks exactly one question, in one session, and is answered at most once,   *)
(* in that session, after its question.  ConversationStore is shown to        *)
(* implement it.                                                              *)
EXTENDS Sequences

CONSTANTS Sessions, Tasks

VARIABLE talk      \* talk[s]: the messages of session s, oldest first

Entry == [task : Tasks, role : {"user", "assistant"}]

Said(t, r) == \E s \in Sessions : \E i \in DOMAIN talk[s] : talk[s][i] = [task |-> t, role |-> r]

LedgerInit == talk = [s \in Sessions |-> <<>>]

Ask(s, t) ==
  /\ ~Said(t, "user")
  /\ talk' = [talk EXCEPT ![s] = Append(@, [task |-> t, role |-> "user"])]

Answer(s, t) ==
  /\ ~Said(t, "assistant")
  /\ \E i \in DOMAIN talk[s] : talk[s][i] = [task |-> t, role |-> "user"]
  /\ talk' = [talk EXCEPT ![s] = Append(@, [task |-> t, role |-> "assistant"])]

LedgerNext == \E s \in Sessions, t \in Tasks : Ask(s, t) \/ Answer(s, t)

LedgerSpec == LedgerInit /\ [][LedgerNext]_talk
=============================================================================
