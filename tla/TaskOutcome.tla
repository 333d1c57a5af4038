---------------------------- MODULE TaskOutcome ----------------------------
(***************************************************************************)
(* What the task life cycle promises, whatever threads, database faults    *)
(* and process deaths do: a submitted task is decided once, and after that *)
(* announced once, with the event of that verdict.  Only removing the task *)
(* takes either back, and then a late worker may still announce it.        *)
(***************************************************************************)
EXTENDS Naturals

CONSTANT Tasks

VARIABLES
  verdict,   \* what the owner of the task can learn from its row
  announced  \* the verdicts its terminal events name

vars == <<verdict, announced>>

Decisions == {"completed", "failed", "cancelled"}
Final     == Decisions \cup {"interrupted"}

Init ==
  /\ verdict = [t \in Tasks |-> "none"]
  /\ announced = [t \in Tasks |-> {}]

Submit(t) ==
  /\ verdict[t] = "none"
  /\ verdict' = [verdict EXCEPT ![t] = "open"]
  /\ UNCHANGED announced

Decide(t, v) ==
  /\ verdict[t] = "open"
  /\ verdict' = [verdict EXCEPT ![t] = v]
  /\ UNCHANGED announced

Announce(t, v) ==
  /\ announced[t] = {}
  /\ verdict[t] \in {v, "removed"}
  /\ announced' = [announced EXCEPT ![t] = {v}]
  /\ UNCHANGED verdict

\* Deleting may fail on the row or on the events.
Remove(t) ==
  /\ verdict[t] # "none"
  /\ \/ verdict' = [verdict EXCEPT ![t] = "removed"]
     \/ UNCHANGED verdict
  /\ \/ announced' = [announced EXCEPT ![t] = {}]
     \/ UNCHANGED announced

\* A restart decides and announces every open task at once.
Interrupt ==
  /\ verdict' = [t \in Tasks |-> IF verdict[t] = "open" THEN "interrupted" ELSE verdict[t]]
  /\ announced' = [t \in Tasks |-> IF verdict[t] = "open" THEN {"interrupted"} ELSE announced[t]]

Next ==
  \/ \E t \in Tasks :
       \/ Submit(t)
       \/ \E v \in Decisions : Decide(t, v) \/ Announce(t, v)
       \/ Remove(t)
  \/ Interrupt

Spec == Init /\ [][Next]_vars
=============================================================================
