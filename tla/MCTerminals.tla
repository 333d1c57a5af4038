---------------------------- MODULE MCTerminals ----------------------------
EXTENDS Terminals

(* Global 1 is g_default; global 2 names workspace 2.  Session 1 belongs   *)
(* to workspace 1; another client has run a task.                         *)
MCLinked == [g \in Globals |-> IF g = 2 THEN 2 ELSE None]
MCFirstRows ==
  [ws |-> [w \in Workspaces |-> "live"],
   glob |-> [g \in Globals |-> IF g = 3 THEN "unborn" ELSE "live"],
   sess |-> <<1>>, task |-> <<"over">>, asks |-> {}]
=============================================================================
