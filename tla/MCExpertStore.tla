---- MODULE MCExpertStore ----
(* A file with two experts, one of them under double check and none with a model of its own, *)
(* and a smaller one to import.                                                              *)
EXTENDS ExpertStore, TLC

CONSTANTS planner, executor, t1, m1

MCExpert(tools, check) ==
  [there |-> TRUE, tools |-> tools, routes |-> 1, llm |-> NoModel, check |-> check]

MCDocuments == {
  [whole |-> TRUE, top |-> m1, ui |-> TRUE,
   experts |-> [n \in Names |-> MCExpert({t1}, n = executor)]],
  [whole |-> TRUE, top |-> NoModel, ui |-> FALSE,
   experts |-> [n \in Names |-> IF n = planner THEN MCExpert({}, FALSE) ELSE Gone]]}

MCSymmetry == Permutations(Clients)
====
