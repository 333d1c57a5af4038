------------------------ MODULE MCConversationStore ------------------------
(* Two sessions and two tasks, which are alike; two globals, one of them the *)
(* default.                                                                  *)
EXTENDS ConversationStore, TLC

CONSTANTS s1, s2, t1, t2, w1, gd, g1

AllResults == {{"summary", "output"}}

Symmetric == Permutations({t1, t2}) \cup Permutations({s1, s2})
=============================================================================
