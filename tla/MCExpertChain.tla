---- MODULE MCExpertChain ----
(* A graph of experts like the one in docs/Expert配置说明文档.md: a planner without tools, *)
(* an isolated executor under double check, a reviewer that shares the history, a          *)
(* summarizer, one route to an expert that is not there, and one of a negative priority.   *)
EXTENDS ExpertChain

MCRule(on, value, to, priority) == [on |-> on, value |-> value, to |-> to, priority |-> priority]

MCRounds == [planner |-> 2, executor |-> 3, reviewer |-> 2, summarizer |-> 1]

MCRules == [
  planner    |-> <<MCRule("plan", "has_pending", "executor", 10),
                   MCRule("plan", "is_empty", "executor", 5)>>,
  executor   |-> <<MCRule("plan", "all_done", "reviewer", 10),
                   MCRule("tag", "done", "summarizer", 10),
                   MCRule("default", "", "reviewer", 5)>>,
  reviewer   |-> <<MCRule("tag", "done", "summarizer", 10),
                   MCRule("plan", "is_empty", "planner", 10)>>,
  summarizer |-> <<MCRule("tag", "done", "_done", 10),
                   MCRule("default", "", "planner", -1)>>]

MCOnFail == [planner |-> "", executor |-> "auditor", reviewer |-> "planner", summarizer |-> "_done"]

MCReplies == {
  {"text"}, {"text", "done"}, {"blank"}, {"text", "fail"}, {"text", "done", "fail"},
  {"text", "ask"}, {"text", "ask", "done"}, {"text", "plan"}, {"plan", "done"},
  {"cmd"}, {"cmd", "done"}, {"note"}}
====
