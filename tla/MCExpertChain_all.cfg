\* The chain ends, and nothing happens after that.
CHECK_DEADLOCK FALSE
SPECIFICATION FairChainSpec
CONSTANTS
  Experts = {"planner", "executor", "reviewer", "summarizer"}
  Entry = "planner"
  Marked = {"planner"}
  Executor = "executor"
  Summarizer = "summarizer"
  Rounds <- MCRounds
  Isolated = {"executor"}
  Planners = {"planner", "executor"}
  Toolless = {"planner", "reviewer", "summarizer"}
  Reviewed = {"executor", "reviewer"}
  Rules <- MCRules
  OnFail <- MCOnFail
  MaxSteps = 5
  Replies <- MCReplies
  ModelMayGo = TRUE
INVARIANTS WorkIsSound
PROPERTIES CancelIsObeyed EveryStepIsPaid Terminates
