CONSTANTS
  w1 = w1
  w2 = w2
  c1 = c1
  c2 = c2
  Workers <- TwoWorkers
  Callers <- TwoCallers
  Cancellable <- FirstWorker
  MaxRequests = 2
  PushFails = TRUE
SPECIFICATION FairSpec
INVARIANTS ConsentToRun StatusTellsOutcome
PROPERTIES FirstAnswerCounts EveryAskEnds
CHECK_DEADLOCK FALSE
