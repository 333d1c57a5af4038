CONSTANTS
  t1 = t1
  t2 = t2
  NoTask = NoTask
  Tasks <- TwoTasks
  Faults <- FirstFails
  MaxCrashes = 1
  MaxData <- FirstTalks
SPECIFICATION FairSpec
INVARIANTS VerdictsAgree
PROPERTIES ImplementsOutcome TasksEnd
CHECK_DEADLOCK FALSE
