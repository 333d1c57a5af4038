SPECIFICATION Spec
CONSTANTS
  Tasks = {1, 2}
  Sessions = {"s1"}
  None = "none"
  OldVersions = {1}
  MaxUpsets = 2
  MaxEvents = 1
INVARIANTS ServesPrepared RecoveryIsWhole
PROPERTIES HistoryIsSafe StartEnds
CHECK_DEADLOCK FALSE
