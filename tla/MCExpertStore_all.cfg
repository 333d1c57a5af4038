\* The requests run out.
CHECK_DEADLOCK FALSE
SPECIFICATION Spec
SYMMETRY MCSymmetry
CONSTANTS
  planner = planner
  executor = executor
  t1 = t1
  m1 = m1
  NoModel = NoModel
  Names = {planner, executor}
  Tools = {t1}
  Models = {m1}
  Clients = {c1, c2}
  Documents <- MCDocuments
  MaxRoutes = 1
  MaxRequests = 3
INVARIANTS  QuietMeansSaved
PROPERTIES NothingElseIsLost
