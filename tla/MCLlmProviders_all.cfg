SPECIFICATION Spec
CONSTANTS
  Providers = {1, 2}
  Versions = {1, 2}
  Handlers = {h1, h2}
  Callers = {c1}
  Untimed = {2}
  Requests <- MCRequests
  OldFiles <- MCOldFiles
  MaxOps = 2
  MaxUpsets = 1
INVARIANTS RuntimeFollowsFiles
PROPERTIES ChatIsTrue RequestsApply MutexIsReleased
CHECK_DEADLOCK FALSE
