SPECIFICATION Spec
CONSTANTS
  w1 = w1
  s1 = s1
  s2 = s2
  t1 = t1
  t2 = t2
  gd = gd
  g1 = g1
  None = None
  Stranger = Stranger
  Workspaces = {w1}
  Sessions = {s1, s2}
  Tasks = {t1, t2}
  Globals = {gd, g1}
  DefaultGlobal = gd
  NamedGlobals = {g1}
  MaxUpsets = 2
  Results <- AllResults
INVARIANTS RowsAgree
PROPERTIES LedgerSpec BornAtHome
SYMMETRY Symmetric
CHECK_DEADLOCK FALSE
