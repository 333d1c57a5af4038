SPECIFICATION TerminalSpec
CONSTANTS
  Workspaces = {1, 2}
  Globals = {1, 2, 3}
  DefaultWorkspace = 9
  DefaultGlobal = 1
  Linked <- MCLinked
  FirstRows <- MCFirstRows
  MaxSessions = 2
  MaxTasks = 3
  MaxCommands = 3
  MaxOthers = 1
  MaxLost = 1
CHECK_DEADLOCK FALSE
PROPERTIES IdsAreTrue ListenerIsTrue TerminalComesBack
