CONSTANTS
    t1 = t1
    Tasks = {t1}
    ShellRun = "shell.run"
    Tools <- MCTools
    Requests <- MCRequests
    FileWrites <- MCFileWrites
    Options <- MCOptions
    Configs <- MCConfigs
    Policies <- MCPolicies
    Breakable <- MCBreakable
    WarnAfter = 3
    MaxCalls = 3
SPECIFICATION Spec
INVARIANTS FloorHolds BooksAreTrue
PROPERTIES OrdersAreObeyed PauseEnds
