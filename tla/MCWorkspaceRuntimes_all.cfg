CONSTANTS
    Workspaces = {w1, unnamed}
    Unnamed = unnamed
    Dirs = {d1, d2}
    Fragile = {d2}
    NoDir = nodir
    Chains = {c1, c2}
    Requests = {q1}
    Nobody = nobody
    MaxCommands = 1
SPECIFICATION Spec
PROPERTIES RunsInPlace NobodyWaitsForever
CHECK_DEADLOCK FALSE
