CONSTANTS
    p = p
    q = q
    r = r
    u = u
    Procs = {p, q, r}
    Bootstraps = {p}
    Mortal = {p, q}
    MaxStarts = 3
    Urls = {u}
    Prio <- MCPrio
    Config <- MCConfig
SPECIFICATION FairSpec
INVARIANTS TypeOK PairsMeet
PROPERTIES NewsSpreads GoneForgotten
CHECK_DEADLOCK FALSE
