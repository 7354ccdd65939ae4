CONSTANTS
    a = a
    b = b
    c = c
    w = w
    eth = eth
    bsc = bsc
    Nets = {eth}
    Urls = {a, b, c, w}
    Prios <- MCPrios
    Config <- Lone
    NeverAlive = {w}
    Ops <- DeleteA
    Msgs <- None
    WebSockets = {w}
    MaxDiscovered = 2
    TTL = 1
    MaxNow = 0
SPECIFICATION Spec
INVARIANTS NoPanic
CHECK_DEADLOCK FALSE
