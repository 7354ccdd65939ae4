CONSTANTS
    a = a
    b = b
    c = c
    w = w
    eth = eth
    bsc = bsc
    Nets = {eth}
    Urls = {a, b, c, w}
    Prios <- MCPrios
    Config <- Lone
    NeverAlive = {w}
    Ops <- None
    Msgs <- LearnW
    WebSockets = {w}
    MaxDiscovered = 2
    TTL = 1
    MaxNow = 1
SPECIFICATION Spec
INVARIANTS ExpiredPruned
