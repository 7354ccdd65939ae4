CONSTANTS
    a = a
    b = b
    c = c
    w = w
    eth = eth
    bsc = bsc
    Nets = {eth, bsc}
    Urls = {a, b, c, w}
    Prios <- MCPrios
    Config <- Lone
    NeverAlive = {w}
    Ops <- Unshrinking
    Msgs <- None
    WebSockets = {w}
    MaxDiscovered = 2
    TTL = 1
    MaxNow = 0
SPECIFICATION Spec
INVARIANTS NoPanic OnlyCheckedServed FailoverOrdered
