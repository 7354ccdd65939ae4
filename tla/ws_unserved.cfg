CONSTANTS
    a = a
    b = b
    c = c
    w = w
    eth = eth
    bsc = bsc
    Nets = {eth}
    Urls = {a, b, c, w}
    Prios <- MCPrios
    Config <- Socket
    NeverAlive = {w}
    Ops <- None
    Msgs <- None
    WebSockets = {w}
    MaxDiscovered = 2
    TTL = 1
    MaxNow = 0
SPECIFICATION FairSpec
PROPERTIES WebSocketsForwarded
CHECK_DEADLOCK FALSE
