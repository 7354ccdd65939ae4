CONSTANTS
    a = a
    b = b
    c = c
    w = w
    eth = eth
    bsc = bsc
    Nets = {eth}
    Urls = {a, b, c, w}
    Prios <- MCPrios
    Config <- OneNet
    NeverAlive = {w}
    Ops <- AddDeleteReplace
    Msgs <- None
    WebSockets = {w}
    MaxDiscovered = 2
    TTL = 1
    MaxNow = 0
SPECIFICATION FairSpec
PROPERTIES Settles RoundsRecur DeletedGone
CHECK_DEADLOCK FALSE
