CONSTANTS
    a = a
    b = b
    c = c
    w = w
    eth = eth
    bsc = bsc
    Nets = {eth, bsc}
    Urls = {a, b, c, w}
    Prios <- MCPrios
    Config <- TwoNets
    NeverAlive = {w}
    Ops <- None
    Msgs <- LearnCC
    WebSockets = {w}
    MaxDiscovered = 3
    TTL = 1
    MaxNow = 1
SPECIFICATION Spec
INVARIANTS TypeOK ServedIsKnown OnlyCheckedServed DiscoveredBounded
PROPERTIES ImplementsRoutingTable
