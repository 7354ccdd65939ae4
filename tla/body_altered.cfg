CONSTANTS
    a = a
    b = b
    c = c
    Urls = {a, b, c}
    Prios <- MCPrios
    NeverAlive = {}
    Base = 2
    MaxBackoff = 3
    Requests <- Bulky
    Batches <- EachAlone
    Lists <- AllLists
    Replies <- BulkyReplies
    Host <- MCHost
    Width = 8
    MaxCap = 2
    MaxTotal = 1
    MaxNow = 0
SPECIFICATION Spec
INVARIANTS BodyUnaltered
CHECK_DEADLOCK FALSE
