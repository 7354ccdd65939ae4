CONSTANTS
    a = a
    b = b
    c = c
    Urls = {a, b, c}
    Prios <- MCPrios
    NeverAlive = {}
    Base = 1
    MaxBackoff = 3
    Requests <- Mixed
    Batches <- Meetings
    Lists <- AllLists
    Replies <- AllReplies
    Host <- MCHost
    Width = 8
    MaxCap = 2
    MaxTotal = 1
    MaxNow = 1
SPECIFICATION FairSpec
INVARIANTS TypeOK BackoffBounded PrimaryFirst ListingComplete
PROPERTIES WindowGrows GivesUpLate 
CHECK_DEADLOCK FALSE
