CONSTANTS
    Urls = {a, b, w}
    Prios <- MCPrios
    NeverAlive = {w}
    Statuses <- MCStatuses
    Pings <- MCPings
    NotProbed = {b}
    NamedTLS = {a}
    MaxNodes = 3
SPECIFICATION Spec
INVARIANTS TypeOK AnswerIsFastest ForeseenOutcome ServedNotMarked
PROPERTIES LastingIsMarked
