CONSTANTS
    eth = eth
    base = base
    Nets = {eth, base}
    Named = {eth}
    Evm = {eth, base}
    Requests <- AllRequests
    Readers <- AllReaders
    MaxNodes = 2
SPECIFICATION FairSpec
INVARIANTS TypeOK StoreExclusive OwnNetwork
PROPERTIES SlowClientsAlone
CHECK_DEADLOCK FALSE
