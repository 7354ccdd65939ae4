CONSTANTS
    Half = 128
    Gwei = 2
    Wei <- MCWei
    Minima <- MCMinima
    MaxNodes = 3
SPECIFICATION FairSpec
INVARIANTS TypeOK FeesFloored FeesCohere LiveNodeQuoted
PROPERTIES EndsInTime
CHECK_DEADLOCK FALSE
