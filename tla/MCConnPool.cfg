SPECIFICATION FairSpec
CONSTANTS
    Queries = {q1, q2}
    Conns = {c1, c2, c3}
    NAddr = 2
    IdleTimeout = 1
    NoConn = NoConn
    Peers = {0}
INVARIANTS
    Exclusive
    BoundedByConcurrency
    LoneCheckoutTriesAll
    GaugeNeverLow
PROPERTIES
    TakesFreshest
    ImplementsLease
    QueryEnds
