SPECIFICATION FairSpec
CONSTANTS
    Queries = {q1, q2}
    N = 2
    Modes = {"serial", "random", "roundrobin", "parallel"}
    CooldownOn = TRUE
    Window = 0
    Threshold = 2
    Cooldown = 1
    MaxTime = 1
INVARIANTS
    FailsAfterAll
    CoolingSitOut
PROPERTIES
    TripsAreEarned
    QueryReturns
