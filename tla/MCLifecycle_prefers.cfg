SPECIFICATION Spec
CONSTANTS
    Width <- MCWidth
    MaxRtt = 1
    HostNames <- MCHostNames
    Garbled = "?"
    Replies <- MCReplies
    Setups <- MCStart
    Requests <- MCRequests
    Queries = {q1, q2}
    MaxReloads = 1
    MaxRotations = 2
    MaxWriteFaults = 1
CHECK_DEADLOCK FALSE
INVARIANTS
    PrefersOrdered
