SPECIFICATION Spec
CONSTANTS
    Width <- MCWidth
    MaxRtt = 2
    Queries = {q1, q2}
    Names <- MCNames
    Target <- MCTarget
    Configs <- MCConfigs
    HostTables <- MCHostTables
    Zone <- MCZone
    HostRecs <- MCHostRecs
    LocalRecs <- MCLocalRecs
SYMMETRY Slots
INVARIANTS
    CapKept
    RecordsKept
    BestKept
    SkipHonoured
    NamesMatch
