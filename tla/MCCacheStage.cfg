SPECIFICATION FairSpec
CONSTANTS
  Queries = {q1, q2}
  Keys = {k1}
  Answers <- AllAnswers
  Unit = 2
  MinTtl = 0
  MaxTtl = 2
  KeepTtl = FALSE
  SkipBalanceOnHit = TRUE
  NegativeTtl = 1
  ProbeTicks = 1
INVARIANTS RecordsLifeBound FaithfulHits
PROPERTIES SkipCacheBypasses OutdatedLeaves
