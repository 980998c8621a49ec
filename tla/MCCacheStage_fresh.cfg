SPECIFICATION Spec
CONSTANTS
  Queries = {q1}
  Keys = {k1}
  Answers <- RecordAnswers
  Unit = 1
  MinTtl = 2
  MaxTtl = 3
  KeepTtl = FALSE
  SkipBalanceOnHit = TRUE
  NegativeTtl = 1
  ProbeTicks = 0
INVARIANTS HitsAreFresh
