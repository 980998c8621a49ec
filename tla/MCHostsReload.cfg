SPECIFICATION FairSpec
CONSTANTS
  Queries = {q1, q2}
  NFiles = 1
  Lines <- AllLines
INVARIANTS OneTriePerQuery NothingLost
PROPERTIES LookupEnds
