SPECIFICATION FairSpec
CONSTANTS
  Queries = {q1}
  NFiles = 1
  Lines <- AllLines
PROPERTIES RebuildIsSwapped
