CONSTANTS
  Queries = {q1, q2}
  Names = {"q"}
  Qtypes = {"A", "HTTPS"}
  Actions <- MCActions
  Templates = {"d"}
  Zone <- MCZone
SPECIFICATION FairForwardSpec
INVARIANTS ForwardTypeOK ChainUnbroken NeverWorse EchOnlyCandidates
PROPERTY QueryEnds
