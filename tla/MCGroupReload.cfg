SPECIFICATION FairGroupSpec
CONSTANTS
  Domains = {d1, d2}
  NSources = 1
INVARIANTS SettlesAfterReload
PROPERTIES ChangesArrive
