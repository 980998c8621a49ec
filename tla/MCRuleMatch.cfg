CONSTANTS
  Rules <- MCRules
  MaxRules = 3
  Requests <- MCRequests
SPECIFICATION Spec
INVARIANTS NxdomainOnlyUnmatched FirstMatchDecides LongestSuffixWins CapturesNumbered
