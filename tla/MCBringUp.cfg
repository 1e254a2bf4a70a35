SPECIFICATION Spec
CONSTANTS
  RecvCap = 2
  MaxCap = 8
  MaxSent = 9
INVARIANTS
  ExitsClean
  UsesWhatItHolds
