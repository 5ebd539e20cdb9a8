CONSTANTS
  Claims = {c1, c2, c3}
  NoClaim = NoClaim
SPECIFICATION Spec
INVARIANTS VerdictsAreRight MemoIsRight
PROPERTIES EveryRootDecided
CHECK_DEADLOCK FALSE
