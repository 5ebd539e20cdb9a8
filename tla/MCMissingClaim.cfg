CONSTANTS
  p1 = p1  p2 = p2  p3 = p3  old = old  new = new  leaf = leaf
  Procs = {p1, p2}
  Claims = {old, new}
  Supersedes <- PairSupersedes
  Supports <- PairSupports
  InitStatus <- PairStatus
  Roles <- TwoRebuilders
  Mortal = {p1, p2}
  MaxGen = 2
  MaxEdits = 2
  Reverts = TRUE
  CoarseStamps = TRUE
  Nobody = Nobody
SPECIFICATION Spec
INVARIANTS AnswersAreCurrent
