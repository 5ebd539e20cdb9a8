CONSTANTS
  p1 = p1  p2 = p2  p3 = p3  old = old  new = new  leaf = leaf
  Procs = {p1, p2}
  Claims = {old, new}
  Supersedes <- PairSupersedes
  Supports <- PairSupports
  InitStatus <- PairStatus
  Roles <- OneOfEach
  Mortal = {p1}
  MaxGen = 2
  MaxEdits = 1
  Reverts = FALSE
  CoarseStamps = TRUE
  Nobody = Nobody
SPECIFICATION LiveSpec
INVARIANTS AnswersAreCurrent FreshIndexIsCanonical
PROPERTIES ReindexRestoresService
