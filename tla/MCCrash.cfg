CONSTANTS
  p1 = p1  p2 = p2  p3 = p3  old = old  new = new  leaf = leaf
  Procs = {p1, p2}
  Claims = {old, new, leaf}
  Supersedes <- FullSupersedes
  Supports <- FullSupports
  InitStatus <- FullStatus
  Roles <- EveryCommand
  Mortal = {p1, p2}
  MaxGen = 2
  MaxEdits = 0
  Reverts = FALSE
  CoarseStamps = FALSE
  Nobody = Nobody
SPECIFICATION Spec
INVARIANTS CleanMarkerIsEarned JournalRecoverable AnswersHangTogether
PROPERTIES ImplementsPromise
