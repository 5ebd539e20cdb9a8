CONSTANTS
  base = base  leaf = leaf  new = new
  Procs = {p1, p2}
  Challenges = {x1}
  Claims = {base, leaf, new}
  Supersedes <- FewSupersedes
  Supports <- FewSupports
  InitStatus <- FewStatus
  Lifetime = 2
  TokenLifetime = 1
  MaxRedrafts = 1
  MaxEdits = 1
  Nobody = Nobody
  Unsaid = Unsaid
  Sayings <- FewSayings
SPECIFICATION LifecycleSpec
INVARIANTS ConfirmedText
CHECK_DEADLOCK FALSE
