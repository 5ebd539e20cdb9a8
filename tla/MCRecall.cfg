CONSTANTS
  a = a  b = b  c = c  p1 = p1  p2 = p2
  Claims = {a, b, c}
  Supersedes <- Replaced
  Conflicts <- Disputed
  Procs = {p1}
  StaleDates <- FewDates
  Queries <- FewQueries
  Windows <- FewWindows
  Start <- LeapEve
  NoText = NoText
  Texts <- ManyTexts
  MaxTime = 2
SPECIFICATION Spec
INVARIANTS RecallIsHistory OnlyApprovedTold BestMatchSurvives PlainGapIsHonest BoundsAreRead
