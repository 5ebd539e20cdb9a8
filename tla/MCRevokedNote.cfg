CONSTANTS
  c1 = c1  c2 = c2  memo = memo
  Claims = {c1, c2}
  Names = {memo}
  Tiers = {"projects", "research"}
  Paths <- FewPaths
  Texts <- FewTexts
  Reasons <- FewReasons
  Scalars <- FewScalars
  Renderings <- FewRenderings
  FirstWiki <- StartWikis
  MaxEdits = 1
  Negators <- NotWords
  Predicates <- Verbs
  StatusWords <- States
  Auxiliaries <- Helpers
  Stem <- Stems
SPECIFICATION Spec
INVARIANTS RevokedIsHistory
CHECK_DEADLOCK FALSE
