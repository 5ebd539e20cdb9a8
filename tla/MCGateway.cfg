CONSTANTS
  Srv = Srv  Other = Other  Nobody = Nobody
  Clients = {Srv, Other}
  r1 = r1  Runs = {r1}
  Items = {0, 1}
  c1 = c1  c2 = c2  c3 = c3
  Claims = {c1, c2, c3}
  cited = cited  Cites = {cited}
  Names = {"here", "there"}  Unsafe = {"../here"}  NoName = ""  FirstName = "here"
  Hands = {1, 2}
  MaxInput = 3
  MaxBuffer = 5
  Chunk = 3
  Scripts <- FewScripts
  MaxFrames = 3
  MaxAhead = 2
  MaxFaults = 1
SPECIFICATION Spec
INVARIANTS HandledInOrder RefusedAsAdvertised AnswerTellsOutcome SubmittedHasItsClaim OrphansAreDeaths DefaultIsWhole SettledDefaultStays
PROPERTIES EveryCallAnswered
CHECK_DEADLOCK FALSE
