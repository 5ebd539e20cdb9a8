CONSTANTS
  Procs = {p1, p2}
  Files = {f}
  Contents = {a, b}
  Ids = {1, 2}
  Claims = {c}
  Origins <- Known
  Arguments <- Captures
  f = f
  MaxEdits = 1
  MaxTampers = 1
  NotLocal = NotLocal
  Nobody = Nobody
SPECIFICATION Spec
INVARIANTS SnapshotsAreWhole CapturedIsKept OneSnapshotPerContent AcceptedAsApproved DriftAgreesWithCapture
PROPERTIES NeverRewritten
SYMMETRY Symmetry
CHECK_DEADLOCK FALSE
