\* A review with two edits of the checkout, the cache or the workspaces.
SPECIFICATION SessionSpec
CONSTANTS
  Commits = {c1, c2}
  None = None
  Part = Part
  MaxEdits = 2
INVARIANTS
  TypeOK
  VmCacheIsWhole
  VerifiedIsOfCandidate
  VerifiedOrNothing
SYMMETRY Interchangeable
VIEW Seen
CHECK_DEADLOCK FALSE
