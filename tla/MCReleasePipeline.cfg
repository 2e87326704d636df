\* A prerelease tag and a GA tag over a history of two commits; the step that
\* the shell rejects is taken as mended.
SPECIFICATION Spec
CONSTANTS
  PreTags = {alpha}
  GaTags = {ga}
  None = None
  Part = Part
  SmokeParses = TRUE
  MaxDamage = 2
  MaxCommits = 2
INVARIANTS
  TypeOK
  PublishedIsOfTag
  AcceptedAgreesWithManifest
  GaStopsAtTheGate
VIEW Seen
CHECK_DEADLOCK FALSE
