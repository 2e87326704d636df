\* convert and report write one path under a reader while inputs are rewritten.
SPECIFICATION Safety
CONSTANTS
  None = None
  Absent = Absent
  Irregular = Irregular
  Malformed = Malformed
  Unguarded = Unguarded
  Runs = {"p1", "p2"}
  Readers = {"reader"}
  Outputs = {"out"}
  TempNames = {"t1", "t2"}
  Mapped = {}
  MaxEdits = 1
  ParentExists = TRUE
  Command <- ConvertAndReport
  OutputOf <- MCOutputOf
  Reads <- MCReads
  Contents <- MCContents
  SameSchema <- MCSameSchema
  Defined <- MCDefined
  Convertible <- MCConvertible
  OneReport <- MCOneReport
  InitialFile <- MCInitialFile
  Editable <- OvalRoles
INVARIANTS
  TypeOK
  Inv
  ArtifactsAreWhole
  ArtifactsAreAccepted
  TempsAreAccountedFor
  ExitTellsEffect
  OvalExitNamesCause
  ReadersSeeWholeArtifacts
PROPERTIES
  OnlyReplaceChangesArtifacts
CHECK_DEADLOCK FALSE
