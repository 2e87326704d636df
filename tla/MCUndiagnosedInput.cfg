\* report with a definition absent.
SPECIFICATION Safety
CONSTANTS
  None = None
  Absent = Absent
  Irregular = Irregular
  Malformed = Malformed
  Unguarded = Unguarded
  Runs = {"p1", "p2"}
  Readers = {}
  Outputs = {"out"}
  TempNames = {"t1"}
  Mapped = {}
  MaxEdits = 1
  ParentExists = TRUE
  Command <- ConvertAndReport
  OutputOf <- MCOutputOf
  Reads <- MCReads
  Contents <- MCContents
  SameSchema <- MCSameSchema
  Defined <- MCDefined
  Convertible <- MCConvertible
  OneReport <- MCOneReport
  InitialFile <- MCInitialFile
  Editable <- ResultsRole
INVARIANTS
  InputFaultsAreDiagnosed
CHECK_DEADLOCK FALSE
