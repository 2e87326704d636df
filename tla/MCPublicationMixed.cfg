\* convert --mapping and convert-arf-xccdf into a new directory with one temporary name.
SPECIFICATION Spec
CONSTANTS
  None = None
  Absent = Absent
  Irregular = Irregular
  Malformed = Malformed
  Unguarded = Unguarded
  Runs = {"p1", "p2"}
  Readers = {"reader"}
  Outputs = {"out"}
  TempNames = {"t1"}
  Mapped = {"p1"}
  MaxEdits = 1
  ParentExists = FALSE
  Command <- ConvertAndArf
  OutputOf <- MCOutputOf
  Reads <- MCReads
  Contents <- MCContents
  SameSchema <- MCSameSchema
  Defined <- MCDefined
  Convertible <- MCConvertible
  OneReport <- MCOneReport
  InitialFile <- MCInitialFile
  Editable <- MixedRoles
INVARIANTS
  RejectedInputLeavesNoTrace
PROPERTIES
  EveryRunEnds
  EveryReaderEnds
  PublishesAtomically
CHECK_DEADLOCK FALSE
