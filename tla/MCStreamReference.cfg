\* Two data streams of one identifier.
SPECIFICATION Spec
CONSTANTS
  None = None
  Malformed = Malformed
  Absent = Absent
  MaxRewrites = 2
  ArfFiles <- MCArfFiles
  LinkageFiles <- MCLinkageFiles
INVARIANT
  ReferencesAreUnambiguous
CHECK_DEADLOCK FALSE
