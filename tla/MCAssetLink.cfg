\* Two vocabularies that name different assets.
SPECIFICATION Spec
CONSTANTS
  None = None
  Malformed = Malformed
  Absent = Absent
  MaxRewrites = 2
  ArfFiles <- MCArfFiles
  LinkageFiles <- MCLinkageFiles
INVARIANT
  AssetLinkIsUnambiguous
CHECK_DEADLOCK FALSE
