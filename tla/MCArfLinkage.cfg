\* Every document under every linkage, with two rewrites of the file.
SPECIFICATION Spec
CONSTANTS
  None = None
  Malformed = Malformed
  Absent = Absent
  MaxRewrites = 2
  ArfFiles <- MCArfFiles
  LinkageFiles <- MCLinkageFiles
INVARIANTS
  TypeOK
  CollectionsAreUnique
  OneDocumentResolves
  OvalLinksCover
  TailoringStaysInCollection
  AllOrNothing
CHECK_DEADLOCK FALSE
