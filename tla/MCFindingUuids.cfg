\* One conversion, of a file with two TestResults of one rule.
SPECIFICATION Spec
CONSTANTS
  None = None
  MaxRuns = 1
  XccdfDocs <- MCXccdfDocs
  ArfDocs <- MCArfDocs
  MappingDocs <- MCMappingDocs
INVARIANTS
  FindingUuidsAreUnique
CHECK_DEADLOCK FALSE
