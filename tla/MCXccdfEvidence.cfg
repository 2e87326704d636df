\* Any two outputs of the XCCDF commands over every document and mapping.
SPECIFICATION Spec
CONSTANTS
  None = None
  MaxRuns = 2
  XccdfDocs <- MCXccdfDocs
  ArfDocs <- MCArfDocs
  MappingDocs <- MCMappingDocs
INVARIANTS
  TypeOK
  FindingsAreAuthored
  UuidsIdentifyEvidence
  ReportCoversArtifact
  ArfIsConvertedWhole
  EnvelopesAreClosed
CHECK_DEADLOCK FALSE
