\* Two conversions or reports, and one delta or inventory of them.
SPECIFICATION Spec
CONSTANTS
  None = None
  MaxRuns = 2
  MaxReviews = 1
  ResultsDocs <- MCResultsDocs
  DefinitionsDocs <- MCDefinitionsDocs
  MappingDocs <- MCMappingDocs
  FileNames <- MCFileNames
INVARIANTS
  TypeOK
  UuidsAreUnique
  UuidsIdentifyContent
  FindingsAreAuthored
  DeltaIsOfTheScans
  ReportCoversArtifact
  InventoryIsComplete
CHECK_DEADLOCK FALSE
