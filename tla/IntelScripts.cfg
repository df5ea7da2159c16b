\* One tool at a time; two attempts, one restart of the backend.
SPECIFICATION Spec
CONSTANTS
  Listings <- MCListings
  MaxAttempts = 2
  MaxRestarts = 1
  TaskFiles <- MCTaskFiles
  Exports <- MCExports
  MaxTargets = {0, 1, 2, 4}
INVARIANTS
  SubmissionInv
  SubmissionNamesItsTasks
  VerificationInv
  SummaryFitsLayers
  ReportedAssetsWereSeen
PROPERTIES
  ReportTellsStore
  ToolsEnd
