\* Reviews, failing sources and another client, beside runs and resumes.
SPECIFICATION ProjectSpec
CONSTANTS
  Clients = {}
  Contents = {"p", "q"}
  FailingContents = {"q"}
  Settings <- Reviewed
  ReviewSettings = {"review"}
  Schemas = {3, 4}
  MaxEdits = 2
  None = None
  Specs <- DocumentsAndRows
  Versions = {v1, v2}
INVARIANTS ReviewedAsBuilt FinishedAsLocked ResumeKeepsPinned
SYMMETRY VersionSymmetry
