CONSTANTS
  Clients = {c1}
  Contents = {"p", "q"}
  FailingContents = {}
  Settings <- Chunking
  ReviewSettings = {}
  Schemas = {2}
  MaxEdits = 1
  None = None
SPECIFICATION Spec
INVARIANTS
  NeverRefusedAsCorrupt
