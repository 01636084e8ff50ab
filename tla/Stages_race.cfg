CONSTANTS
  Clients = {c1, c2}
  Contents = {"p", "q"}
  FailingContents = {"q"}
  Settings <- Reviewed
  ReviewSettings = {"review"}
  Schemas = {3}
  MaxEdits = 1
  None = None
SPECIFICATION Spec
INVARIANTS
  OneGeneration
  NeverRefusedAsCorrupt
  SealedPassed
PROPERTIES
  StaleForAReason
SYMMETRY ClientSymmetry
