CONSTANTS
  Clients = {c1}
  Contents = {"p", "q"}
  FailingContents = {}
  Settings <- Cleaning
  ReviewSettings = {}
  Schemas = {1, 2, 4}
  MaxEdits = 1
  None = None
SPECIFICATION UpgradingSpec
PROPERTIES
  Converges
