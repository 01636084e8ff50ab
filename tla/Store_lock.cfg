SPECIFICATION FairSpec
CONSTANTS
  c1 = c1
  c2 = c2
  o1 = o1
  o2 = o2
  NoClient = NoClient
  Clients <- TwoClients
  Objects <- OneObject
  Schemas = {3}
  MaxRevisions = 3
  Faults = {"kill", "oserror"}
  MaxFaults = 1
PROPERTIES
  LockReleased
  CommitAnswered
