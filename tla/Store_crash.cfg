SPECIFICATION Spec
CONSTANTS
  c1 = c1
  c2 = c2
  o1 = o1
  o2 = o2
  NoClient = NoClient
  Clients <- TwoClients
  Objects <- TwoObjects
  Schemas = {1}
  MaxRevisions = 4
  Faults = {"kill", "oserror", "headsync"}
  MaxFaults = 1
SYMMETRY Symmetry
INVARIANTS
  TypeOK
  HeadIntact
  CommittedStays
  FailedInvisible
PROPERTIES
  HistoryAppendOnly
  HistorySpec
