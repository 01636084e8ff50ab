SPECIFICATION Spec
CONSTANTS
  c1 = c1
  c2 = c2
  o1 = o1
  o2 = o2
  NoClient = NoClient
  Clients <- TwoClients
  Objects <- TwoObjects
  Schemas = {3}
  MaxRevisions = 3
  Faults = {"kill", "oserror", "headsync", "power"}
  MaxFaults = 2
SYMMETRY Symmetry
INVARIANTS
  ConfirmedSurvives
PROPERTIES
  DamageNotExtended
