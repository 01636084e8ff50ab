\* Two workspaces sealed to the same names, through every fault.
SPECIFICATION FairSpec
CONSTANTS
  Workspaces = {w1, w2}
  Exporters = {}
  Packagers = {}
  Paths = {p}
  Datasets = {d1, d2}
  Nothing = Nothing
  Faults = {"kill", "oserror", "interrupt", "power"}
  MaxFaults = 1
  MaxChanges = 2
INVARIANT ReceiptAfterBundle
PROPERTIES PublishesCurrent PartialSealFinishes
