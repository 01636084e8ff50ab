\* A sealer, an exporter and a packager that use each other's artifacts;
\* one export of a file in a folder, and its readers, under one intrusion.
SPECIFICATION ExportsSpec
CONSTANTS
  Workspaces = {w}
  Exporters = {e}
  Packagers = {a}
  Paths = {p, q}
  Datasets = {d1}
  Nothing = Nothing
  Faults = {"kill", "oserror", "interrupt", "power"}
  MaxFaults = 1
  MaxChanges = 1
  Payloads = {"rows"}
  Nested = {"rows"}
  Spares = {"spare"}
  MaxIntrusions = 1
SYMMETRY PathSymmetry
INVARIANTS Truthful  FromABundle TakenAsOneTree CleansUpItsOwn
PROPERTY NeverReplaced
