-------------------------------- MODULE Exports --------------------------------
(***************************************************************************)
(* Publication at both grains: artifacts and processes that race for names *)
(* (Publication), and the files of one export on a disk that changes under *)
(* it (ExportTree).  A behaviour is of one or of the other; one export ends. *)
(***************************************************************************)
EXTENDS Publication, ExportTree

NoTree ==
  /\ op = [does |-> "none"] /\ at = "idle" /\ pass = 0 /\ todo = {} /\ path = Absent /\ before = 0
  /\ rendered = <<>> /\ noted = <<>> /\ read = <<>> /\ root = Absent /\ owned = <<>>
  /\ seen = 0 /\ taken = {} /\ cause = "none"
  /\ node = <<>> /\ holds = <<>> /\ spot = <<>> /\ parented = TRUE /\ intrusions = 0 /\ moment = <<>>

ExportsInit == Init /\ (NoTree \/ TreeInit)

ExportsNext ==
  \/ Does("none") /\ Next /\ UNCHANGED treeVars
  \/ ~Does("none") /\ TreeNext /\ UNCHANGED vars
  \/ Over /\ UNCHANGED <<vars, treeVars>>

ExportsSpec == ExportsInit /\ [][ExportsNext]_<<vars, treeVars>>
=============================================================================
