-------------------------- MODULE MCWorkspaceStore --------------------------
(* Small instances of WorkspaceStore for TLC.                              *)
EXTENDS WorkspaceStore, TLC

CONSTANTS c1, c2, o1, o2

TwoClients == {c1, c2}
OneObject == {o1}
TwoObjects == {o1, o2}
Symmetry == Permutations(TwoClients) \cup Permutations(TwoObjects)
ClientSymmetry == Permutations(TwoClients)
=============================================================================
