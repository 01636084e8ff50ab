------------------------------- MODULE MCExports -------------------------------
\* Exports for TLC.
EXTENDS Exports, TLC

PathSymmetry == Permutations(Paths)
=============================================================================
