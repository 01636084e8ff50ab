-------------------------- MODULE MCStageRevisions --------------------------
\* StageRevisions for TLC: which stages have a choice of settings.
EXTENDS StageRevisions, TLC

Choice(S) == [s \in StageNames |->
  CASE s = "parse" -> Contents [] s \in DOMAIN S -> S[s] [] OTHER -> {"a"}]

Reviewed == Choice([construct |-> {"a", "review"}])
Chunking == Choice([chunk |-> {"a", "b"}])
Cleaning == Choice([clean |-> {"a", "b"}, map |-> {"a", "b"}])

ClientSymmetry == Permutations(Clients)
=============================================================================
