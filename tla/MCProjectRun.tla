---------------------------- MODULE MCProjectRun ----------------------------
\* ProjectRun for TLC: documents and rows, the latter with a pinned goal,
\* and documents with a mapping, which no spec may have.
EXTENDS ProjectRun, TLC

Reviewed == [s \in StageNames |->
  CASE s = "parse" -> Contents [] s = "construct" -> {"a", "review"} [] OTHER -> {"a"}]

SpecOf(mode, mapping, pins) ==
  [mode |-> mode, stages |-> {"parse", "seal"}, mapping |-> mapping, pins |-> pins]
DocumentsAndRows ==
  {SpecOf("document-source", None, <<>>), SpecOf("document-source", "a", <<>>),
   SpecOf("dataset-row", "a", [curate |-> "a"])}

VersionSymmetry == Permutations(Versions)
=============================================================================
