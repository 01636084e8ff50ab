-------------------------------- MODULE Compile --------------------------------
(***************************************************************************)
(* The dataset compiler: bytes are captured, documents are parsed, cleaned *)
(* and chunked, records are constructed or imported and reviewed, a plan   *)
(* curates and splits them, and they are formatted, validated, sealed and  *)
(* verified.                                                               *)
(*                                                                         *)
(* A behaviour starts at the beginning of one of its five parts, with      *)
(* every input that part can be given: files on a disk, sources that were  *)
(* captured, records that were constructed, files of rows, or the commits  *)
(* of a workspace.  What the second part makes goes on into the third, and *)
(* what the third and the fourth split goes on into a bundle.              *)
(***************************************************************************)
EXTENDS Construction, FileReads, FinishedBundle, StageReplay

vars == <<readVars, constructionVars, datasetVars, importVars, bundleVars, replayVars>>

NoReads ==
  /\ disk = [n \in Names |-> Nothing] /\ files = <<>>
  /\ reader = [at |-> "idle", name |-> 1, file |-> Nothing, half |-> 0, reads |-> 0]
  /\ facts = [n \in Names |-> NoFacts] /\ bytes = [n \in Names |-> Unread] /\ moment = files

NoDocuments ==
  /\ sources = <<>> /\ stage = "idle" /\ reason = ""
  /\ parsed = <<>> /\ plans = <<>> /\ chunked = NoChunks /\ built = NotBuilt

NoDataset ==
  /\ made = <<>> /\ raw = <<>> /\ policy = [minimum |-> 0, cap |-> 0, ppm |-> 1, required |-> FALSE] /\ phase = "idle"
  /\ outcome = <<>> /\ keeper = <<>> /\ parents = Nobody /\ owner = Nobody /\ split = Unsplit

NoImport ==
  /\ rowFiles = <<>> /\ importing = "idle" /\ imported = <<>> /\ report = NoReport
  /\ rowPlan = [schema |-> "text", container |-> "jsonl", membership |-> "replaced", review |-> "none",
                paths |-> <<>>, confirmed |-> FALSE]
  /\ rowPolicy = [minimum |-> 0, cap |-> 0, ppm |-> 1, required |-> FALSE]
  /\ verdict = <<>> /\ grouping = {} /\ parts = NoParts /\ formatted = NoRows

NoReplay == route = "none" /\ committed = <<>>

Init ==
  /\ BundleInit
  /\ \/ ReadsInit /\ NoDocuments /\ NoDataset /\ NoImport /\ NoReplay
     \/ NoReads /\ ConstructionInit /\ NoDataset /\ NoImport /\ NoReplay
     \/ NoReads /\ NoDocuments /\ DatasetInit /\ NoImport /\ NoReplay
     \/ NoReads /\ NoDocuments /\ NoDataset /\ ImportInit /\ NoReplay
     \/ NoReads /\ NoDocuments /\ NoDataset /\ NoImport /\ ReplayInit

-----------------------------------------------------------------------------
(* From construction to curation *)

\* OBJECTIVE_FIELD_ROLES: the field asked with and the field asked for.
ContextAt(objective) == 1
TargetAt(objective) == IF objective = "full_text" THEN 1 ELSE 2

\* The rows of the constructed records, in the order of their candidates.
RowsOf(construction) ==
  LET kept == SelectSeq([n \in DOMAIN construction.candidates |-> n],
                        LAMBDA n : n \in construction.records)
      objective == construction.recipe.objective
      row(c) == [sources |-> c.sources, context |-> Fields(c)[ContextAt(objective)],
                 target |-> Fields(c)[TargetAt(objective)]]
  IN  [n \in DOMAIN kept |-> row(construction.candidates[kept[n]])]

\* The digests of the selected sources, equal for equal bytes.
DigestOf(i) == CHOOSE j \in DOMAIN sources : sources[j] = sources[i] /\ \A k \in 1..(j - 1) : sources[k] # sources[i]

\* PipelineService.curate takes the records of the construction at HEAD.
\* Bounds: two to four records; policies without a minimum, the texts are short.
CurateConstructed ==
  /\ stage = "constructed" /\ Cardinality(built.records) \in 2..4 /\ phase = "idle"
  /\ made' = RowsOf(built)
  /\ raw' = [i \in Selected(built.recipe) |-> DigestOf(i)]
  /\ policy' \in {p \in Policies : p.minimum = 0}
  /\ phase' = "curate"
  /\ outcome' = Undecided(DOMAIN made').outcome
  /\ keeper' = Undecided(DOMAIN made').keeper
  /\ UNCHANGED <<readVars, constructionVars, importVars, bundleVars, replayVars, parents, owner, split>>

\* The objective of the records: that of their recipe, or any of two fields.
Objective == IF stage = "constructed" THEN built.recipe.objective ELSE "continuation"

Next ==
  \/ reader.at # "idle" /\ ReadsNext /\ UNCHANGED <<constructionVars, datasetVars, importVars, bundleVars, replayVars>>
  \/ ConstructionNext /\ phase = "idle" /\ UNCHANGED <<readVars, datasetVars, importVars, bundleVars, replayVars>>
  \/ CurateConstructed
  \/ DatasetNext /\ UNCHANGED <<readVars, constructionVars, importVars, bundleVars, replayVars>>
  \/ ImportNext /\ sealing = "idle" /\ UNCHANGED <<readVars, constructionVars, datasetVars, bundleVars, replayVars>>
  \/ Format(Objective) /\ UNCHANGED <<readVars, constructionVars, datasetVars, importVars, replayVars>>
  \/ BundleNext /\ UNCHANGED <<readVars, constructionVars, datasetVars, importVars, replayVars>>
  \/ ReplayNext /\ UNCHANGED <<readVars, constructionVars, datasetVars, importVars, bundleVars>>

Spec == Init /\ [][Next]_vars
=============================================================================
