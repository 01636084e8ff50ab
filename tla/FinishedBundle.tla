---------------------------- MODULE FinishedBundle ----------------------------
(***************************************************************************)
(* From a dataset that was split to a bundle that was verified: rows and   *)
(* their provenance (datasets/serialization.py), the gates and their       *)
(* report (datasets/validation.py), manifest and attestation               *)
(* (bundle/finished.py), and the verifier, which shares no rule with       *)
(* the stages before it (bundle/verifier.py).                              *)
(*                                                                         *)
(* A digest stands for the content it is of, so a file on disk is as it    *)
(* was sealed or it is not.  Every change of a file changes what stat      *)
(* says of it, an entry that comes or goes what stat says of its folder,   *)
(* and no change falls inside a single read.                               *)
(***************************************************************************)
EXTENDS RowImport

CONSTANTS
  Examined,      \* the datasets given every schema, input and change of a file
  Disturbable,   \* the paths of a sealed bundle whose files change
  MaxDisturbed   \* the changes made to the files of a sealed bundle

VARIABLES
  sealing,    \* "idle", "formatted", "validated", "failed", "sealed", the
              \* steps of the verifier, "verified" or "rejected"
  rowSet,       \* the row set, with the origin of its records
  handed,     \* the inputs of validation that are not those of the dataset
  manifest,   \* the number of records of every file of rows
  tree,       \* what every path of the bundle holds, how often it changed,
              \* and how often its entry came or went
  look        \* the verifier: whether another digest is asked for, its next payload, the
              \* calls its walk has still to make and what stat said so far,
              \* what it said in the first walk, and the tree when the latest
              \* walk began

bundleVars == <<sealing, rowSet, handed, manifest, tree, look>>

RowPaths == {"train", "evaluation", "provenance"}
Payloads == <<"evaluation", "train", "provenance", "validation">>
Metadata == {"manifest", "attestation"}
BundlePaths == ToSet(Payloads) \cup Metadata
AnyPath == BundlePaths \cup {"extra", "stray"}

\* The folders of a bundle and the entries they may have; the last one of the
\* root and of data is none of the bundle's.
Folders == {"data", "metadata"}
EntriesOf ==
  [root |-> {"attestation", "manifest", "validation", "data", "metadata", "extra"},
   data |-> {"evaluation", "train", "stray"}, metadata |-> {"provenance"}]

NoRowSet == [origin |-> "none", objective |-> "", schema |-> "", instruction |-> <<>>,
             train |-> <<>>, evaluation |-> <<>>, provenance |-> <<>>]
NoManifest == [p \in RowPaths |-> 0]
NotThere == [is |-> "missing", changes |-> 0, moves |-> 0]
NoTree == [p \in AnyPath |-> NotThere]
NoStat == [e \in AnyPath \cup Folders |-> NotThere]
NoLook == [asked |-> "none", next |-> 1, todo |-> {}, found |-> NoStat, stat |-> NoStat, then |-> NoTree]

-----------------------------------------------------------------------------
(* Rows *)

\* ROW_SCHEMA_FIELD_ORDER, with the roles of the fields of an objective.
SchemasOf(objective) ==
  IF objective = "full_text" THEN {"text"}
  ELSE {"prompt_completion", "instruction_output", "messages"}

Turn(role, content) == [role |-> role, content |-> content]

\* _record_payload
RowPayload(schema, instruction, context, target) ==
  CASE schema = "text"               -> [text |-> target]
    [] schema = "prompt_completion"  -> [prompt |-> context, completion |-> target]
    [] schema = "instruction_output" -> [instruction |-> instruction, input |-> context, output |-> target]
    [] schema = "messages"           -> [messages |-> <<Turn("user", context), Turn("assistant", target)>>]

GroupOf(r) == CHOOSE g \in split.groups : r \in g

ConstructedRow(r, schema, instruction) ==
  [record |-> r, payload |-> RowPayload(schema, instruction, made[r].context, made[r].target)]

\* RowProvenance.create: who stands behind one line of one part.
ConstructedEntry(line) ==
  [part |-> line.part, ordinal |-> line.ordinal, record |-> line.row.record, payload |-> line.row.payload,
   sources |-> made[line.row.record].sources, group |-> GroupOf(line.row.record),
   context |-> made[line.row.record].context, target |-> made[line.row.record].target]

ImportedRow(i) ==
  [record |-> i, payload |-> [keys |-> PayloadKeys(rowPlan.schema), values |-> imported[i].fields]]

ImportedEntry(line) ==
  [part |-> line.part, ordinal |-> line.ordinal, record |-> line.row.record, payload |-> line.row.payload,
   sources |-> {SourceOf(line.row.record)}]

\* The lines of the two parts, each with its place.
Placed(train, evaluation) ==
  LET at(part, rows) == [n \in DOMAIN rows |-> [part |-> part, ordinal |-> n, row |-> rows[n]]]
  IN  at("train", train) \o at("evaluation", evaluation)

\* Both parts in the order of the identities; provenance follows the lines.
RowSet(origin, objective, schema, instruction, train, evaluation, provenance) ==
  [origin |-> origin, objective |-> objective, schema |-> schema, instruction |-> instruction,
   train |-> train, evaluation |-> evaluation, provenance |-> provenance]

\* serialize_dataset
Serialized(objective, schema) ==
  LET instruction == IF schema = "instruction_output" THEN <<"do">> ELSE <<>>
      lower(records) == [n \in DOMAIN InOrder(records) |-> ConstructedRow(InOrder(records)[n], schema, instruction)]
      lines == Placed(lower(Train), lower(Evaluation))
  IN  RowSet("constructed", objective, schema, instruction, lower(Train), lower(Evaluation),
             [n \in DOMAIN lines |-> ConstructedEntry(lines[n])])

\* What the keys of a payload say it must hold.
Teaches(payload, instruction, context, target) ==
  LET keys == DOMAIN payload
  IN  \/ keys = {"text"} /\ payload.text = target
      \/ keys = {"prompt", "completion"} /\ payload.prompt = context /\ payload.completion = target
      \/ /\ keys = {"instruction", "input", "output"} /\ payload.instruction = instruction
         /\ payload.input = context /\ payload.output = target
      \/ keys = {"messages"} /\ payload.messages = <<Turn("user", context), Turn("assistant", target)>>

\* The rows that the imported path formatted and validated.
SerializedImport ==
  LET lower(order) == [n \in DOMAIN order |-> ImportedRow(order[n])]
      lines == Placed(lower(formatted.train), lower(formatted.evaluation))
  IN  RowSet("imported", "", rowPlan.schema, <<>>, lower(formatted.train), lower(formatted.evaluation),
             [n \in DOMAIN lines |-> ImportedEntry(lines[n])])

\* RowSet: both parts sorted, no record twice, every line with its provenance.
Ascending(line) == \A n \in 1..(Len(line) - 1) : line[n].record < line[n + 1].record

RowSetCloses(set) ==
  LET all == set.train \o set.evaluation
  IN  /\ set.train # <<>> /\ Ascending(set.train) /\ Ascending(set.evaluation)
      /\ Cardinality({row.record : row \in ToSet(all)}) = Len(all)
      /\ Len(set.provenance) = Len(all)
      /\ \A n \in DOMAIN all : LET entry == set.provenance[n] IN
           /\ entry.record = all[n].record /\ entry.payload = all[n].payload
           /\ IF n <= Len(set.train) THEN entry.part = "train" /\ entry.ordinal = n
              ELSE entry.part = "evaluation" /\ entry.ordinal = n - Len(set.train)

Format(objective) ==
  /\ phase = "done" /\ sealing = "idle"
  /\ \E schema \in SchemasOf(objective) :
       /\ inputs \in Examined \/ schema \in {"text", "prompt_completion"}
       /\ rowSet' = Serialized(objective, schema)
  /\ sealing' = "formatted"
  /\ UNCHANGED <<handed, manifest, tree, look>>

-----------------------------------------------------------------------------
(* The gates of a constructed dataset *)

\* V1_FINISHED_DATASET_GATES
Gates == <<"construction-replay", "record-lifecycle", "curation", "deduplication", "quality",
           "balance", "coverage", "split", "leakage", "row-binding", "objective", "schema",
           "encoding", "masking", "partition-nonempty", "aptus-row-shape", "snapshot">>

\* _build_coverage_ledger
SourceEntry(s) ==
  LET of == {r \in Rows : s \in made[r].sources}
      decided(status) == Cardinality({r \in of : DecisionStatus(outcome[r]) = status})
  IN  [records |-> Cardinality(of), included |-> decided("included"),
       excluded |-> decided("excluded"), quarantined |-> decided("quarantined")]

Covered == \A s \in DOMAIN raw : EntryCloses(SourceEntry(s)) /\ ~Blocked(SourceEntry(s))

\* row_checks
RowsAreIncluded ==
  LET records(line) == {row.record : row \in ToSet(line)}
  IN  /\ Len(rowSet.train) + Len(rowSet.evaluation) = Cardinality(Included)
      /\ records(rowSet.train) = Train /\ records(rowSet.evaluation) = Evaluation

PayloadsAreFields ==
  \A row \in ToSet(rowSet.train \o rowSet.evaluation) :
    Teaches(row.payload, rowSet.instruction, made[row.record].context, made[row.record].target)

TargetsAreText == \A r \in Included : made[r].target # <<>>

SchemaFits == rowSet.schema \in SchemasOf(rowSet.objective)

\* The gates the dataset itself does not satisfy.  Those of record-lifecycle,
\* curation, split, objective and encoding compare a result with the identity of
\* what it was made from, which the state here does not keep apart.
Unsatisfied ==
  {gate \in ToSet(Gates) :
     CASE gate = "deduplication"      -> ~Deduplicated
       [] gate = "quality"            -> \E r \in Included : Len(made[r].target) < policy.minimum
       [] gate = "balance"            -> ~Balanced
       [] gate = "coverage"           -> ~Covered
       [] gate = "leakage"            -> ~Separate
       [] gate = "row-binding"        -> ~RowsAreIncluded
       [] gate = "schema"             -> ~SchemaFits
       [] gate = "masking"            -> ~PayloadsAreFields
       [] gate = "partition-nonempty" -> Train = {} \/ (policy.required /\ Evaluation = {})
       [] gate = "aptus-row-shape"    -> ~TargetsAreText \/ ~SchemaFits
       [] OTHER                       -> FALSE}

\* The artifacts and files that validation is given, and the gate that reads each.
Artifacts == {"plan", "recipe", "construction", "curation", "split", "row-set"}
GateThatReads(input) ==
  CASE input \in {"plan", "recipe", "construction"} -> "construction-replay"
    [] input = "curation"                           -> "curation"
    [] input = "split"                              -> "split"
    [] input = "row-set"                            -> "row-binding"
    [] input \in RowPaths                           -> "encoding"

\* What a stage that cannot be replayed leaves undecided.
After(stop) ==
  CASE stop = "construction-replay" -> ToSet(SubSeq(Gates, 2, 16))
    [] stop = "curation"            -> ToSet(SubSeq(Gates, 4, 7)) \cup ToSet(SubSeq(Gates, 8, 16))
    [] stop = "split"               -> ToSet(SubSeq(Gates, 9, 16))
    [] stop = "row-binding"         -> ToSet(SubSeq(Gates, 11, 16))
    [] OTHER                        -> {}

Misread(given) == {GateThatReads(input) : input \in given}

\* validate_dataset_snapshot; what is handed over differently differs from the
\* digest in the snapshot too.
GateStatus(gate, given) ==
  IF \E stop \in Misread(given) : gate \in After(stop) THEN "blocked"
  ELSE IF gate \in Misread(given) \cup Unsatisfied \/ (gate = "snapshot" /\ given # {}) THEN "failed"
  ELSE "passed"

Passing(given) == \A gate \in ToSet(Gates) : GateStatus(gate, given) = "passed"

\* The service hands over what the workspace holds; another caller of the
\* library may hand over something else.
Validate ==
  /\ sealing = "formatted" /\ rowSet.origin = "constructed" /\ RowSetCloses(rowSet)
  /\ handed' \in {{}} \cup (IF inputs \in Examined THEN {{input} : input \in Artifacts \cup RowPaths} ELSE {})
  /\ sealing' = IF Passing(handed') THEN "validated" ELSE "failed"
  /\ UNCHANGED <<rowSet, manifest, tree, look>>

\* Once all passes: a dataset of imported rows has gates of its own.
ReportPasses(given) == IF rowSet.origin = "constructed" THEN Passing(given) ELSE RowSetAligned /\ ImportGates

\* PipelineService._seal_imported: the rows the import formatted and validated.
HandOverImported ==
  /\ importing = "validated" /\ sealing = "idle"
  /\ rowSet' = SerializedImport
  /\ sealing' = "validated"
  /\ UNCHANGED <<handed, manifest, tree, look>>

-----------------------------------------------------------------------------
(* The bundle *)

\* _validated_file_tuple: the counts of the four payload files.
CountsClose(counts) ==
  counts["train"] > 0 /\ counts["provenance"] = counts["train"] + counts["evaluation"]

Lines(path) ==
  CASE path = "train" -> rowSet.train [] path = "evaluation" -> rowSet.evaluation [] path = "provenance" -> rowSet.provenance

\* PipelineService.seal, _seal_imported: validated once more, described and written.
Seal ==
  /\ sealing = "validated"
  /\ ReportPasses({})
  /\ manifest' = [p \in RowPaths |-> Len(Lines(p))]
  /\ CountsClose(manifest')
  /\ tree' = [p \in AnyPath |-> [is |-> IF p \in BundlePaths THEN "sealed" ELSE "missing", changes |-> 0, moves |-> 0]]
  /\ sealing' = "sealed"
  /\ UNCHANGED <<rowSet, handed, look>>

Verifying == {"collecting", "manifest", "attestation", "payloads", "report", "opening", "rows",
              "closing", "manifest again", "attestation again"}
Disturbed == Cardinality(UNION {{p} \X (1..tree[p].changes) : p \in AnyPath})

\* Another process damages, links, removes, adds or puts back a file.
\* Bounds: bundles of one schema, the paths of Disturbable, MaxDisturbed changes.
Disturb ==
  /\ inputs \in Examined /\ rowSet.schema = "prompt_completion"
  /\ sealing \in {"sealed"} \cup Verifying /\ Disturbed < MaxDisturbed
  /\ \E p \in AnyPath, is \in {"sealed", "torn", "linked", "missing"} :
       /\ p \in Disturbable /\ is # tree[p].is /\ (p \notin BundlePaths => is \notin {"sealed", "linked"})
       /\ tree' = [tree EXCEPT ![p] =
                     [is |-> is, changes |-> @.changes + 1,
                      moves |-> @.moves + IF "missing" \in {is, @.is} THEN 1 ELSE 0]]
  /\ UNCHANGED <<sealing, rowSet, handed, manifest, look>>

-----------------------------------------------------------------------------
(* The verifier *)

\* What stat says of an entry: of a folder, how often its entries came and went.
FactsOf(e) == IF e \in Folders THEN [p \in EntriesOf[e] |-> tree[p].moves] ELSE tree[e]

There(e) == e \in Folders \/ tree[e].is # "missing"

\* The calls of a walk in their order: every folder is listed, and the entries
\* that were listed are looked at one after the other by name.
WalkOrder == <<<<"list", "root">>, <<"stat", "attestation">>, <<"stat", "data">>, <<"list", "data">>,
           <<"stat", "evaluation">>, <<"stat", "stray">>, <<"stat", "train">>, <<"stat", "extra">>,
           <<"stat", "manifest">>, <<"stat", "metadata">>, <<"list", "metadata">>,
           <<"stat", "provenance">>, <<"stat", "validation">>>>
StartWalk == {<<"list", "root">>}

\* The files that a walk found.
Present(stat) == {p \in AnyPath : stat[p].is # "missing"}

\* _open_regular_file, and the content the reader then finds.
AsCollected(p) == tree[p].is # "missing" /\ tree[p] = look.stat[p]
ReadsAsSealed(p) == AsCollected(p) /\ tree[p].is = "sealed"

VerifierStep(from, holds, to) ==
  /\ sealing = from
  /\ sealing' = IF holds THEN to ELSE "rejected"

\* The digest asked for is that of another manifest, or there is none to compare:
\* that of this one asks for nothing more.
StartVerify ==
  /\ sealing = "sealed"
  /\ sealing' = "collecting"
  /\ \E asked \in {"none"} \cup (IF inputs \in Examined THEN {"other"} ELSE {}) :
       look' = [look EXCEPT !.asked = asked, !.todo = StartWalk]
  /\ UNCHANGED <<rowSet, handed, manifest, tree>>

\* os.listdir: the entries of the folder d are to be looked at.
ListFolder(d) ==
  /\ look' = [look EXCEPT !.todo = (@ \ {<<"list", d>>}) \cup {<<"stat", e>> : e \in {f \in EntriesOf[d] : There(f)}},
                          !.found = IF d = "root" THEN NoStat ELSE @,
                          !.then = IF d = "root" THEN tree ELSE @]
  /\ UNCHANGED sealing

\* os.stat of an entry that was listed; a link is refused, and a folder opened.
StatEntry(e) ==
  IF There(e) /\ (e \in Folders \/ tree[e].is # "linked")
    THEN /\ look' = [look EXCEPT !.todo = (@ \ {<<"stat", e>>}) \cup (IF e \in Folders THEN {<<"list", e>>} ELSE {}),
                                 !.found = [@ EXCEPT ![e] = FactsOf(e)]]
         /\ UNCHANGED sealing
    ELSE sealing' = "rejected" /\ UNCHANGED look

\* _collect_tree: one call after the other.
Collect ==
  /\ sealing \in {"collecting", "closing"}
  /\ \E n \in DOMAIN WalkOrder :
       /\ WalkOrder[n] \in look.todo /\ \A m \in 1..(n - 1) : WalkOrder[m] \notin look.todo
       /\ IF WalkOrder[n][1] = "list" THEN ListFolder(WalkOrder[n][2]) ELSE StatEntry(WalkOrder[n][2])
  /\ UNCHANGED <<rowSet, handed, manifest, tree>>

\* After the first walk, whose facts are kept.
Collected ==
  /\ look.todo = {}
  /\ VerifierStep("collecting", Metadata \subseteq Present(look.found), "manifest")
  /\ look' = [look EXCEPT !.stat = look.found]
  /\ UNCHANGED <<rowSet, handed, manifest, tree>>

\* The manifest is the one asked for, and names every file there is.
ReadManifest ==
  /\ VerifierStep("manifest", /\ ReadsAsSealed("manifest") /\ look.asked # "other"
                      /\ CountsClose(manifest)
                      /\ Present(look.stat) = BundlePaths, "attestation")
  /\ UNCHANGED <<rowSet, handed, manifest, tree, look>>

ReadAttestation ==
  /\ VerifierStep("attestation", ReadsAsSealed("attestation"), "payloads")
  /\ UNCHANGED <<rowSet, handed, manifest, tree, look>>

\* _verify_payload: one file of the manifest after the other.
VerifyPayload ==
  LET p == Payloads[look.next]
      holds == ReadsAsSealed(p) /\ (p \in RowPaths => Len(Lines(p)) = manifest[p])
  IN  /\ VerifierStep("payloads", holds, IF look.next = Len(Payloads) THEN "report" ELSE "payloads")
      /\ look' = [look EXCEPT !.next = IF @ = Len(Payloads) THEN 1 ELSE @ + 1]
      /\ UNCHANGED <<rowSet, handed, manifest, tree>>

\* _require_passing_validation_report
ReadReport ==
  /\ VerifierStep("report", ReadsAsSealed("validation") /\ ReportPasses(handed), "opening")
  /\ UNCHANGED <<rowSet, handed, manifest, tree, look>>

\* _row_contract: the payload is what its schema makes of the recorded fields.
RowContract(row, entry) ==
  /\ Teaches(row.payload, rowSet.instruction, entry.context, entry.target)
  /\ rowSet.objective = "full_text" <=> rowSet.schema = "text"

\* Mutant: a row counts for its primary source only.
EmittedPrimary == {Min(e.sources) : e \in ToSet(rowSet.provenance)}

\* emitted_source_ids
Emitted == UNION {e.sources : e \in ToSet(rowSet.provenance)}

\* _verify_row_provenance_alignment: the rules a bundle can be held to alone.
RowsHold ==
  LET entries == ToSet(rowSet.provenance)
      all == rowSet.train \o rowSet.evaluation
  IN  /\ RowSetCloses(rowSet)
      /\ \A n \in DOMAIN all : RowContract(all[n], rowSet.provenance[n])
      /\ Emitted = DOMAIN raw
      /\ \A d, e \in entries :
           /\ d # e => <<d.context, d.target>> # <<e.context, e.target>>
           /\ (d.sources = e.sources /\ d.context = e.context) => d.target = e.target
           /\ d.group = e.group => d.part = e.part
           /\ d.sources \cap e.sources # {} => d.part = e.part /\ d.group = e.group

\* _verify_imported_row_provenance_alignment
ImportedRowsHold ==
  /\ RowSetCloses(rowSet)
  /\ \A row \in ToSet(rowSet.train \o rowSet.evaluation) : row.payload.keys = PayloadKeys(rowSet.schema)
  /\ \A e \in ToSet(rowSet.provenance) : e.sources \subseteq DOMAIN rowFiles

\* The three files of rows are open before a line of them is read.
OpenRows ==
  /\ VerifierStep("opening", \A p \in RowPaths : AsCollected(p), "rows")
  /\ UNCHANGED <<rowSet, handed, manifest, tree, look>>

AlignRows ==
  /\ VerifierStep("rows", /\ \A p \in RowPaths : ReadsAsSealed(p)
                  /\ IF rowSet.origin = "imported" THEN ImportedRowsHold ELSE RowsHold, "closing")
  /\ look' = [look EXCEPT !.todo = StartWalk]
  /\ UNCHANGED <<rowSet, handed, manifest, tree>>

\* Mutant of LookAgain: of the second walk only the metadata count.
LookAgainAtMetadata ==
  /\ look.todo = {}
  /\ VerifierStep("closing", \A p \in Metadata : look.found[p] = look.stat[p], "manifest again")
  /\ UNCHANGED <<rowSet, handed, manifest, tree, look>>

\* After the second walk, which must have met what the first one did.
LookAgain ==
  /\ look.todo = {}
  /\ VerifierStep("closing", look.found = look.stat, "manifest again")
  /\ UNCHANGED <<rowSet, handed, manifest, tree, look>>

\* Manifest and attestation are read once more.
ReadManifestAgain ==
  /\ VerifierStep("manifest again", ReadsAsSealed("manifest"), "attestation again")
  /\ UNCHANGED <<rowSet, handed, manifest, tree, look>>

ReadAttestationAgain ==
  /\ VerifierStep("attestation again", ReadsAsSealed("attestation"), "verified")
  /\ UNCHANGED <<rowSet, handed, manifest, tree, look>>

BundleInit ==
  /\ sealing = "idle" /\ rowSet = NoRowSet /\ handed = {} /\ manifest = NoManifest
  /\ tree = NoTree /\ look = NoLook

BundleNext ==
  \/ Validate \/ HandOverImported \/ Seal \/ Disturb \/ StartVerify \/ Collect \/ Collected
  \/ ReadManifest \/ ReadAttestation \/ VerifyPayload \/ ReadReport \/ OpenRows \/ AlignRows
  \/ LookAgain \/ ReadManifestAgain \/ ReadAttestationAgain

\* objective_by_fields: what the verifier knows, which is what can be constructed.
Objectives == {"full_text", "continuation", "section_reconstruction", "before_after_transformation",
               "structured_field"}

\* The bundle alone: what the stages before it do meanwhile is left open.
BundleSpec == BundleInit /\ [][BundleNext \/ \E objective \in Objectives : Format(objective)]_bundleVars

\* A constructed dataset and its bundle alone, without the import of rows.
ConstructedInit == DatasetInit /\ BundleInit /\ importing = "idle"

ConstructedNext ==
  /\ \/ DatasetNext /\ UNCHANGED bundleVars
     \/ (BundleNext \/ \E objective \in Objectives : Format(objective)) /\ UNCHANGED datasetVars
  /\ UNCHANGED importing

ConstructedSpec == ConstructedInit /\ [][ConstructedNext]_<<datasetVars, bundleVars, importing>>

\* An import of rows and its bundle alone, whatever becomes of constructed datasets.
ImportedInit == ImportInit /\ BundleInit
ImportedNext == (ImportNext /\ UNCHANGED bundleVars) \/ (BundleNext /\ UNCHANGED importVars)
ImportedSpec == ImportedInit /\ [][ImportedNext]_<<importVars, bundleVars>>

-----------------------------------------------------------------------------
(* Properties *)

\* validate_dataset_snapshot: the gates that recompute the verdicts accept what
\* curation and splitting let through, which also close as results: both parts filled and the evaluation part
\* less than a group off its target; only a source without an included record
\* or an input that is not the dataset's makes a report fail, and no gate is
\* blocked without one that failed.
GatesPass ==
  /\ phase # "invalid"
  /\ phase = "done" =>
       /\ Unsatisfied \subseteq {"coverage"} \cup (IF rowSet.origin = "none" THEN {"schema", "row-binding", "aptus-row-shape"} ELSE {})
       /\ Cardinality(split.groups) >= 2 =>
            \E g \in split.groups : Distance(Cardinality(Evaluation), split.target) < Cardinality(g)
  /\ (sealing \in {"validated", "failed"} /\ rowSet.origin = "constructed") =>
       /\ sealing = "failed" <=> \/ handed # {}
                                 \/ UNION {made[r].sources : r \in Included} # DOMAIN raw
       /\ (\E gate \in ToSet(Gates) : GateStatus(gate, handed) = "blocked") =>
            \E gate \in ToSet(Gates) : GateStatus(gate, handed) = "failed" /\ gate # "snapshot"

\* A dataset that passes its gates makes a bundle the verifier accepts unless a
\* file of it changes: the two agree on every dataset.  The lines of both parts
\* then teach every included record once, a training line and an evaluation
\* line coming from no common source; those of an import are its kept rows, once
\* each, with nothing that the family forbids to share on both sides, unless the
\* rows declared their parts themselves: what was declared is kept as it is.
SealedVerifies ==
  /\ sealing = "rejected" => Disturbed > 0 \/ look.asked = "other"
  /\ (sealing = "verified" /\ rowSet.origin = "constructed") =>
       LET all == ToSet(rowSet.train \o rowSet.evaluation)
       IN  /\ {row.record : row \in all} = Included /\ Len(rowSet.provenance) = Cardinality(Included)
           /\ \A row \in all : Teaches(row.payload, rowSet.instruction, made[row.record].context, made[row.record].target)
           /\ \A d, e \in ToSet(rowSet.provenance) : d.part # e.part => d.sources \cap e.sources = {}
  /\ (sealing = "verified" /\ rowSet.origin = "imported") =>
       /\ {row.record : row \in ToSet(rowSet.train \o rowSet.evaluation)} = Kept
       /\ Len(rowSet.provenance) = Cardinality(Kept)
       /\ rowPlan.membership # "authoritative" =>
            \A d, e \in ToSet(rowSet.provenance) : d.part = "train" /\ e.part = "evaluation" => ~Alike(d.record, e.record)

\* verify_finished_bundle: files that change while they are read one after the
\* other, come or go, are never taken for a bundle.  When its last walk began,
\* after all was read, everything was in place as it was sealed and nothing was
\* there besides, though the walk looks at one entry after the other too.
VerifiedAsOneTree ==
  sealing = "verified" =>
    \A p \in AnyPath : look.then[p].is = IF p \in BundlePaths THEN "sealed" ELSE "missing"
=============================================================================
