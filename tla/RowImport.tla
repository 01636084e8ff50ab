------------------------------- MODULE RowImport -------------------------------
(***************************************************************************)
(* Datasets that are already rows: files of rows are captured, a confirmed *)
(* plan maps every row to a record or rejects it, and the records are      *)
(* curated, split and checked (mapping/, families/).                       *)
(*                                                                         *)
(* A JSON value is a record [kind, text, keys, items]: a "text" has its    *)
(* text, a "list" its items, an "object" its keys and their values in      *)
(* order; "other" stands for numbers, booleans and null.  The identities   *)
(* that order the records are arbitrary, so every order is tried.          *)
(***************************************************************************)
EXTENDS FinishedDataset

CONSTANTS
  RowFiles,      \* sequences of [kind, wellFormed, bom, body, digest]
  RowPlans       \* [schema, container, membership, review, paths, confirmed]

VARIABLES
  rowFiles,      \* the captured files of the workspace
  rowPlan,       \* the mapping plan
  importing,     \* the stage the import is at, or "refused"
  imported,      \* the records, in the order of their identities
  report,        \* the rows the rejection report names
  rowPolicy,     \* the curation and split policy
  verdict,       \* the reason code of every record
  grouping,      \* the leakage groups
  parts,         \* the records of the two parts, and the target
  formatted      \* the rows of the two files, and the provenance of each

importVars == <<rowFiles, rowPlan, importing, imported, report, rowPolicy, verdict, grouping, parts, formatted>>

NoReport == [written |-> FALSE, accepted |-> 0, rejected |-> <<>>]
NoParts == [train |-> {}, evaluation |-> {}, target |-> 0]
NoRows == [train |-> <<>>, evaluation |-> <<>>, provenance |-> <<>>]

-----------------------------------------------------------------------------
(* Capture *)

Value(kind, text, keys, items) == [kind |-> kind, text |-> text, keys |-> keys, items |-> items]
NoValue == Value("missing", "", <<>>, <<>>)

\* The value of a key: the last of several wins when a file is loaded.
Field(v, key) ==
  LET places == {i \in DOMAIN v.keys : v.keys[i] = key}
  IN  IF v.kind = "object" /\ places # {} THEN v.items[Max(places)] ELSE NoValue

AllObjects(values) == \A i \in DOMAIN values : values[i].kind = "object"

\* In all the captures, no rows stands for a file that is refused.
CapturedJsonl(file) ==
  LET lines == SelectSeq(file.body, LAMBDA v : v.kind # "blank")
  IN  IF AllObjects(lines) THEN lines ELSE <<>>

RecordsOf(value) ==
  LET declared == {k \in {"records", "rows"} : Field(value, k).kind = "list"}
  IN  CASE value.kind = "list"                                   -> value.items
        [] value.kind = "object" /\ Cardinality(declared) = 1 -> Field(value, CHOOSE k \in declared : TRUE).items
        [] OTHER                                                 -> <<>>

CapturedJson(file) ==
  LET rows == RecordsOf(file.body[1]) IN IF AllObjects(rows) THEN rows ELSE <<>>

\* A cell whose first character that is no blank opens a list or an object.
Nested(cell) ==
  LET signs == {i \in 1..Len(cell) : SubSeq(cell, i, i) # " "}
  IN  signs # {} /\ SubSeq(cell, Min(signs), Min(signs)) \in {"{", "["}

HeaderAdmitted(header) ==
  /\ header # <<>> /\ "" \notin ToSet(header)
  /\ IsInjective(header) /\ "messages" \notin ToSet(header)

Cells(row) == [i \in DOMAIN row.items |-> row.items[i].text]

\* The body of a CSV file is its rows of cells, the header first.
CapturedCsv(file) ==
  LET header == Cells(file.body[1])
      rows == Tail(file.body)
  IN  IF /\ ~file.bom /\ file.body # <<>> /\ HeaderAdmitted(header)
         /\ \A r \in DOMAIN rows : /\ Len(rows[r].items) = Len(header)
                                    /\ \A i \in DOMAIN header : ~Nested(Cells(rows[r])[i])
      THEN [r \in DOMAIN rows |-> Value("object", "", header, rows[r].items)] ELSE <<>>

Inside(values) == values \cup UNION {ToSet(v.items) : v \in values}

\* A columnar value has no null and no type that JSON rows do not have.
\* Bound: rows hold lists of objects of texts and nothing deeper.
JsonReady(v) == \A w \in Inside(Inside(Inside({v}))) : w.kind # "other"

CapturedColumns(file) ==
  IF AllObjects(file.body) /\ \A i \in DOMAIN file.body : JsonReady(file.body[i])
  THEN file.body ELSE <<>>

CaptureRows(file) ==
  IF ~file.wellFormed THEN <<>>
  ELSE CASE file.kind = "jsonl"                 -> CapturedJsonl(file)
         [] file.kind = "json"                  -> CapturedJson(file)
         [] file.kind = "csv"                   -> CapturedCsv(file)
         [] file.kind \in {"parquet", "arrow"} -> CapturedColumns(file)

Containers == {"jsonl", "json", "csv", "parquet", "arrow"}
IsList(s) == Len(s) \in Nat /\ DOMAIN s = 1..Len(s)

\* Files, their rows and the tokens of a path are finite lists.
ASSUME ImportAssumption ==
  /\ \A fs \in RowFiles :
       IsList(fs) /\ \A f \in DOMAIN fs : fs[f].kind \in Containers /\ IsList(CaptureRows(fs[f]))
  /\ \A plan \in RowPlans : \A i \in DOMAIN plan.paths : IsList(plan.paths[i])

-----------------------------------------------------------------------------
(* The plan and its proposals *)

\* ROW_SCHEMA_PAYLOAD_KEYS
PayloadKeys(schema) ==
  CASE schema = "text"                   -> <<"text">>
    [] schema = "prompt_completion"      -> <<"prompt", "completion">>
    [] schema = "instruction_output"     -> <<"instruction", "input", "output">>
    [] schema = "messages"               -> <<"messages">>
    [] schema = "label-classification"   -> <<"context", "label", "annotator">>
    [] schema = "preference-pair"        -> <<"prompt", "chosen", "rejected">>
    [] schema = "tool-call-conversation" -> <<"conversation_id", "turns">>
    [] schema = "stepwise-trace"         -> <<"prompt", "steps">>

\* One path for each key of the schema, in their order.
PlanClosed(plan) ==
  /\ ~(plan.container = "csv" /\ plan.schema = "messages")
  /\ Len(plan.paths) = Len(PayloadKeys(plan.schema))
  /\ \A i \in DOMAIN plan.paths : plan.paths[i] # <<>> /\ plan.paths[i][1] # ""

\* The numerals by which a path may index a list.
Numerals == <<"0", "1", "2">>

\* One token of a JSON pointer; what is no value stays none.
StepInto(v, token) ==
  LET index == {i \in DOMAIN Numerals : Numerals[i] = token}
  IN  CASE v.kind = "object" -> Field(v, token)
        [] v.kind = "list"   -> IF index # {} /\ Max(index) <= Len(v.items)
                                THEN v.items[Max(index)] ELSE NoValue
        [] OTHER             -> NoValue

ResolvePointer(row, path) == FoldLeft(StepInto, row, path)

HasText(v, key) == Field(v, key).kind = "text" /\ Field(v, key).text # ""
KeysAre(v, keys) == v.kind = "object" /\ ToSet(v.keys) = keys

\* _require_two_turn_messages
TwoTurns(v) ==
  /\ v.kind = "list" /\ Len(v.items) = 2
  /\ \A i \in 1..2 : /\ KeysAre(v.items[i], {"role", "content"}) /\ HasText(v.items[i], "content")
                      /\ Field(v.items[i], "role").text = <<"user", "assistant">>[i]

NormalizedCalls(v) ==
  /\ v.kind = "list" /\ v.items # <<>>
  /\ \A i \in DOMAIN v.items :
       /\ KeysAre(v.items[i], {"arguments", "id", "name"})
       /\ \A key \in {"arguments", "id", "name"} : HasText(v.items[i], key)

Calls(turn) == Field(turn, "tool_calls").kind # "missing"

\* normalize_tool_turns: a trace with a tool in it that an assistant ends.
ToolTurns(v) ==
  LET turn(i) == v.items[i]
      role(i) == Field(turn(i), "role").text
      admitted(i) ==
        /\ turn(i).kind = "object" /\ HasText(turn(i), "content")
        /\ \/ role(i) = "user" /\ KeysAre(turn(i), {"role", "content"})
           \/ /\ role(i) = "assistant"
              /\ ToSet(turn(i).keys) \subseteq {"role", "content", "tool_calls"}
              /\ Calls(turn(i)) => NormalizedCalls(Field(turn(i), "tool_calls"))
           \/ /\ role(i) \in {"tool", "function"}
              /\ KeysAre(turn(i), {"role", "content", "tool_call_id"}) /\ HasText(turn(i), "tool_call_id")
  IN  /\ v.kind = "list" /\ Len(v.items) >= 3
      /\ \A i \in DOMAIN v.items : admitted(i)
      /\ \E i \in DOMAIN v.items : Calls(turn(i)) \/ role(i) \in {"tool", "function"}
      /\ role(Len(v.items)) = "assistant" /\ ~Calls(turn(Len(v.items)))

\* normalize_steps
StepTexts(v) ==
  /\ v.kind = "list" /\ Len(v.items) >= 2
  /\ \A i \in DOMAIN v.items : v.items[i].kind = "text" /\ v.items[i].text # ""

\* _normalized_field_value: what may stand under a key of the schema.
FieldAdmitted(schema, key, v) ==
  CASE schema = "messages"                                   -> TwoTurns(v)
    [] schema = "tool-call-conversation" /\ key = "turns" -> ToolTurns(v)
    [] schema = "stepwise-trace" /\ key = "steps"         -> StepTexts(v)
    [] OTHER                                                 -> v.kind = "text" /\ v.text # ""

\* A detector matches when every row has what it needs under its own keys.
Detected(rows, schema) ==
  \A r \in DOMAIN rows : \A i \in DOMAIN PayloadKeys(schema) :
    FieldAdmitted(schema, PayloadKeys(schema)[i], ResolvePointer(rows[r], <<PayloadKeys(schema)[i]>>))

\* _plan_from_detector: its paths are the keys, its membership is "replaced".
Proposal(rows, schema, container) ==
  [schema |-> schema, container |-> container, membership |-> "replaced", review |-> "none",
   paths |-> [i \in DOMAIN PayloadKeys(schema) |-> <<PayloadKeys(schema)[i]>>], confirmed |-> TRUE]

Proposals(file) ==
  LET rows == CaptureRows(file)
      schemas == {p.schema : p \in RowPlans}
  IN  {Proposal(rows, s, file.kind) : s \in {s \in schemas :
         rows # <<>> /\ ~(file.kind = "csv" /\ s = "messages") /\ Detected(rows, s)}}

-----------------------------------------------------------------------------
(* Mapping *)

Hints == {"train", "evaluation"}

\* _map_one: the row is refused for any key the plan does not account for.
RowMapped(plan, row) ==
  /\ ToSet(row.keys) \subseteq {plan.paths[i][1] : i \in DOMAIN plan.paths}
                                  \cup (IF plan.membership # "replaced" THEN {"partition"} ELSE {})
  /\ \A i \in DOMAIN plan.paths :
       FieldAdmitted(plan.schema, PayloadKeys(plan.schema)[i], ResolvePointer(row, plan.paths[i]))
  /\ plan.membership # "replaced" => Field(row, "partition").text \in Hints

\* _payload_from_fields: values under their keys, equal when they read equal.
Payload(plan, row) == [i \in DOMAIN plan.paths |-> ResolvePointer(row, plan.paths[i])]

RecordOf(plan, file, rows, n) ==
  [source |-> file, row |-> n, fields |-> Payload(plan, rows[n]),
   hint |-> IF plan.membership = "replaced" THEN "" ELSE Field(rows[n], "partition").text]

AcceptedRows(plan, rows) == {n \in DOMAIN rows : RowMapped(plan, rows[n])}

\* execute_mapping_rows over every file: a file without an accepted row fails.
Executable(plan, files) ==
  /\ plan.review # "required"
  /\ \A f \in DOMAIN files : /\ files[f].kind = plan.container
                              /\ AcceptedRows(plan, CaptureRows(files[f])) # {}

Mapped(plan, files) ==
  UNION {{RecordOf(plan, f, CaptureRows(files[f]), n) : n \in AcceptedRows(plan, CaptureRows(files[f]))}
         : f \in DOMAIN files}

RowsRejected(plan, files) ==
  UNION {{<<f, n>> : n \in DOMAIN CaptureRows(files[f]) \ AcceptedRows(plan, CaptureRows(files[f]))}
         : f \in DOMAIN files}

UpToRow(rejected, at) == {e \in rejected : e[2] < at[2] \/ (e[2] = at[2] /\ e[1] <= at[1])}

\* MappingRejectionReport: the rejected rows in the order of their numbers.
Rejections(plan, files) ==
  LET rejected == RowsRejected(plan, files)
  IN  [n \in 1..Cardinality(rejected) |-> CHOOSE at \in rejected : Cardinality(UpToRow(rejected, at)) = n]

\* replay_mapping: the mapping reconstructs the records from the bytes.
MappingReplays == ToSet(imported) = Mapped(rowPlan, rowFiles)

-----------------------------------------------------------------------------
(* Curation of the records *)

Ids == DOMAIN imported
FieldText(i, key) ==
  imported[i].fields[CHOOSE k \in DOMAIN PayloadKeys(rowPlan.schema) : PayloadKeys(rowPlan.schema)[k] = key]

\* _context_key
ContextKey(i) ==
  CASE rowPlan.schema = "text"                                  -> <<FieldText(i, "text")>>
    [] rowPlan.schema \in {"prompt_completion", "preference-pair", "stepwise-trace"} -> <<FieldText(i, "prompt")>>
    [] rowPlan.schema = "instruction_output"                    -> <<FieldText(i, "instruction"), FieldText(i, "input")>>
    [] rowPlan.schema = "label-classification"                  -> <<FieldText(i, "context")>>
    [] rowPlan.schema = "tool-call-conversation"                -> <<FieldText(i, "conversation_id")>>
    [] rowPlan.schema = "messages"                              -> <<Field(FieldText(i, "messages").items[1], "content")>>

LastItem(v) == v.items[Len(v.items)]

\* _target_token
TargetToken(i) ==
  CASE rowPlan.schema = "text"                   -> FieldText(i, "text")
    [] rowPlan.schema = "prompt_completion"      -> FieldText(i, "completion")
    [] rowPlan.schema = "instruction_output"     -> FieldText(i, "output")
    [] rowPlan.schema = "label-classification"   -> FieldText(i, "label")
    [] rowPlan.schema = "preference-pair"        -> FieldText(i, "chosen")
    [] rowPlan.schema = "stepwise-trace"         -> LastItem(FieldText(i, "steps"))
    [] rowPlan.schema = "tool-call-conversation" -> Field(LastItem(FieldText(i, "turns")), "content")
    [] rowPlan.schema = "messages"               -> Field(LastItem(FieldText(i, "messages")), "content")

TargetLength(i) == Len(TargetToken(i).text)

LongRows(pol) == {i \in Ids : TargetLength(i) >= pol.minimum}

\* The sources of the rows take no part in a conflict.
Contradicted(pol) ==
  {i \in LongRows(pol) : \E j \in LongRows(pol) :
     ContextKey(i) = ContextKey(j) /\ TargetToken(i) # TargetToken(j)}

\* exact_imported_fingerprint
Fingerprint(i) == imported[i].fields

FirstRows(pol) ==
  LET left == LongRows(pol) \ Contradicted(pol)
  IN  {i \in left : \A j \in left : Fingerprint(i) = Fingerprint(j) => i <= j}

OverCap(pol) ==
  {i \in FirstRows(pol) : pol.cap # 0 /\
     Cardinality({j \in FirstRows(pol) : j <= i /\ imported[j].source = imported[i].source}) > pol.cap}

RowReason(i, pol) ==
  CASE i \notin LongRows(pol)                          -> "target-too-short"
    [] i \in Contradicted(pol)                         -> "conflicting-target"
    [] i \in LongRows(pol) \ (Contradicted(pol) \cup FirstRows(pol)) -> "exact-duplicate"
    [] i \in OverCap(pol)                              -> "primary-source-cap"
    [] i \in FirstRows(pol) \ OverCap(pol)             -> "quality-passed"

Kept == {i \in Ids : verdict[i] = "quality-passed"}

-----------------------------------------------------------------------------
(* The split *)

SourceOf(i) == imported[i].source
DigestOfRows(i) == rowFiles[SourceOf(i)].digest

\* The tokens of a record; those of one kind have one type.
SharedTokens(i, kind, key) ==
  {<<1, Fingerprint(i)>>, <<2, DigestOfRows(i)>>, <<3, SourceOf(i)>>, <<kind, key>>}

\* Mutant: the key of the family is left out.
GroupsBySource(kind, keys) ==
  LET linked(i, j) == SharedTokens(i, 3, SourceOf(i)) \cap SharedTokens(j, 3, SourceOf(j)) # {}
  IN  {{j \in Kept : linked(i, j)} : i \in Kept}

\* The tokens the loop over the records comes upon, each with its record.
Shown(kind, keys) == UNION {{i} \X SharedTokens(i, kind, keys[i]) : i \in Kept}

\* The fold below joins what it takes out last first; no order of the tokens
\* of one record makes other groups.
LastShown(shown) == CHOOSE x \in shown : \A y \in shown : y[1] <= x[1]

\* The disjoint set over the kept records, joined token by token.
KeyedGroups(kind, keys) ==
  LET start == [owner |-> Nobody, parents |-> [i \in Kept |-> i]]
      done == MapThenFoldSet(LAMBDA x, state : Join(x[1], state, x[2]),
                             start, LAMBDA x : x, LastShown, Shown(kind, keys))
  IN  {{j \in Kept : Root(done.parents, j) = Root(done.parents, i)} : i \in Kept}

ClassificationGroups == KeyedGroups(4, [i \in Kept |-> FieldText(i, "annotator")])
PreferenceGroups == KeyedGroups(5, [i \in Kept |-> FieldText(i, "prompt")])
StepwiseGroups == KeyedGroups(6, [i \in Kept |-> FieldText(i, "prompt")])
ToolCallGroups == KeyedGroups(7, [i \in Kept |-> FieldText(i, "conversation_id")])

\* Rows of the ordinary schemas are a group each.
ImportedGroups ==
  CASE rowPlan.schema = "label-classification"   -> ClassificationGroups
    [] rowPlan.schema = "preference-pair"        -> PreferenceGroups
    [] rowPlan.schema = "stepwise-trace"         -> StepwiseGroups
    [] rowPlan.schema = "tool-call-conversation" -> ToolCallGroups
    [] OTHER                                     -> {{i} : i \in Kept}

Hinted(part) == {i \in Kept : imported[i].hint = part}

\* _split_imported_membership refuses no training row and a source in both parts.
MembershipSplits ==
  /\ Hinted("train") # {}
  /\ \A i \in Hinted("train"), j \in Hinted("evaluation") : SourceOf(i) # SourceOf(j)

ImportTarget ==
  Max({1, Min({Cardinality(Kept) - 1, (Cardinality(Kept) * rowPolicy.ppm + 500000) \div 1000000})})

-----------------------------------------------------------------------------
(* The gates *)

ImportDeduplicated == \A i, j \in Kept : Fingerprint(i) = Fingerprint(j) => i = j

ImportQuality ==
  /\ \A i \in Kept : TargetLength(i) >= rowPolicy.minimum
  /\ rowPolicy.cap # 0 => \A f \in DOMAIN rowFiles : Cardinality({i \in Kept : SourceOf(i) = f}) <= rowPolicy.cap

ImportAssigned == parts.train \cup parts.evaluation = Kept /\ parts.train \cap parts.evaluation = {}

ImportUnleaked ==
  /\ \A g \in grouping : g \subseteq parts.train \/ g \subseteq parts.evaluation
  /\ \A i \in parts.train, j \in parts.evaluation : Fingerprint(i) # Fingerprint(j)

\* The records of a file by their verdicts, and what keeps it from contributing.
LedgerEntry(f) ==
  LET rows == {i \in Ids : SourceOf(i) = f}
  IN  [records |-> Cardinality(rows), included |-> Cardinality(rows \cap Kept),
       excluded |-> Cardinality({i \in rows : verdict[i] \in {"target-too-short", "exact-duplicate", "primary-source-cap"}}),
       quarantined |-> Cardinality({i \in rows : verdict[i] = "conflicting-target"})]

EntryCloses(entry) == entry.records = entry.included + entry.excluded + entry.quarantined

Blocked(entry) == entry.records = 0 \/ entry.included = 0

ImportCovered == \A f \in DOMAIN rowFiles : EntryCloses(LedgerEntry(f)) /\ ~Blocked(LedgerEntry(f))

\* The record at a place has as many records up to it.
InOrder(records) ==
  [n \in 1..Cardinality(records) |-> CHOOSE r \in records : Cardinality({s \in records : s <= r}) = n]

\* Mutant: the ordinals of the evaluation rows go on after the training rows.
ProvenanceInOneCount(train, evaluation) ==
  [n \in 1..(Len(train) + Len(evaluation)) |->
     [part |-> IF n <= Len(train) THEN "train" ELSE "evaluation", ordinal |-> n, record |-> (train \o evaluation)[n]]]

\* One entry for each row, the training rows first, counted in each part.
ProvenanceOf(train, evaluation) ==
  [n \in 1..(Len(train) + Len(evaluation)) |->
     IF n <= Len(train) THEN [part |-> "train", ordinal |-> n, record |-> train[n]]
     ELSE [part |-> "evaluation", ordinal |-> n - Len(train), record |-> evaluation[n - Len(train)]]]

\* ImportedRowSet: provenance is aligned with the rows of the files.
RowSetAligned ==
  /\ formatted.train # <<>>
  /\ Len(formatted.provenance) = Len(formatted.train) + Len(formatted.evaluation)
  /\ \A entry \in ToSet(formatted.provenance) :
       LET rows == IF entry.part = "train" THEN formatted.train ELSE formatted.evaluation
       IN  entry.ordinal \in DOMAIN rows /\ rows[entry.ordinal] = entry.record

RowsBound ==
  /\ ToSet(formatted.train) = parts.train /\ ToSet(formatted.evaluation) = parts.evaluation
  /\ Len(formatted.train) + Len(formatted.evaluation) = Cardinality(Kept)

PartitionsNonempty == parts.train # {} /\ (rowPolicy.required => parts.evaluation # {})

ImportGates ==
  /\ MappingReplays /\ ImportDeduplicated /\ ImportQuality
  /\ ImportCovered /\ ImportAssigned /\ ImportUnleaked /\ RowsBound /\ PartitionsNonempty

-----------------------------------------------------------------------------
(* The stages *)

ImportInit ==
  /\ rowFiles \in RowFiles
  /\ rowPlan \in {plan \in RowPlans : PlanClosed(plan)}
  /\ importing = "files"
  /\ imported = <<>> /\ report = NoReport
  /\ rowPolicy = [minimum |-> 0, cap |-> 0, ppm |-> 1, required |-> FALSE]
  /\ verdict = <<>> /\ grouping = {} /\ parts = NoParts /\ formatted = NoRows

ParseRows ==
  /\ importing = "files"
  /\ importing' = IF \E f \in DOMAIN rowFiles : CaptureRows(rowFiles[f]) = <<>> THEN "refused" ELSE "captured"
  /\ UNCHANGED <<rowFiles, rowPlan, imported, report, rowPolicy, verdict, grouping, parts, formatted>>

\* mapping-detect: a proposal is confirmed for the one file it was made for.
Detect ==
  /\ importing = "captured" /\ rowPlan.schema \in {p.schema : p \in Proposals(rowFiles[1])}
  /\ \E proposal \in Proposals(rowFiles[1]) :
       /\ proposal.schema = rowPlan.schema
       /\ rowPlan' = [proposal EXCEPT !.confirmed = Len(rowFiles) = 1]
  /\ UNCHANGED <<rowFiles, importing, imported, report, rowPolicy, verdict, grouping, parts, formatted>>

MapRefused ==
  /\ importing = "captured" /\ ~(rowPlan.confirmed /\ Executable(rowPlan, rowFiles))
  /\ importing' = "refused"
  /\ UNCHANGED <<rowFiles, rowPlan, imported, report, rowPolicy, verdict, grouping, parts, formatted>>

\* map_rows up to the commit: the report is on disk before HEAD moves.
MapRows ==
  /\ importing = "captured" /\ rowPlan.confirmed /\ Executable(rowPlan, rowFiles)
  /\ imported' \in SetToSeqs(Mapped(rowPlan, rowFiles))
  /\ report' = [written |-> TRUE, accepted |-> Cardinality(Mapped(rowPlan, rowFiles)),
                 rejected |-> Rejections(rowPlan, rowFiles)]
  /\ importing' = "reported"
  /\ UNCHANGED <<rowFiles, rowPlan, rowPolicy, verdict, grouping, parts, formatted>>

CommitMap ==
  /\ importing = "reported"
  /\ importing' = "mapped"
  /\ UNCHANGED <<rowFiles, rowPlan, imported, report, rowPolicy, verdict, grouping, parts, formatted>>

\* The commit fails, or the process ends before it: only the report is left.
MapLost ==
  /\ importing = "reported"
  /\ importing' = "captured" /\ imported' = <<>>
  /\ UNCHANGED <<rowFiles, rowPlan, report, rowPolicy, verdict, grouping, parts, formatted>>

CurateImported ==
  /\ importing = "mapped"
  /\ rowPolicy' \in Policies
  /\ verdict' = [i \in Ids |-> RowReason(i, rowPolicy')]
  /\ importing' = "curated"
  /\ UNCHANGED <<rowFiles, rowPlan, imported, report, grouping, parts, formatted>>

SplitRefused ==
  /\ importing = "curated"
  /\ \/ Kept = {}
     \/ Kept # {} /\ rowPlan.membership = "authoritative" /\ ~MembershipSplits
     \/ /\ Kept # {} /\ rowPlan.membership # "authoritative"
        /\ Cardinality(ImportedGroups) < 2 /\ rowPolicy.required
  /\ importing' = "refused"
  /\ UNCHANGED <<rowFiles, rowPlan, imported, report, rowPolicy, verdict, grouping, parts, formatted>>

SplitByMembership ==
  /\ importing = "curated" /\ Kept # {}
  /\ rowPlan.membership = "authoritative" /\ MembershipSplits
  /\ grouping' = {{i} : i \in Kept}
  /\ parts' = [train |-> Hinted("train"), evaluation |-> Hinted("evaluation"),
                target |-> Cardinality(Hinted("evaluation"))]
  /\ importing' = "split"
  /\ UNCHANGED <<rowFiles, rowPlan, imported, report, rowPolicy, verdict, formatted>>

\* Fewer than two groups are all for training.
SplitByGroups ==
  /\ importing = "curated" /\ Kept # {} /\ rowPlan.membership # "authoritative"
  /\ Cardinality(ImportedGroups) >= 2 \/ ~rowPolicy.required
  /\ grouping' = ImportedGroups
  /\ \E order \in SetToSeqs(ImportedGroups) :
       LET evaluation == IF Len(order) < 2 THEN {}
                         ELSE UNION FirstOf(order, Nearest(order, ImportTarget))
       IN  parts' = [train |-> Kept \ evaluation, evaluation |-> evaluation,
                     target |-> IF Len(order) < 2 THEN 0 ELSE ImportTarget]
  /\ importing' = "split"
  /\ UNCHANGED <<rowFiles, rowPlan, imported, report, rowPolicy, verdict, formatted>>

\* serialize_imported_records: both files in the order of the identities.
FormatImported ==
  /\ importing = "split"
  /\ formatted' = [train |-> InOrder(parts.train), evaluation |-> InOrder(parts.evaluation),
                    provenance |-> ProvenanceOf(InOrder(parts.train), InOrder(parts.evaluation))]
  /\ importing' = "formatted"
  /\ UNCHANGED <<rowFiles, rowPlan, imported, report, rowPolicy, verdict, grouping, parts>>

\* The stored row set is read back, then the gates decide the revision's status.
ValidateImported ==
  /\ importing = "formatted"
  /\ importing' = IF RowSetAligned /\ ImportGates THEN "validated" ELSE "failed"
  /\ UNCHANGED <<rowFiles, rowPlan, imported, report, rowPolicy, verdict, grouping, parts, formatted>>

ImportNext ==
  \/ ParseRows \/ Detect \/ MapRefused \/ MapRows \/ CommitMap \/ MapLost
  \/ CurateImported \/ SplitRefused \/ SplitByMembership \/ SplitByGroups
  \/ FormatImported \/ ValidateImported

ImportSpec == ImportInit /\ [][ImportNext]_importVars

-----------------------------------------------------------------------------
(* Properties *)

\* What the grouping keys of the families keep out of two parts.
FamilyKey(schema) ==
  CASE schema = "label-classification"                   -> "annotator"
    [] schema \in {"preference-pair", "stepwise-trace"} -> "prompt"
    [] schema = "tool-call-conversation"                 -> "conversation_id"
    [] OTHER                                             -> ""

Alike(i, j) ==
  FamilyKey(rowPlan.schema) # "" /\
    (DigestOfRows(i) = DigestOfRows(j)
      \/ FieldText(i, FamilyKey(rowPlan.schema)) = FieldText(j, FamilyKey(rowPlan.schema)))

\* map_rows: every captured row is a record or is named in the report, no row
\* twice; a record holds every value of its row that the plan does not read as
\* the partition; and a plan detected from a file loses only those of its rows
\* that have other keys.
RowsAccounted ==
  importing \in {"mapped", "curated", "split", "formatted", "validated", "failed"} =>
    LET accepted == {<<r.source, r.row>> : r \in ToSet(imported)}
        rejected == ToSet(report.rejected)
        row(at) == CaptureRows(rowFiles[at[1]])[at[2]]
        whole(r) == \A key \in ToSet(row(<<r.source, r.row>>).keys) :
          \/ key = "partition" /\ r.hint # ""
          \/ \E i \in DOMAIN rowPlan.paths : rowPlan.paths[i][1] = key /\
                (Len(rowPlan.paths[i]) > 1 \/ r.fields[i] = Field(row(<<r.source, r.row>>), key))
    IN  /\ report.written /\ report.accepted = Len(imported)
        /\ accepted \cap rejected = {} /\ Cardinality(accepted) = Len(imported)
        /\ accepted \cup rejected = UNION {{<<f, n>> : n \in DOMAIN CaptureRows(rowFiles[f])} : f \in DOMAIN rowFiles}
        /\ \A r \in ToSet(imported) : whole(r)
        /\ rowPlan \in Proposals(rowFiles[1]) =>
             \A at \in rejected : at[1] = 1 => ~(ToSet(row(at).keys) \subseteq ToSet(PayloadKeys(rowPlan.schema)))

\* validate_imported_dataset: every row is accounted for, and of what was mapped, curated and split the gates
\* refuse the imports with a file that contributes nothing or declared parts without the evaluation row that is
\* required, and no others; an evaluation row has nothing in common with a training row that the family forbids,
\* and declared parts are kept.
ImportSound ==
  /\ RowsAccounted
  /\ importing \in {"validated", "failed"} =>
       /\ importing = "failed" <=>
            \/ rowPlan.membership = "authoritative" /\ rowPolicy.required /\ parts.evaluation = {}
            \/ \E f \in DOMAIN rowFiles : \A i \in Ids : SourceOf(i) = f => i \notin Kept
       /\ \A i \in parts.train, j \in parts.evaluation :
            /\ ContextKey(i) = ContextKey(j) => TargetToken(i) = TargetToken(j)
            /\ rowPlan.membership = "authoritative" =>
                 imported[i].hint = "train" /\ imported[j].hint = "evaluation" /\ SourceOf(i) # SourceOf(j)
            /\ rowPlan.membership # "authoritative" => ~Alike(i, j)

\* mapping.md: declared parts whose rows overlap by the rule of their family,
\* or come from one file, are refused.
DeclaredPartsApart ==
  (importing = "validated" /\ rowPlan.membership = "authoritative") =>
    \A i \in parts.train, j \in parts.evaluation : ~Alike(i, j)
=============================================================================
