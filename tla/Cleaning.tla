------------------------------- MODULE Cleaning -------------------------------
(***************************************************************************)
(* Cleaning plans (rules/cleaning.py, rules/library.py): the rules are     *)
(* evaluated once, the edits they propose are compiled to the text pieces  *)
(* they fall into, and what is stored is the plan.  The plan is replayed   *)
(* on the parsed document, and the audit log of transform records has to   *)
(* come out of the replay again.                                           *)
(*                                                                         *)
(* A text rule rewrites every run of some characters: that is the form of  *)
(* whitespace, urls, emails, special-chars and custom patterns.  A         *)
(* structure rule removes whole plain paragraphs.                          *)
(***************************************************************************)
EXTENDS SourceText

CONSTANT MaxRemovePpm        \* the share of a document one rule may remove
ASSUME RemoveAssumption == MaxRemovePpm \in 0..1000000

HeaderThreshold == 3
HeaderLength == 80
Digit == "9"

Blank(c) == c \in {" ", "nl"}
Trim(text) ==
  LET inner == {i \in DOMAIN text : ~Blank(text[i])}
  IN  IF inner = {} THEN <<>> ELSE SubSeq(text, Min(inner), Max(inner))

\* Every longest run of the characters, replaced.
RunEdits(text, characters, by) ==
  LET inRun(i) == text[i] \in characters
      starts == {i \in DOMAIN text : inRun(i) /\ (i = 1 \/ ~inRun(i - 1))}
      last(i) == Max({j \in i..Len(text) : \A k \in i..j : inRun(k)})
  IN  [n \in 1..Cardinality(starts) |->
         LET i == CHOOSE s \in starts : Cardinality({t \in starts : t <= s}) = n
         IN  [start |-> i - 1, end |-> last(i), by |-> by,
              expected |-> SubSeq(text, i, last(i))]]

-----------------------------------------------------------------------------
(* Projections *)

\* Mutant of Find: the search starts from the beginning for every leaf.
FindAnywhere(text, value, cursor) ==
  Min({i \in 0..(Len(text) - Len(value)) : Slice(text, i, i + Len(value)) = value})

\* rendered.find(value, cursor)
Find(text, value, cursor) ==
  Min({i \in cursor..(Len(text) - Len(value)) : Slice(text, i, i + Len(value)) = value})

\* _project_block: where the editable pieces stand in the rendered text, found
\* by their values.
Project(block) ==
  LET text == BlockText(block)
      place(found, i) ==
        LET piece == block.pieces[i]
            start == Find(text, piece.value, found.cursor)
            end == start + Len(piece.value)
        IN  IF piece.kind # "text" \/ piece.value = <<>> THEN found
            ELSE [cursor |-> end,
                  leaves |-> Append(found.leaves, [piece |-> i, start |-> start, end |-> end])]
  IN  FoldLeftDomain(place, [cursor |-> 0, leaves |-> <<>>], block.pieces).leaves

Affected(leaves, edit) ==
  {k \in DOMAIN leaves : edit.start < leaves[k].end /\ edit.end > leaves[k].start}

Overlap(leaf, edit) == Min({edit.end, leaf.end}) - Max({edit.start, leaf.start})

\* An edit that touches anything but editable pieces is skipped.
InsideLeaves(leaves, edit) ==
  LET covered(k) == Overlap(leaves[k], edit)
  IN  /\ edit.start < edit.end /\ Affected(leaves, edit) # {}
      /\ MapThenSumSet(covered, Affected(leaves, edit)) = edit.end - edit.start

\* _compile_projected_edits: the replacement goes to the first piece.
LeafValue(block, leaves, k, edits) ==
  LET leaf == leaves[k]
      mine == SelectSeq(edits, LAMBDA e : k \in Affected(leaves, e))
      local(e) == [start |-> Max({e.start, leaf.start}) - leaf.start,
                   end |-> Min({e.end, leaf.end}) - leaf.start,
                   by |-> IF k = Min(Affected(leaves, e)) THEN e.by ELSE <<>>]
  IN  ApplyEdits(block.pieces[leaf.piece].value, [i \in DOMAIN mine |-> local(mine[i])])

-----------------------------------------------------------------------------
(* Operations *)

PlainParagraph(block) ==
  /\ block.kind = "paragraph" /\ block.pieces # <<>>
  /\ \A i \in DOMAIN block.pieces : block.pieces[i].kind = "text"

PageNumber(block) ==
  LET text == Trim(BlockText(block)) IN text # <<>> /\ ToSet(text) = {Digit}

ShortLine(block) ==
  LET text == Trim(BlockText(block)) IN text # <<>> /\ Len(text) <= HeaderLength

Repeated(doc, block) ==
  HeaderThreshold <= Cardinality({i \in DOMAIN doc :
     /\ doc[i].region = "body" /\ PlainParagraph(doc[i]) /\ ShortLine(doc[i])
     /\ Trim(BlockText(doc[i])) = Trim(BlockText(block))})

\* _structural_candidates: positions in the body.
Candidates(doc, rule) ==
  {i \in DOMAIN doc :
     /\ doc[i].region = "body" /\ PlainParagraph(doc[i])
     /\ \/ rule.name = "page-numbers" /\ PageNumber(doc[i])
        \/ rule.name = "headers-footers" /\ ShortLine(doc[i]) /\ Repeated(doc, doc[i])}

Without(doc, positions) ==
  LET kept == {i \in DOMAIN doc : i \notin positions}
  IN  [n \in 1..Cardinality(kept) |->
         doc[CHOOSE i \in kept : Cardinality({j \in kept : j <= i}) = n]]

\* _apply_operation: the precondition is the text that is to go.
Applicable(doc, op) ==
  /\ op.at \in DOMAIN doc /\ doc[op.at].index = op.block
  /\ IF op.kind = "remove-block"
       THEN PlainParagraph(doc[op.at]) /\ BlockText(doc[op.at]) = op.expected
       ELSE /\ op.piece \in DOMAIN doc[op.at].pieces
            /\ doc[op.at].pieces[op.piece] = [kind |-> "text", value |-> op.expected]

Apply(doc, op) ==
  IF op.kind = "remove-block" THEN Without(doc, {op.at})
  ELSE [doc EXCEPT ![op.at].pieces[op.piece].value = op.by]

Excessive(before, removed) ==
  before > 0 /\ removed * 1000000 > MaxRemovePpm * before

Lost(before, after) == Max({0, Len(before) - Len(after)})

-----------------------------------------------------------------------------
(* Planning *)

Operation(kind, plan, n, r, block, at, piece, expected, by) ==
  [kind |-> kind, sequence |-> Len(plan.ops) + n, rule |-> r, block |-> block,
   at |-> at, piece |-> piece, expected |-> expected, by |-> by]

Record(r, block, ops, before, after, warned) ==
  [rule |-> r, block |-> block, ops |-> ops, before |-> before, after |-> after,
   warned |-> warned]

Run(status, ops, removed, warnings) ==
  [status |-> status, ops |-> ops, removed |-> removed, warnings |-> warnings]

Status(ops, warnings) ==
  CASE ops # <<>>                      -> "applied"
    [] ops = <<>> /\ warnings = {}     -> "no-change"
    [] ops = <<>> /\ "safety" \in warnings -> "skipped-safety"
    [] OTHER                           -> "rejected-structure"

\* A rule that would remove too much is skipped, and the log says so.
Skipped(plan, r, warnings) ==
  LET text == Flatten(plan.doc)
  IN  [plan EXCEPT
        !.runs = Append(@, Run("skipped-safety", <<>>, 0, warnings \cup {"safety"})),
        !.records = Append(@, Record(r, -1, <<>>, text, text, TRUE))]

Extended(plan, r, ops, records, warnings) ==
  LET doc == FoldLeft(Apply, plan.doc, ops)
  IN  [plan EXCEPT
        !.doc = doc, !.ops = @ \o ops, !.records = @ \o records,
        !.runs = Append(@, Run(Status(ops, warnings), ops,
                               Lost(Flatten(plan.doc), Flatten(doc)), warnings))]

\* plan_cleaning, a rule that removes blocks: from the last one to the first.
StructureRemoved(plan, r, candidates) ==
  LET doc == plan.doc
      order == SetToSortSeq(candidates, >)
      ops == [n \in DOMAIN order |->
                Operation("remove-block", plan, n, r, doc[order[n]].index, order[n], 0,
                          BlockText(doc[order[n]]), <<>>)]
      record(op) == Record(r, op.block, <<op>>, op.expected, <<>>, FALSE)
      removed == Lost(Flatten(doc), Flatten(Without(doc, candidates)))
  IN  IF Excessive(Len(Flatten(doc)), removed) THEN Skipped(plan, r, {})
      ELSE Extended(plan, r, ops, [n \in DOMAIN ops |-> record(ops[n])], {})

StructureRule(plan, rule, r) == StructureRemoved(plan, r, Candidates(plan.doc, rule))

\* The new values of the leaves that the safe edits of a block change.
Rewritten(block, leaves, safe) ==
  LET values == [k \in DOMAIN leaves |->
                   [piece |-> leaves[k].piece, value |-> LeafValue(block, leaves, k, safe)]]
  IN  SelectSeq(values, LAMBDA v : v.value # block.pieces[v.piece].value)

\* The operations of a rule on block i, numbered behind those on earlier blocks.
TextOps(plan, r, rewritten, i) ==
  LET before == Concat(SubSeq(rewritten, 1, i - 1))
      block == plan.doc[i]
  IN  [n \in DOMAIN rewritten[i] |->
         Operation("replace-text", plan, Len(before) + n, r, block.index, i,
                   rewritten[i][n].piece, block.pieces[rewritten[i][n].piece].value,
                   rewritten[i][n].value)]

\* One record per block that a text rule changed, next to all its operations.
TextExtended(plan, r, after, ops, warnings) ==
  LET touched == SelectSeq([i \in DOMAIN ops |-> i], LAMBDA i : ops[i] # <<>>)
      record(i) == Record(r, plan.doc[i].index, ops[i], BlockText(plan.doc[i]), after[i], FALSE)
  IN  Extended(plan, r, Concat(ops), [n \in DOMAIN touched |-> record(touched[n])], warnings)

\* The rule on all blocks, given its edits and those that stay inside a leaf.
TextEdited(plan, r, leaves, edits, safe) ==
  LET doc == plan.doc
      after == [i \in DOMAIN doc |-> ApplyEdits(BlockText(doc[i]), safe[i])]
      rewritten == [i \in DOMAIN doc |-> Rewritten(doc[i], leaves[i], safe[i])]
      warnings == IF safe # edits THEN {"separator"} ELSE {}
      shorter(i) == Len(BlockText(doc[i])) - Len(after[i])
  IN  IF Excessive(Len(Flatten(doc)), MapThenSumSet(shorter, DOMAIN doc))
        THEN Skipped(plan, r, warnings)
        ELSE TextExtended(plan, r, after, [i \in DOMAIN doc |-> TextOps(plan, r, rewritten, i)],
                          warnings)

\* plan_cleaning, a rule that edits text.  All blocks are projected before the
\* first of them changes.
TextRule(plan, rule, r) ==
  LET leaves == [i \in DOMAIN plan.doc |-> Project(plan.doc[i])]
      edits == [i \in DOMAIN plan.doc |->
                  RunEdits(BlockText(plan.doc[i]), rule.characters, rule.by)]
  IN  TextEdited(plan, r, leaves, edits,
        [i \in DOMAIN edits |-> SelectSeq(edits[i], LAMBDA e : InsideLeaves(leaves[i], e))])

\* plan_cleaning
PlanCleaning(document, rules) ==
  LET step(plan, r) == IF rules[r].scope = "source-structure"
                         THEN StructureRule(plan, rules[r], r)
                         ELSE TextRule(plan, rules[r], r)
  IN  FoldLeftDomain(step, [doc |-> document, ops |-> <<>>, runs |-> <<>>, records |-> <<>>],
                     rules)

-----------------------------------------------------------------------------
(* Replay *)

\* replay_cleaning_plan: every operation finds what it expects.
Replayed(document, plan) ==
  LET step(state, op) == [ok |-> state.ok /\ Applicable(state.doc, op),
                          doc |-> IF state.ok /\ Applicable(state.doc, op)
                                    THEN Apply(state.doc, op) ELSE state.doc]
  IN  FoldLeft(step, [ok |-> TRUE, doc |-> document], plan.ops)

\* _validate_plan_relations: the runs partition the operations in order, and
\* their counts and statuses are those of the replay.
RunsAgree(document, plan) ==
  LET before(n) == FoldLeft(Apply, document, Concat([m \in 1..(n - 1) |-> plan.runs[m].ops]))
      removed(n) == Lost(Flatten(before(n)), Flatten(before(n + 1)))
  IN  /\ Concat([n \in DOMAIN plan.runs |-> plan.runs[n].ops]) = plan.ops
      /\ \A n \in DOMAIN plan.ops : plan.ops[n].sequence = n
      /\ \A n \in DOMAIN plan.runs :
           /\ plan.runs[n].status = Status(plan.runs[n].ops, plan.runs[n].warnings)
           /\ plan.runs[n].removed = removed(n)

\* expected_transform_records, one operation: consecutive operations of one
\* text rule on one block share a record.
Audited(log, op) ==
  LET doc == Apply(log.doc, op)
      prior == IF log.records = <<>> THEN Record(0, -1, <<>>, <<>>, <<>>, TRUE)
                                     ELSE Last(log.records)
      shared == /\ op.kind = "replace-text" /\ ~prior.warned
                /\ prior.rule = op.rule /\ prior.block = op.block
      text == BlockText(log.doc[op.at])
      after == IF op.kind = "remove-block" THEN <<>> ELSE BlockText(doc[op.at])
  IN  [doc |-> doc,
       records |-> IF shared
         THEN Append(Front(log.records),
                     [prior EXCEPT !.ops = Append(@, op), !.after = after])
         ELSE Append(log.records, Record(op.rule, op.block, <<op>>, text, after, FALSE))]

\* expected_transform_records: the only audit log that is valid for a plan.
ExpectedRecords(document, plan) ==
  LET audit(log, r) ==
        IF plan.runs[r].status = "skipped-safety"
          THEN [log EXCEPT !.records =
                  Append(@, Record(r, -1, <<>>, Flatten(log.doc), Flatten(log.doc), TRUE))]
          ELSE FoldLeft(Audited, log, plan.runs[r].ops)
  IN  FoldLeftDomain(audit, [doc |-> document, records |-> <<>>], plan.runs)

PlanReplays(document, plan) ==
  /\ Replayed(document, plan) = [ok |-> TRUE, doc |-> plan.doc]
  /\ RunsAgree(document, plan)
  /\ ExpectedRecords(document, plan) = [doc |-> plan.doc, records |-> plan.records]

-----------------------------------------------------------------------------
\* build_block_derivations: the one edit script of every cleaned block.
BlockDerivations(stream, cleaned) ==
  [index \in {b.index : b \in ToSet(cleaned)} |->
     LET block == CHOOSE b \in ToSet(cleaned) : b.index = index
         original == Slice(stream, block.start, block.end)
         edits == DiffEdits(original, BlockText(block))
     IN  IF edits = <<>> THEN <<>> ELSE <<EditsStep(original, edits)>>]
=============================================================================
