------------------------------ MODULE SourceText ------------------------------
(***************************************************************************)
(* Parsed documents, the canonical stream that their blocks are ranges of, *)
(* and the evidence that ties every derived text to ranges of that stream  *)
(* (ir/nodes.py, evidence.py).                                             *)
(*                                                                         *)
(* A text is a sequence of characters, positions count from 0 and ranges   *)
(* leave out their end, as in the code.  A block is its rendering: a       *)
(* sequence of pieces, of which "text" may be edited, "literal" is code,   *)
(* math or a reference, and "separator" is generated between the parts of  *)
(* a list, a quote or a table.  A digest is the text it was taken from.    *)
(***************************************************************************)
EXTENDS Integers, SequencesExt, FiniteSetsExt

BlockBreak == <<"nl", "nl">>
Space == <<" ">>
Refused == <<"EvidenceError">>      \* no text has this character

\* The parts one after another.  <<>> \o makes TLC evaluate every part once.
Concat(parts) == FlattenSeq(<<>> \o parts)

Slice(text, start, end) == SubSeq(text, start + 1, Min({end, Len(text)}))

Joined(parts, separator) ==
  Concat([i \in DOMAIN parts |-> IF i = 1 THEN parts[i] ELSE separator \o parts[i]])

\* block_text
BlockText(block) == Concat([i \in DOMAIN block.pieces |-> block.pieces[i].value])

\* The blocks that a parser makes of text in these characters.
PiecesOf(characters) == [kind : STRING, value : Seq(characters)]
ParsedBlocks(characters, regions) ==
  [kind : STRING, level : Int, region : regions, pieces : Seq(PiecesOf(characters)),
   start : Nat, end : Nat, index : Nat]

Texts(blocks) == [i \in DOMAIN blocks |-> BlockText(blocks[i])]
Flatten(blocks) == Joined(Texts(blocks), BlockBreak)

\* Mutant of Position: the separators between blocks are not counted.
PositionWithoutBreaks(blocks, i) ==
  Len(Concat([j \in 1..(i - 1) |-> BlockText(blocks[j])]))

\* Where block i begins in the stream of the blocks.
Position(blocks, i) ==
  Len(Concat([j \in 1..(i - 1) |-> BlockText(blocks[j]) \o BlockBreak]))

\* attach_canonical_provenance: body first, then the notes.
WithProvenance(blocks) ==
  [i \in DOMAIN blocks |->
     [blocks[i] EXCEPT !.index = i - 1, !.start = Position(blocks, i),
                       !.end = Position(blocks, i) + Len(BlockText(blocks[i]))]]

\* The elements of s at some of its positions, in their order.
Those(s, positions) ==
  LET kept[i \in 0..Len(s)] ==
        IF i = 0 THEN <<>>
        ELSE IF i \in positions THEN Append(kept[i - 1], s[i]) ELSE kept[i - 1]
  IN  kept[Len(s)]

Region(blocks, region) == Those(blocks, {i \in DOMAIN blocks : blocks[i].region = region})

-----------------------------------------------------------------------------
(* Derivations *)

\* Edits in order, apart from each other, each replacing what it expects.
EditsApply(text, edits) ==
  /\ \A i \in DOMAIN edits :
       /\ 0 <= edits[i].start /\ edits[i].start <= edits[i].end /\ edits[i].end <= Len(text)
       /\ i > 1 => edits[i - 1].end <= edits[i].start

ApplyEdits(text, edits) ==
  FoldRight(LAMBDA e, t : Slice(t, 0, e.start) \o e.by \o Slice(t, e.end, Len(t)),
            edits, text)

ExpectedFound(text, edits) ==
  \A i \in DOMAIN edits : Slice(text, edits[i].start, edits[i].end) = edits[i].expected

\* The script of difflib: here one edit between the longest common ends.
DiffEdits(before, after) ==
  LET same(n) == \A i \in 1..n : before[i] = after[i]
      shorter == Min({Len(before), Len(after)})
      head == Max({n \in 0..shorter : same(n)})
      tail == Max({n \in 0..(shorter - head) :
                \A i \in 0..(n - 1) : before[Len(before) - i] = after[Len(after) - i]})
  IN  IF before = after THEN <<>>
      ELSE <<[start |-> head, end |-> Len(before) - tail,
              expected |-> Slice(before, head, Len(before) - tail),
              by |-> Slice(after, head, Len(after) - tail)]>>

EditsStep(before, edits) ==
  [kind |-> "edits", input |-> before, output |-> ApplyEdits(before, edits),
   edits |-> edits, start |-> 0, end |-> 0]
SliceStep(text, start, end) ==
  [kind |-> "slice", input |-> text, output |-> Slice(text, start, end),
   edits |-> <<>>, start |-> start, end |-> end]
JoinStep(values, separator) ==
  [separator |-> separator, lengths |-> [i \in DOMAIN values |-> Len(values[i])],
   input |-> Concat(values), output |-> Joined(values, separator)]
NoJoin == [separator |-> <<>>, lengths |-> <<>>, input |-> <<>>, output |-> <<>>]

ApplyStep(text, step) ==
  LET output == IF step.kind = "edits" THEN ApplyEdits(text, step.edits)
                                       ELSE Slice(text, step.start, step.end)
      applies == IF step.kind = "edits"
                   THEN EditsApply(text, step.edits) /\ ExpectedFound(text, step.edits)
                   ELSE 0 <= step.start /\ step.start <= step.end /\ step.end <= Len(text)
  IN  IF text = step.input /\ applies /\ output = step.output THEN output ELSE Refused

Replay(text, steps) ==
  FoldLeft(LAMBDA t, s : IF t = Refused THEN t ELSE ApplyStep(t, s), text, steps)

-----------------------------------------------------------------------------
(* Evidence *)

\* source_range; an empty range is an anchor.
SourceRange(stream, block) ==
  [start |-> block.start, end |-> block.end, region |-> block.region,
   digest |-> Slice(stream, block.start, block.end)]

\* _validate_evidence_shape: one region, and a join exactly when there are
\* several components, with their lengths.
WellFormed(evidence) ==
  /\ evidence.components # <<>>
  /\ \A c, d \in ToSet(evidence.components) : c.range.region = d.range.region
  /\ (Len(evidence.components) = 1) = (evidence.join = NoJoin)
  /\ evidence.join # NoJoin => Len(evidence.join.lengths) = Len(evidence.components)

\* resolve_evidence: the text that the evidence proves, or a refusal.
Resolve(evidence, stream) ==
  LET values == [i \in DOMAIN evidence.components |->
        LET c == evidence.components[i]
            found == Slice(stream, c.range.start, c.range.end)
        IN  IF found = c.range.digest THEN Replay(found, c.steps) ELSE Refused]
      join == evidence.join
      whole == CASE join = NoJoin -> values[1]
                 [] join # NoJoin ->
                      IF /\ join.lengths = [i \in DOMAIN values |-> Len(values[i])]
                         /\ join.input = Concat(values)
                         /\ join.output = Joined(values, join.separator)
                        THEN join.output ELSE Refused
      text == Replay(whole, evidence.tail)
  IN  IF /\ WellFormed(evidence) /\ Refused \notin ToSet(values)
         /\ text = evidence.output
        THEN text ELSE Refused

\* Mutant of ExactSpan: what was done to the range is not looked at.
ExactSpanOfRange(evidence) ==
  LET range == evidence.components[1].range
  IN  IF Len(evidence.components) = 1 /\ range.start < range.end
        THEN <<range.start, range.end>> ELSE <<>>

\* exact_span_from_evidence: one untouched range that is the whole output.
ExactSpan(evidence) ==
  LET c == evidence.components[1]
      exact == /\ Len(evidence.components) = 1
               /\ c.steps = <<>> /\ evidence.tail = <<>>
               /\ c.range.start < c.range.end
               /\ c.range.digest = evidence.output
  IN  IF exact THEN <<c.range.start, c.range.end>> ELSE <<>>
=============================================================================
