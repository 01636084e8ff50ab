--------------------------------- MODULE Docx ---------------------------------
(***************************************************************************)
(* The DOCX parser (parsers/docx.py, docx_styles.py): what of an OOXML     *)
(* tree becomes blocks, and the inventory of what does not.                *)
(*                                                                         *)
(* An element is a record: its tag, the one value that its handling looks  *)
(* at (the style of a paragraph, the target of a link, the identity of a   *)
(* note, ...), its list number and level, its properties, its text and its *)
(* children.  Styles are the roles docx_styles.py gives them.              *)
(***************************************************************************)
EXTENDS Parsing, TLC

Element(tag, val, props, text, kids) ==
  [tag |-> tag, val |-> val, num |-> "", level |-> 0, props |-> props, text |-> text,
   kids |-> kids]

Wrappers == {"customXml", "sdt"}
InlineWrappers == {"bdo", "customXml", "dir", "fldSimple", "sdt", "smartTag"}
StripTags == {"commentRangeStart", "commentReference", "bookmarkStart", "proofErr",
              "lastRenderedPageBreak"}
RangeMarks == {"moveFromRangeStart", "moveToRangeStart"}
Revisions == {"del", "delText", "ins", "moveFrom", "moveTo"} \cup RangeMarks
Payload == {"t", "tab", "br", "cr", "noBreakHyphen", "softHyphen", "drawing",
            "footnoteReference", "endnoteReference"}
SemanticMarks == {"b", "i", "strike", "sup", "sub", "code", "math"}

\* The element and everything below it, with paths, in document order.
RECURSIVE Below(_, _)
Below(e, path) ==
  <<[e |-> e, at |-> path]>> \o
    Concat([i \in DOMAIN e.kids |-> Below(e.kids[i], Append(path, i))])

All(e) == LET below == Below(e, <<>>) IN [i \in DOMAIN below |-> below[i].e]

Characters(e) == UNION {ToSet(d.text) : d \in ToSet(All(e))}

\* _element_has_text_payload
HasText(e) == \E d \in ToSet(All(e)) : d.tag \in {"t", "delText", "instrText"} /\ d.text # <<>>

\* _iter_wrapped_children, _iter_body_blocks; a wrapper's children are those
\* of its content (_wrapper_content).
RECURSIVE Wrapped(_, _)
Wrapped(e, tags) ==
  Concat([i \in DOMAIN e.kids |->
    LET kid == e.kids[i]
    IN  CASE kid.tag \in tags -> <<kid>>
          [] kid.tag \in Wrappers \ tags -> Wrapped(kid, tags)
          [] OTHER -> <<>>])

\* _paragraph_is_toc_field: an instruction "TOC" behind a begin mark.
IsToc(p) ==
  LET all == All(p)
  IN  \E i, j \in DOMAIN all : /\ i < j /\ all[i].tag = "fldChar" /\ all[i].val = "begin"
                               /\ all[j].tag = "instrText" /\ all[j].val = "TOC"

-----------------------------------------------------------------------------
(* Inventory of losses, on the tree as it was read *)

Loss(e) == IF HasText(e) THEN "text" ELSE "structure"

\* One line of the inventory: severity and disposition follow from the code.
Lost(code, loss, found) == Omitted(code, loss, found.at, Characters(found.e))
Unsupported(code, found) == Lost(code, Loss(found.e), found)

\* _loss_diagnostic_specs, the pass over every element.
MarkupLoss(found) ==
  LET e == found.e
  IN  CASE e.tag \in {"commentRangeStart", "commentReference"} ->
             <<Lost("docx.comment-omitted", "text", found)>>
        [] e.tag = "bookmarkStart" -> <<Note("docx.bookmark-omitted", "metadata", found.at)>>
        [] e.tag \in {"del", "delText"} ->
             <<Lost("docx.revision-deletion-omitted", "text", found)>>
        [] e.tag \in {"ins", "moveTo"} ->
             <<Normalized("docx.revision-normalized", "metadata", found.at)>>
        [] e.tag = "moveFrom" ->
             <<Note("docx.revision-move-source-omitted", "metadata", found.at)>>
        [] e.tag = "lastRenderedPageBreak" \/ (e.tag = "br" /\ e.val = "page") ->
             <<Note("docx.page-break-omitted", "metadata", found.at)>>
        [] e.tag = "proofErr" -> <<Note("docx.proofing-marker-omitted", "metadata", found.at)>>
        [] e.tag = "p" /\ IsToc(e) -> <<Lost("docx.toc-cache-omitted", "structure", found)>>
        [] OTHER -> <<>>

Child(found, i) == [e |-> found.e.kids[i], at |-> Append(found.at, i)]
OfKids(found, F(_)) == Concat([i \in DOMAIN found.e.kids |-> F(Child(found, i))])

\* _inventory_body_boundaries
RECURSIVE BodyLoss(_)
BodyLoss(container) ==
  LET one(found) ==
        LET e == found.e
            reference(r) == IF r.e.tag \in {"headerReference", "footerReference"}
              THEN <<Lost("docx.header-footer-omitted", "text", r)>> ELSE <<>>
        IN  CASE e.tag \in {"p", "tbl"} \cup StripTags \cup Revisions -> <<>>
              [] e.tag = "sectPr" -> OfKids(found, reference)
              [] e.tag \in Wrappers ->
                   <<Normalized("docx.body-wrapper-normalized", "structure", found.at)>>
                     \o BodyLoss(found)
              [] OTHER -> <<Lost("docx.unsupported-body-element",
                                 IF e.tag = "altChunk" THEN "text" ELSE Loss(e), found)>>
  IN  OfKids(container, one)

\* _inventory_table_boundaries, for one table; "inside" says it is nested.
TableLoss(table, inside) ==
  LET all == Below(table.e, table.at)
      rows == Wrapped(table.e, {"tr"})
      inText(f) == \E g \in ToSet(all) : g.e.tag = "p" /\ IsStrictPrefix(g.at, f.at)
      wrapped == SelectSeq(all, LAMBDA f : f.e.tag \in Wrappers /\ ~inText(f))
      merged == SelectSeq(all, LAMBDA f : f.e.props \cap {"gridSpan", "vMerge"} # {})
      nested == IF ~inside THEN <<>>
                ELSE IF HasText(table.e)
                  THEN <<RefusedAs("docx.nested-table-unsupported", "text", table.at,
                                   Characters(table.e))>>
                  ELSE <<Lost("docx.nested-table-unsupported", "structure", table)>>
      headers == IF \A n \in DOMAIN rows : n > 1 => "header" \notin rows[n].props THEN <<>>
                 ELSE <<RefusedAs("docx.table-header-row-unsupported", "structure", table.at, {})>>
  IN  nested \o headers
        \o [n \in DOMAIN wrapped |->
              Normalized("docx.table-wrapper-normalized", "structure", wrapped[n].at)]
        \o [n \in DOMAIN merged |->
              RefusedAs("docx.table-cell-merge-unsupported", "structure", merged[n].at, {})]

\* _inventory_paragraph_boundary
RECURSIVE ParagraphLoss(_, _, _)
ParagraphLoss(container, toc, rels) ==
  LET one(found) ==
        LET e == found.e
            below == ParagraphLoss(found, toc, rels)
        IN  CASE e.tag = "r" \/ e.tag \in StripTags \cup Revisions -> <<>>
              [] e.tag = "hyperlink" ->
                   (IF e.val \in rels THEN <<>>
                    ELSE <<Note("docx.hyperlink-target-unresolved", "metadata", found.at)>>)
                     \o below
              [] e.tag \in InlineWrappers ->
                   <<Normalized("docx.paragraph-wrapper-normalized", "structure", found.at)>>
                     \o below
              [] toc /\ e.tag \in {"fldChar", "instrText"} -> <<>>
              [] OTHER -> <<Unsupported("docx.unsupported-paragraph-element", found)>>
  IN  OfKids(container, one)

Presentation(found, code, handled) ==
  IF found.e.props \subseteq handled THEN <<>> ELSE <<Note(code, "presentation", found.at)>>

\* _inventory_run_boundary, for a run of paragraph p.
RunLoss(run, p, rels) ==
  LET toc == IsToc(p)
      one(found) ==
        LET e == found.e
            image == e.val \in rels
        IN  CASE e.tag \in {"drawing", "footnoteReference", "endnoteReference"}
                   /\ p.val = "code" ->
                   <<Lost("docx.code-block-inline-omitted", "structure", found)>>
              [] e.tag = "drawing" /\ p.val # "code" ->
                   (IF HasText(e) THEN <<Lost("docx.drawing-text-omitted", "text", found)>>
                                  ELSE <<>>)
                   \o (IF image THEN <<>> ELSE <<Unsupported("docx.drawing-omitted", found)>>)
              [] e.tag = "sym" -> <<Lost("docx.symbol-omitted", "text", found)>>
              [] e.tag \in {"instrText", "fldChar"} ->
                   IF toc THEN <<>> ELSE <<Note("docx.field-omitted", "metadata", found.at)>>
              [] e.tag \in {"footnoteReference", "endnoteReference"} /\ p.val # "code" -> <<>>
              [] e.tag \in (Payload \ {"drawing", "footnoteReference", "endnoteReference"})
                             \cup StripTags \cup {"delText", "footnoteRef", "endnoteRef"} -> <<>>
              [] OTHER -> <<Unsupported("docx.unsupported-run-element", found)>>
  IN  OfKids(run, one) \o Presentation(run, "docx.run-presentation-omitted", SemanticMarks)

\* The paragraph that a run stands in, and whether a table stands in another.
Above(root, found, tag) ==
  {f \in ToSet(root) : f.e.tag = tag /\ IsStrictPrefix(f.at, found.at)}
Nearest(fs) == CHOOSE f \in fs : \A g \in fs : Len(g.at) <= Len(f.at)

\* Mutant of Once: a loss is reported once for each kind.
OnceByCode(specs) ==
  FoldLeft(LAMBDA out, d : IF \E e \in ToSet(out) : e.code = d.code THEN out
                           ELSE Append(out, d), <<>>, specs)

\* A loss that two passes find is reported once.
Once(specs) ==
  FoldLeft(LAMBDA out, d : IF \E e \in ToSet(out) : e.code = d.code /\ e.at = d.at THEN out
                           ELSE Append(out, d), <<>>, specs)

\* _loss_diagnostic_specs
Inventory(body, rels) ==
  LET all == Below(body, <<>>)
      of(found) ==
        MarkupLoss(found) \o
        (CASE found.e.tag = "tbl" -> TableLoss(found, Above(all, found, "tbl") # {})
           [] found.e.tag = "p" ->
                ParagraphLoss(found, IsToc(found.e), rels)
                  \o Presentation(found, "docx.paragraph-presentation-omitted", {"bdr"})
           [] found.e.tag = "r" -> RunLoss(found, Nearest(Above(all, found, "p")).e, rels)
           [] OTHER -> <<>>)
  IN  Once(BodyLoss([e |-> body, at |-> <<>>]) \o Concat([i \in DOMAIN all |-> of(all[i])]))

-----------------------------------------------------------------------------
(* Revisions are accepted *)

\* _clean_revisions
RECURSIVE Clean(_)
Clean(e) ==
  [e EXCEPT !.kids = Concat([i \in DOMAIN e.kids |->
    LET kid == Clean(e.kids[i])
    IN  CASE kid.tag \in StripTags \cup RangeMarks \cup {"del", "moveFrom", "delText"} -> <<>>
          [] kid.tag \in {"ins", "moveTo"} -> kid.kids
          [] OTHER -> <<kid>>])]

\* _strip_note_ref_marker, _run_has_canonical_payload, _is_whitespace_only_run:
\* the mark goes, an emptied run with it, and the blank run behind that.
RECURSIVE Unmarked(_, _)
Unmarked(e, marker) ==
  LET has(k) == k.tag = "r" /\ \E m \in ToSet(k.kids) : m.tag = marker
      bare(k) == [k EXCEPT !.kids = SelectSeq(k.kids, LAMBDA m : m.tag # marker)]
      spent(k) == has(k) /\ \A m \in ToSet(k.kids) :
                    m.tag \notin Payload \/ (m.tag = "t" /\ m.text = <<>>)
      spacer(k) == /\ k.tag = "r" /\ k.kids # <<>>
                   /\ \A m \in ToSet(k.kids) : m.tag = "t" /\ ToSet(m.text) = {" "}
      kept(i) == LET k == e.kids[i]
                 IN  IF spent(k) \/ (i > 1 /\ spent(e.kids[i - 1]) /\ spacer(k)) THEN <<>>
                     ELSE <<IF has(k) THEN bare(k) ELSE Unmarked(k, marker)>>
  IN  [e EXCEPT !.kids = Concat([i \in DOMAIN e.kids |-> kept(i)])]

-----------------------------------------------------------------------------
(* Inlines *)

Leaf(kind, value, marks) == [kind |-> kind, value |-> value, marks |-> marks]

\* _run_inlines, one child: text, breaks, images and references.
RunPiece(k, rels) ==
  CASE k.tag = "t" /\ k.text # <<>> -> <<Leaf("text", k.text, {})>>
    [] k.tag = "tab" -> <<Leaf("text", <<"tab">>, {})>>
    [] k.tag = "cr" \/ (k.tag = "br" /\ k.val # "page") -> <<Leaf("break", <<"nl">>, {})>>
    [] k.tag \in {"noBreakHyphen", "softHyphen"} -> <<Leaf("text", <<k.tag>>, {})>>
    [] k.tag = "drawing" /\ k.val # "" -> <<Leaf("image", k.text, {})>>
    [] k.tag \in {"footnoteReference", "endnoteReference"} /\ k.val # "" ->
         <<Leaf("reference", <<k.val>>, {})>>
    [] OTHER -> <<>>

\* _run_inlines: a math run is one source with its other pieces behind it, a
\* code run is code between its other pieces, any other run carries its marks.
RunInlines(run, rels) ==
  LET pieces == Concat([i \in DOMAIN run.kids |-> RunPiece(run.kids[i], rels)])
      plain(p) == p.kind \in {"text", "break"}
      text == Concat([i \in DOMAIN pieces |-> IF plain(pieces[i]) THEN pieces[i].value ELSE <<>>])
      code(out, p) ==
        IF ~plain(p) THEN Append(out, p)
        ELSE IF out # <<>> /\ Last(out).kind = "code"
          THEN Append(Front(out), Leaf("code", Last(out).value \o p.value, {}))
          ELSE Append(out, Leaf("code", p.value, {}))
  IN  CASE "math" \in run.props ->
             (IF text = <<>> THEN <<>> ELSE <<Leaf("math", text, {})>>)
               \o SelectSeq(pieces, LAMBDA p : ~plain(p))
        [] "code" \in run.props /\ "math" \notin run.props -> FoldLeft(code, <<>>, pieces)
        [] OTHER -> [i \in DOMAIN pieces |->
                       [pieces[i] EXCEPT !.marks = run.props \cap SemanticMarks]]

\* _coalesce_text: neighbouring texts under the same marks are one.
Coalesce(leaves) ==
  FoldLeft(LAMBDA out, n :
      IF out # <<>> /\ n.kind = "text" /\ Last(out).kind = "text" /\ Last(out).marks = n.marks
        THEN Append(Front(out), Leaf("text", Last(out).value \o n.value, n.marks))
        ELSE Append(out, n),
    <<>>, leaves)

\* _inline_container_inlines; what stands in a link does not join its neighbours.
RECURSIVE ContainerInlines(_, _)
ContainerInlines(container, rels) ==
  Concat([i \in DOMAIN container.kids |->
    LET kid == container.kids[i]
        inside == Coalesce(ContainerInlines(kid, rels))
    IN  CASE kid.tag = "r" -> RunInlines(kid, rels)
          [] kid.tag = "hyperlink" ->
               [n \in DOMAIN inside |-> [inside[n] EXCEPT !.marks = @ \cup {"link" \o ToString(i)}]]
          [] kid.tag \in InlineWrappers -> ContainerInlines(kid, rels)
          [] OTHER -> <<>>])

Inlines(p, rels) == Coalesce(ContainerInlines(p, rels))

Pieces(leaves) ==
  [i \in DOMAIN leaves |->
     Piece(IF leaves[i].kind = "text" THEN "text" ELSE "literal", leaves[i].value)]

\* _paragraph_plain_text
RECURSIVE PlainText(_)
PlainText(container) ==
  Concat([i \in DOMAIN container.kids |->
    LET kid == container.kids[i]
        texts == [n \in DOMAIN kid.kids |->
                    LET out == RunPiece(kid.kids[n], {})
                    IN  IF out # <<>> /\ out[1].kind \in {"text", "break"} THEN out[1].value
                        ELSE <<>>]
    IN  CASE kid.tag = "r" -> Concat(texts)
          [] kid.tag \in InlineWrappers \cup {"hyperlink"} -> PlainText(kid)
          [] OTHER -> <<>>])

-----------------------------------------------------------------------------
(* Blocks *)

\* _paragraph_info, _load_numbering: the list a paragraph belongs to, by its
\* number or else by its style.
ListOf(p) == CASE p.num # "" -> p.num
               [] p.num = "" /\ p.val \in {"bullet", "number"} -> p.val
               [] OTHER -> ""

\* The border that makes a rule of a paragraph without text (_paragraph_has_text).
IsRule(p) ==
  "bdr" \in p.props /\ ~\E d \in ToSet(All(p)) : d.tag = "t" /\ ToSet(d.text) \ {" "} # {}

Heading(p) == CASE p.val = "heading1" -> 1 [] p.val = "heading2" -> 2 [] OTHER -> 0

\* _paragraph_to_block
BlockOf(p, region, inlines) ==
  LET block(kind, level) == <<Block(kind, level, region, Pieces(inlines))>>
  IN  CASE IsToc(p) -> <<>>
        [] ~IsToc(p) /\ IsRule(p) -> <<Block("rule", 0, region, <<>>)>>
        [] OTHER ->
             CASE Heading(p) > 0 -> block("heading", Heading(p))
               [] p.val = "code" -> <<Block("code", 0, region, <<Piece("literal", PlainText(p))>>)>>
               [] p.val = "quote" -> block("quote", 0)
               [] OTHER -> IF inlines = <<>> THEN <<>>
                           ELSE IF Len(inlines) > 1 \/ inlines[1].kind \notin {"image", "math"}
                             THEN block("paragraph", 0)
                           ELSE IF inlines[1].kind = "image"
                             THEN <<Block("image", 0, region, ImagePieces(inlines[1].value))>>
                             ELSE block("math", 0)
ParagraphBlock(p, region, rels) == BlockOf(p, region, Inlines(p, rels))

\* _detect_and_strip_docx_task_marker
WithoutBox(leaves) ==
  LET first == leaves[1].value
      rest == Tail(first)
      ink == {i \in DOMAIN rest : rest[i] # " "}
  IN  IF leaves # <<>> /\ leaves[1].kind = "text" /\ leaves[1].marks = {}
           /\ first[1] = "box"
        THEN <<Leaf("text", IF ink = {} THEN <<>> ELSE SubSeq(rest, Min(ink), Len(rest)), {})>>
               \o Tail(leaves)
        ELSE leaves

\* _build_list: an item on a deeper level hangs below the item before it.
ListPieces(items, rels) ==
  LET place(state, p) ==
        LET stack == SelectSeq(state.stack, LAMBDA l : l <= p.level)
            base == IF stack = <<>> THEN <<0>> ELSE stack
            deeper == Last(base) < p.level
            gap == CASE deeper /\ state.items = 0 -> <<>>
                     [] deeper /\ state.items > 0 -> <<Piece("separator", BlockBreak)>>
                     [] OTHER -> IF state.items = 0 THEN <<>>
                                 ELSE <<Piece("separator", <<"nl">>)>>
        IN  [stack |-> IF deeper THEN Append(base, p.level) ELSE base,
             items |-> state.items + 1,
             pieces |-> state.pieces \o gap \o Pieces(WithoutBox(Inlines(p, rels)))]
  IN  FoldLeft(place, [stack |-> <<0>>, items |-> 0, pieces |-> <<>>], items).pieces

\* Parts with a generated separator between them.
Separated(parts, by) ==
  Concat([i \in DOMAIN parts |->
    (IF i = 1 THEN <<>> ELSE <<Piece("separator", by)>>) \o parts[i]])

\* _parse_table: the paragraphs of a cell are joined by a space that is text.
TablePieces(table, rels) ==
  LET cell(c) ==
        LET texts == [n \in DOMAIN Wrapped(c, {"p"}) |-> Inlines(Wrapped(c, {"p"})[n], rels)]
        IN  Pieces(FoldLeft(LAMBDA out, t : IF out # <<>> /\ t # <<>>
                              THEN out \o <<Leaf("text", Space, {})>> \o t ELSE out \o t,
                            <<>>, texts))
      row(r) == LET cells == Wrapped(r, {"tc"})
                IN  Separated([n \in DOMAIN cells |-> cell(cells[n])], <<"tab">>)
      rows == Wrapped(table, {"tr"})
  IN  Separated([n \in DOMAIN rows |-> row(rows[n])], <<"nl">>)

\* A paragraph of which _paragraph_to_block makes a quote.
IsQuote(p) == ~IsToc(p) /\ ~IsRule(p) /\ p.val = "quote"

\* _walk_body: runs of code paragraphs, of one list and of quotes become one
\* block each.
RECURSIVE Walk(_, _, _, _)
Walk(elements, i, region, rels) ==
  LET e == elements[i]
      code(p) == p.val = "code"
      same(p) == ListOf(p) = ListOf(e)
      run(Test(_)) == LET stops == {j \in i..Len(elements) :
                            elements[j].tag # "p" \/ ~Test(elements[j])}
                      IN  IF stops = {} THEN Len(elements) ELSE Min(stops) - 1
      part(j, F(_)) == [n \in 1..(j - i + 1) |-> F(elements[i + n - 1])]
      then(block, j) == <<block>> \o Walk(elements, j + 1, region, rels)
  IN  CASE i > Len(elements) -> <<>>
        [] i <= Len(elements) /\ e.tag = "tbl" ->
             then(Block("table", 0, region, TablePieces(e, rels)), i)
        [] i <= Len(elements) /\ e.tag = "p" /\ code(e) ->
             then(Block("code", 0, region, <<Piece("literal",
                    Joined(part(run(code), PlainText), <<"nl">>))>>), run(code))
        [] i <= Len(elements) /\ e.tag = "p" /\ ~code(e) /\ ListOf(e) # "" ->
             then(Block("list", 0, region, ListPieces(SubSeq(elements, i, run(same)), rels)),
                  run(same))
        [] i <= Len(elements) /\ e.tag = "p" /\ ~code(e) /\ ListOf(e) = "" ->
             IF IsQuote(e)
               THEN then(Block("quote", 0, region,
                      Separated(part(run(IsQuote), LAMBDA p : Pieces(Inlines(p, rels))), BlockBreak)),
                      run(IsQuote))
               ELSE ParagraphBlock(e, region, rels) \o Walk(elements, i + 1, region, rels)

-----------------------------------------------------------------------------
(* Notes *)

\* _load_notes: a separator is left out, a note without an identity or with
\* one that is taken is refused.  A note is a region of its own, named by its
\* identity; they are given in the order of their identities, in which
\* attach_canonical_provenance puts them.  Part 0 is the part of the notes.
LoadNotes(notes, rels) ==
  LET load(out, n) ==
        LET e == notes[n]
            at == <<0, n>>
            refuse(code) == [out EXCEPT !.specs =
                               Append(@, RefusedAs(code, "text", at, Characters(e)))]
            placed(specs) == [i \in DOMAIN specs |-> [specs[i] EXCEPT !.at = at \o @]]
            marked == \E d \in ToSet(All(e)) : d.tag = "footnoteRef"
            walked == Walk(Wrapped(Unmarked(Clean(e), "footnoteRef"), {"p", "tbl"}), 1,
                           e.val, rels)
        IN  CASE "separator" \in e.props ->
                   [out EXCEPT !.specs =
                      Append(@, Note("docx.note-separator-omitted", "presentation", at))]
              [] "separator" \notin e.props /\ e.val = "" -> refuse("docx.note-id-missing")
              [] "separator" \notin e.props /\ e.val # "" /\ e.val \in out.ids ->
                   refuse("docx.note-id-duplicate")
              [] OTHER ->
                   [ids |-> out.ids \cup {e.val}, blocks |-> out.blocks \o walked,
                    specs |-> out.specs \o placed(Inventory(e, rels)) \o
                      (IF marked THEN <<Normalized("docx.note-marker-normalized", "metadata", at)>>
                                 ELSE <<>>)]
  IN  FoldLeftDomain(load, [ids |-> {}, blocks |-> <<>>, specs |-> <<>>], notes)

\* _unresolved_note_reference_specs
Unresolved(body, ids) ==
  LET all == Below(body, <<>>)
      open == SelectSeq(all, LAMBDA f : f.e.tag = "footnoteReference" /\ f.e.val \notin ids)
  IN  [n \in DOMAIN open |->
         RefusedAs("docx.note-reference-unresolved", "text", open[n].at, {})]

-----------------------------------------------------------------------------
(* Packages *)

\* _parse_docx, with what the note part gave.
WithNotes(package, notes) ==
  LET body == package.body
      rels == package.rels
      clean == Clean(body)
  IN  ParseResult("docx",
        Walk(Wrapped(clean, {"p", "tbl"}), 1, "body", rels) \o notes.blocks,
        <<Note("docx.page-provenance-unavailable", "metadata", <<>>)>>
          \o Inventory(body, rels) \o notes.specs \o Unresolved(clean, notes.ids))

\* parse_docx_file, _parse_docx.  A package is too large for the limits of
\* _refuse_oversized_package or not, its note part can be read or not
\* (_invalid_note_part_spec).
ParseDocx(package) ==
  IF package.oversized THEN ParseFailed("docx")
  ELSE WithNotes(package, IF package.notesValid THEN LoadNotes(package.notes, package.rels)
         ELSE [ids |-> {}, blocks |-> <<>>,
               specs |-> <<RefusedAs("docx.note-part-invalid", "text", <<0>>, {})>>])

\* The characters of the text that a reader of the package sees; the box of a
\* task is the state of its item.
Visible(package) ==
  (Characters(package.body) \cup UNION {Characters(n) : n \in ToSet(package.notes)}) \ {"box"}
=============================================================================
