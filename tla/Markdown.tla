------------------------------- MODULE Markdown -------------------------------
(***************************************************************************)
(* The Markdown parser (parsers/markdown.py).  markdown-it is outside the  *)
(* program: a source is given as the tree of its tokens, the definitions   *)
(* its lines contain and the notes the footnote plugin found, with labels  *)
(* split into the endnote prefix and an identity.                          *)
(*                                                                         *)
(* A Pandoc anchor, a Pandoc attribute block and a citation are one        *)
(* character each: "anchor", "attributes", "cite".                         *)
(***************************************************************************)
EXTENDS Parsing

Token(type, text, kids) ==
  [type |-> type, text |-> text, kids |-> kids, endnote |-> FALSE, id |-> "", level |-> 0]

InlineContent == {"code_inline", "footnote_ref", "hardbreak", "image", "math_inline",
                  "softbreak", "text"}
Supported == InlineContent \cup
  {"heading", "paragraph", "list", "item", "blockquote", "fence", "hr", "table", "tr", "td",
   "math_block", "footnote_anchor", "strong", "em", "s", "link"}

BlankChar(c) == c \in {" ", "nl"}

\* _later_inline_content
LaterContent(tokens, i) ==
  \E j \in (i + 1)..Len(tokens) :
    tokens[j].type \in InlineContent /\ (tokens[j].type = "text" => tokens[j].text # <<>>)

-----------------------------------------------------------------------------
(* Inventory *)

\* _diagnostic_specs, one token.
TokenLoss(tokens, i, path, heading) ==
  LET t == tokens[i]
      at == Append(path, i)
      chars == ToSet(t.text)
  IN  (CASE t.type = "html_block"  -> <<Omitted("markdown.html-block-omitted", "text", at, chars)>>
         [] t.type = "html_inline" -> <<Omitted("markdown.html-inline-omitted", "structure", at, chars)>>
         [] t.type \notin Supported \cup {"html_block", "html_inline"} ->
              <<Omitted("markdown.unsupported-token-omitted", "unknown", at, chars)>>
         [] t.type = "softbreak" ->
              <<Normalized("markdown.softbreak-normalized", "presentation", at)>>
         [] t.type = "list" /\ t.level > 1 ->
              <<Omitted("markdown.ordered-list-start-omitted", "metadata", at, {})>>
         [] t.type = "text" /\ "anchor" \in chars ->
              <<Omitted("markdown.pandoc-anchor-omitted", "metadata", at, {})>>
         [] t.type = "text" /\ "anchor" \notin chars /\ heading /\ t.text # <<>>
              /\ Last(t.text) = "attributes" /\ ~LaterContent(tokens, i) ->
              <<Omitted("markdown.pandoc-attributes-omitted", "metadata", at, {})>>
         [] OTHER -> <<>>)

\* The walk of _diagnostic_specs; it does not enter images.
RECURSIVE Losses(_, _, _)
Losses(tokens, path, heading) ==
  Concat([i \in DOMAIN tokens |->
    TokenLoss(tokens, i, path, heading)
      \o (IF tokens[i].type = "image" THEN <<>>
          ELSE Losses(tokens[i].kids, Append(path, i), tokens[i].type = "heading"))])

\* _source_definition_diagnostic_specs, _definition_spec.  A definition in the
\* lines of the source is of a note or of a link, and its label was used, or
\* not, or taken for text.
DefinitionLoss(definitions) ==
  LET first(n) == \A m \in 1..(n - 1) :
                    \/ definitions[m].kind # definitions[n].kind
                    \/ definitions[m].label # definitions[n].label
      doubled(n) == \E m \in DOMAIN definitions :
                      /\ m # n /\ definitions[m].kind = definitions[n].kind
                      /\ definitions[m].label = definitions[n].label
      of(n) ==
        LET d == definitions[n]
            refused(code, loss) == <<RefusedAs(code, loss, <<"line", n>>, ToSet(d.text))>>
        IN  CASE d.state = "text" -> <<>>
              [] d.state # "text" /\ ~first(n) ->
                   IF d.kind = "note"
                     THEN refused("markdown.duplicate-footnote-definition", "text")
                     ELSE refused("markdown.duplicate-reference-definition", "metadata")
              [] d.state = "unused" /\ first(n) /\ ~doubled(n) ->
                   IF d.kind = "note"
                     THEN refused("markdown.unused-footnote-definition-refused", "text")
                     ELSE <<Omitted("markdown.unused-reference-definition-omitted", "metadata",
                                    <<"line", n>>, {})>>
              [] OTHER -> <<>>
  IN  Concat([n \in DOMAIN definitions |-> of(n)])

-----------------------------------------------------------------------------
(* Inlines *)

Leaf(kind, value, path) == [kind |-> kind, value |-> value, path |-> path]

\* _strip_pandoc_cruft: with an anchor goes one of the two blanks around it,
\* with the attributes of a heading the blank before them.
StripCruft(text, trailing) ==
  LET gone(t, i) == \/ t[i] = "anchor"
                    \/ i > 2 /\ t[i - 1] = "anchor" /\ t[i] = " " /\ t[i - 2] = " "
      keep == SelectSeq([i \in DOMAIN text |-> i], LAMBDA i : ~gone(text, i))
      bare == [n \in DOMAIN keep |-> text[keep[n]]]
      short == IF Len(bare) > 1 /\ bare[Len(bare) - 1] = " " THEN Front(Front(bare))
               ELSE Front(bare)
      cut == IF \A i \in DOMAIN short : BlankChar(short[i]) THEN <<>> ELSE short
  IN  IF trailing /\ bare # <<>> /\ Last(bare) = "attributes" THEN cut ELSE bare

\* _find_marker: a mark behind something, with no blank in between.
Closing(text, i) ==
  {j \in (i + 2)..Len(text) :
     /\ text[j] = text[i]
     /\ \A k \in (i + 1)..(j - 1) : text[k] # text[i] /\ ~BlankChar(text[k])}

\* _split_sup_sub, _split_sup_sub_only: text, citations, and what stands
\* between two marks.
RECURSIVE SplitText(_, _, _, _)
SplitText(text, i, buffer, path) ==
  LET flush == IF buffer = <<>> THEN <<>> ELSE <<Leaf("text", buffer, path)>>
      close == IF text[i] \in {"^", "~"} THEN Closing(text, i) ELSE {}
  IN  CASE i > Len(text) -> flush
        [] i <= Len(text) /\ text[i] = "cite" ->
             flush \o <<Leaf("citation", <<"cite">>, path)>> \o SplitText(text, i + 1, <<>>, path)
        [] i <= Len(text) /\ text[i] # "cite" /\ close # {} ->
             flush \o <<Leaf("text", SubSeq(text, i + 1, Min(close) - 1), Append(path, -i))>>
                   \o SplitText(text, Min(close) + 1, <<>>, path)
        [] OTHER -> SplitText(text, i + 1, Append(buffer, text[i]), path)

\* A label that is empty behind the endnote prefix makes no reference.
NamesNote(t) == t.id # ""

\* _walk_inline
RECURSIVE WalkInline(_, _, _)
WalkInline(tokens, path, heading) ==
  LET step(out, i) ==
        LET t == tokens[i]
            leaf(kind) == Append(out, Leaf(kind, t.text, path))
            joins == out # <<>> /\ Last(out).kind = "text" /\ Last(out).path = path
        IN  CASE t.type = "text" ->
                   out \o SplitText(StripCruft(t.text, heading /\ ~LaterContent(tokens, i)),
                                    1, <<>>, path)
              [] t.type = "softbreak" ->
                   IF joins THEN Append(Front(out), [Last(out) EXCEPT !.value = @ \o Space])
                            ELSE Append(out, Leaf("text", Space, path))
              [] t.type = "hardbreak" -> Append(out, Leaf("break", <<"nl">>, path))
              [] t.type \in {"code_inline", "image", "math_inline"} -> leaf(t.type)
              [] t.type = "footnote_ref" ->
                   IF NamesNote(t) THEN Append(out, Leaf("reference", <<"[^">> \o t.text, path))
                                   ELSE out
              [] t.type \in {"strong", "em", "s", "link"} ->
                   out \o WalkInline(t.kids, Append(path, i), FALSE)
              [] OTHER -> out
  IN  FoldLeftDomain(step, <<>>, tokens)

Pieces(leaves) ==
  [i \in DOMAIN leaves |->
     Piece(IF leaves[i].kind = "text" THEN "text" ELSE "literal", leaves[i].value)]

\* _inlines_have_content, after _clean_inlines: more than blanks and breaks.
HasContent(tokens, leaves) ==
  \/ \E t \in ToSet(tokens) : t.type = "link"
  \/ \E n \in ToSet(leaves) :
       IF n.path = <<>> /\ n.kind = "text" THEN \E c \in ToSet(n.value) : ~BlankChar(c)
       ELSE ~(n.path = <<>> /\ n.kind = "break")

\* _detect_and_strip_task_marker: "box" stands for the mark and its blank.
WithoutTask(blocks) ==
  LET first == blocks[1].pieces[1]
  IN  IF /\ blocks # <<>> /\ blocks[1].kind = "paragraph" /\ blocks[1].pieces # <<>>
         /\ first.kind = "text" /\ first.value # <<>> /\ first.value[1] = "box"
        THEN [blocks EXCEPT ![1].pieces[1].value = Tail(first.value)]
        ELSE blocks

-----------------------------------------------------------------------------
(* Blocks *)

Separated(parts, by) ==
  Concat([i \in DOMAIN parts |->
    (IF i = 1 THEN <<>> ELSE <<Piece("separator", by)>>) \o parts[i]])

BlocksPieces(blocks) == Separated([i \in DOMAIN blocks |-> blocks[i].pieces], BlockBreak)

\* _consume_blocks, _consume_list_items, _consume_table and _drop_empty_blocks.
\* Only notes keep paragraphs that became empty.
RECURSIVE Blocks(_, _, _)
Blocks(tokens, region, note) ==
  LET of(t) ==
        LET leaves == WalkInline(t.kids, <<>>, t.type = "heading")
            block(kind, level, pieces) == <<Block(kind, level, region, pieces)>>
            item(k) == BlocksPieces(WithoutTask(Blocks(k.kids, region, note)))
            cell(c) == Pieces(WalkInline(c.kids, <<>>, FALSE))
            row(r) == Separated([n \in DOMAIN r.kids |-> cell(r.kids[n])], <<"tab">>)
        IN  CASE t.type = "heading" -> block("heading", t.level, Pieces(leaves))
              [] t.type = "paragraph" ->
                   IF Len(leaves) = 1 /\ leaves[1].kind = "image" /\ leaves[1].path = <<>>
                     THEN block("image", 0, ImagePieces(leaves[1].value))
                     ELSE IF note \/ HasContent(t.kids, leaves)
                       THEN block("paragraph", 0, Pieces(leaves)) ELSE <<>>
              [] t.type = "list" ->
                   block("list", 0, Separated([n \in DOMAIN t.kids |-> item(t.kids[n])], <<"nl">>))
              [] t.type = "blockquote" ->
                   block("quote", 0, BlocksPieces(Blocks(t.kids, region, note)))
              [] t.type = "fence" -> block("code", 0, <<Piece("literal", t.text)>>)
              [] t.type = "hr" -> block("rule", 0, <<>>)
              [] t.type = "table" ->
                   block("table", 0, Separated([n \in DOMAIN t.kids |-> row(t.kids[n])], <<"nl">>))
              [] t.type = "math_block" -> block("math", 0, <<Piece("literal", t.text)>>)
              [] OTHER -> <<>>
  IN  Concat([i \in DOMAIN tokens |-> of(tokens[i])])

\* _consume_footnote_block: a later note with the same identity replaces the
\* one before it; footnotes come before endnotes.
NoteBlocks(notes) ==
  LET same(m, n) == notes[m].endnote = notes[n].endnote /\ notes[m].id = notes[n].id
      last(n) == \A m \in (n + 1)..Len(notes) : ~same(m, n)
      kept(endnote) == SelectSeq([n \in DOMAIN notes |-> n], LAMBDA n :
                         notes[n].endnote = endnote /\ NamesNote(notes[n]) /\ last(n))
      of(n) == Blocks(notes[n].kids, (IF notes[n].endnote THEN "endnote " ELSE "note ")
                                       \o notes[n].id, TRUE)
      order == kept(FALSE) \o kept(TRUE)
  IN  Concat([k \in DOMAIN order |-> of(order[k])])

\* parse_md_file, _parse_with_stream.
ParseMarkdown(source) ==
  LET notes == [n \in DOMAIN source.notes |-> source.notes[n].kids]
  IN  IF source.utf8
        THEN ParseResult("markdown", Blocks(source.tokens, "body", FALSE) \o NoteBlocks(source.notes),
               DefinitionLoss(source.definitions) \o Losses(source.tokens, <<"body">>, FALSE)
                 \o Concat([n \in DOMAIN notes |-> Losses(notes[n], <<"note", n>>, FALSE)]))
        ELSE ParseFailed("markdown")

\* The characters of a source outside its markup.
Marks == {"^", "~", "anchor", "attributes", "box"}
RECURSIVE TokenCharacters(_)
TokenCharacters(tokens) ==
  UNION {ToSet(t.text) \cup TokenCharacters(t.kids) : t \in ToSet(tokens)}
Written(source) ==
  (TokenCharacters(source.tokens) \cup UNION {TokenCharacters(n.kids) : n \in ToSet(source.notes)}
    \cup UNION {ToSet(d.text) : d \in ToSet(source.definitions)}) \ Marks
=============================================================================
