--------------------------------- MODULE Html ---------------------------------
(***************************************************************************)
(* The HTML parser (parsers/html.py): how a capture is decoded, what of    *)
(* the tree that lxml recovers becomes paragraphs, and what is reported.   *)
(*                                                                         *)
(* A node has a tag, the text before its first child, its children, and    *)
(* the tail that follows it in its parent.  A comment is a node with the   *)
(* tag "comment".                                                          *)
(***************************************************************************)
EXTENDS Parsing

Node(tag, text, kids, tail) == [tag |-> tag, text |-> text, kids |-> kids, tail |-> tail]

StripTags == {"script", "style", "noscript", "template", "svg", "iframe"}
Unseen == {"script", "style", "template"}          \* their text is never shown
HeadingTags == {"h1", "h2"}
ParagraphTags == {"p", "li", "blockquote", "pre", "td"}
BlockTags == {"p", "div", "main", "article", "li", "td", "blockquote", "pre", "h1", "h2",
              "br", "hr", "tr"}

Ink(text) == \E c \in ToSet(text) : c \notin {" ", "nl"}

-----------------------------------------------------------------------------
(* Decoding *)

\* _decode_html, _declared_charset: a byte-order mark, then strict UTF-8, then
\* the declared charset.  A refusal is a code; otherwise the report so far.
Decoded(capture) ==
  LET good(specs) == [refusal |-> "", specs |-> specs]
      bad(code) == [refusal |-> code, specs |-> <<>>]
      declared == <<Normalized("html.charset-declared", "metadata", <<"html.charset-declared">>)>>
  IN  CASE capture.bom = "utf8" ->
             IF capture.utf8 THEN good(<<Normalized("html.bom-removed", "metadata",
                                                    <<"html.bom-removed">>)>>)
                             ELSE bad("html.charset-invalid")
        [] capture.bom = "utf16" ->
             IF capture.decodable THEN good(declared) ELSE bad("html.charset-invalid")
        [] capture.bom = "" /\ capture.utf8 -> good(<<>>)
        [] OTHER ->
             CASE capture.declared \in {"", "unknown"} -> bad("html.charset-unknown")
               [] capture.declared = "utf8"            -> bad("html.charset-invalid")
               [] OTHER -> IF capture.decodable THEN good(declared)
                                                ELSE bad("html.charset-invalid")

-----------------------------------------------------------------------------
(* Texts *)

RECURSIVE AllText(_)
AllText(node) ==
  node.text \o Concat([i \in DOMAIN node.kids |-> AllText(node.kids[i]) \o node.kids[i].tail])

RECURSIVE Nodes(_)
Nodes(node) == <<node>> \o Concat([i \in DOMAIN node.kids |-> Nodes(node.kids[i])])

Has(node, tag) == \E n \in ToSet(Nodes(node)) : n.tag = tag
First(node, tag) ==
  LET nodes == Nodes(node) IN nodes[Min({i \in DOMAIN nodes : nodes[i].tag = tag})]

\* The loop that removes tags.  lxml removes the tail with the element.
RECURSIVE Stripped(_)
Stripped(node) ==
  [node EXCEPT !.kids = Concat([i \in DOMAIN node.kids |->
     IF node.kids[i].tag \in StripTags THEN <<>> ELSE <<Stripped(node.kids[i])>>])]

\* _captured_text: the text of one captured block, with a mark at every br and
\* at every edge of a block inside it ...
RECURSIVE Marked(_)
Marked(node) ==
  node.text \o Concat([i \in DOMAIN node.kids |->
    LET kid == node.kids[i]
    IN  (CASE kid.tag = "comment" -> <<>>
           [] kid.tag = "br" -> <<"break">>
           [] kid.tag \in BlockTags \ {"br"} -> <<"break">> \o Marked(kid) \o <<"break">>
           [] OTHER -> Marked(kid)) \o kid.tail])

\* ... and a mark becomes a line feed unless one stands there.
Folded(marked) ==
  FoldLeft(LAMBDA out, c : IF c # "break" THEN Append(out, c)
                           ELSE IF out # <<>> /\ Last(out) # "nl" THEN Append(out, "nl") ELSE out,
           <<>>, marked)

Breaks(marked) == "break" \in ToSet(marked) /\ Folded(marked) # SelectSeq(marked, LAMBDA c : c # "break")

Strip(text, blanks) ==
  LET ink == {i \in DOMAIN text : text[i] \notin blanks}
  IN  IF ink = {} THEN <<>> ELSE SubSeq(text, Min(ink), Max(ink))

\* append_paragraph: blanks collapse within a line and go at its ends, but in
\* preformatted text only the line feeds around it go.
Cleaned(text, preformatted) ==
  LET kept(i) == \/ text[i] # " "
                 \/ /\ i > 1 /\ text[i - 1] \notin {" ", "nl"}
                    /\ \E j \in (i + 1)..Len(text) :
                         text[j] \notin {" ", "nl"} /\ \A k \in i..(j - 1) : text[k] = " "
      indices == SelectSeq([i \in DOMAIN text |-> i], kept)
  IN  IF preformatted THEN Strip(text, {"nl"})
      ELSE Strip([n \in DOMAIN indices |-> text[indices[n]]], {"nl"})

-----------------------------------------------------------------------------
(* The walk *)

Event(kind, text, level, pre, folds) ==
  [kind |-> kind, text |-> text, level |-> level, pre |-> pre, folds |-> folds]
LooseText(text) == IF text = <<>> THEN <<>> ELSE <<Event("loose", text, 0, FALSE, FALSE)>>
Flush == <<Event("flush", <<>>, 0, FALSE, FALSE)>>

\* enter, and the loop around it: headings and paragraph tags are taken whole,
\* other texts are loose, and the edge of a block ends a run of them.
RECURSIVE Walk(_)
Walk(node) ==
  LET inside == Concat([i \in DOMAIN node.kids |-> Walk(node.kids[i]) \o LooseText(node.kids[i].tail)])
      capture(text, level, folds) ==
        Flush \o <<Event("capture", text, level, node.tag = "pre", folds)>>
  IN  CASE node.tag = "comment" -> <<>>
        [] node.tag \in HeadingTags -> capture(AllText(node), IF node.tag = "h1" THEN 1 ELSE 2, FALSE)
        [] node.tag \in ParagraphTags ->
             capture(Folded(Marked(node)), 0, Breaks(Marked(node)))
        [] node.tag \in BlockTags \ (HeadingTags \cup ParagraphTags) ->
             Flush \o LooseText(node.text) \o inside \o Flush
        [] OTHER -> LooseText(node.text) \o inside

\* Where a run of loose text is cut: between paragraphs.
RECURSIVE Chunks(_, _)
Chunks(text, from) ==
  LET cuts == {p \in BlankRuns(text) : p[1] > from}
      next == CHOOSE p \in cuts : \A q \in cuts : p[1] <= q[1]
  IN  IF cuts = {} THEN <<SubSeq(text, from + 1, Len(text))>>
      ELSE <<SubSeq(text, from + 1, next[1] - 1)>> \o Chunks(text, next[2])

HtmlBlock(text, level, pre) ==
  LET cleaned == Cleaned(text, pre)
  IN  IF ~Ink(cleaned) THEN <<>>
      ELSE <<Block(IF level = 0 THEN "paragraph" ELSE "heading", level, "body",
                   <<Piece("text", cleaned)>>)>>

LooseBlocks(text) ==
  IF ~Ink(text) THEN <<>>
  ELSE LET chunks == Chunks(text, 0)
       IN  Concat([n \in DOMAIN chunks |-> HtmlBlock(chunks[n], 0, FALSE)])

\* flush_loose and append_paragraph over the walk.
Recovered(events) ==
  LET step(state, e) ==
        CASE e.kind = "loose" -> [state EXCEPT !.loose = @ \o e.text]
          [] e.kind = "flush" ->
               [loose |-> <<>>, blocks |-> state.blocks \o LooseBlocks(state.loose),
                some |-> state.some \/ Ink(state.loose)]
          [] e.kind = "capture" ->
               [state EXCEPT !.blocks = @ \o HtmlBlock(e.text, e.level, e.pre)]
  IN  FoldLeft(step, [loose |-> <<>>, blocks |-> <<>>, some |-> FALSE], events \o Flush)

\* The element whose content is read: main, else article, else all there is.
Scope(root) ==
  CASE Has(root, "main") -> First(root, "main")
    [] ~Has(root, "main") /\ Has(root, "article") -> First(root, "article")
    [] OTHER -> root

\* One diagnostic of a code stands for a whole file.
HtmlSpecs(body, decoding, root, scope, events, walk) ==
  LET spec(present, severity, disposition, code, loss, texts) ==
        IF present THEN <<Diagnostic(code, severity, disposition, loss, <<code>>, texts)>> ELSE <<>>
      removed == SelectSeq(Nodes(body), LAMBDA n : n.tag \in StripTags)
      shown == SelectSeq(removed, LAMBDA n : n.tag \notin Unseen /\ Ink(AllText(n)))
      blanks == {" ", "nl"}
      outside == Strip(AllText(root), blanks) # Strip(AllText(scope), blanks)
      structured == \E e \in ToSet(events) : e.kind = "capture"
      inside(tags) == \E n \in ToSet(Nodes(scope)) : n.tag \in tags
  IN  spec(removed # <<>>, IF shown # <<>> THEN "warning" ELSE "info", "omitted",
             "html.non-content-tags-omitted", IF shown # <<>> THEN "text" ELSE "presentation",
             UNION {ToSet(AllText(n)) : n \in ToSet(shown)})
      \o decoding
      \o spec(scope # root, IF outside THEN "warning" ELSE "info",
                IF outside THEN "omitted" ELSE "normalized", "html.main-content-selected",
                IF outside THEN "text" ELSE "presentation",
                ToSet(AllText(root)) \ ToSet(AllText(scope)))
      \o spec(\E e \in ToSet(events) : e.folds, "info", "normalized",
                "html.line-break-normalized", "presentation", {})
      \o spec(inside({"table"}), "warning", "normalized", "html.table-flattened", "structure", {})
      \o spec(inside({"ul"}), "info", "normalized", "html.list-flattened", "structure", {})
      \o spec(walk.some /\ ~structured, "warning", "normalized", "html.flat-text-fallback",
                "structure", {})
      \o spec(walk.some /\ structured, "info", "normalized", "html.loose-text-recovered",
                "structure", {})
      \o spec(walk.blocks = <<>>, "error", "refused", "html.empty-text", "text", {})

\* What remains of the body is walked once; blocks and diagnostics come from it.
ReadHtml(body, decoding, root, scope, events) ==
  LET walk == Recovered(events)
  IN  ParseResult("html", walk.blocks, HtmlSpecs(body, decoding, root, scope, events, walk))

InScope(body, decoding, root, scope) == ReadHtml(body, decoding, root, scope, Walk(scope))

\* parse_html_file
ParseHtml(capture) ==
  LET decoded == Decoded(capture)
      root == Stripped(capture.body)
  IN  IF decoded.refusal # "" THEN RefusedParse("html", decoded.refusal)
      ELSE InScope(capture.body, decoded.specs, root, Scope(root))

\* The characters that a browser shows.
RECURSIVE Shown(_)
Shown(node) ==
  IF node.tag \in Unseen \cup {"comment"} THEN {}
  ELSE ToSet(node.text) \cup UNION {Shown(k) \cup ToSet(k.tail) : k \in ToSet(node.kids)}
=============================================================================
