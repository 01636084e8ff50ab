------------------------------- MODULE MCCompile -------------------------------
(* Compile for TLC.  Small sources of every format: a shape is given the two  *)
(* characters that stand in it, so that two shapes in one source share none.  *)
EXTENDS Compile

E(tag, kids) == D!Element(tag, "", {}, <<>>, kids)
V(tag, val, kids) == D!Element(tag, val, {}, <<>>, kids)
T(text) == D!Element("t", "", {}, text, <<>>)
Run1(text) == E("r", <<T(text)>>)
Par(kids) == E("p", kids)
Sty(style, kids) == V("p", style, kids)
With(e, props) == [e EXCEPT !.props = props]
Numbered(e, num, level) == [e EXCEPT !.num = num, !.level = level]
Math(text) == D!Element("oMath", "", {}, text, <<>>)
Chunk1(text) == D!Element("altChunk", "", {}, text, <<>>)
Image(val, alt) == D!Element("drawing", val, {}, alt, <<>>)
Cell(kids) == E("tc", kids)
Table(rows) == E("tbl", [n \in DOMAIN rows |-> E("tr", rows[n])])

DocxShapes(x, y) ==
  {<<Par(<<Run1(<<x, " ", y>>)>>)>>,
   <<Par(<<E("ins", <<Run1(<<x>>)>>), Run1(<<y>>)>>)>>,
   <<Par(<<E("del", <<E("r", <<D!Element("delText", "", {}, <<x>>, <<>>)>>)>>), Run1(<<y>>)>>)>>,
   <<Par(<<E("ins", <<Math(<<x>>)>>), Run1(<<y>>)>>)>>,
   <<Par(<<Math(<<x>>), Run1(<<y>>)>>)>>,
   <<Sty("code", <<Run1(<<x>>)>>), Sty("code", <<E("r", <<T(<<y>>), Image("rId1", <<x>>)>>)>>)>>,
   <<Numbered(Par(<<Run1(<<"box", x>>)>>), "1", 0), Numbered(Par(<<Run1(<<y>>)>>), "1", 1)>>,
   <<Sty("quote", <<Run1(<<x>>)>>), Sty("quote", <<Run1(<<y>>)>>)>>,
   <<Sty("heading1", <<Run1(<<x>>)>>), Par(<<Run1(<<y>>)>>)>>,
   <<Table(<<<<Cell(<<Par(<<Run1(<<x>>)>>)>>)>>, <<Cell(<<Par(<<Run1(<<y>>)>>), Par(<<Run1(<<x>>)>>)>>)>>>>)>>,
   <<Table(<<<<Cell(<<Par(<<Run1(<<x>>)>>), Table(<<<<Cell(<<Par(<<Run1(<<y>>)>>)>>)>>>>)>>)>>>>)>>,
   <<Table(<<<<Cell(<<Chunk1(<<x>>), Par(<<Run1(<<y>>)>>)>>)>>>>)>>,
   <<Chunk1(<<x>>), Par(<<Run1(<<y>>)>>)>>,
   <<Par(<<E("r", <<[Image("", <<>>) EXCEPT !.kids = <<T(<<x>>)>>], Image("rId1", <<y>>)>>)>>)>>,
   <<E("sdt", <<Par(<<E("sdt", <<Run1(<<x>>)>>), Run1(<<y>>)>>)>>)>>,
   <<Par(<<V("hyperlink", "rId9", <<Run1(<<x>>)>>), Run1(<<y>>)>>)>>,
   <<With(Par(<<E("r", <<Image("rId1", <<x>>)>>)>>), {"bdr"}), Par(<<Run1(<<y>>)>>)>>,
   <<Par(<<E("r", <<V("fldChar", "begin", <<>>), V("instrText", "TOC", <<>>)>>), Run1(<<x>>)>>),
     Par(<<Run1(<<y>>)>>)>>,
   <<Par(<<Run1(<<x>>), E("r", <<V("footnoteReference", "1", <<>>)>>)>>)>>,
   <<Par(<<E("r", <<D!Element("sym", "", {}, <<x>>, <<>>), T(<<y>>)>>)>>),
     Par(<<E("r", <<D!Element("sym", "", {}, <<"e">>, <<>>)>>)>>)>>,
   <<Par(<<E("moveFrom", <<Run1(<<x>>)>>), E("moveTo", <<Run1(<<x>>)>>),
           With(Run1(<<y>>), {"code"}), With(Run1(<<y>>), {"math"})>>)>>,
   <<Par(<<E("commentRangeStart", <<>>), Run1(<<x>>), E("bookmarkStart", <<>>),
           E("r", <<E("ptab", <<>>), T(<<y>>)>>)>>), E("sectPr", <<>>)>>}

\* Shapes that what stands before them may run into.
DocxFollowing(x, y) ==
  {<<Sty("code", <<Run1(<<x>>)>>)>>, <<Sty("quote", <<Run1(<<x>>)>>)>>,
   <<Numbered(Par(<<Run1(<<x>>)>>), "1", 0)>>,
   <<Sty("heading1", <<Run1(<<x>>)>>), Par(<<Run1(<<y>>)>>)>>}

DocxHeader == With(Table(<<<<Cell(<<Par(<<Run1(<<"a">>)>>)>>)>>>>), {})
DocxRefused ==
  {<<[DocxHeader EXCEPT !.kids = @ \o <<With(@[1], {"header"})>>]>>,
   <<[DocxHeader EXCEPT !.kids[1].kids[1].props = {"gridSpan"}]>>}

Note1(id, text) == D!Element("footnote", id, {}, <<>>,
  <<Par(<<E("r", <<E("footnoteRef", <<>>)>>), Run1(<<" ">>), Run1(text)>>)>>)
NoteSets == {<<>>, <<Note1("1", <<"n">>)>>, <<Note1("1", <<"n">>), Note1("1", <<"m">>)>>,
             <<With(E("footnote", <<>>), {"separator"}), Note1("1", <<"m">>)>>,
             <<Note1("", <<"m">>)>>}

Package(kids, notes) ==
  [body |-> E("body", kids), rels |-> {"rId1"}, notes |-> notes, notesValid |-> TRUE,
   oversized |-> FALSE]

DocxSources ==
  {Package(s, n) : s \in DocxShapes("a", "b") \cup DocxRefused, n \in NoteSets}
    \cup {Package(s \o t, <<>>) : s \in DocxShapes("a", "b"), t \in DocxFollowing("c", "d")}
    \cup {[Package(<<Par(<<Run1(<<"a">>)>>)>>, <<>>) EXCEPT !.notesValid = FALSE],
          [Package(<<Par(<<Run1(<<"a">>)>>)>>, <<>>) EXCEPT !.oversized = TRUE]}

-----------------------------------------------------------------------------
K(type, text) == M!Token(type, text, <<>>)
N(type, kids) == M!Token(type, <<>>, kids)
MPar(kids) == N("paragraph", kids)
Txt(text) == K("text", text)
Ref(id) == [K("footnote_ref", <<"1">>) EXCEPT !.id = id]

MarkdownShapes(x, y) ==
  {<<MPar(<<Txt(<<x>>), K("softbreak", <<>>), Txt(<<y>>)>>)>>,
   <<MPar(<<K("code_inline", <<x, y>>), Txt(<<" ">>), N("strong", <<Txt(<<x>>)>>), Txt(<<y>>)>>)>>,
   <<[N("heading", <<Txt(<<x, " ", "attributes">>)>>) EXCEPT !.level = 1], MPar(<<Txt(<<y>>)>>)>>,
   <<MPar(<<Txt(<<x, " ", "anchor", " ", y>>)>>)>>,
   <<MPar(<<Txt(<<x, "^", y, "^", "cite">>)>>)>>,
   <<K("html_block", <<x>>), MPar(<<K("html_inline", <<y>>), Txt(<<y>>)>>)>>,
   <<N("list", <<N("item", <<MPar(<<Txt(<<"box", x>>)>>)>>),
                 N("item", <<MPar(<<Txt(<<y>>)>>), N("list", <<N("item", <<MPar(<<Txt(<<x>>)>>)>>)>>)>>)>>)>>,
   <<N("blockquote", <<MPar(<<Txt(<<x>>)>>), MPar(<<Txt(<<y>>)>>)>>)>>,
   <<K("fence", <<x, "nl", y>>), K("hr", <<>>)>>,
   <<N("table", <<N("tr", <<N("td", <<Txt(<<x>>)>>), N("td", <<Txt(<<y>>)>>)>>)>>)>>,
   <<K("math_block", <<x>>), MPar(<<K("math_inline", <<y>>), K("hardbreak", <<>>), Txt(<<y>>)>>)>>,
   <<MPar(<<K("image", <<x>>)>>), MPar(<<N("link", <<Txt(<<y>>)>>)>>)>>,
   <<K("dl_open", <<x>>), MPar(<<Txt(<<y>>)>>)>>,
   <<MPar(<<Txt(<<x>>), Ref("1"), Ref("")>>)>>}

MarkdownFollowing(x, y) ==
  {<<MPar(<<Txt(<<x>>), Ref("1"), Txt(<<y>>)>>)>>,
   <<N("heading", <<Txt(<<x>>)>>), MPar(<<Txt(<<y>>)>>), [N("heading", <<Txt(<<x>>)>>) EXCEPT !.level = 2]>>,
   <<N("list", <<N("item", <<MPar(<<Txt(<<x>>)>>)>>)>>), K("hr", <<>>)>>}

MNote(endnote, id, text) ==
  [endnote |-> endnote, id |-> id, kids |-> <<MPar(<<Txt(text)>>)>>]
MNoteSets == {<<>>, <<MNote(FALSE, "1", <<"n">>), MNote(TRUE, "1", <<"m">>)>>,
              <<MNote(FALSE, "1", <<"n">>), MNote(FALSE, "1", <<"m">>)>>,
              <<MNote(TRUE, "", <<"n">>)>>}
Definition(kind, label, state, text) ==
  [kind |-> kind, label |-> label, state |-> state, text |-> text]
DefinitionSets ==
  {<<>>, <<Definition("link", "l", "unused", <<>>)>>,
   <<Definition("note", "l", "unused", <<"z">>)>>,
   <<Definition("note", "l", "used", <<>>), Definition("note", "l", "used", <<"z">>)>>,
   <<Definition("link", "l", "used", <<>>), Definition("link", "l", "used", <<>>)>>}

MSource(tokens, notes, definitions) ==
  [tokens |-> tokens, notes |-> notes, definitions |-> definitions, utf8 |-> TRUE]
MarkdownSources ==
  {MSource(s, n, <<>>) : s \in MarkdownShapes("a", "b"), n \in MNoteSets}
    \cup {MSource(<<MPar(<<Txt(<<"a">>)>>)>>, n, d) : n \in MNoteSets, d \in DefinitionSets}
    \cup {MSource(s \o t, <<>>, <<>>) : s \in MarkdownShapes("a", "b"), t \in MarkdownFollowing("c", "d")}
    \cup {MSource(<<MPar(<<K("code_inline", <<"u", "b">>), Txt(<<"u">>)>>)>>, <<>>, <<>>),
          MSource(<<MPar(<<Txt(<<"u">>), N("em", <<Txt(<<"b", "u">>)>>)>>)>>, <<>>, <<>>),
          [MSource(<<>>, <<>>, <<>>) EXCEPT !.utf8 = FALSE]}

-----------------------------------------------------------------------------
HtmlShapes(x, y) ==
  {<<H!Node("p", <<x, " ", y>>, <<>>, <<>>)>>,
   <<H!Node("p", <<x>>, <<H!Node("br", <<>>, <<>>, <<y>>)>>, <<>>)>>,
   <<H!Node("script", <<x>>, <<>>, <<"nl">>), H!Node("p", <<y>>, <<>>, <<>>)>>,
   <<H!Node("noscript", <<x>>, <<>>, <<>>), H!Node("p", <<y>>, <<>>, <<>>)>>,
   <<H!Node("svg", <<>>, <<>>, <<x>>), H!Node("p", <<y>>, <<>>, <<>>)>>,
   <<H!Node("h1", <<x>>, <<>>, <<y>>)>>,
   <<H!Node("comment", <<"z">>, <<>>, <<x, "nl", "nl", y>>)>>,
   <<H!Node("ul", <<>>, <<H!Node("li", <<x>>, <<H!Node("p", <<y>>, <<>>, <<>>)>>, <<>>)>>, <<>>)>>,
   <<H!Node("table", <<>>, <<H!Node("tr", <<>>, <<H!Node("td", <<x>>, <<>>, <<>>)>>, <<>>)>>, <<y>>)>>,
   <<H!Node("pre", <<"nl", x, " ", " ", y>>, <<>>, <<>>)>>,
   <<H!Node("div", <<x>>, <<H!Node("span", <<y>>, <<>>, <<x>>)>>, <<>>)>>,
   <<H!Node("main", <<>>, <<H!Node("p", <<x>>, <<>>, <<>>)>>, <<>>), H!Node("p", <<y>>, <<>>, <<>>)>>}

HtmlFollowing(x, y) ==
  {<<H!Node("h1", <<x>>, <<>>, <<y>>)>>, <<H!Node("script", <<x>>, <<>>, <<y>>)>>,
   <<H!Node("p", <<x>>, <<H!Node("br", <<>>, <<>>, <<y>>)>>, <<"nl">>)>>}

Capture(kids) ==
  [bom |-> "", utf8 |-> TRUE, declared |-> "", decodable |-> TRUE,
   body |-> H!Node("body", <<>>, kids, <<>>)]
HtmlSources ==
  {Capture(s) : s \in HtmlShapes("a", "b")}
    \cup {Capture(s \o t) : s \in HtmlShapes("a", "b"), t \in HtmlFollowing("c", "d")}
    \cup {[Capture(<<H!Node("p", <<"a">>, <<>>, <<>>)>>) EXCEPT
             !.bom = b, !.utf8 = u, !.declared = c, !.decodable = d]
          : b \in {"", "utf8", "utf16"}, u \in BOOLEAN, c \in {"", "utf8", "unknown", "latin1"},
            d \in BOOLEAN}

-----------------------------------------------------------------------------
Page(text, seen, action) == [text |-> text, seen |-> seen, action |-> action]
PageShapes(x, y) ==
  {Page(<<x, "nl", "nl", "nl", y>>, <<>>, "accept"), Page(<<" ">>, <<x>>, "warn"),
   Page(<<>>, <<x, "nl", y>>, "refuse"), Page(<<>>, <<>>, "refuse"), Page(<<>>, <<y>>, "review")}
PdfSources ==
  {[readable |-> r, provider |-> v, pages |-> <<p, q>>]
     : r \in BOOLEAN, v \in BOOLEAN, p \in PageShapes("a", "b"), q \in PageShapes("c", "d")}

CsvRows == {<<<<"a">>, <<" ", "b">>>>, <<<<"9">>>>, <<<<>>, <<>>>>, <<<<"c">>, <<"9">>>>}
CsvSources ==
  {[utf8 |-> u, wellFormed |-> w, bom |-> b, rows |-> <<r, s>>]
     : u \in BOOLEAN, w \in BOOLEAN, b \in BOOLEAN, r \in CsvRows, s \in CsvRows}

JLeaf(text) == [kind |-> "leaf", text |-> text, keys |-> <<>>, items |-> <<>>]
JNode(kind, keys, items) == [kind |-> kind, text |-> <<>>, keys |-> keys, items |-> items]
JsonValues ==
  LET leaves == {JLeaf(<<"a">>), JLeaf(<<"NaN">>)}
      nodes == {JNode("list", <<>>, <<l, JLeaf(<<"b">>)>>) : l \in leaves}
                 \cup {JNode("object", <<<<"k">>, k>>, <<l, JLeaf(<<"b">>)>>)
                       : l \in leaves, k \in {<<"k">>, <<"j">>}}
                 \cup {JNode("list", <<>>, <<>>)}
  IN  leaves \cup nodes \cup {JNode("object", <<<<"k">>>>, <<n>>) : n \in nodes}
JsonSources ==
  {[utf8 |-> u, wellFormed |-> w, value |-> v] : u \in BOOLEAN, w \in BOOLEAN, v \in JsonValues}

-----------------------------------------------------------------------------
(* Texts for the rules and the strategies *)

Pars == {<<"a">>, <<"a", " ", " ", "u">>, <<"A", ".", " ", "B">>, <<"9">>, <<"u">>}
Break2 == <<"nl", "nl">>
TextBodies ==
  Pars \cup {p \o Break2 \o q : p \in Pars, q \in Pars}
    \cup {p \o Break2 \o q \o Break2 \o r : p \in Pars, q \in Pars, r \in {<<"9">>, <<"u">>}}
    \cup {<<"bom", "a">>, <<"bad">>, <<"nl", "nl", "a", "nl", " ", "nl", "b">>, <<>>}
Plain(text) == [text |-> text, language |-> ""]
TextSources == {Plain(t) : t \in TextBodies} \cup {[text |-> <<"a", "nl">>, language |-> "py"]}

Of(format, contents) == {<<[format |-> format, content |-> c]>> : c \in contents}
Two == {<<[format |-> "text", content |-> Plain(<<"a">>)],
          [format |-> f, content |-> c]>>
        : <<f, c>> \in {<<"text", Plain(<<"bad">>)>>, <<"text", Plain(<<"b", " ", "u">>)>>}}

MCCaptures ==
  Of("docx", DocxSources) \cup Of("markdown", MarkdownSources) \cup Of("html", HtmlSources)
    \cup Of("pdf", PdfSources) \cup Of("csv", CsvSources) \cup Of("json", JsonSources)
    \cup Of("text", TextSources) \cup Two

Rule(name, characters, by) ==
  [name |-> name, scope |-> "text", characters |-> characters, by |-> by]
Structural(name) ==
  [name |-> name, scope |-> "source-structure", characters |-> {}, by |-> <<>>]
Whitespace == Rule("whitespace", {" "}, Space)
Urls == Rule("urls", {"u"}, <<>>)
Custom == Rule("custom", {"a", "b"}, <<>>)
MCRuleLists ==
  {<<Structural("page-numbers"), Whitespace>>, <<Urls, Whitespace>>, <<Custom>>,
   <<Structural("headers-footers"), Urls>>}

MCSegmentations ==
  {Settings("paragraph", 4, 1), Settings("paragraph", 1, 0), Settings("sentence", 4, 1),
   Settings("structure", 4, 1), Settings("fixed", 3, 0), Settings("sliding", 3, 2)}

Recipe(objective, ratio, review) ==
  [objective |-> objective, selected |-> {}, ratio |-> ratio, review |-> review]
MCRecipes ==
  {Recipe("full_text", 0, FALSE), Recipe("full_text", 0, TRUE),
   Recipe("continuation", 100000, FALSE), Recipe("section_reconstruction", 0, FALSE),
   Recipe("before_after_transformation", 0, FALSE), Recipe("structured_field", 0, FALSE),
   [Recipe("continuation", 700000, FALSE) EXCEPT !.selected = {2}],
   Recipe("explicit_label", 0, FALSE)}

-----------------------------------------------------------------------------
(* Datasets of constructed records *)

Shape(from, context, target) ==
  [sources |-> from, context |-> context, target |-> target]

MCShapes ==
  {Shape({1}, <<"c">>, <<"t", "t">>), Shape({1}, <<"c">>, <<"t", "u">>),
   Shape({2}, <<"c">>, <<"t", "t">>), Shape({1, 3}, <<"c">>, <<"t", "t">>),
   Shape({3}, <<"d">>, <<"t">>), Shape({2}, <<"d">>, <<"t", "u">>)}

\* All sources differ; the last two are equal.
MCRawDigests == {<<1, 2, 3>>, <<2, 1, 1>>}

MCPolicies ==
  {[minimum |-> 2, cap |-> 1, ppm |-> 999999, required |-> FALSE],
   [minimum |-> 0, cap |-> 0, ppm |-> 200000, required |-> TRUE]}

\* Records of every source, and a duplicate of the first.
MCExamined ==
  {<<<<Shape({2}, <<"d">>, <<"t", "u">>), Shape({1}, <<"c">>, <<"t", "u">>),
       Shape({3}, <<"d">>, <<"t">>), Shape({2}, <<"d">>, <<"t", "u">>)>>, <<1, 2, 3>>, p>>
   : p \in {q \in MCPolicies : q.cap = 0}}

-----------------------------------------------------------------------------
(* Files of rows *)

Tx(text) == Value("text", text, <<>>, <<>>)
Ls(items) == Value("list", "", <<>>, items)
Ob(keys, items) == Value("object", "", keys, items)
Num == Value("other", "", <<>>, <<>>)
BlankLine == Value("blank", "", <<>>, <<>>)

Pair2(p, c) == Ob(<<"prompt", "completion">>, <<Tx(p), Tx(c)>>)
PairH(p, c, h) == Ob(<<"prompt", "completion", "partition">>, <<Tx(p), Tx(c), Tx(h)>>)
PairRow(p, c, r) == Ob(<<"prompt", "chosen", "rejected">>, <<Tx(p), Tx(c), Tx(r)>>)
PairRowH(p, c, r, h) == Ob(<<"prompt", "chosen", "rejected", "partition">>, <<Tx(p), Tx(c), Tx(r), Tx(h)>>)
Said(role, text) == Ob(<<"role", "content">>, <<Tx(role), Tx(text)>>)
ToolSaid(text) == Ob(<<"role", "content", "tool_call_id">>, <<Tx("tool"), Tx(text), Tx("c1")>>)
CallSaid(text) == Ob(<<"role", "content", "tool_calls">>, <<Tx("assistant"), Tx(text),
  Ls(<<Ob(<<"arguments", "id", "name">>, <<Tx("a"), Tx("c1"), Tx("f")>>)>>)>>)
Trace(id, turns) == Ob(<<"conversation_id", "turns">>, <<Tx(id), Ls(turns)>>)
LabelRow(c, l, a) == Ob(<<"context", "label", "annotator">>, <<Tx(c), Tx(l), Tx(a)>>)
StepRow(p, steps) == Ob(<<"prompt", "steps">>, <<Tx(p), Ls(steps)>>)
Messages(items) == Ob(<<"messages">>, <<Ls(items)>>)

RowFile(kind, body, digest) == [kind |-> kind, wellFormed |-> TRUE, bom |-> FALSE, body |-> body, digest |-> digest]
Jsonl(body) == RowFile("jsonl", body, 1)
Json(value) == RowFile("json", <<value>>, 1)
CsvRow(cells) == Ls([i \in DOMAIN cells |-> Tx(cells[i])])
Csv(rows) == RowFile("csv", [r \in DOMAIN rows |-> CsvRow(rows[r])], 1)
Columns(body) == RowFile("parquet", body, 1)
Table1 == <<Pair2("p", "cc"), Pair2("q", "d"), Pair2("p", "cc"), Pair2("r", "e")>>
MCRowFiles ==
  { <<Jsonl(Table1)>>, <<Jsonl(<<Pair2("p", "cc"), BlankLine, Pair2("p", "dd"), Pair2("q", "e")>>)>>,
    <<Jsonl(<<Pair2("p", ""), Ob(<<"prompt">>, <<Tx("p")>>), Pair2("q", "cc"), Ob(<<"prompt", "completion">>, <<Num, Tx("c")>>)>>)>>,
    <<Jsonl(<<Pair2("p", "cc"), PairH("q", "dd", "train")>>)>>, <<Jsonl(<<Pair2("p", "c"), Num>>)>>,
    <<Jsonl(<<Ob(<<"meta", "completion">>, <<Ob(<<"prompt", "x">>, <<Tx("p"), Tx("y")>>), Tx("cc")>>),
              Ob(<<"meta", "completion">>, <<Ls(<<Tx("p")>>), Tx("cc")>>)>>)>>,
    <<Jsonl(<<Ob(<<"prompt", "completion", "prompt">>, <<Tx("p"), Tx("c"), Tx("q")>>)>>)>>,
    <<Jsonl(<<PairH("p", "cc", "train"), PairH("q", "dd", "evaluation"), PairH("r", "ee", "test")>>)>>,
    <<Jsonl(<<PairH("p", "cc", "train"), PairH("q", "dd", "train")>>)>>,
    <<Jsonl(<<PairH("p", "cc", "train"), PairH("q", "dd", "train")>>),
      RowFile("jsonl", <<PairH("r", "ee", "evaluation"), PairH("p", "cc", "evaluation")>>, 2)>>,
    <<Jsonl(<<PairH("p", "cc", "train"), PairH("q", "dd", "evaluation")>>),
      Jsonl(<<PairH("p", "cc", "train"), PairH("q", "dd", "evaluation")>>)>>,
    <<Jsonl(<<Pair2("p", "cc")>>), Csv(<<<<"prompt", "completion">>, <<"q", "dd">>>>)>>,
    <<Json(Ls(Table1))>>, <<Json(Ob(<<"records", "x">>, <<Ls(<<Pair2("p", "cc"), Pair2("q", "dd")>>), Num>>))>>,
    <<Json(Ob(<<"records", "rows">>, <<Ls(Table1), Ls(Table1)>>))>>, <<Json(Num)>>, <<Json(Ls(<<Num>>))>>,
    <<[Json(Ls(Table1)) EXCEPT !.wellFormed = FALSE]>>,
    <<Csv(<<<<"prompt", "completion">>, <<"p", "cc">>, <<"q", "">>, <<"q", "dd">>>>)>>,
    <<Csv(<<<<"prompt", "completion">>, <<"p">>>>)>>, <<Csv(<<<<"prompt", "prompt">>, <<"p", "c">>>>)>>,
    <<Csv(<<<<"prompt", "messages">>, <<"p", "c">>>>)>>, <<Csv(<<<<"prompt", "completion">>, <<"p", " [c">>>>)>>,
    <<Csv(<<<<"prompt", "completion">>>>)>>, <<[Csv(<<<<"prompt", "completion">>, <<"p", "cc">>>>) EXCEPT !.bom = TRUE]>>,
    <<Columns(<<Pair2("p", "cc"), Pair2("q", "dd")>>)>>, <<Columns(<<Ob(<<"prompt", "completion">>, <<Tx("p"), Num>>)>>)>>,
    <<Jsonl(<<PairRow("p", "cc", "n"), PairRow("p", "cc", "m"), PairRow("q", "dd", "n")>>),
      RowFile("jsonl", <<PairRow("p", "cc", "n"), PairRow("r", "ee", "n")>>, 2)>>,
    <<Jsonl(<<PairRow("p", "cc", "n")>>), RowFile("jsonl", <<PairRow("q", "dd", "n")>>, 2), RowFile("jsonl", <<PairRow("p", "cc", "o")>>, 3)>>,
    <<Jsonl(<<PairRowH("p", "cc", "n", "train")>>), RowFile("jsonl", <<PairRowH("p", "cc", "m", "evaluation")>>, 2)>>,
    <<Jsonl(<<LabelRow("x", "l1", "a"), LabelRow("y", "l2", "b")>>), RowFile("jsonl", <<LabelRow("z", "l1", "a")>>, 2),
      RowFile("jsonl", <<LabelRow("w", "l1", "c")>>, 3)>>,
    <<Jsonl(<<Trace("t1", <<Said("user", "u"), CallSaid("c"), ToolSaid("r"), Said("assistant", "ok")>>),
              Trace("t1", <<Said("user", "u"), ToolSaid("r"), Said("assistant", "ok")>>),
              Trace("t2", <<Said("user", "u"), Said("user", "v"), Said("assistant", "ok")>>)>>),
      RowFile("jsonl", <<Trace("t2", <<Said("user", "u"), ToolSaid("r"), Said("assistant", "ok")>>)>>, 2)>>,
    <<Jsonl(<<StepRow("p", <<Tx("a"), Tx("bb")>>), StepRow("q", <<Tx("a")>>), StepRow("q", <<Tx("a"), Tx("cc")>>)>>),
      RowFile("jsonl", <<StepRow("p", <<Tx("z"), Tx("bb")>>), StepRow("r", <<Tx("z"), Num>>)>>, 2),
      RowFile("jsonl", <<StepRow("r", <<Tx("z"), Tx("y")>>)>>, 3)>>,
    <<Jsonl(<<Messages(<<Said("user", "u"), Said("assistant", "aa")>>), Messages(<<Said("user", "v"), Said("assistant", "bb")>>),
              Messages(<<Said("assistant", "u"), Said("user", "aa")>>)>>)>>,
    <<Jsonl(<<Ob(<<"instruction", "input", "output">>, <<Tx("i"), Tx("a"), Tx("oo")>>),
              Ob(<<"instruction", "input", "output">>, <<Tx("i"), Tx("b"), Tx("pp")>>)>>)>>,
    <<Jsonl(<<Ob(<<"text">>, <<Tx("aa")>>), Ob(<<"text">>, <<Tx("b")>>), Ob(<<"text", "id">>, <<Tx("cc"), Tx("1")>>)>>)>> }

Paths(schema) == [i \in DOMAIN PayloadKeys(schema) |-> <<PayloadKeys(schema)[i]>>]
Plan(schema, container, membership) ==
  [schema |-> schema, container |-> container, membership |-> membership, review |-> "none",
   paths |-> Paths(schema), confirmed |-> TRUE]
MCRowPlans ==
  {Plan(s, "jsonl", m) : s \in {"text", "prompt_completion", "instruction_output", "messages", "label-classification",
     "preference-pair", "tool-call-conversation", "stepwise-trace"}, m \in {"replaced", "authoritative"}}
    \cup {Plan("prompt_completion", "jsonl", "advisory"), Plan("prompt_completion", "csv", "replaced"),
          Plan("messages", "csv", "replaced"),
          Plan("prompt_completion", "json", "replaced"), Plan("prompt_completion", "parquet", "replaced"),
          [Plan("prompt_completion", "jsonl", "replaced") EXCEPT !.paths = <<<<"meta", "prompt">>, <<"completion">>>>],
          [Plan("prompt_completion", "jsonl", "replaced") EXCEPT !.paths = <<<<"meta", "0">>, <<"completion">>>>],
          [Plan("prompt_completion", "jsonl", "replaced") EXCEPT !.review = "required"],
          [Plan("prompt_completion", "jsonl", "replaced") EXCEPT !.confirmed = FALSE]}

-----------------------------------------------------------------------------
(* Commits of a workspace *)

MCSelections == {{1, 2}, {1}}
=============================================================================
