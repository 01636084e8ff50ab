------------------------------- MODULE Parsing -------------------------------
(***************************************************************************)
(* What every parser returns, and when the program accepts it              *)
(* (diagnostics.py, sources.py, pipeline/service.py), with the parser of   *)
(* plain text (parsers/text.py).                                           *)
(*                                                                         *)
(* A diagnostic carries, besides its code, the place it names and the      *)
(* characters that stand there; messages and details are left out.         *)
(***************************************************************************)
EXTENDS SourceText

Diagnostic(code, severity, disposition, loss, at, texts) ==
  [code |-> code, severity |-> severity, disposition |-> disposition, loss |-> loss,
   at |-> at, texts |-> texts]

Note(code, loss, at)       == Diagnostic(code, "info", "omitted", loss, at, {})
Normalized(code, loss, at) == Diagnostic(code, "info", "normalized", loss, at, {})
Omitted(code, loss, at, texts) == Diagnostic(code, "warning", "omitted", loss, at, texts)
RefusedAs(code, loss, at, texts) == Diagnostic(code, "error", "refused", loss, at, texts)

Block(kind, level, region, pieces) ==
  [kind |-> kind, level |-> level, region |-> region, pieces |-> pieces,
   start |-> 0, end |-> 0, index |-> 0]
Piece(kind, value) == [kind |-> kind, value |-> value]

\* What stands for an image that is a block by itself: its alternative text,
\* which the cleaning rules edit as prose. In a line they leave it as it is.
ImagePieces(alt) == <<Piece(IF alt = <<>> THEN "literal" ELSE "text", alt)>>

\* make_parse_report: an identity twice is an error; here the identity of a
\* diagnostic is its code and its place.
Identified(diagnostics) ==
  \A i, j \in DOMAIN diagnostics :
    i # j => \/ diagnostics[i].code # diagnostics[j].code
             \/ diagnostics[i].at # diagnostics[j].at

Status(diagnostics) ==
  CASE \E d \in ToSet(diagnostics) : d.severity = "error" -> "refused"
    [] diagnostics = <<>>                                 -> "complete"
    [] OTHER                                              -> "degraded"

\* register_source, attach_canonical_provenance and the report of one parse.
\* An error keeps the document; _require_accepted_parse turns it away.
ParseResult(parser, blocks, diagnostics) ==
  LET placed == WithProvenance(blocks)
  IN  [parser |-> parser, blocks |-> placed, stream |-> Flatten(placed),
       status |-> IF Identified(diagnostics) THEN Status(diagnostics) ELSE "failed",
       diagnostics |-> diagnostics]

\* A parse that ends in an exception of the program.
ParseFailed(parser) ==
  [parser |-> parser, blocks |-> <<>>, stream |-> <<>>, status |-> "failed",
   diagnostics |-> <<>>]

RefusedParse(parser, code) ==
  ParseResult(parser, <<>>, <<RefusedAs(code, "text", <<"source">>, {})>>)

\* _require_accepted_parse
Accepted(result) == result.status \in {"complete", "degraded"}

-----------------------------------------------------------------------------
(* Plain text and code *)

\* Where a run of blank lines begins: two line feeds with blanks between them.
BlankRuns(text) ==
  LET ink(i) == text[i] \notin {"nl", " "}
      starts == {i \in DOMAIN text : /\ text[i] = "nl"
                   /\ \A j \in 1..(i - 1) : text[j] = "nl" => \E k \in j..i : ink(k)}
      last(i) == Max({j \in i..Len(text) : text[j] = "nl" /\ \A k \in i..j : ~ink(k)})
  IN  {<<i, last(i)>> : i \in {s \in starts : last(s) > s}}

\* parse_text.  A text is "bom" and then characters; bytes that are not UTF-8
\* are the character "bad".
ParseText(text, language) ==
  LET bom == text # <<>> /\ text[1] = "bom"
      body == IF bom THEN Tail(text) ELSE text
      marked == IF bom THEN <<Normalized("text.bom-removed", "metadata", <<1>>)>> ELSE <<>>
      runs == BlankRuns(body)
      cuts == SetToSortSeq(runs, LAMBDA p, q : p[1] < q[1])
      chunk(n) == SubSeq(body, IF n = 1 THEN 1 ELSE cuts[n - 1][2] + 1,
                         IF n > Len(cuts) THEN Len(body) ELSE cuts[n][1] - 1)
      strip(t) == LET ink == {i \in DOMAIN t : t[i] \notin {"nl", " "}}
                  IN  IF ink = {} THEN <<>> ELSE SubSeq(t, Min(ink), Max(ink))
      chunks == [n \in 1..(Len(cuts) + 1) |-> chunk(n)]
      kept == SelectSeq(chunks, LAMBDA t : strip(t) # <<>>)
      irregular == \E p \in runs : p[2] # p[1] + 1
      trimmed == \/ \E p \in runs : p[1] = 1 \/ p[2] = Len(body)
                 \/ \E t \in ToSet(chunks) : strip(t) # t
  IN  IF "bad" \in ToSet(text) THEN RefusedParse("text", "text.not-utf8")
      ELSE IF language # "" THEN
        ParseResult("text", <<Block("code", 0, "body", <<Piece("literal", body)>>)>>, marked)
      ELSE ParseResult("text",
        [n \in DOMAIN kept |-> Block("paragraph", 0, "body", <<Piece("text", strip(kept[n]))>>)],
        marked
          \o (IF irregular THEN <<Normalized("text.paragraph-separator-normalized",
                                             "presentation", <<1>>)>> ELSE <<>>)
          \o (IF trimmed THEN <<Normalized("text.paragraph-boundary-whitespace-trimmed",
                                           "presentation", <<1>>)>> ELSE <<>>))

-----------------------------------------------------------------------------
(* What a parse promises *)

Reported(result) ==
  UNION {d.texts : d \in {e \in ToSet(result.diagnostics) :
           e.disposition \in {"omitted", "refused"}
                        /\ e.loss \in {"text", "structure", "unknown"}}}

\* The characters of the input that are neither in the canonical stream nor
\* where a diagnostic says that something was left out.
Unaccounted(characters, result) ==
  (characters \ {" ", "nl", "tab"}) \ (ToSet(result.stream) \cup Reported(result))
=============================================================================
