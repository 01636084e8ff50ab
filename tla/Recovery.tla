------------------------------- MODULE Recovery -------------------------------
(***************************************************************************)
(* The parsers of PDF (parsers/pdf.py, ocr/recovery.py, ocr/thresholds.py) *)
(* and of CSV, JSON and JSON lines (parsers/structured.py).                *)
(*                                                                         *)
(* pdfium, csv and json are outside the program: a PDF is given as the     *)
(* texts of its pages, a CSV as its cells, a JSON text as its value.       *)
(***************************************************************************)
EXTENDS Parsing

Inked(text) == \E c \in ToSet(text) : c \notin {" ", "nl"}
Stripped(text) ==
  LET ink == {i \in DOMAIN text : text[i] \notin {" ", "nl"}}
  IN  IF ink = {} THEN <<>> ELSE SubSeq(text, Min(ink), Max(ink))

\* One diagnostic for a whole file, if there is reason for it.
Whole(present, severity, disposition, code, loss, texts) ==
  IF present THEN <<Diagnostic(code, severity, disposition, loss, <<code>>, texts)>> ELSE <<>>

-----------------------------------------------------------------------------
(* PDF *)

\* decide_confidence is external to a page: accept, warn, review or refuse.
\* recover_pages: a page with text is never given to the provider, and text
\* below the threshold is held back.  Without a provider a page stays empty.
Recover(page, provider) ==
  LET ocr == ~Inked(page.text)
  IN  [ocr |-> ocr, action |-> IF ocr /\ provider THEN page.action ELSE "none",
       text |-> IF ~ocr THEN page.text
                ELSE IF provider /\ page.action # "refuse" THEN page.seen ELSE <<>>,
       held |-> IF ocr /\ provider THEN page.seen ELSE <<>>]

\* PdfPageRecovery: what is refused has to be held.
PageHolds(r) == r.action = "refuse" => Inked(r.held)

RECURSIVE CutAt(_, _)
CutAt(text, from) ==
  LET cuts == {i \in (from + 1)..(Len(text) - 1) : text[i] = "nl" /\ text[i + 1] = "nl"}
  IN  IF cuts = {} THEN <<SubSeq(text, from + 1, Len(text))>>
      ELSE <<SubSeq(text, from + 1, Min(cuts) - 1)>> \o CutAt(text, Min(cuts) + 1)

\* _split_paragraphs
SplitParagraphs(text) ==
  LET chunks == CutAt(text, 0)
  IN  SelectSeq([n \in DOMAIN chunks |-> Stripped(chunks[n])], LAMBDA c : c # <<>>)

\* parse_pdf_file, _pdf_page_texts, _refused_pdf.
ParsePdf(file) ==
  LET pages == [n \in DOMAIN file.pages |->
                  Recover([file.pages[n] EXCEPT !.text = Stripped(@)], file.provider)]
      inked == SelectSeq(pages, LAMBDA p : Inked(p.text))
      paragraphs == Concat([n \in DOMAIN inked |-> SplitParagraphs(inked[n].text)])
      acted(action) == \E p \in ToSet(pages) : p.action = action
      normalized == \E p \in ToSet(inked) : Joined(SplitParagraphs(p.text), BlockBreak) # p.text
      held == UNION {ToSet(p.held) : p \in {q \in ToSet(pages) : q.action = "refuse"}}
      specs ==
        Whole(normalized, "info", "normalized", "pdf.text-layer-normalized", "presentation", {})
        \o Whole(acted("warn"), "warning", "preserved", "pdf.ocr-confidence-warn", "none", {})
        \o Whole(acted("review"), "warning", "preserved", "pdf.ocr-confidence-review", "none", {})
        \o Whole(acted("refuse"), "warning", "omitted", "pdf.ocr-confidence-refuse", "text", held)
        \o Whole(\E p \in ToSet(pages) : p.ocr /\ ~Inked(p.text), "warning", "omitted",
                 "pdf.empty-text-pages", "text", {})
        \o Whole(paragraphs = <<>>, "error", "refused", "pdf.ocr-required", "text", {})
  IN  IF ~file.readable THEN RefusedParse("pdf", "pdf.unreadable")
      ELSE IF \E p \in ToSet(pages) : ~PageHolds(p) THEN ParseFailed("pdf")
      ELSE ParseResult("pdf",
             [n \in DOMAIN paragraphs |-> Block("paragraph", 0, "body", <<Piece("text", paragraphs[n])>>)],
             specs)

\* What the pages show, and what the provider sees on pages without text.
PdfCharacters(file) ==
  UNION {ToSet(p.text) \cup (IF file.provider /\ ~Inked(p.text) THEN ToSet(p.seen) ELSE {})
         : p \in ToSet(file.pages)}

-----------------------------------------------------------------------------
(* CSV *)

Numeric(cell) == Stripped(cell) # <<>> /\ ToSet(Stripped(cell)) = {"9"}

\* parse_csv_file: blank rows go, short ones are filled, cells are trimmed.
\* The first row is a header when it has no number and a later one does.
ParseCsv(file) ==
  LET filled == SelectSeq(file.rows, LAMBDA r : \E c \in ToSet(r) : Inked(c))
      width == Max({Len(r) : r \in ToSet(filled)})
      padded(r) == [k \in 1..width |-> IF k <= Len(r) THEN Stripped(r[k]) ELSE <<>>]
      row(r) == Concat([k \in 1..width |->
                  (IF k = 1 THEN <<>> ELSE <<Piece("separator", <<"tab">>)>>)
                    \o <<Piece("text", padded(r)[k])>>])
      pieces == Concat([n \in DOMAIN filled |->
                  (IF n = 1 THEN <<>> ELSE <<Piece("separator", <<"nl">>)>>) \o row(filled[n])])
      header == /\ \A c \in ToSet(file.rows[1]) : ~Numeric(c)
                /\ \E n \in 2..Len(file.rows) : n <= 6 /\ \E c \in ToSet(file.rows[n]) : Numeric(c)
      specs ==
        Whole(TRUE, "info", "normalized", "csv.dialect-detected", "presentation", {})
        \o Whole(file.bom, "info", "normalized", "csv.bom-removed", "metadata", {})
        \o Whole(\E r \in ToSet(filled) : \E c \in ToSet(r) : c # Stripped(c), "info", "normalized",
                 "csv.cells-trimmed", "presentation", {})
        \o Whole(filled # file.rows, "info", "omitted", "csv.blank-rows-omitted", "presentation", {})
        \o Whole(\E r \in ToSet(filled) : Len(r) # width, "warning", "normalized",
                 "csv.ragged-rows-padded", "structure", {})
  IN  CASE ~file.utf8 -> RefusedParse("csv", "csv.not-utf8")
        [] file.utf8 /\ (~file.wellFormed \/ filled = <<>>) -> RefusedParse("csv", "csv.invalid")
        [] OTHER -> ParseResult("csv",
             <<Block("table", IF header /\ Len(filled) > 1 THEN 1 ELSE 0, "body", pieces)>>, specs)

-----------------------------------------------------------------------------
(* JSON *)

\* A value: [kind "leaf", text] or [kind "list" or "object", keys, items].
\* _load_json_text: not finite numbers and keys used twice are refused.
RECURSIVE Admitted(_)
Admitted(v) ==
  /\ v.text # <<"NaN">>
  /\ v.kind = "object" => \A i, j \in DOMAIN v.keys : i # j => v.keys[i] # v.keys[j]
  /\ \A i \in DOMAIN v.items : Admitted(v.items[i])

\* _flatten_json: one line for every leaf, behind the path that leads to it.
RECURSIVE FlattenJson(_, _)
FlattenJson(v, path) ==
  IF v.kind = "leaf" THEN <<path \o <<":">> \o v.text>>
  ELSE IF v.items = <<>> THEN <<path \o <<":", v.kind>>>>
  ELSE Concat([i \in DOMAIN v.items |->
         FlattenJson(v.items[i], IF v.kind = "object" THEN path \o v.keys[i]
                                                      ELSE path \o <<"[", "9", "]">>)])

\* parse_json_file, parse_jsonl_file, _structured_value_result, _refuse.
ParseJson(file) ==
  LET lines == FlattenJson(file.value, <<>>)
  IN  IF ~file.utf8 \/ ~file.wellFormed \/ ~Admitted(file.value)
        THEN RefusedParse("json", "json.invalid")
        ELSE ParseResult("json",
               [n \in DOMAIN lines |-> Block("paragraph", 0, "body", <<Piece("text", lines[n])>>)],
               Whole(TRUE, "info", "normalized", "json.path-projection", "structure", {}))

RECURSIVE JsonCharacters(_)
JsonCharacters(v) == ToSet(v.text) \cup UNION {JsonCharacters(v.items[i]) : i \in DOMAIN v.items}
=============================================================================
