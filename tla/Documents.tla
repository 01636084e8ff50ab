------------------------------- MODULE Documents -------------------------------
(***************************************************************************)
(* A set of captured sources on their way through parse, clean and chunk   *)
(* (pipeline/service.py, _workspace_validation.py).  Each stage is one     *)
(* commit for all sources, so what is wrong with one turns the others away *)
(* with it, and each stage checks what it is about to store against what   *)
(* it was made from.                                                       *)
(***************************************************************************)
EXTENDS Chunking

CONSTANTS
  Captures,       \* sequences of sources: [format, content]
  RuleLists,      \* sequences of cleaning rules: [name, scope, characters, by]
  Segmentations   \* settings of the chunker

VARIABLES
  sources,        \* what was captured
  stage,          \* the last stage that was committed, or "refused"
  reason,         \* why a stage was refused
  parsed, plans, chunked

documentVars == <<sources, stage, reason, parsed, plans, chunked>>

P == INSTANCE Parsing
D == INSTANCE Docx
M == INSTANCE Markdown
H == INSTANCE Html
R == INSTANCE Recovery

-----------------------------------------------------------------------------
(* Parse *)

\* parse_captured_source: the parser for the suffix of a source.
ParseOne(source) ==
  CASE source.format = "docx"     -> D!ParseDocx(source.content)
    [] source.format = "markdown" -> M!ParseMarkdown(source.content)
    [] source.format = "html"     -> H!ParseHtml(source.content)
    [] source.format = "pdf"      -> R!ParsePdf(source.content)
    [] source.format = "csv"      -> R!ParseCsv(source.content)
    [] source.format = "json"     -> R!ParseJson(source.content)
    [] source.format = "text"     -> P!ParseText(source.content.text, source.content.language)

\* validate_parse_report_locations: a place that is given in lines is looked up
\* in the bytes as UTF-8.  Only the HTML parser accepts other bytes.
Locatable(source, result) ==
  source.format = "html" /\ result.diagnostics # <<>> =>
    source.content.utf8 /\ source.content.bom # "utf16"

\* PipelineService.parse: _require_accepted_parse for every source, and the
\* validation of the candidate in the commit.
ParseSources ==
  /\ stage = "captured"
  /\ parsed' = [i \in DOMAIN sources |-> ParseOne(sources[i])]
  /\ reason' = CASE \E r \in ToSet(parsed') : ~P!Accepted(r) -> "parse"
                 [] OTHER -> IF \E i \in DOMAIN sources : ~Locatable(sources[i], parsed'[i])
                             THEN "locations" ELSE ""
  /\ stage' = IF reason' = "" THEN "parsed" ELSE "refused"
  /\ UNCHANGED <<sources, plans, chunked>>

-----------------------------------------------------------------------------
(* Clean *)

\* PipelineService.clean: plan, replay, derivations, and the audit log.
CleanSources(rules) ==
  /\ stage = "parsed"
  /\ plans' = [i \in DOMAIN sources |-> PlanCleaning(parsed[i].blocks, rules)]
  /\ reason' = IF \A i \in DOMAIN sources : PlanReplays(parsed[i].blocks, plans'[i])
               THEN "" ELSE "cleaning"
  /\ stage' = IF reason' = "" THEN "cleaned" ELSE "refused"
  /\ UNCHANGED <<sources, parsed, chunked>>

-----------------------------------------------------------------------------
(* Chunk *)

Derivations(i) == BlockDerivations(parsed[i].stream, plans[i].doc)

\* PipelineService.chunk, build_chunks.
ChunkSources(settings) ==
  /\ stage = "cleaned" /\ ValidSettings(settings)
  /\ chunked' = [strategy |-> settings.strategy, built |->
       [i \in DOMAIN sources |->
          BuildChunks(parsed[i].stream, Derivations(i), plans[i].doc, settings)]]
  /\ reason' = IF \E b \in ToSet(chunked'.built) : b.refused THEN "chunks" ELSE ""
  /\ stage' = IF reason' = "" THEN "chunked" ELSE "refused"
  /\ UNCHANGED <<sources, parsed, plans>>

NoChunks == [built |-> <<>>, strategy |-> ""]

DocumentsInit ==
  /\ sources \in Captures /\ stage = "captured" /\ reason = ""
  /\ parsed = <<>> /\ plans = <<>> /\ chunked = NoChunks

DocumentsNext ==
  \/ ParseSources
  \/ \E rules \in RuleLists : CleanSources(rules)
  \/ \E settings \in Segmentations : ChunkSources(settings)

-----------------------------------------------------------------------------
(* What may be lost *)

\* Characters that the parsers leave out without a word, by what holds them:
\* in a DOCX package, what is not a run in an insertion, what is neither a
\* paragraph nor a table in a cell, and what stands in a bordered paragraph
\* without text.
DocxGaps(tree) ==
  LET all == D!Below(tree, <<>>)
      under(f, tags) == \E g \in ToSet(all) : g.e.tag \in tags /\ g.at = Front(f.at)
      foreign(f, tags) == f.e.tag \notin tags
      gap(f) ==
        \/ /\ f.at # <<>> /\ under(f, {"ins", "moveTo"})
           /\ foreign(f, {"r", "hyperlink"} \cup D!InlineWrappers)
        \/ /\ f.at # <<>> /\ under(f, {"tbl", "tr", "tc"})
           /\ foreign(f, {"p", "tbl", "tr", "tc"} \cup D!Wrappers)
        \/ f.e.tag = "p" /\ D!IsRule(f.e)
  IN  UNION {D!Characters(f.e) : f \in {g \in ToSet(all) : gap(g)}}

\* In Markdown, a note whose identity another note has or that has none; in
\* HTML, what follows an element that is removed.
MarkdownGaps(notes) ==
  UNION {M!TokenCharacters(notes[n].kids) : n \in {m \in DOMAIN notes :
    \/ notes[m].id = ""
    \/ \E k \in (m + 1)..Len(notes) :
         notes[k].id = notes[m].id /\ notes[k].endnote = notes[m].endnote}}

HtmlGaps(body) ==
  UNION {ToSet(n.tail) : n \in {k \in ToSet(H!Nodes(body)) : k.tag \in H!StripTags}}

KnownGaps(source) ==
  CASE source.format = "docx" ->
         DocxGaps(source.content.body) \cup UNION {DocxGaps(n) : n \in ToSet(source.content.notes)}
    [] source.format = "markdown" -> MarkdownGaps(source.content.notes)
    [] source.format = "html" -> HtmlGaps(source.content.body)
    [] OTHER -> {}

\* The characters a reader of the source sees.
Characters(source) ==
  CASE source.format = "docx"     -> D!Visible(source.content)
    [] source.format = "markdown" -> M!Written(source.content)
    [] source.format = "html"     -> H!Shown(source.content.body)
    [] source.format = "pdf"      -> R!PdfCharacters(source.content)
    [] source.format = "csv"      -> UNION {ToSet(c) : c \in UNION {ToSet(r) : r \in ToSet(source.content.rows)}}
    [] source.format = "json"     -> R!JsonCharacters(source.content.value)
    [] source.format = "text"     -> ToSet(source.content.text) \ {"bom"}

\* No parser drops text silently: what a reader of an accepted source sees is
\* in the canonical stream or named by a diagnostic, apart from the gaps that
\* are listed above (parsers/*.py, diagnostics.py).
NothingLostSilently ==
  stage \in {"parsed", "refused"} /\ plans = <<>> =>
    \A i \in DOMAIN parsed : P!Accepted(parsed[i]) =>
      P!Unaccounted(Characters(sources[i]), parsed[i]) \subseteq KnownGaps(sources[i])

-----------------------------------------------------------------------------
(* Cleaning and chunking keep their evidence *)

\* The text of a piece also stands before the piece and behind the editable
\* piece before it, in code or in a reference.
ShadowedBlock(block) ==
  LET text == BlockText(block)
      starts(j) == Len(Concat([i \in 1..(j - 1) |-> block.pieces[i].value]))
      ends(j) == Max({0} \cup {starts(i) + Len(block.pieces[i].value) :
                    i \in {k \in 1..(j - 1) : block.pieces[k].kind = "text"}})
      value(j) == block.pieces[j].value
  IN  \E j \in DOMAIN block.pieces :
        /\ block.pieces[j].kind = "text" /\ value(j) # <<>>
        /\ \E p \in ends(j)..(starts(j) - 1) : Slice(text, p, p + Len(value(j))) = value(j)

\* Such a block in some state of the document between two rules.
Shadowed(document, plan) ==
  \E n \in DOMAIN plan.runs :
    LET ops == Concat([m \in 1..(n - 1) |-> plan.runs[m].ops])
    IN  \E b \in ToSet(FoldLeft(Apply, document, ops)) : ShadowedBlock(b)

\* What ChunksOfCleanedFollow assumes (Chunking_proofs): blocks of a parser with
\* their provenance, in characters that no refusal is told by, and operations
\* that write such characters and replay.
AsCleaned(result, plan) ==
  LET characters == {" ", "nl"} \cup ToSet(result.stream) \cup UNION {ToSet(op.by) : op \in ToSet(plan.ops)}
      regions == {b.region : b \in ToSet(result.blocks)}
  IN  /\ result.blocks \in Seq(ParsedBlocks(characters, regions))
      /\ result.blocks = WithProvenance(result.blocks) /\ result.stream = Flatten(result.blocks)
      /\ "EvidenceError" \notin characters /\ PlanReplays(result.blocks, plan)

\* A cleaning plan that is committed replays to the document and to the audit
\* log it was planned with, so a later stage never turns it away; only a text
\* that a literal before it repeats makes the commit fail (rules/cleaning.py).
\* What is stored is a document with its provenance and a plan that keeps it text.
\* The evidence of every chunk of what the plan made proves its text from the
\* stream that was captured, however the text was cleaned and cut; a span that
\* claims to be exact is where the text stands; every character but blanks of a
\* cleaned region is in a chunk; and chunking fails for one reason alone: the
\* sentence strategy refuses a block of blanks (chunkers/pipeline.py, evidence.py).
ChunksProved ==
  /\ stage \in {"cleaned", "chunked"} => \A i \in DOMAIN sources : AsCleaned(parsed[i], plans[i])
  /\ reason = "cleaning" => \E i \in DOMAIN plans : Shadowed(parsed[i].blocks, plans[i])
  /\ stage = "chunked" =>
       \A i \in DOMAIN sources :
         LET chunks == chunked.built[i].chunks
             within(b) == {c \in ToSet(chunks) : b.index \in ToSet(c.blocks)}
         IN  /\ Proved(parsed[i].stream, chunks) /\ SpansExact(parsed[i].stream, chunks)
             /\ \A b \in ToSet(plans[i].doc) :
                  ToSet(BlockText(b)) \ {" ", "nl"} \subseteq UNION {ToSet(c.text) : c \in within(b)}
  /\ reason = "chunks" =>
       /\ chunked.strategy = "sentence"
       /\ \E i \in DOMAIN plans : \E b \in ToSet(plans[i].doc) :
            BlockText(b) # <<>> /\ Trim(BlockText(b)) = <<>>
=============================================================================
