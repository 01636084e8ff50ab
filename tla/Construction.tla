----------------------------- MODULE Construction -----------------------------
(***************************************************************************)
(* Training records made of the chunks of cleaned sources (construction/,  *)
(* pipeline/service.py).  A recipe names an objective and the sources; its *)
(* constructor answers every chunk with a candidate or with a diagnostic,  *)
(* every field of a candidate carries the evidence that proves its value,  *)
(* and a review decides about candidates where the recipe asks for one.    *)
(*                                                                         *)
(* A chunk is named by its source and its place among the chunks of the    *)
(* source.  Identities are digests, so order by identity is order by name. *)
(***************************************************************************)
EXTENDS Documents

CONSTANT Recipes    \* [objective, selected, ratio, review]

VARIABLE built      \* the recipe, and what was constructed by it

constructionVars == <<documentVars, built>>

NotBuilt == [recipe |-> [objective |-> "none"], candidates |-> <<>>, diagnostics |-> {},
             records |-> {}]

\* eligible_input_families of the goal of an objective.
Eligible(objective) ==
  LET documents == {"markdown", "docx", "html"}
  IN  CASE objective \in {"full_text", "continuation"} ->
             documents \cup {"text", "code", "pdf", "csv", "json"}
        [] objective = "section_reconstruction" -> documents
        [] objective = "before_after_transformation" -> documents \cup {"text", "pdf", "csv", "json"}
        [] objective = "structured_field" -> documents \cup {"code"}
        [] objective = "explicit_label" -> {"csv", "json"}

Family(source) ==
  IF source.format = "text" /\ source.content.language # "" THEN "code" ELSE source.format

-----------------------------------------------------------------------------
(* Chunks and candidates *)

\* _select_construction_sources: all of them unless some are named.
Selected(recipe) == IF recipe.selected = {} THEN DOMAIN sources
                    ELSE recipe.selected \cap DOMAIN sources

ChunkAt(key) == chunked.built[key[1]].chunks[key[2]]

\* _ordered_chunks: the numbers of the chunks begin anew in every region.
KeysOf(i) ==
  SortSeq([n \in DOMAIN chunked.built[i].chunks |-> <<i, n>>],
          LAMBDA k, l : \/ ChunkAt(k).sequence < ChunkAt(l).sequence
                        \/ ChunkAt(k).sequence = ChunkAt(l).sequence /\ k[2] < l[2])
OrderedChunks(chosen) == Concat([i \in DOMAIN sources |-> IF i \in chosen THEN KeysOf(i) ELSE <<>>])

Applied(record) == record.ops # <<>> /\ ~record.warned

\* _relevant_transforms: the records of the blocks of the chunks.
RelevantTransforms(keys) ==
  UNION {{<<k[1], n>> : n \in {m \in DOMAIN plans[k[1]].records :
            LET record == plans[k[1]].records[m]
            IN  Applied(record) /\ (record.block = -1 \/ record.block \in ToSet(ChunkAt(k).blocks))}}
         : k \in ToSet(keys)}

NoEvidence == Evidence(<<>>, NoJoin, <<>>, <<>>)
NoLeaf == [block |-> -1, name |-> "", value |-> <<>>]

\* _source_field: a value that is text; make_ir_field_evidence: one that is a
\* scalar of the document.
TextField(name, source, evidence) ==
  [name |-> name, value |-> evidence.output, source |-> source, evidence |-> evidence,
   leaf |-> NoLeaf]
LeafField(name, source, leaf) ==
  [name |-> name, value |-> leaf.value, source |-> source, evidence |-> NoEvidence, leaf |-> leaf]

\* _draft
Draft(keys, fields) ==
  [sources |-> {k[1] : k \in ToSet(keys)}, chunks |-> ToSet(keys),
   transforms |-> RelevantTransforms(keys), fields |-> fields]

\* Mutant of SlicedEvidence: a slice that does not start the text starts late.
SlicedEvidenceLate(chunk, start, end) ==
  LET step == SliceStep(chunk.text, IF start = 0 THEN 0 ELSE Min({start + 1, end - 1}), end)
  IN  [chunk.evidence EXCEPT !.tail = Append(@, step), !.output = step.output]

\* _slice_evidence: one more step behind those of the chunk.
SlicedEvidence(chunk, start, end) ==
  LET step == SliceStep(chunk.text, start, end)
  IN  [chunk.evidence EXCEPT !.tail = Append(@, step), !.output = step.output]

Diagnosed(code, source, keys) == [code |-> code, source |-> source, chunks |-> ToSet(keys)]

\* What a constructor returns for one unit of its input.
Made(draft) == [drafts |-> <<draft>>, diagnostics |-> {}]
Unable(diagnostic) == [drafts |-> <<>>, diagnostics |-> {diagnostic}]
NoOutput == [drafts |-> <<>>, diagnostics |-> {}]

Together(outputs) ==
  [drafts |-> Concat([n \in DOMAIN outputs |-> outputs[n].drafts]),
   diagnostics |-> UNION {o.diagnostics : o \in ToSet(outputs)}]

-----------------------------------------------------------------------------
(* Constructors of one chunk *)

\* construct_full_text
FullText(key) == Made(Draft(<<key>>, <<TextField("text", key[1], ChunkAt(key).evidence)>>))

Boundary(length, ratio) == Max({1, Min({length - 1, (length * ratio) \div 1000000})})

\* Mutant of Continuation: a text too short to be cut is passed over.
ContinuationSilent(key, ratio) ==
  LET chunk == ChunkAt(key)
      boundary == Boundary(Len(chunk.text), ratio)
  IN  IF Len(chunk.text) < 2 THEN NoOutput
      ELSE Made(Draft(<<key>>,
             <<TextField("prompt", key[1], SlicedEvidence(chunk, 0, boundary)),
               TextField("completion", key[1], SlicedEvidence(chunk, boundary, Len(chunk.text)))>>))

\* construct_continuation
Continuation(key, ratio) ==
  LET chunk == ChunkAt(key)
      length == Len(chunk.text)
      boundary == Boundary(length, ratio)
  IN  IF length < 2
        THEN Unable(Diagnosed("continuation-boundary-unavailable", key[1], <<key>>))
        ELSE Made(Draft(<<key>>,
               <<TextField("prompt", key[1], SlicedEvidence(chunk, 0, boundary)),
                 TextField("completion", key[1], SlicedEvidence(chunk, boundary, length))>>))

\* _before_after_transform_ids: the records of the block lead from the text
\* before the one step of its evidence to the text after it.
TransformChain(key) ==
  LET chunk == ChunkAt(key)
      log == plans[key[1]].records
      steps == chunk.evidence.components[1].steps
      mine == SelectSeq([n \in DOMAIN log |-> n],
                LAMBDA n : Applied(log[n]) /\ log[n].block \in ToSet(chunk.blocks))
      proves == /\ Len(chunk.evidence.components) = 1 /\ chunk.evidence.tail = <<>>
                /\ Len(steps) = 1 /\ steps[1].kind = "edits" /\ mine # <<>>
                /\ log[mine[1]].before = steps[1].input
                /\ log[Last(mine)].after = steps[1].output
                /\ \A n \in 2..Len(mine) : log[mine[n - 1]].after = log[mine[n]].before
  IN  IF proves THEN {<<key[1], n>> : n \in ToSet(mine)} ELSE {}

\* construct_before_after_transformation
BeforeAfter(key) ==
  LET chunk == ChunkAt(key)
      range == chunk.evidence.components[1].range
      before == Evidence(<<[range |-> range, steps |-> <<>>]>>, NoJoin, <<>>, range.digest)
      transforms == TransformChain(key)
      draft == Draft(<<key>>, <<TextField("before", key[1], before),
                                TextField("after", key[1], chunk.evidence)>>)
      unchanged == range.digest = <<>> \/ range.digest = chunk.text
  IN  IF transforms = {}
        THEN Unable(Diagnosed("transformation-pair-unavailable", key[1], <<key>>))
      ELSE IF unchanged
        THEN Unable(Diagnosed("transformation-pair-empty-or-unchanged", key[1], <<key>>))
      ELSE Made([draft EXCEPT !.transforms = IF @ = transforms THEN @ ELSE {<<"inexact">>}])

-----------------------------------------------------------------------------
(* Sections *)

\* _document_section_units of a region: what stands before the first heading,
\* and the sections.
Units(blocks) ==
  LET parts == SelectSeq(Sections(blocks), LAMBDA s : s # <<>>)
      headed == SelectSeq(parts, LAMBDA s : s[1].kind = "heading")
  IN  [preambles |-> SelectSeq(parts, LAMBDA s : s[1].kind # "heading"), sections |-> headed]

\* _section_chunks
ChunksOver(i, blocks) ==
  SelectSeq(KeysOf(i), LAMBDA k :
    ToSet(ChunkAt(k).blocks) \cap {b.index : b \in ToSet(blocks)} # {})

\* _prove_section_components: the component of every block of the section, if
\* its chunks are whole blocks of it and hold each once; otherwise nothing.
SectionComponents(i, blocks, keys) ==
  LET expected == {b.index : b \in ToSet(blocks)}
      chunks == [n \in DOMAIN keys |-> ChunkAt(keys[n])]
      numbers == Concat([n \in DOMAIN chunks |-> chunks[n].blocks])
      components == Concat([n \in DOMAIN chunks |-> chunks[n].evidence.components])
      at(b) == CHOOSE n \in DOMAIN numbers : numbers[n] = b.index
      whole(b) == LET c == components[at(b)]
                  IN  /\ c.range.region = b.region
                      /\ <<c.range.start, c.range.end>> = <<b.start, b.end>>
                      /\ ComponentValue(parsed[i].stream, c) = BlockText(b)
      shape == /\ keys # <<>> /\ ToSet(numbers) = expected /\ IsInjective(numbers)
               /\ \A c \in ToSet(chunks) : /\ c.evidence.tail = <<>>
                                           /\ Len(c.blocks) = Len(c.evidence.components)
      joined(c) == Joined([n \in DOMAIN c.blocks |->
                     BlockText(CHOOSE b \in ToSet(blocks) : b.index = c.blocks[n])], BlockBreak)
      proves == /\ \A b \in ToSet(blocks) : whole(b)
                /\ \A c \in ToSet(chunks) : c.text = joined(c)
  IN  IF shape THEN IF proves THEN [n \in DOMAIN blocks |-> components[at(blocks[n])]] ELSE <<>>
      ELSE <<>>

\* _section_evidence
SectionEvidence(components, values) ==
  Evidence(components, IF Len(components) > 1 THEN JoinStep(values, BlockBreak) ELSE NoJoin, <<>>,
           Joined(values, BlockBreak))

SectionUnit(i, blocks) ==
  LET keys == ChunksOver(i, blocks)
      values == Texts(blocks)
      components == SectionComponents(i, blocks, keys)
  IN  IF values[1] = <<>> \/ Joined(Tail(values), BlockBreak) = <<>> \/ components = <<>>
        THEN Unable(Diagnosed("section-structure-unavailable", i, keys))
        ELSE Made(Draft(keys,
               <<TextField("heading", i, SectionEvidence(<<components[1]>>, <<values[1]>>)),
                 TextField("section", i, SectionEvidence(Tail(components), Tail(values)))>>))

\* construct_section_reconstruction, one source.
SectionReconstruction(i) ==
  LET doc == plans[i].doc
      names == RegionNames(doc)
      units == [n \in DOMAIN names |-> Units(Region(doc, names[n]))]
      preambles == Concat([n \in DOMAIN units |-> units[n].preambles])
      sections == Concat([n \in DOMAIN units |-> units[n].sections])
      stray == SelectSeq(KeysOf(i), LAMBDA k :
        \A u \in ToSet(preambles \o sections) : k \notin ToSet(ChunksOver(i, u)))
      unheaded(u) == IF ChunksOver(i, u) = <<>> THEN NoOutput
                     ELSE Unable(Diagnosed("section-structure-unavailable", i, ChunksOver(i, u)))
  IN  Together([n \in DOMAIN preambles |-> unheaded(preambles[n])]
               \o [n \in DOMAIN sections |-> SectionUnit(i, sections[n])]
               \o [n \in DOMAIN stray |->
                     Unable(Diagnosed("section-structure-unavailable", i, <<stray[n]>>))])

-----------------------------------------------------------------------------
(* Scalars of the document *)

\* _structured_leaves, for the scalars that belong to a whole block.
Leaves(i) ==
  LET leaf(b) == CASE b.kind = "heading" -> <<[block |-> b.index, name |-> "level",
                                               value |-> <<ToString(b.level)>>]>>
                   [] b.kind = "list" -> <<[block |-> b.index, name |-> "ordered",
                                            value |-> <<"false">>]>>
                   [] OTHER -> <<>>
  IN  Concat([n \in DOMAIN plans[i].doc |-> leaf(plans[i].doc[n])])

StructuredLeaf(i, leaf) ==
  LET covering == SelectSeq(KeysOf(i), LAMBDA k : leaf.block \in ToSet(ChunkAt(k).blocks))
  IN  IF covering = <<>>
        THEN Unable(Diagnosed("structured-field-chunk-unavailable", i, <<>>))
      ELSE IF ChunkAt(covering[1]).text = <<>> \/ leaf.value = <<>>
        THEN Unable(Diagnosed("structured-field-empty-value", i, <<covering[1]>>))
      ELSE Made(Draft(<<covering[1]>>,
             <<TextField("input", i, ChunkAt(covering[1]).evidence), LeafField("fields", i, leaf)>>))

\* construct_structured_field, one source.
StructuredField(i) ==
  LET leaves == Leaves(i)
  IN  IF leaves = <<>> THEN Unable(Diagnosed("structured-field-unavailable", i, <<>>))
      ELSE Together([n \in DOMAIN leaves |-> StructuredLeaf(i, leaves[n])])

-----------------------------------------------------------------------------
(* The construct stage *)

Explained(made, empty) ==
  [made EXCEPT !.diagnostics = @ \cup
     {Diagnosed("source-chunks-unavailable", i, <<>>) : i \in empty}]

\* get_constructor, and the diagnostics of sources without chunks.
Output(recipe) ==
  LET keys == OrderedChunks(Selected(recipe))
      each(one(_)) == Together([n \in DOMAIN keys |-> one(keys[n])])
      by(one(_)) == Together([i \in DOMAIN sources |->
                                IF i \in Selected(recipe) THEN one(i) ELSE NoOutput])
      made == CASE recipe.objective = "full_text" -> each(FullText)
                [] recipe.objective = "continuation" ->
                     each(LAMBDA k : Continuation(k, recipe.ratio))
                [] recipe.objective = "before_after_transformation" -> each(BeforeAfter)
                [] recipe.objective = "section_reconstruction" -> by(SectionReconstruction)
                [] recipe.objective = "structured_field" -> by(StructuredField)
  IN  Explained(made, {i \in Selected(recipe) : chunked.built[i].chunks = <<>>})

\* _validate_candidate, with the fields of the models.
ValidCandidate(c) ==
  /\ c.sources = {k[1] : k \in c.chunks} /\ c.chunks # {} /\ <<"inexact">> \notin c.transforms
  /\ \A f \in ToSet(c.fields) :
       /\ f.value # <<>> /\ f.source \in c.sources
       /\ IF f.leaf = NoLeaf THEN Resolve(f.evidence, parsed[f.source].stream) = f.value
                             ELSE f.leaf \in ToSet(Leaves(f.source)) /\ f.leaf.value = f.value

\* require_goal_input_family and the rules of DatasetRecipe.
Admitted(recipe) ==
  /\ \A i \in Selected(recipe) : Family(sources[i]) \in Eligible(recipe.objective)
  /\ recipe.objective = "section_reconstruction" => chunked.strategy = "structure"

\* The constructors of labels, preferences, tool calls and steps refuse.
Invented == {"explicit_label"}

Constructed(recipe, out) ==
  [recipe |-> recipe, candidates |-> out.drafts, diagnostics |-> out.diagnostics,
   records |-> IF recipe.review THEN {} ELSE DOMAIN out.drafts]
Sound(construction) ==
  /\ \A c \in ToSet(construction.candidates) : ValidCandidate(c)
  /\ construction.candidates # <<>> \/ construction.diagnostics # {}

\* PipelineService.construct, construct_dataset.
ConstructRecords(recipe) ==
  /\ stage = "chunked" /\ Selected(recipe) # {}
  /\ LET admitted == Admitted(recipe) /\ recipe.objective \notin Invented
         refusal == CASE ~admitted -> "recipe"
                      [] admitted /\ ~Sound(built') -> "construct"
                      [] OTHER -> ""
     IN  /\ built' = Constructed(recipe, IF admitted THEN Output(recipe) ELSE NoOutput)
         /\ reason' = refusal
         /\ stage' = CASE reason' # "" -> "refused"
                       [] reason' = "" /\ recipe.review /\ built'.candidates # <<>> -> "review"
                       [] OTHER -> "constructed"
  /\ UNCHANGED <<sources, parsed, plans, chunked>>

\* construct again with the evidence of a review: construction_review_evidence
\* wants a verdict for every candidate, and _decide promotes the accepted.
\* Bound: at most one candidate is rejected.
ReviewCandidates(rejected) ==
  /\ stage = "review" /\ stage' = "constructed"
  /\ built' = [built EXCEPT !.records = DOMAIN built.candidates \ rejected]
  /\ UNCHANGED <<sources, parsed, plans, chunked, reason>>

ConstructionInit == DocumentsInit /\ built = NotBuilt

ConstructionNext ==
  \/ DocumentsNext /\ UNCHANGED built
  \/ \E recipe \in Recipes : ConstructRecords(recipe)
  \/ \E rejected \in {{}} \cup {{n} : n \in DOMAIN built.candidates} : ReviewCandidates(rejected)

-----------------------------------------------------------------------------
(* Properties *)

Fields(c) == [n \in DOMAIN c.fields |-> c.fields[n].value]

\* Construction never fails on what chunking committed, and drops no text without
\* a word: every field of a candidate is proved by its evidence, and every chunk
\* of a selected source is in a candidate or named by a diagnostic, or no scalar
\* of the document is about it (constructors.py, construction/pipeline.py).
EveryChunkAnswered ==
  /\ reason # "construct"
  /\ stage \in {"review", "constructed"} =>
    \A k \in ToSet(OrderedChunks(Selected(built.recipe))) :
      \/ \E c \in ToSet(built.candidates) : k \in c.chunks
      \/ \E d \in built.diagnostics : k \in d.chunks
      \/ built.recipe.objective = "structured_field"

\* The fields of a record are the text of its unit and no more: a prompt goes
\* on with its completion, a heading with its section, and what is taught as a
\* change starts from what was captured and ends in what was cleaned.
FieldsAreTheUnit ==
  stage \in {"review", "constructed"} =>
    \A c \in ToSet(built.candidates) :
      LET f == Fields(c)
          i == Min(c.sources)
          blocks == SelectSeq(plans[i].doc, LAMBDA b :
            \E k \in c.chunks : b.index \in ToSet(ChunkAt(k).blocks))
          key == CHOOSE k \in c.chunks : TRUE
      IN  CASE built.recipe.objective = "continuation" -> f[1] \o f[2] = ChunkAt(key).text
            [] built.recipe.objective = "section_reconstruction" ->
                 f[1] \o BlockBreak \o f[2] = Flatten(blocks)
            [] built.recipe.objective = "before_after_transformation" ->
                 f[1] = BlockText(parsed[i].blocks[blocks[1].index + 1]) /\ f[2] = BlockText(blocks[1])
            [] OTHER -> f[1] = ChunkAt(key).text
=============================================================================
