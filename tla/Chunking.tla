------------------------------- MODULE Chunking -------------------------------
(***************************************************************************)
(* Chunks of a cleaned document and the evidence each carries              *)
(* (chunkers/strategies.py, base.py, pipeline.py).  Every strategy works   *)
(* on one region at a time; a text it makes has to be reproduced from      *)
(* ranges of the stream that was captured, through the derivations of the  *)
(* blocks, or the chunker refuses.                                         *)
(***************************************************************************)
EXTENDS Cleaning

CONSTANTS
  Stops,          \* ".", "!" and "?"
  WideStops,      \* full stops that need no space behind them
  Closers,        \* quotes and brackets that may follow a stop
  Openers,        \* quotes and brackets that may open a sentence
  Letters,        \* letters, and those of them in lower case
  LowerCase,
  Abbreviations   \* texts after which a stop ends nothing

ASSUME ChunkAssumption == LowerCase \subseteq Letters

Settings(strategy, size, overlap) ==
  [strategy |-> strategy, size |-> size, overlap |-> overlap]

ValidSettings(s) == s.size >= 1 /\ 0 <= s.overlap /\ s.overlap < s.size

\* heading_paths: the titles of the enclosing headings.
HeadingPaths(blocks) ==
  LET enter(state, i) ==
        LET b == blocks[i]
            stack == IF b.kind = "heading"
                       THEN Append(SelectSeq(state.stack, LAMBDA h : h.level < b.level),
                                   [level |-> b.level, title |-> BlockText(b)])
                       ELSE state.stack
        IN  [stack |-> stack,
             paths |-> Append(state.paths, [n \in DOMAIN stack |-> stack[n].title])]
  IN  FoldLeftDomain(enter, [stack |-> <<>>, paths |-> <<>>], blocks).paths

PathOf(blocks, index) ==
  LET i == CHOOSE n \in DOMAIN blocks : blocks[n].index = index
  IN  HeadingPaths(blocks)[i]

-----------------------------------------------------------------------------
(* Evidence *)

\* evidence_component_for_block
Component(stream, derivations, block) ==
  [range |-> SourceRange(stream, block), steps |-> derivations[block.index]]

ComponentValue(stream, component) ==
  Replay(Slice(stream, component.range.start, component.range.end), component.steps)

Evidence(components, join, tail, output) ==
  [components |-> components, join |-> join, tail |-> tail, output |-> output]

\* evidence_for_blocks: whole blocks, or a window of them.
BlockEvidence(stream, derivations, blocks, window) ==
  LET components == [i \in DOMAIN blocks |-> Component(stream, derivations, blocks[i])]
      values == [i \in DOMAIN blocks |-> ComponentValue(stream, components[i])]
      joined == Joined(values, BlockBreak)
  IN  Evidence(components, IF Len(values) > 1 THEN JoinStep(values, BlockBreak) ELSE NoJoin,
               IF window = <<>> THEN <<>> ELSE <<SliceStep(joined, window[1], window[2])>>,
               IF window = <<>> THEN joined ELSE Slice(joined, window[1], window[2]))

\* make_chunk
Chunk(sequence, blocks, text, heading, evidence) ==
  [sequence |-> sequence, blocks |-> [i \in DOMAIN blocks |-> blocks[i].index],
   region |-> blocks[1].region, text |-> text, heading |-> heading,
   evidence |-> evidence, span |-> ExactSpan(evidence)]

-----------------------------------------------------------------------------
(* Whole blocks *)

\* The loop of chunk_paragraph: blocks gather until one would not fit.
Gathered(blocks, size) ==
  LET place(groups, i) ==
        LET b == blocks[i]
            open == Last(groups)
            full == /\ open # <<>> /\ BlockText(b) # <<>>
                    /\ Len(Flatten(Append(open, b))) > size
        IN  IF full THEN Append(groups, <<b>>) ELSE Append(Front(groups), Append(open, b))
  IN  FoldLeftDomain(place, <<<<>>>>, blocks)

\* A group without text makes no chunk.
Groups(blocks, size) ==
  LET gathered == Gathered(blocks, size)
  IN  Those(gathered, {n \in DOMAIN gathered : Flatten(gathered[n]) # <<>>})

\* A chunk for every group, numbered through, with the headings of all blocks.
GroupChunks(stream, derivations, blocks, groups) ==
  [n \in DOMAIN groups |->
     Chunk(n, groups[n], Flatten(groups[n]), PathOf(blocks, groups[n][1].index),
           BlockEvidence(stream, derivations, groups[n], <<>>))]

\* chunk_paragraph
ParagraphChunks(stream, derivations, blocks, settings) ==
  GroupChunks(stream, derivations, blocks, Groups(blocks, settings.size))

\* The sections of chunk_structure: a heading opens one.
Sections(blocks) ==
  LET place(sections, b) ==
        IF b.kind = "heading" /\ Last(sections) # <<>>
          THEN Append(sections, <<b>>)
          ELSE Append(Front(sections), Append(Last(sections), b))
  IN  FoldLeft(place, <<<<>>>>, blocks)

\* chunk_structure: numbered again, with the headings of the whole document.
StructureChunks(stream, derivations, blocks, settings) ==
  LET sections == Sections(blocks)
  IN  GroupChunks(stream, derivations, blocks,
        Concat([s \in DOMAIN sections |-> Groups(sections[s], settings.size)]))

-----------------------------------------------------------------------------
(* Windows of the stream *)

\* _block_ranges: a block and the separator behind it.
Ranges(blocks) ==
  [i \in DOMAIN blocks |->
     [start |-> Position(blocks, i),
      end |-> IF i = Len(blocks) THEN Len(Flatten(blocks)) ELSE Position(blocks, i + 1)]]

\* _blocks_intersecting
Intersecting(blocks, start, end) ==
  LET ranges == Ranges(blocks)
      hit == SelectSeq([i \in DOMAIN blocks |-> i],
                       LAMBDA i : start < ranges[i].end /\ end > ranges[i].start)
  IN  [n \in DOMAIN hit |-> blocks[hit[n]]]

\* _evidence_window: the shortest run of blocks whose stream holds the window.
Proof(blocks, start, end) ==
  LET ranges == Ranges(blocks)
      first == Min({i \in DOMAIN blocks : start < ranges[i].end /\ end > ranges[i].start})
      offset == ranges[first].start
      last == Min({i \in first..Len(blocks) :
                     offset + Len(Flatten(SubSeq(blocks, first, i))) >= end})
  IN  [blocks |-> SubSeq(blocks, first, last), window |-> <<start - offset, end - offset>>]

\* The loop of _stream_chunks: it stops at the window that reaches the end.
Windows(length, size, overlap) ==
  LET step == Max({1, size - overlap})
      count == 1 + (Max({0, length - size}) + step - 1) \div step
  IN  [n \in 1..count |-> [start |-> (n - 1) * step, end |-> Min({(n - 1) * step + size, length})]]

\* _stream_chunks: chunk_fixed and chunk_sliding.
WindowChunk(n, blocks, window, evidence) ==
  Chunk(n, Intersecting(blocks, window.start, window.end),
        Slice(Flatten(blocks), window.start, window.end), <<>>, evidence)

StreamChunks(stream, derivations, blocks, settings) ==
  LET text == Flatten(blocks)
      windows == Windows(Len(text), settings.size, settings.overlap)
      proved(proof) == BlockEvidence(stream, derivations, proof.blocks, proof.window)
      cut(w, n) == WindowChunk(n, blocks, w, proved(Proof(blocks, w.start, w.end)))
  IN  CASE text = <<>> -> <<>>
        [] text # <<>> /\ Len(text) <= settings.size ->
             <<Chunk(1, blocks, text, PathOf(blocks, blocks[1].index),
                     BlockEvidence(stream, derivations, blocks, <<>>))>>
        [] OTHER -> [n \in DOMAIN windows |-> cut(windows[n], n)]

-----------------------------------------------------------------------------
(* Sentences *)

\* _opens_sentence: a digit, an opener, or any letter but a small one.
Opens(c) == c = Digit \/ c \in Openers \/ c \in Letters \ LowerCase

FirstInk(text, i) ==
  LET ink == {j \in (i + 1)..Len(text) : ~Blank(text[j])}
  IN  IF ink = {} THEN Len(text) ELSE Min(ink) - 1

\* _SENT_SPLIT: blanks behind a stop, or behind a stop and a closer, before a
\* word; behind a wide stop also nothing at all.
Break(text, i) ==
  LET j == FirstInk(text, i)
      stopped == \/ text[i] \in Stops
                 \/ i > 1 /\ text[i] \in Closers /\ text[i - 1] \in Stops
  IN  /\ i \in 1..(Len(text) - 1) /\ j < Len(text)
      /\ \/ stopped /\ j > i /\ (text[j + 1] \in Letters \cup Openers \cup {Digit})
         \/ text[i] \in WideStops

TrimSpan(text, span) ==
  LET ink == {j \in (span.start + 1)..span.end : ~Blank(text[j])}
  IN  IF ink = {} THEN <<>> ELSE <<[start |-> Min(ink) - 1, end |-> Max(ink)]>>

\* _sentence_spans: where a sentence ends, and where the last one begins.
SentenceCuts(text) ==
  LET split(state, i) ==
        LET j == FirstInk(text, i)
            abbreviated == \E a \in Abbreviations : IsSuffix(a, Slice(text, state.start, i))
        IN  IF ~Break(text, i) \/ abbreviated \/ ~Opens(text[j + 1]) THEN state
            ELSE [start |-> j, spans |-> Append(state.spans, [start |-> state.start, end |-> i])]
  IN  FoldLeftDomain(split, [start |-> 0, spans |-> <<>>], text)

SentenceSpans(text) ==
  LET cut == SentenceCuts(text)
      spans == Append(cut.spans, [start |-> cut.start, end |-> Len(text)])
  IN  Concat([n \in DOMAIN spans |-> TrimSpan(text, spans[n])])

Sentences(blocks) ==
  Concat([i \in DOMAIN blocks |->
    LET spans == SentenceSpans(BlockText(blocks[i]))
    IN  [n \in DOMAIN spans |-> [block |-> blocks[i], span |-> spans[n],
           text |-> Slice(BlockText(blocks[i]), spans[n].start, spans[n].end)]]])

\* The buffer of chunk_sentence.
Buffered(sentences, size) ==
  LET text(buffer) == Joined([n \in DOMAIN buffer |-> buffer[n].text], Space)
      place(buffers, s) ==
        IF Last(buffers) # <<>> /\ Len(text(Append(Last(buffers), s))) > size
          THEN Append(buffers, <<s>>)
          ELSE Append(Front(buffers), Append(Last(buffers), s))
  IN  FoldLeft(place, <<<<>>>>, sentences)

Buffers(blocks, size) ==
  LET buffered == Buffered(Sentences(blocks), size)
  IN  Those(buffered, {n \in DOMAIN buffered : buffered[n] # <<>>})

\* _sentence_component, _sentence_evidence
SentenceEvidence(stream, derivations, buffer) ==
  LET component(s) ==
        LET whole == Component(stream, derivations, s.block)
        IN  [whole EXCEPT !.steps =
               Append(@, SliceStep(ComponentValue(stream, whole), s.span.start, s.span.end))]
      components == [n \in DOMAIN buffer |-> component(buffer[n])]
      values == [n \in DOMAIN buffer |-> ComponentValue(stream, components[n])]
  IN  Evidence(components, IF Len(values) > 1 THEN JoinStep(values, Space) ELSE NoJoin, <<>>,
               Joined(values, Space))

BlocksOf(buffer) ==
  LET new == SelectSeq([n \in DOMAIN buffer |-> n],
               LAMBDA n : \A k \in 1..(n - 1) : buffer[k].block # buffer[n].block)
  IN  [n \in DOMAIN new |-> buffer[new[n]].block]

\* chunk_sentence
SentenceChunk(n, stream, derivations, blocks, buffer) ==
  Chunk(n, BlocksOf(buffer), Joined([k \in DOMAIN buffer |-> buffer[k].text], Space),
        PathOf(blocks, buffer[1].block.index), SentenceEvidence(stream, derivations, buffer))

SentenceChunks(stream, derivations, blocks, settings) ==
  LET buffers == Buffers(blocks, settings.size)
  IN  [n \in DOMAIN buffers |-> SentenceChunk(n, stream, derivations, blocks, buffers[n])]

-----------------------------------------------------------------------------
(* The chunk stage *)

RegionChunks(stream, derivations, blocks, settings) ==
  CASE settings.strategy = "paragraph" -> ParagraphChunks(stream, derivations, blocks, settings)
    [] settings.strategy = "sentence"  -> SentenceChunks(stream, derivations, blocks, settings)
    [] settings.strategy = "structure" -> StructureChunks(stream, derivations, blocks, settings)
    [] settings.strategy \in {"fixed", "sliding"} ->
         StreamChunks(stream, derivations, blocks, settings)

\* _validate_chunk: evidence and text agree, and the blocks are in order.
ValidChunk(chunk) ==
  /\ chunk.text # <<>> /\ chunk.blocks # <<>>
  /\ \A i, j \in DOMAIN chunk.blocks : i < j => chunk.blocks[i] < chunk.blocks[j]
  /\ chunk.evidence.output = chunk.text
  /\ chunk.span = ExactSpan(chunk.evidence)
  /\ chunk.evidence.components[1].range.region = chunk.region

Orphans(blocks, chunks) ==
  {b.index : b \in {c \in ToSet(blocks) : BlockText(c) # <<>>}}
    \ UNION {ToSet(c.blocks) : c \in ToSet(chunks)}

\* iter_document_regions: the body, then every note on its own.
RegionNames(blocks) ==
  LET first == Those(blocks, {i \in DOMAIN blocks :
                 \A j \in 1..(i - 1) : blocks[j].region # blocks[i].region})
  IN  [n \in DOMAIN first |-> first[n].region]

\* build_chunks refuses when a block with text is in no chunk, or a chunk is not
\* what its evidence says.
Checked(blocks, chunks) ==
  [refused |-> Orphans(blocks, chunks) # {} \/ \E c \in ToSet(chunks) : ~ValidChunk(c),
   chunks |-> chunks]

\* build_chunks for one source.
BuildChunks(stream, derivations, blocks, settings) ==
  LET names == RegionNames(blocks)
  IN  Checked(blocks, Concat([n \in DOMAIN names |->
        RegionChunks(stream, derivations, Region(blocks, names[n]), settings)]))

-----------------------------------------------------------------------------
(* What the chunks promise *)

\* Every chunk's text follows from its evidence and the captured stream alone.
Proved(stream, chunks) ==
  \A c \in ToSet(chunks) : Resolve(c.evidence, stream) = c.text

\* A span, where a chunk has one, is where its text stands in the source.
SpansExact(stream, chunks) ==
  \A c \in ToSet(chunks) : c.span # <<>> => Slice(stream, c.span[1], c.span[2]) = c.text
=============================================================================
