# Veriformis in TLA+

A verification development kept beside Veriformis: TLA+ modules translated from
the Python sources, TLC runs on small instances, and theorems checked by TLAPS.
Paths below are relative to `src/veriformis/` unless they start with `docs/`.

## 1. The system

Veriformis compiles captured documents, or rows of a tabular source, into a
sealed and verified training-dataset bundle. A **workspace** directory holds an
immutable history of **revisions**; a stage command reads one revision, computes
deterministically, and commits a child revision under a lock. The last stage,
**seal**, publishes a bundle directory outside the workspace; **exports** and
**archives** are derived from a sealed bundle.

| Component | State it keeps | Operations | Interacts through | Status |
|---|---|---|---|---|
| Workspace store, `workspace.py` | `workspace.json`, `HEAD`, `LOCK`, `objects/`, `revisions/`, `.txn/` | create, open, begin, put_artifact, commit, abort, migrate | the file system; every other component commits through it | modelled |
| Stage graph and validators, `workspace.py`, `_workspace_validation.py` | the stage states, sources and artifact registry of a manifest | staleness, no-op rule, structural and replay validators, migrations | called by commit | partly: no replay of schemas 1 and 2 |
| Pipeline service, `pipeline/service.py` | none of its own | parse, clean, chunk, construct, map, curate, split, format, validate, seal | reads and commits revisions | partly: commands that write nothing are left out |
| Recipes and runner, `recipes/` | a recipe file | run a pipeline of stages | calls the service | partly: the recipe library is data |
| Automation, `automation/` | project spec and project lock | run, lock, resume | service, runner | partly: no inspection report |
| Review, `review/` | packets outside the workspace | write a packet, read decisions back | construct, validate, seal | partly: no queues, sampling, corrections |
| Operation-scoped reads, `_operation.py`, `sources.py` | a cache of one command | capture, read once, recheck | all commands | partly: no path containment |
| Parsers and OCR, `parsers/`, `ocr/` | none between calls | decode, build blocks, report losses | parse stage | partly: syntax is external |
| Cleaning rules, `rules/` | cleaning plan, audit log, derivations | plan, replay, project | clean stage | partly: patterns are data |
| Chunkers, `chunkers/` | chunks with evidence | five strategies | chunk stage | modelled |
| Construction, `construction/` | recipe, candidates, records | construct, review, select | construct stage | partly: JSON form left out |
| Datasets, `datasets/` | curation and split results, row set | curate, split, serialize, validate | the stages of the same names | partly: two of four row schemas for constructed records |
| Mapping, `mapping/`, and families, `families/` | mapping plan, row outcomes | capture, detect, map, finish | parse and map of a row workspace | partly: previews left out, admission levels are data |
| Finished bundle, `bundle/` | a bundle directory | stage, verify, publish, recover | seal; exports read it | partly: no bundle of schemas 1 and 2 |
| Exports, `exports/` | an export directory | plan, snapshot, render, stage, publish, clean up, verify, inspect | reads bundles | partly: renderers abstracted |
| Transport archives, `_archive_transport.py`, `bundle/transport.py`, `exports/archive.py` | an archive file | package | reads bundles and exports | modelled |
| Goals, quality, profiles, extensions, adapters, scale, macOS workbench | see section 9 | | | not modelled |

What is hard here is not one algorithm but order: several processes on one
directory, kills and I/O errors between any two effects, `fsync` that fails or is
skipped, computing from a revision that is no longer the current one, outputs of
stages from different generations, reviews that come back late, publications that
become visible before they are recorded, sources that move while they are read.
`PROJECT.json` lists every such hazard at its line with the properties that watch
it; a hazard no property covers says why.

What makes each component correct:

* store: HEAD names a complete revision at every moment; an acknowledged commit
  stays; a reported failure stays invisible; history is linear; the lock is given
  back and waiting ends.
* stages: what is active belongs to one generation; no legal sequence of commands
  is refused as corrupt; unchanged work is not invalidated; a workspace can always
  be finished; only what passed validation and review is sealed; no revision holds
  an output that its stage would not make again.
* projects: a finished project is what its lock names; a resume leaves alone what
  was pinned as complete.
* reads: what one operation used was together on the disk at one moment.
* documents: what a parser leaves out is reported; the text of a chunk is proved by
  ranges of what was captured, through every edit; every chunk is answered by a
  candidate or by a diagnostic; the fields of a candidate are the unit they claim.
* datasets: no contradiction and no lost content; no source reaches both parts;
  every imported row is a record or is rejected with a reason; what the gates pass
  can be sealed and verifies.
* publication: nothing is overwritten; reports are true; a half-finished seal can
  be finished; nothing is exported that was not a bundle.
* exports: what is published, verified or inspected was one tree at one moment; a
  failed export takes away only what it made.

## 2. Modules

Three groups of modules divide the system along its interfaces: what happens to a
workspace and to published names (control), what the stages compute (data), and
what ties the two together.

| Module | Models | Rests on |
|---|---|---|
| `WorkspaceHistory` | abstract specification: one linear history, optimistic commits | |
| `WorkspaceStore` | the directory protocol of a workspace | implements `WorkspaceHistory` |
| `WorkspaceStore_proofs`, `ProjectRun_proofs`, `Exports_proofs`, `FileReads_proofs`, `FinishedBundle_proofs`, `RowImport_proofs`, `StageReplay_proofs`, `Chunking_proofs` | the theorems of section 5 | the module of the name; `ProjectRun_proofs` is about `StageRevisions` too, `Exports_proofs` about `Publication` and `ExportTree`, `RowImport_proofs` uses the lemmas of `FinishedBundle_proofs` |
| `StageRevisions` | what revisions hold, stage commands, migrations | commits are atomic, which is what the refinement shows |
| `ProjectRun` | spec-run, spec-lock, spec-resume | extends `StageRevisions` |
| `Publication` | seal, export, package on shared destination names | a workspace is its head revision, its lock one sealer each |
| `ExportTree` | the files of one export and its readers, on a disk that others change | |
| `Exports` | the composition of `Publication` and `ExportTree` | both |
| `StageReplay` | what a commit checks of the content it is given | one client: commits are atomic |
| `FileReads` | capture of a batch, reads shared by one operation | |
| `SourceText` | blocks, the canonical stream, derivations, evidence | |
| `Parsing` | parse reports, their acceptance, plain text | `SourceText` |
| `Docx`, `Markdown`, `Html`, `Recovery` | the parsers (`Recovery`: PDF with OCR, CSV, JSON) | `Parsing` |
| `Cleaning` | rules, plan, replay, derivations | `SourceText` |
| `Chunking` | five strategies and their evidence | `Cleaning` |
| `Documents` | the stages parse, clean, chunk over a set of sources | `Chunking`, the parsers |
| `Construction` | recipes, candidates, fields, reviews, records | `Documents` |
| `FinishedDataset` | curation, leakage groups, split, gates | |
| `RowImport` | row capture, mapping, families, curation, membership, split | `FinishedDataset` |
| `FinishedBundle` | rows, validation report, bundle, verifier | `RowImport` |
| `Compile` | the composition of `FileReads`, `Construction`, `FinishedBundle`, `StageReplay` | |
| `MC...` | constants for TLC | |

An entry of the history of `WorkspaceStore` is a schema version, a set of objects and
a timestamp: the store knows nothing of stages. `StageRevisions` has one variable for
HEAD and atomic commits, because `StoreImplementsHistory` proves that the store gives
it exactly that; there an artifact *is* the set of things it was made from, as stages
are deterministic and outputs are addressed by content. That stages are deterministic
functions of what is committed, and that no other content gets in, is the subject of
`StageReplay`; what those functions compute is the subject of the data modules.

### WorkspaceStore

`dirs`, `meta`, `head`, `installed`, `objects` are the directory; `unsyncedRevs`,
`unsyncedObjs`, `unsyncedHeads` remember what no directory `fsync` has covered; `lock`
is `flock(LOCK)`; `pc`, `want`, `base`, `plan`, `cand`, `result` are the locals of a
running command. A revision identity is a digest over the manifest and its parent
identity, so a revision is the sequence of entries from the root; `<<>>` is a missing
HEAD. Each action is one effect of the code or one decision under the lock:
`CreateStarts` to `WriteHead` are `Workspace.create` (which takes no lock), `Begin` to
`Promote` a transaction, `MigrateBegin` to `MigrateDone` `migrate_to_current` with one
lock and one full commit per version. `Halt` and its variants are a kill or an
exception between two effects, those with `In` between a rename and its `fsync`;
`PowerLoss` takes away any unsynced entries. Abstractions: object bytes are their
digest; what a stage computes is any set of new and kept objects (`PutArtifacts`); the
temporary directories of a transaction are private, so their removal is not a step; and the
layout directories count as durable once they are made, although nothing syncs their parent
(`workspace.py:1731`).

### StageRevisions and ProjectRun

`head` is the manifest; `work[c]` is what a client computed from the revision it read
(`base`) and has not committed; `setting` is what the operator now asks of each stage
(for parse, the contents of the files); `packet` is the review packet outside the
workspace. `Requires`, `Descendants` and `Stages` are the tables of the four schemas,
`Reads` what each command really loads, which is more than it declares. `CommitNew`
builds the child as `_commit` does and admits it only when both structural validators
do. `Upgrade` is one step of the migration. `Abandon` is any failure before the commit.

In `ProjectRun`, `lock` is the project lock, `project` the run or resume under way, and
`version` the environment. `RunSpec` and `ResumeSpec` take the lock, `StartStages`
compares and pins, `ChooseStages` filters one group by completeness, `RunStage` is one
stage command, `AnswerProject` binds the answered lock to HEAD, `FailProject` is any
refusal, error or kill. Stage commands are one step each; a project is followed only
while the workspace is its own (`WorkByHand` ends it: from then on it is one more client
of `StageRevisions`); the filter of a group reads HEAD once; locking, reinstalling and
submitting reviews count as edits.

### Publication

`target` are the destination names, `staged` the staging entries, `shown` the history
of what was visible. A process is a sealer (one per workspace, as seal holds the
workspace lock), an exporter or a packager. `Visible` and `Publish` are the no-replace
rename or link. Removal of an artifact is its owner's (`Remove`), and `Rebuild` is
another stage committing a new dataset. A manifest comparison is a comparison of
artifacts. A staging entry outlives its operation in the model wherever it does in the code:
`Clean` is a step of its own after the operation failed, and may fail or be interrupted
(`CleanFails`), after which an export keeps the report it had, a seal too unless it was
interrupted, and an archive has that of the new error (`Outcome`); the call that makes the
entry may be interrupted behind it, before anything knows of it (`Broken`); an archive that is
visible keeps its staging link when the link cannot be removed, with a warning, and without
one when an interrupt comes first, since the `finally` looks at `published` only
(`InterruptedAfterLink`); a kill and a power loss leave everything. `hit` names the processes
a fault met at these calls. A staging entry has a random name nobody else uses: it ends in the
model when its process starts something new, under another name. Who else interferes with the
entries of a staging tree is the subject of `ExportTree`.

### ExportTree and Exports

The same export at the grain of system calls. `node` and `holds` are the disk: the version
of an identity stands for the times, the size and the link count of its entry facts, and
every write, rename, link or change of an entry raises it. `spot` is what the staging name
and the destination lead to. `at` is the next call of the operation, `noted` the facts of
the first walk, `read` the bytes that were read, `owned` the identities recorded as created,
and `moment` the disk when the latest walk began, at which only the properties look. Between
any two calls another process may write, link, add, remove, replace or restore a file, an
entry, a folder, the tree itself or its parent (`Intrude`). `verify` and `inspect` start from
any tree that was published or copied. Abstractions: the tree has one folder; a file holds
one of three words, or is a receipt that lists them; a change while a file is read leaves any
bytes, which the check behind the read refuses; a walk that meets an unplanned name fails at
once instead of at its end; another publisher takes the destination just before the rename,
since nobody looks between. A behaviour of `Exports` is one of either module.

### StageReplay

`committed` are the stages of one revision of schema 3 or 4 (`route`). The content of an
artifact is what made it: an output of a stage, for some sources, under one of two
choices of every setting it depends on. What no config decides is a setting too (`Besides`):
the decisions of a reviewer, and what a mapping recipe says besides its plan and its sources
(objective, rules, goal). The commit of a mapping compares the plan and the sources of the
recipe and maps again under whatever else it says (`MapReplays`); only the gates make the
recipe again from the plan (`MappingMatches`), and say that the dataset failed. A plan is
taken to be confirmed for the sources of its recipe: with one that is not, the gates raise
and there is no report. `CommitStage` tries what the stage would make
and a family of other candidates (`Forged`): one output, all but one or all of them made
under another setting; another source; another kind, producer, config or link; an output
missing or too many; a config with or without outputs that match it; another status.
`BindingsHold` and `Replays` are the validators in the order of the code.

### FileReads

`disk` leads names to files, `files` is what each file held, write after write. `reader`
is the one operation, `facts` what it observed first of every name, `bytes` what it
used. A file has two halves that are read separately, so a write may fall between
them; the length of a file's history stands for the facts that `stat` gives, since every
write changes one of them. Capture pins every name, reads it and pins it again; shared
reads keep the first bytes and recheck identities at their end.

### Parsing, Docx, Markdown, Html, Recovery

A source is the tree that the syntax layer gives (an OOXML element, a token of
markdown-it, a node of lxml, the pages of a PDF with their layer and what OCR saw, the
cells of a CSV, a JSON value). A block is a sequence of pieces that may or may not be
edited; a diagnostic is its code, its place and the characters that stand there.
`Visible`, `Written` and `Shown` are reference definitions of what a reader sees,
written without the parser; `NothingLostSilently` compares the two.

### Cleaning, Chunking, Documents, Construction

A rule rewrites runs of characters or removes paragraphs; `PlanCleaning` evaluates the
rules, projects their edits on text pieces (`Project...`, a search from a cursor, as in
`_project_block`), and `PlanReplays` is the replay at commit. `BuildChunks` makes the
chunks of every strategy with the spans they claim, and `Proved` re-derives the text of
each from the captured stream. `ParseSources`, `CleanSources`, `ChunkSources` and
`Construct` are one commit each, for all sources. Reviews (`Reviewed`) decide about
candidates, and records are what stays.

### FinishedDataset, RowImport, FinishedBundle

A record is a context, a target and its sources; `Curate` is `curate_dataset` in the
order of the code, `Group` one turn of the union-find, `Assign` the choice of the prefix
for every order that the seeded digests may give the groups. `Unsatisfied` are the gates,
written after `_independent_checks.py`, which shares no code with what it checks.
`RowImport` captures every container, proposes and takes a plan, maps rows to records or
rejections, and curates, splits and formats them in every order that identities may give.
`Format` lowers records to rows with provenance, `Validate` is the report, `Seal` the
bundle, and the verifier reads it in the steps of the code, the opening of the row files
among them, while `Disturb` damages, removes, links, adds or puts back files between any two
of them. A walk is one call after the other (`WalkOrder`): `ListFolder` is a listing, `StatEntry`
the `stat` of one entry that was listed. What they note of a file is its identity and facts
(`FactsOf`), never its bytes, and of a folder how often its entries came or went, which its
modification time shows; the root has no facts of its own. `extra` is a file more in the root,
`stray` one in a folder. Behind the second walk manifest and attestation are read once more
(`ReadManifestAgain`, `ReadAttestationAgain`). `then` is the tree when the latest walk began, at
which only the properties look. The report in a bundle is compared with the one the verifier
makes again (`ReportPasses`).

### Compile

`Compile` starts a behaviour at any of five beginnings with every input given for it, and
joins the parts where the program does: `CurateConstructed` takes the records of a
construction into curation, and both kinds of split dataset go on into a bundle.

## 3. Runs

| Run | Instance | Shows |
|---|---|---|
| `store_crash` | 2 clients, 2 objects, schema 1, history of 4, one fault: kill, I/O error or failed HEAD sync | HEAD stays complete, acknowledged commits stay, failures stay invisible, history append-only, `WorkspaceHistory` implemented |
| `store_faults` | the same with history of 3, two faults, power loss included | confirmed commits survive a power loss; damage is found before anything builds on it |
| `store_lock` | weak fairness of running processes, kill and I/O error | the lock is released; who waits is answered |
| `stages_race` | 2 clients, schema 3, a recipe with review, contents that fail validation, one change | one generation, no refusal as corrupt, nothing failing or unreviewed sealed, nothing stale without a reason |
| `stages_converge` | schemas 1, 2 and 4 with upgrades, a change of rules or files | the pipeline can always be brought up to date |
| `project` | a document and a row project, pinned goals, reviews, failing sources, two environments, two edits | reviews count only for the construction they were made for; an answered project is what its lock names; a resume keeps what was pinned |
| `publication` | a sealer, an exporter, a packager, two names, one fault, one change; an export of one nested file and its receipt, one spare identity, one intrusion | true reports, nothing left staged but by a kill or a fault at the very call, only bundles exported, nothing replaced; an export is taken as one tree, and cleanup takes only its own |
| `publication_seal` | two workspaces, one name, two datasets, one fault, two changes | receipts follow bundles, no late publication, a half-done seal is finished by running it again |
| `compile` | see below | the data properties and `RevisionReplays` |
| `store_durable`, `store_two_modes`, `stages_group2` | expected violations | see 6 |

`compile` has about 470 thousand states: two files with two halves under two writes and
three reads; 210 DOCX packages, 121 Markdown, 96 HTML, 100 PDF, 128 CSV, 64 JSON and
85 text sources, each under four rule lists, six segmentations and eight recipes; every
dataset of four records over six shapes, two patterns of equal bytes, two policies; 36
sets of row files under 25 plans; one dataset under every row schema, every differing
input of its validation and two changes of the files of its bundle (of manifest, training
rows, report, and what does not belong into root or `data`: the attestation is read like
the manifest, the other rows like these; `VerifiedAsOneTree` is proved for every set of
paths); every candidate of `StageReplay` for both routes and two sources. What its
properties say:

* `UsedTogether`: what an operation used was on the disk together.
* `NothingLostSilently`: what a reader sees of an accepted source is in the stream or
  named by a diagnostic, apart from `KnownGaps` (see 6).
* `RevisionReplays`: no revision holds what its stage would not make again, under what a
  mapping recipe says besides its plan, too; no import is sealed whose recipe is not the one
  of its plan; nor is an honest run refused.
* `ChunksProved`, `EveryChunkAnswered`, `FieldsAreTheUnit`: cleaning that is planned
  replays, and the text of every chunk is proved by the captured stream
  (`ChunksOfCleanedFollow` for all inputs); every chunk is
  a candidate, a diagnostic or a duplicate; the fields of a candidate are the unit they
  claim to be.
* `NoContradiction`, `ContentKept`, `LeakageFree`, `GatesPass`: curation and splitting
  against reference definitions (the groups are the connected components,
  `GroupsAreComponents`, and no source reaches both parts), and the independent gates
  accept what they let through.
* `ImportSound`: every row is a record or a rejection (`RowsAccounted`), and the records
  that are split are curated, grouped and placed as their plan says; the gates fail exactly
  for a file or a part that lacks rows.
* `SealedVerifies`, `VerifiedAsOneTree`: gates and verifier agree, and what is verified
  teaches every included record, or every kept row of an import, once; when the
  second walk of the verifier began, after everything was read, all of it was there
  undamaged and nothing else, though files change while it is read and while either walk
  looks at them. What changes behind that moment may go unnoticed, and nothing is claimed of it.

Why the bounds are enough. Two clients are every race of the lock, of creation and of a
stale base: the code compares only with HEAD, never with a set of others. A history of
four holds the root, a commit and both migration steps, or three commits that each reuse
what the one before left. Two objects let one be kept and one be new. One fault is every
crash point; the second one in `store_faults` is the power loss after a torn commit. In
the stages one change of a setting is what makes outputs of two generations possible, two
in `project` are a lock and a change under it, and the whole stage table is always there.
Two names let an export be its own source's neighbour and be replaced behind its back. Two
writes put one inside a read and one behind it. One intrusion falls between any two calls of
an export or of its readers, and that no number of them leads to a torn tree is a theorem; one
nested file is the least tree with a root, a folder, a file below it and the receipt. The sources hold every construct a parser
branches on, alone and followed by what it may merge with; they are small because each
parser decides by the construct, its neighbour and its container. The sizes of the chunk
settings cut inside and at the ends of blocks. Four records are the least for two groups
that a fourth record joins, for a group of three against one of one, and for a capped, a
duplicate, a conflicting and a kept record at once; three sources give a chain. Two
sources, two choices and two selections are the least for an output of another source,
setting or scope.

Further bounds in the modules: rows hold lists of objects of texts and nothing deeper, and
objects list their keys in one order; a pointer indexes lists by 0 to 2; the reason codes
of rejections are one; constructed records are formatted as `text` or `prompt_completion`
except in `Examined`; only bundles of `Examined` with one schema are disturbed, in the paths of `Disturbable`, and a
change never falls inside a single read of a bundle file; other candidates in `StageReplay`
are tried only for a stage that is not complete. Counters are bounded in the guards by
`MaxRevisions`, `MaxFaults`, `MaxEdits`, `MaxChanges`, `MaxReads` and `MaxDisturbed`.

Symmetry is used for clients, objects, names and versions where only safety is checked.
Deadlock is checked in every run but `compile`, whose behaviours end: a compiled dataset
is finished. The type invariants of `StageRevisions` and `Publication` hold too, but are
not part of a run: a wrong type there makes TLC stop anyway.

## 4. Fairness

* `WorkspaceStore!FairSpec`: weak fairness of `Work(c)`, the next step of an
  operation that has started. A running process keeps running; nothing in the
  code waits except for the lock, and for that at most `lock_timeout`. Starting an
  operation and suffering a fault are never fair.
* `StageRevisions!UpgradingSpec`: a computed result is committed, the operator keeps
  running the first stage that is not up to date, as `run_pipeline_spec` does, and goes on
  upgrading. The fairness is strong there because another client may close the window
  again and again; without it nobody promises that a retried command is ever the one that
  wins.
* `Publication!FairSpec`: a running seal goes on and a seal that did not finish is
  run again (`SealAgain`), which is what its error tells the operator to do.

`ProjectRun` and `Compile` promise no progress: a project may fail at any time and is
resumed by hand, and the data modules are sequential.

## 5. Theorems

TLAPS proves them for any value of the constants: any clients, workspaces, names, sources,
settings and payloads, and any bound on faults, changes and intrusions. Types come first in
every module (`TypeCorrect`, or as a part of the invariant named here).

The store (`WorkspaceStore_proofs`):

* `HeadStaysIntact`: `Spec => []HeadIntact`, assuming `NoTornPower`: power losses do not
  come together with kills or I/O errors. The invariant `FilesInv` adds what each client has
  made sure of before it moves HEAD (`Ready`): the candidate extends a complete revision,
  then its objects are there, then it is complete. Completeness of HEAD says nothing of the
  revision HEAD is about to name. The hypothesis cannot be dropped: `store_durable` is the
  counterexample that leads there.
* `FailuresStayInvisible`, with no hypothesis. `StampInv`: the stamp of a candidate, and of a
  commit that was reported as failed, is in no revision that HEAD names, that a power loss may
  bring back, or that any client has read, and no two of them share one. That HEAD does not
  hold the failed revision is not inductive: another client could be about to extend it.
* `HistoryOnlyGrows`, `StoreImplementsHistory`, `AcknowledgedStays`: HEAD only moves to a
  child of what it named, every step of the store is a step or a stutter of `WorkspaceHistory`
  (`head` as history, `base` as view), and what was acknowledged stays. They assume
  `NoPowerLoss` and `OneMode`; `store_two_modes` shows why `OneMode` is needed. `OrderInv` says
  what a client knows of HEAD at each point: under the lock the base *is* HEAD and the candidate
  its child, and only one creator can be about to write HEAD, which is the `mkdir` of the root
  revision rather than a lock.
* `ConfirmedStays`, `DamageIsNotExtended`, assuming `OneMode`, power losses included: `Lasting`
  says that a confirmed revision is part of HEAD and of every value a power loss may restore;
  `CheckedInv` and `Longest` that whoever is about to extend a history has checked it since the
  last loss, and that a loss never makes HEAD longer.

The stages (in `ProjectRun_proofs`), from one invariant `Inv`: a revision is shaped by its
schema, its active stages have complete dependencies, every artifact is made from exactly the
artifacts its command reads (`GoodRevision`), and the same holds of computed work and packets
until HEAD moves away from their base.

* `NoMixedGenerations`, `ReviewsStayWithTheirConstruction`, `NothingIsStaleForNothing`, with no
  hypothesis.
* `OnlyValidatedIsSealed`, `CommitsAreAccepted`, for every schema but the second, whose seal
  does not read the construction and whose construct and format the validator cannot reconcile
  (`stages_group2` is the counterexample).

Projects (the rest of `ProjectRun_proofs`): `AnswersAreAsLocked` and `ResumesContinue`, from `ProjectInv`,
which holds the invariant of the stages and says that a bound lock is about a revision HEAD was
and that what is done of a project is complete. For a run, what is done also comes before what
is not, so no stage it runs makes its own work stale. A resume may skip stages in between, but
it runs only what is incomplete, and nothing complete depends on that (`AncestorsComplete`), so
it makes nothing stale at all; what it did not run itself it found in the pinned revision.
`ProjectReviewsStay` carries `ReviewsStayWithTheirConstruction` over to projects. The assumption
on the constants, `ProjectAssumption`, is what `spec.py` and `pipeline_spec.py` admit.

Publication (in `Exports_proofs`): `ReportsAreTrue`, `NothingIsLeftStaged`,
`EverythingComesFromABundle`, `ReceiptsFollowBundles`, `NoArtifactIsReplaced`,
`LateSealsPublishNothing`. The invariant relates what is visible, the history of what was
visible, what each process made, and where it stands: `OnRecord`, `Current` (a seal under the
lock is of HEAD's dataset), `Derived` (what is staged was verified to come from a bundle),
`Owned` (who made something visible is past its publication, and only a fault makes it look
back), and for the staging entries `Accounted` (who has one is still at work on it, has been
killed or was hit) and `Orphaned` (what an operation may say that left one). `NothingIsLeftStaged`
is of every instance and any number of faults; `ReportsAreTrue` says of failures what holds after
at most one fault, and of the power what holds of exports and archives.

Reads (`FileReads_proofs`): `NothingTorn`. A file only grows, so the same file and length
observed twice mean that nothing was written between; the invariant says what a half-finished
read is worth as long as that stays so, for the batch (`BatchHolds`), for shared reads
(`OperationHolds`) and for their recheck (`CheckHolds`).

Exports (the rest of `Exports_proofs`): `ExportTakenAsOneTree`. Versions only rise, and an identity is
not given out twice. `TreeInv` bounds what was noted of every entry by the version it had at the
`moment` the latest walk began, and that by its version now (`FactsHold`, `MomentHolds`): a
second walk that meets the noted facts proves that the entry, and so every file that was read
between, was the same at that moment. The set of names of a folder is covered because an entry
that comes or goes raises the version of the folder. The invariant holds while the operation can
still succeed (`Live`); a failed or cleaned up export claims nothing. `CleanupTakesItsOwn` has
two invariants: `OwnInv`, that what cleanup is about to take is what it recorded unless somebody
interfered since it looked, and `TidyInv`, that until somebody interferes or a call raises every
entry of the tree is of the name it was made for, recorded, and still on the list of a cleanup
that has begun, so that the folders are empty when their turn comes.

Datasets and bundles (`FinishedBundle_proofs`). `NothingContradicts`, `ContentStays`,
`GroupsConnect` and `NothingLeaks` are about `DatasetSpec`, the dataset on its own from any
records its constants admit. `DatasetInv` says that curation decided by its rules, and of the
union-find (`Linked`) that the sets are joined exactly where records share a token: a token
belongs to the set of the record that showed it first, and a set of records that no shared token
leads out of holds the root of exactly the records in it. The two recursive definitions, the way up
to a root and the fold over the tokens of a record, are shown right by their least
counterexample: the library's facts that the numbers and the subsets of a finite set are well
founded say that a set of counterexamples would have a smallest one, from which a smaller one is
made. `BundlesVerifyAsOneTree` is about `BundleSpec`, in which the dataset may be anything. What
the verifier has read was sealed as the first walk noted it (`ReadAsCollected`). Facts only move
on, and the same facts twice are the same file (`Earlier`), so what the first walk noted of an entry
is not later than what it was when the second one began (`FirstWalkHolds`), and what the second one
notes is not earlier (`WalkHolds`): where both noted the same, the file was that at the moment
between. A file that should not be there is found by its name in the root, and in a folder
by the folder's facts (`Noted`), since it may come behind the listing.

`GatesAccept` and `SealedBundlesVerify` are about `ConstructedSpec`, a dataset and the bundle made
from it without the import of rows. To `DatasetInv` they add that the split closes (`SplitSound`:
the sizes of the prefixes of an order of groups grow by a group at a time from nothing to
everything, so the nearest proper one is less than a group off any target between), that the row
set is the one serialized from the dataset and a report fails exactly for what was handed over or
for a source nobody is taught from (`RowsOfDataset`), and that a bundle nobody changed is, to the
verifier too, as it was sealed (`SealedSoFar`), with what a walk has not yet come to still ahead
of it (`WalkSoFar`). What the verifier asks of rows then follows record
by record: every line stands for one included record (`LinesHold`, `EntriesHold`), two records
differ in content, agree where their context and sources do, and are in one group when they share
a source (`Compatible`). They use that a target has a character (`RecordField` refuses an empty
value) and that the share of evaluation is between 1 and 999999 millionths.

Imports of rows (`RowImport_proofs`, on the lemmas above): `EveryRowAnswered` and `ImportsHold`,
about `ImportSpec`, and `ImportedBundlesVerify`, about `ImportedSpec`, an import and the bundle made
of it, assuming of the constants that files, rows and paths are finite lists. The
invariant `ImportInv` says what each stage leaves behind: the records are one of each accepted row
in some order and the report is of the rest (`MappedSoFar`), every verdict is that of the rules
(`CuratedSoFar`), and the parts share out what is kept, each group whole, with nothing `Alike` on
both sides unless the parts were declared (`PartsSound`). Rejected rows are told apart by how many
come before each, so the report names all of them (`Ranked`); the fold over the tokens of a family
joins the records that share one (`KeyedLink`, by the same lemma about the fold as for datasets);
a row is an object in whatever container it came, so a path of one token finds its field
(`OneToken`). The gates then refuse exactly what `Lacking` names (`GatesAskForAll` is the other
direction). Two definitions were set right on the way: that a detected plan loses only rows with
other keys is said of the rows of the file it was detected from, and a file that is not well formed
is refused before its kind is looked at. For the bundles, `ImportedInv` says that what was handed
over is the serialization of an import that passed its gates, and stays so; every line of it is one
kept row and its provenance (`ImportedHold`, `ImportedLinesHold`), so the verifier's own rules hold
of it (`ImportedAccepts`). The steps of sealing and verifying are the lemmas about the bundles of
datasets (`SealedStep`), which do not ask where the rows came from.

Commits (`StageReplay_proofs`): `RevisionIsReplayed`, about `ReplaySpec`, for any sources, any
selections of them and both routes. It assumes that the sources are finite and that there is one,
since a project without a source parses nothing, and that a selection is of sources, none of them
the empty one. The invariant `ReplayInv` says of every committed stage that it is what the code
makes, under the settings its config names, from the stages before it (`MadeIn`), and of every
link that it leads to an output of the stage it names (`ReferencesIn`). The step is two theorems
about the validators themselves, for every stage and everything that may be asked of a commit
(`ShapedStage`: the candidates of `Forged` are among it, which is shown of each way of forging):
over stages that are as they should be, what passes `BindingsHold` and `Replays` is what the stage
makes (`ReplaySound`), and what the stage makes passes both (`ReplayComplete`). A mapping is what
its stage makes under whatever its recipe says besides the plan, which is read off the result
(`Setting`), as the decisions of a review are: no commit decides it. The gates do (`MatchesIs`:
they find the mapping of the plan exactly when the recipe says nothing else), so such a dataset
has a failed validation, and a seal, which is taken only after one that passed, is of the recipe
of the plan (`SealedAsPlanned`). A later commit
then has to leave the earlier stages alone: what a stage makes depends on the stages before it
only (`MadeFrame`).

Chunks (`Chunking_proofs`): `ChunksFollow`, about every strategy, size and overlap and all blocks that
a chunker can be handed (`Chunkable`: texts, ranges of the stream, numbers of their own), and
`ChunksOfCleanedFollow`, about whatever blocks a parser makes and whatever plan of cleaning replays
over them, of which `Chunkable` is a consequence (`ProvenancePlaces`, `ApplyKeeps`,
`DocumentChunkable`); TLC checks that every document of `Documents` meets its hypotheses (`AsCleaned`
in `ChunksProved`). Evidence of components that come from one region, have the values they claim and
are joined and cut as it says resolves to its text (`ResolvesTo`); a block has the value of its
component because the edit script of difflib, one edit between the longest common ends, leads from
its range of the stream to its text (`DiffLeads`, `BlockValue`); and the strategies are shown to make
nothing but groups of blocks of a region (`GroupsHold`), sentences that are ranges of a block
(`SentencesOf`, `SentencesProve`) and windows that lie in the run of blocks that is named for them
(`ProofStands`, `WindowsFit`). That last one is where positions are counted: the text before a block,
the block and what follows make the stream of the region (`StretchStands`, `StretchBegins`), so the
window is a slice of the run at its offset (`SliceWithin`). Folds and recursive functions are reached
by a least counterexample, as for datasets: functions that satisfy their equations exist and agree
(`StepsExist`, `FoldExists`, `TurnsUnique`).

What stays with TLC:

* liveness (`LockReleased`, `CommitAnswered`, `Converges`, `PartialSealFinishes`), which needs
  `ENABLED`;
* the properties of the parsers, the cleaning projection and the constructors for every input
  (`NothingLostSilently`, `EveryChunkAnswered`, `FieldsAreTheUnit`, and of `ChunksProved` that plans
  replay, that no character is lost and that chunking fails for one reason), which are in modules
  that reach recursive operators or need induction over what a plan does to a text.

## 6. Disagreements with the repository's own text, and what else was noticed

With a run:

* `store_durable`: `docs/architecture/data-flow.md:294` promises that objects are
  durable before HEAD is swapped. `_install_objects` reuses a file that is there
  without syncing its directory, so what a killed commit renamed is taken as
  durable.
* `store_two_modes`: `docs/architecture.md:155` promises a lock and an expected
  parent for every move of HEAD. `Workspace.create` writes HEAD without either; the
  name of the root revision keeps two creators of one mode apart, but not a
  document creator and a dataset-row creator.
* `stages_group2`: `docs/cli.md:128` says that a stage runs when its dependencies
  are complete. In schema 2 neither construct nor format depends on the other, so
  after a rerun of chunk the commit of either leaves the other with a lineage that
  the validator refuses; upgrading the workspace helps.

Inside the models, where a property names the exception or the model has it as a case:

* A page whose OCR is refused and that shows no text raises `OcrIdentityError` out of
  `parse_pdf_file` (`ocr/recovery.py:36`) instead of becoming a diagnostic.
* HTML in a declared charset other than UTF-8 or UTF-16 is accepted by the parser with a
  located diagnostic (`tests/parsers/test_html_charset.py:37` expects it), but the commit
  looks locations up in the bytes as UTF-8 (`diagnostics.py:160`), so the parse stage
  fails as corrupt (`Locatable`).
* DOCX drops without a diagnostic: what is not a run in an insertion, what is neither a
  paragraph nor a table in a cell, and the content of a bordered paragraph without text
  (`DocxGaps`). Markdown drops a note whose identity another note has or that is empty
  (`MarkdownGaps`). HTML drops the tail of a removed element (`HtmlGaps`).
* `_project_block` (`rules/cleaning.py:395`) finds a text piece by searching from the end
  of the one before it; a code or reference between them that holds the same characters
  is found instead, and the clean stage fails (`Shadowed`).
* The sentence strategy refuses a block of blanks, which a rule may leave, so the chunk
  stage fails for the whole workspace (`ChunksProved`, its last part).
* A source all of whose records duplicate those of another has no included record, so
  the coverage gate fails and the dataset cannot be sealed; the same happens to a file of
  rows whose rows all drop out (`GatesPass`, `ImportSound`).
* The snapshot of an imported validation is not replayed at commit
  (`workspace.py:2745`): one that differs is taken (`RevisionReplays`).
* Of a mapping recipe the commit compares only plan and sources (`workspace.py:2598`), and
  execution its row schema (`mapping/execute.py:93`): one that agrees with itself but has another
  objective, other rules or another goal than its plan makes is committed with its mapping, and
  the datasets made of it. The `mapping-replay` gate (`mapping/_validation_checks.py:18`) then
  fails, so none of them is sealed (`RevisionReplays`).
* Authoritative membership compares sources only (`mapping/finish.py:1181`): equal bytes
  under two names, families' grouping keys and dropped duplicates may stand on both sides,
  although `docs/mapping.md:98` says that leakage overlap fails closed. It also ignores
  `evaluation_required` at the split; a gate finds that later.
* A JSON row that repeats a key keeps the last value silently, although document JSON
  refuses duplicates (`docs/migration.md:59`); a plan with nested pointers drops the
  siblings of its heads silently; parse takes files of several containers that no plan can
  map; detection looks at one file, but its confirmation covers all; a tool turn whose
  role is a list raises `TypeError` out of `normalize_tool_turns`
  (`families/tool_call.py:83`).
* A resume compares HEAD once and holds no lock (`automation/execute.py:308`), although
  `docs/contracts/project-spec-v1.md:73` says that it continues only when the lock pins
  HEAD; `spec-lock --workspace` pins any workspace for any spec, so a resume skips complete
  stages whatever settings made them (`FinishedAsLocked` asks for `AsDocumented`);
  `bind_workspace_lock` binds HEAD as it is after the run, and `_sealed_bundle` reports any
  `out` path that exists.

Noted without a model: a retried seal that adopts its bundle neither syncs the
directory nor warns (`pipeline/service.py:622`); a `KeyboardInterrupt` after the
bundle is visible is reported without it (`pipeline/service.py:3711`); a twin quarantined in another scope does not pass its sources on to the leakage basis (`datasets/splitting.py:808`), which the contract leaves
open; the mapping report is written before HEAD moves (`pipeline/service.py:2640`), so it
may describe a mapping that was never committed; the verifier refuses records over 64 MiB
and metadata over 16 MiB (`bundle/verifier.py:41`), which no gate checks before.

## 7. Mutants

Every property of a passing run has a mutated definition beside the one it
mutates, marked `Mutant of` or `Mutant`: a dropped guard, an off-by-one, a missing
reset or a swapped order that the property must notice. They are alternatives
nobody uses in `Next`.

## 8. Plan

Done: the store with its proofs and refinement; stage revisions, projects, publication, reads
and the export tree with theirs; the compiler from bytes to a verified bundle for documents
and for rows, with the proofs of its datasets, bundles and imports; the replay of commits;
the evidence of chunks. Every safety property of a run is proved for all values of the constants
but the four that section 5 leaves with TLC, of one of which (`ChunksProved`) the part about evidence
is. What would come next:

1. The rest of `ChunksProved`: that a plan replays unless a block is `Shadowed`, and that every
   character of a cleaned region is in a chunk. `Cleaning` and `Chunking` have no recursive operator;
   the lemmas about folds in `Chunking_proofs` are what such a proof would start from.
2. A bundle adopted after a kill before its sync, and an interrupt after a bundle is visible, are
   hazards without a property (`Publication`): a model of the file system's cache for bundles, as
   `WorkspaceStore` has one for the store, would give them one.

## 9. Not modelled

* Goals and presets, quality, dataset profiles and handoff, admission levels of families:
  catalogues, advice and projections that change no state and gate no stage.
* Renderers of exports, adapters, JSON forms of models: conversions without control.
* Extensions: declarations and a registry of built-in implementations; no worker process
  exists that could be late or killed.
* Review queues, sampling, corrections and supersession: they work on packets outside the
  workspace, which no stage reads.
* Replays of the obsolete schemas 1 and 2, and the legacy bundle.
* Scale reports, release and support matrices, collection enumeration, legacy chunk rows.
* The macOS workbench: a Swift front end that starts the command line.
* Syntax of XML, HTML, Markdown, PDF and JSON, and the Tesseract process: libraries.
