--------------------------- MODULE StageRevisions ---------------------------
(***************************************************************************)
(* What the revisions of a workspace hold: the state of every pipeline     *)
(* stage, how a commit makes the stages behind it stale, the no-op rule,   *)
(* the validators that every manifest passes before it is installed, and   *)
(* the migrations between revision schemas (workspace.py), driven by the   *)
(* stage commands of pipeline/service.py.                                  *)
(*                                                                         *)
(* Commits are atomic here and HEAD is one variable: WorkspaceStore shows  *)
(* that the directory implements exactly that (WorkspaceHistory).  A stage *)
(* command still computes from the revision it read, possibly long before  *)
(* it commits.                                                             *)
(*                                                                         *)
(* Stages are deterministic, so an artifact is what it was made from: the  *)
(* set of <<stage, setting>> pairs of its producer and of everything that  *)
(* was read to produce it.  Two settings of one stage in one artifact are  *)
(* a mixture of generations.                                               *)
(***************************************************************************)
EXTENDS Naturals, FiniteSets

CONSTANTS
  Clients,          \* processes that run stage commands
  Contents,         \* contents the captured source files may have
  FailingContents,  \* those that a validation gate rejects
  Settings,         \* Settings[s]: the settings an operator may choose for s
  ReviewSettings,   \* construct settings that require review
  Schemas,          \* revision schemas a workspace starts with
  MaxEdits,         \* bound on changes of settings and sources, and on reviews
  None

SchemaVersions == 1..4
StageNames == {"parse", "clean", "chunk", "construct", "map",
               "curate", "split", "format", "validate", "seal"}
Finished == {"curate", "split", "format", "validate", "seal"}

ASSUME StagesAssumption ==
  /\ FailingContents \subseteq Contents
  /\ Settings \in [StageNames -> SUBSET STRING]
  /\ Settings["parse"] = Contents
  /\ \A s \in StageNames : Settings[s] # {}
  /\ ReviewSettings \subseteq Settings["construct"]
  /\ Schemas \subseteq SchemaVersions
  /\ MaxEdits \in Nat

-----------------------------------------------------------------------------
(* The stage tables of the four revision schemas                           *)

Core == {"parse", "clean", "chunk"}
Stages(v) == CASE v = 1 -> Core \cup {"format", "validate", "seal"}
               [] v = 2 -> Core \cup {"construct", "format", "validate", "seal"}
               [] v = 3 -> Core \cup {"construct"} \cup Finished
               [] v = 4 -> {"parse", "map"} \cup Finished

\* Mutant of CurateRequires: curate does not declare the records it curates.
CurateRequiresNoRecords(v) == {"parse"}

CurateRequires(v) == IF v = 3 THEN {"construct"} ELSE {"parse", "map"}
SplitRequires(v) == CurateRequires(v) \cup {"curate"}
FormatRequires(v) == IF v < 3 THEN {"chunk"} ELSE SplitRequires(v) \cup {"split"}

\* The dependencies a stage declares.  Schema 2 added construct beside the
\* legacy format: neither depends on the other.
Requires(v, s) ==
  CASE s = "parse"     -> {}
    [] s = "clean"     -> {"parse"}
    [] s = "chunk"     -> {"clean"}
    [] s = "construct" -> Core
    [] s = "map"       -> {"parse"}
    [] s = "curate"    -> CurateRequires(v)
    [] s = "split"     -> SplitRequires(v)
    [] s = "format"    -> FormatRequires(v)
    [] s = "validate"  -> Stages(v) \ (IF v = 2 THEN {"construct", "validate", "seal"}
                                               ELSE {"validate", "seal"})
    [] s = "seal"      -> Stages(v) \ (IF v = 2 THEN {"construct", "seal"} ELSE {"seal"})

\* What the command of a stage loads from the revision it runs on.  Curate and
\* later stages replay the construction, so they read its inputs again.
DocumentReads(s) ==
  IF s = "chunk" THEN {"parse", "clean"}
  ELSE IF s \in {"curate", "split", "format"} THEN Requires(3, s) \cup Core \cup {"construct"}
  ELSE Requires(3, s)
ImportReads(s) == IF s = "curate" THEN {"map"} ELSE Requires(4, s)
Reads(v, s) ==
  IF v = 3 THEN DocumentReads(s)
  ELSE IF v = 4 THEN ImportReads(s)
  ELSE IF s = "chunk" THEN {"parse", "clean"} ELSE Requires(v, s)

\* Mutant of Descendants: only the stages that name s itself.
DescendantsDirect ==
  [v \in SchemaVersions |-> [s \in Stages(v) |-> {t \in Stages(v) : s \in Requires(v, t)}]]

\* The stages that depend on s, through any number of others: the least set
\* that the worklist of _descendants reaches.
Descendants ==
  [v \in SchemaVersions |-> [s \in Stages(v) |->
    {t \in Stages(v) :
       \A closed \in SUBSET Stages(v) :
         (\A u \in Stages(v) : Requires(v, u) \cap ({s} \cup closed) # {} => u \in closed)
           => t \in closed}]]

-----------------------------------------------------------------------------
(* Revisions                                                               *)

Choices == StageNames \X UNION {Settings[s] : s \in StageNames}
Review(made) == <<"review", made>>      \* decisions about what made describes
Pairs == Choices \cup ({"review"} \X SUBSET Choices)
Artifact(s, made) == [stage |-> s, made |-> made]

Absent == [status |-> "absent", config |-> "", inputs |-> {}, outputs |-> {},
           by |-> "", prior |-> 0]
AsStale(state, s, prior) ==
  [status |-> "stale", config |-> state.config, inputs |-> {}, outputs |-> {},
   by |-> s, prior |-> prior]
Active(state) == state.status \in {"complete", "failed"}

Root(v) == [id |-> 0, schema |-> v, by |-> "init", sources |-> "",
            stages |-> [s \in Stages(v) |-> Absent], arts |-> {}]

\* Captured sources link to the artifacts of the parse that captured them.
SourceArtifacts(sources) ==
  IF sources = "" THEN {} ELSE {Artifact("parse", {<<"parse", sources>>})}
Referenced(sources, stages) ==
  SourceArtifacts(sources)
    \cup UNION {stages[s].inputs \cup stages[s].outputs : s \in DOMAIN stages}

OutputsOf(r, S) == UNION {r.stages[s].outputs : s \in S}
MadeOf(arts) == UNION {a.made : a \in arts}

\* WorkspaceRevision._consistent_revision: what any manifest must satisfy,
\* wherever it comes from.
StaleLineage(r) ==
  r.by \notin {"init", "migration"} =>
    \A s \in Stages(r.schema) : r.stages[s].status = "stale" =>
      /\ s \in Descendants[r.schema][r.by]
      /\ r.stages[s].by = r.by /\ r.stages[s].prior = r.id - 1
Consistent(r) ==
  /\ r.by = "init" => r = Root(r.schema)
  /\ r.by = "migration" =>
       \A s \in (IF r.schema = 2 THEN {"construct"} ELSE Finished) : r.stages[s] = Absent
  /\ r.by \in StageNames =>
       r.stages[r.by].status \in (IF r.by = "validate" THEN {"complete", "failed"} ELSE {"complete"})
  /\ StaleLineage(r)
  /\ \A s \in Stages(r.schema) : Active(r.stages[s]) =>
       /\ \A d \in Requires(r.schema, s) : r.stages[d].status = "complete"
       /\ r.stages[s].inputs = OutputsOf(r, Requires(r.schema, s))
  /\ \A s \in Stages(r.schema) : r.stages[s].status = "absent" =>
       \A t \in Descendants[r.schema][s] : r.stages[t].status = "absent"
  /\ r.arts = Referenced(r.sources, r.stages)

\* _validate_revision_transition: what a stage commit may change in its parent.
Transition(child, parent) ==
  /\ child.id = parent.id + 1 /\ child.schema = parent.schema
  /\ child.by # "parse" => child.sources = parent.sources
  /\ <<child.sources, child.arts, child.stages>> # <<parent.sources, parent.arts, parent.stages>>
  /\ \A s \in Stages(child.schema) \ {child.by} :
       child.stages[s] =
         IF s \in Descendants[child.schema][child.by] /\ parent.stages[s].status # "absent"
           THEN AsStale(parent.stages[s], child.by, parent.id)
           ELSE parent.stages[s]

-----------------------------------------------------------------------------
VARIABLES
  head,      \* the revision HEAD names
  work,      \* what each client has computed and not yet committed, or None
  setting,   \* what the operator wants of each stage; for parse, the files
  packet,    \* the review packet that reviewers filled in, or None
  edits      \* changes of settings and files, and reviews, so far

vars == <<head, work, setting, packet, edits>>

StageState ==
  [status : {"absent", "complete", "failed", "stale"},
   config : {""} \cup UNION {Settings[s] : s \in StageNames},
   inputs : SUBSET [stage : StageNames, made : SUBSET Pairs],
   outputs : SUBSET [stage : StageNames, made : SUBSET Pairs],
   by : StageNames \cup {""}, prior : Nat]

TypeOK ==
  /\ head.id \in Nat /\ head.schema \in SchemaVersions
  /\ head.by \in StageNames \cup {"init", "migration"}
  /\ head.sources \in Contents \cup {""}
  /\ head.stages \in [Stages(head.schema) -> StageState]
  /\ work \in [Clients -> {None} \cup
       [base : Nat, stage : StageNames, config : UNION {Settings[s] : s \in StageNames},
        made : SUBSET Pairs, status : {"complete", "failed"}]]
  /\ setting \in [StageNames -> UNION {Settings[s] : s \in StageNames}]
  /\ \A s \in StageNames : setting[s] \in Settings[s]
  /\ edits \in 0..MaxEdits

Init ==
  /\ \E v \in Schemas : head = Root(v)
  /\ work = [c \in Clients |-> None]
  /\ setting \in {f \in [StageNames -> UNION {Settings[s] : s \in StageNames}] :
                   \A s \in StageNames : f[s] \in Settings[s]}
  /\ packet = None
  /\ edits = 0

\* The operator changes a setting, or the source files change on disk.
Edit ==
  /\ edits < MaxEdits /\ edits' = edits + 1
  /\ \E s \in StageNames : \E k \in Settings[s] \ {setting[s]} :
       setting' = [setting EXCEPT ![s] = k]
  /\ UNCHANGED <<head, work, packet>>

-----------------------------------------------------------------------------
(* Stage commands, up to the commit                                        *)

GateOpen(r, s) == \A d \in Requires(r.schema, s) : r.stages[d].status = "complete"

\* What s makes of the outputs it loads from revision r.
MadeFrom(r, s, k) == {<<s, k>>} \cup MadeOf(OutputsOf(r, Reads(r.schema, s)))

\* Mutant of ReviewsResolved: the requirement of a recipe is ignored.
ReviewsIgnored(r) == TRUE

\* A recipe that requires review leaves its candidates pending until the
\* construction carries the decisions.
RequiresReview(r) ==
  "construct" \in Stages(r.schema) /\ r.stages["construct"].config \in ReviewSettings
ReviewsResolved(r) ==
  RequiresReview(r) => \E p \in MadeOf(r.stages["construct"].outputs) : p[1] = "review"

\* Validation is a function of what it reads.
Verdict(made) ==
  IF \E p \in made : p[1] = "parse" /\ p[2] \in FailingContents THEN "failed" ELSE "complete"

\* The checks a command makes of the revision it read before it computes.
Admitted(r, s) ==
  /\ GateOpen(r, s)
  /\ s \in {"validate", "seal"} => ReviewsResolved(r)

Computed(r, s, k) ==
  LET made == MadeFrom(r, s, k) IN
    [base |-> r.id, stage |-> s, config |-> k, made |-> made,
     status |-> IF s = "validate" THEN Verdict(made) ELSE "complete"]

\* Mutant of Unchanged: the cleaning rules are not compared.
UnchangedWhateverRules(s) == s = "clean" /\ head.stages[s].status = "complete"

\* clean answers at once when its result is there already.
Unchanged(s) ==
  s = "clean" /\ head.stages[s].status = "complete" /\ head.stages[s].config = setting[s]

\* A command that is not admitted raises stale-stage, missing-stage-input or a
\* review error and leaves everything as it is.
Compute(c, s) ==
  /\ work[c] = None /\ s \in Stages(head.schema)
  /\ Admitted(head, s) /\ ~Unchanged(s)
  /\ work' = [work EXCEPT ![c] = Computed(head, s, setting[s])]
  /\ UNCHANGED <<head, setting, packet, edits>>

\* Reviewers are shown the pending construction and its plan, and fill in a
\* packet that binds both.
FillPacket ==
  /\ head.schema = 3
  /\ \A s \in {"construct", "curate"} : head.stages[s].status = "complete"
  /\ ~ReviewsResolved(head)
  /\ packet' = [plan |-> MadeOf(head.stages["curate"].outputs),
                built |-> MadeOf(head.stages["construct"].outputs)]
  /\ UNCHANGED <<head, work, setting, edits>>

\* Mutant of ReviewMatches: the packet is not compared with the current plan.
ReviewMatchesAnything(r) == packet # None

\* construct with a packet: the recipe is the current one, constructing again
\* without the packet gives the result that is there, and the packet binds the
\* plan curated from it.
ReviewMatches(r) ==
  /\ packet # None
  /\ packet.plan = MadeOf(r.stages["curate"].outputs)

ReviewAdmitted(r) ==
  /\ Admitted(r, "construct") /\ r.stages["construct"].status = "complete"
  /\ r.stages["construct"].config = setting["construct"]
  /\ MadeOf(r.stages["construct"].outputs) = MadeFrom(r, "construct", setting["construct"])
  /\ ReviewMatches(r)

ComputeReviewed(c) ==
  /\ work[c] = None /\ head.schema = 3
  /\ edits < MaxEdits /\ edits' = edits + 1
  /\ ReviewAdmitted(head)
  /\ LET w == Computed(head, "construct", setting["construct"]) IN
       work' = [work EXCEPT ![c] = [w EXCEPT !.made = @ \cup {Review(packet.built)}]]
  /\ UNCHANGED <<head, setting, packet>>

\* The command fails or is interrupted before its commit.
Abandon(c) ==
  /\ work[c] # None
  /\ work' = [work EXCEPT ![c] = None]
  /\ UNCHANGED <<head, setting, packet, edits>>

-----------------------------------------------------------------------------
(* WorkspaceTransaction._commit                                            *)

NewSources(w) == IF w.stage = "parse" THEN w.config ELSE head.sources

\* The paths of the sources are all that a parse state is configured with.
ConfigOf(w) == IF w.stage = "parse" THEN "" ELSE w.config

NewState(w) ==
  [status |-> w.status, config |-> ConfigOf(w),
   inputs |-> OutputsOf(head, Requires(head.schema, w.stage)),
   outputs |-> {Artifact(w.stage, w.made)}, by |-> "", prior |-> 0]

Replaced(w) == [head.stages EXCEPT ![w.stage] = NewState(w)]

\* The artifacts of the transaction that sources and stages still reference.
Kept(w, stages) ==
  (head.arts \cup {Artifact(w.stage, w.made)}) \cap Referenced(NewSources(w), stages)

\* Mutant of ExactNoop: nothing is ever recognised as unchanged.
ExactNoopNever(w) == FALSE

\* Decided on the artifacts that the revision would carry.
ExactNoop(w) ==
  /\ NewSources(w) = head.sources
  /\ Kept(w, Replaced(w)) = head.arts
  /\ NewState(w) = head.stages[w.stage]

Child(w) ==
  LET stages == [s \in Stages(head.schema) |->
        IF s \in Descendants[head.schema][w.stage] /\ head.stages[s].status # "absent"
          THEN AsStale(head.stages[s], w.stage, head.id) ELSE Replaced(w)[s]]
  IN [id |-> head.id + 1, schema |-> head.schema, by |-> w.stage, sources |-> NewSources(w),
      stages |-> stages, arts |-> Kept(w, stages)]

Finish(c) == work' = [work EXCEPT ![c] = None] /\ UNCHANGED <<setting, packet, edits>>

\* workspace-revision-conflict: the caller starts over.
CommitConflict(c) ==
  /\ work[c] # None /\ work[c].base # head.id
  /\ Finish(c)
  /\ UNCHANGED head

CommitPending(c) == work[c] # None /\ work[c].base = head.id

CommitUnchanged(c) ==
  /\ CommitPending(c) /\ ExactNoop(work[c])
  /\ Finish(c)
  /\ UNCHANGED head

\* The validators run on the manifest before anything is installed.  One they
\* do not accept raises workspace-corrupt and HEAD stays.
Accepted(child) == Consistent(child) /\ Transition(child, head)

CommitNew(c) ==
  /\ CommitPending(c) /\ ~ExactNoop(work[c])
  /\ head' = Child(work[c])
  /\ Accepted(head')
  /\ Finish(c)

Commit(c) == CommitConflict(c) \/ CommitUnchanged(c) \/ CommitNew(c)

-----------------------------------------------------------------------------
(* Workspace.migrate_to_current, one version at a time: an upgrade that is *)
(* interrupted leaves schema 2                                             *)

Migrated(v, kept) ==
  LET stages == [s \in Stages(v) |-> IF s \in kept THEN head.stages[s] ELSE Absent]
  IN [id |-> head.id + 1, schema |-> v, by |-> "migration", sources |-> head.sources,
      stages |-> stages, arts |-> head.arts \cap Referenced(head.sources, stages)]

Upgrade ==
  /\ \/ head.schema = 1 /\ head' = Migrated(2, Stages(1))
     \/ head.schema = 2 /\ head' = Migrated(3, Core \cup {"construct"})
  /\ Consistent(head')
  /\ UNCHANGED <<work, setting, packet, edits>>

-----------------------------------------------------------------------------
Parse(c)     == Compute(c, "parse")
Clean(c)     == Compute(c, "clean")
Chunk(c)     == Compute(c, "chunk")
Construct(c) == Compute(c, "construct") \/ ComputeReviewed(c)
MapRows(c)   == Compute(c, "map")
Curate(c)    == Compute(c, "curate")
Split(c)     == Compute(c, "split")
Format(c)    == Compute(c, "format")
Validate(c)  == Compute(c, "validate")
Seal(c)      == Compute(c, "seal")
Run(c) ==
  \/ Parse(c) \/ Clean(c) \/ Chunk(c) \/ Construct(c) \/ MapRows(c)
  \/ Curate(c) \/ Split(c) \/ Format(c) \/ Validate(c) \/ Seal(c)

Next ==
  \/ Edit \/ FillPacket \/ Upgrade
  \/ \E c \in Clients : Run(c) \/ Abandon(c) \/ Commit(c)

Spec == Init /\ [][Next]_vars

(* An operator who keeps running the first stage that is not up to date,   *)
(* as a pipeline run does.                                                 *)
UpToDate(s) ==
  /\ head.stages[s].status \in {"complete", "failed"}
  /\ IF s = "parse" THEN head.sources = setting[s] ELSE head.stages[s].config = setting[s]
RunPending(c) ==
  \E s \in Stages(head.schema) :
    /\ ~UpToDate(s)
    /\ \A d \in Stages(head.schema) : s \in Descendants[head.schema][d] => UpToDate(d)
    /\ Compute(c, s)
FairSpec ==
  Spec /\ \A c \in Clients :
    WF_vars(Commit(c)) /\ SF_vars(CommitNew(c)) /\ SF_vars(RunPending(c))
\* The operator also runs upgrade-workspace until nothing is left to migrate.
UpgradingSpec == FairSpec /\ WF_vars(Upgrade)

-----------------------------------------------------------------------------
Outputs(s) == MadeOf(head.stages[s].outputs)
Reviews(made) == {p \in made : p[1] = "review"}

(* One generation: what an active stage holds was made with its recorded   *)
(* setting from exactly the outputs that the stages it reads hold now,     *)
(* though a stage declares fewer dependencies than its command reads.      *)
OneGeneration ==
  \A s \in Stages(head.schema) : Active(head.stages[s]) =>
    /\ \A d \in Reads(head.schema, s) : Outputs(d) \subseteq Outputs(s)
    /\ \A p \in Outputs(s) \ Reviews(Outputs(s)) :
         /\ p[1] = s \/ head.stages[p[1]].status = "complete"
         /\ p[2] = IF p[1] = "parse" THEN head.sources ELSE head.stages[p[1]].config

(* A command whose dependencies are all complete is never told that the    *)
(* workspace is corrupt: the commit rules make only manifests that the     *)
(* revision validators accept, after any sequence of runs and migrations.  *)
NeverRefusedAsCorrupt ==
  \A c \in Clients :
    CommitPending(c) /\ ~ExactNoop(work[c]) => Accepted(Child(work[c]))

(* What is sealed passed validation on the sealed sources, and where its   *)
(* recipe requires review the reviews are in it.                           *)
SealedPassed ==
  "seal" \in Stages(head.schema) /\ head.stages["seal"].status = "complete" =>
    /\ head.sources \notin FailingContents
    /\ RequiresReview(head) => Reviews(Outputs("seal")) # {}

(* Review decisions are attached only to the construction they were made   *)
(* about.                                                                  *)
ReviewedAsBuilt ==
  "construct" \in Stages(head.schema) =>
    \A p \in Reviews(Outputs("construct")) :
      p[2] = Outputs("construct") \ Reviews(Outputs("construct"))

(* A run that changes nothing invalidates nothing: a stage becomes stale   *)
(* only with a change of the sources or of a stage it depends on.          *)
StaleForAReason ==
  [][\A s \in DOMAIN head.stages \cap DOMAIN head'.stages :
       head.stages[s].status = "complete" /\ head'.stages[s].status = "stale" =>
         \/ head'.sources # head.sources
         \/ \E a \in DOMAIN head.stages :
              /\ s \in Descendants[head.schema][a]
              /\ head.stages[a].status # head'.stages[a].status
                   \/ head.stages[a].outputs # head'.stages[a].outputs]_head

(* Whatever was changed, run and raced before, running the pending stages  *)
(* brings the whole pipeline up to date: no sequence of legal commands     *)
(* leaves a workspace that cannot be finished.                             *)
Converges == <>[](\A s \in Stages(head.schema) : UpToDate(s))
=============================================================================
