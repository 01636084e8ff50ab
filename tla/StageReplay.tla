------------------------------ MODULE StageReplay ------------------------------
(***************************************************************************)
(* What a commit lets into a revision: WorkspaceTransaction._commit builds *)
(* the candidate, checks that every output is bound to its stage, and      *)
(* replays the stage from what is committed, before HEAD can move.         *)
(*                                                                         *)
(* The content of an artifact is abstracted to what made it: which output  *)
(* of which stage, for which sources, and under which settings of the      *)
(* stage and of those before it.  A replay makes the output again from     *)
(* the contents it reads; it is equal when all of these are.  StageReplay  *)
(* is about the content of one commit; the interleaving of commits is in   *)
(* StageRevisions, their crashes in WorkspaceStore.                        *)
(***************************************************************************)
EXTENDS Naturals, FiniteSets

CONSTANTS
  ReplaySources,   \* the sources of the workspace, numbers from 1
  Selections,      \* the sets of sources a recipe may select
  SettingChoices,  \* what each setting may be: 1 or 2
  Reviewed,        \* the recipes that ask for a review
  Failing          \* the plans whose dataset fails a gate

\* Sources are numbered from 1.  construct and map refuse a selection of none of
\* them, so a workspace without a source ends before there is a record.
ASSUME SourcesAssumption == ReplaySources \subseteq Nat \ {0} /\ ReplaySources # {}
ASSUME SelectionsAssumption == Selections \subseteq (SUBSET ReplaySources) \ {{}}

VARIABLES route, committed
replayVars == <<route, committed>>

\* STAGE_ORDER of schema 3, and IMPORT_STAGE_ORDER of schema 4.
Order == [document |-> <<"parse", "clean", "chunk", "construct", "curate", "split", "format", "validate", "seal">>,
          import |-> <<"parse", "map", "curate", "split", "format", "validate", "seal">>, none |-> <<>>]
Finished == {"curate", "split", "format", "validate", "seal"}
ReplayStages == {Order[route][n] : n \in DOMAIN Order[route]}
Place(s) == CHOOSE n \in DOMAIN Order[route] : Order[route][n] = s
UpTo(s) == {Order[route][n] : n \in 1..Place(s)}
Scoping == IF route = "document" THEN "construct" ELSE "map"

NotMade == [status |-> "absent"]
Complete(s) == committed[s].status = "complete"
MayRun(s) == \A g \in UpTo(s) \ {s} : Complete(g)

-----------------------------------------------------------------------------
(* What makes an output *)

\* The stages with settings of their own; the later ones only name a plan.
Chosen(s) == UpTo(s) \ (Finished \ {"curate"})

\* What no config decides of the records: what the reviewer of a construction
\* said, and what a mapping recipe says besides its plan and its sources
\* (objective_id, mapping_rule_ids, goal_id, representation_id).
Besides == IF route = "document" THEN "reviews" ELSE "objective"
SettingsOf(s) == Chosen(s) \cup (IF Scoping \in UpTo(s) THEN {Besides} ELSE {})

\* What the identity of a recipe, of a plan and of everything else stands for.
Binds(s, n) ==
  CASE s = "construct" /\ n = "recipe" -> {"clean", "chunk", "construct"}
    [] s = "map" /\ n = "plan" -> {"map"}
    [] s = "map" /\ n = "recipe" -> {"map", "objective"}
    [] OTHER -> SettingsOf(s)

\* What the config of a stage names: recipe_id, mapping_plan_id, plan_id, or its own settings.
NamedBy(s) ==
  CASE s = "construct" -> Binds(s, "recipe")
    [] s \in Finished -> SettingsOf("curate")
    [] OTHER -> {s}

\* Settings, and those of others that are not among them.
Combined(under, others) ==
  [g \in DOMAIN under \cup DOMAIN others |-> IF g \in DOMAIN under THEN under[g] ELSE others[g]]

MadeUnder(s, n, for, under) ==
  [of |-> <<s, n>>, for |-> for, under |-> [g \in Binds(s, n) |-> under[g]]]

-----------------------------------------------------------------------------
(* The outputs of a stage and what their references have to say *)

\* _fixed_stage_output_kinds: the outputs a stage has once.
Fixed ==
  [parse |-> {"registry"}, clean |-> {"transforms"}, chunk |-> {"chunks"},
   construct |-> {"recipe", "result"}, map |-> {"plan", "recipe", "result"},
   curate |-> {"plan", "result"}, split |-> {"result"},
   format |-> {"row-set", "train", "evaluation", "provenance"},
   validate |-> {"snapshot", "report"}, seal |-> {"manifest", "attestation"}]

\* _source_stage_output_kinds: the outputs a stage has for each source.
PerSource(s) ==
  CASE s = "parse" /\ route = "document" -> {"raw", "canonical", "document", "diagnostics"}
    [] s = "parse" /\ route = "import" -> {"raw", "row-source"}
    [] s = "clean" -> {"document", "cleaning-plan", "block-derivations"}
    [] OTHER -> {}

Required(s) == (Fixed[s] \X {0}) \cup (PerSource(s) \X ReplaySources)

\* The roles a source descriptor links to.
Linked == PerSource("parse") \cap {"raw", "canonical", "document"}

\* The sources an output is of.
Scope(s, k, config) ==
  IF k[2] # 0 THEN {k[2]}
  ELSE IF s = Scoping THEN config.selected
  ELSE IF s \in Finished THEN committed[Scoping].config.selected
  ELSE ReplaySources

\* The sources whose content it holds: a mapping plan is of no source.
ContentOf(s, k, config) == IF <<s, k[1]>> = <<"map", "plan">> THEN {} ELSE Scope(s, k, config)

\* The digest a reference has to carry; that of the derivations is left to the replay.
Digest(s, k, config) ==
  CASE s = "parse" /\ k[1] = "registry" -> [count |-> Cardinality(ReplaySources)]
    [] s = "parse" /\ k[1] = "raw" -> [path |-> k[2]]
    [] s = "parse" /\ k[1] \notin {"registry", "raw"} -> [parser |-> k[2]]
    [] OTHER -> config

\* The exact digest of the derivations: the clean config and the plan they are of.
DerivationDigest(config, plan) == [config |-> config, plan |-> plan]

-----------------------------------------------------------------------------
(* What a stage commits when it does what it should *)

\* The settings that the stages before s were committed with, and its own.
Under(s, own, besides) ==
  [g \in SettingsOf(s) |->
     IF g = s THEN own
     ELSE IF g # Besides THEN committed[g].config.under[g]
     ELSE IF s = Scoping THEN besides
     ELSE committed[Scoping].outputs[<<"result", 0>>].content.under[Besides]]

Configured(s, under, selected) == [under |-> [g \in NamedBy(s) |-> under[g]], selected |-> selected]

Artifact(s, k, config, under) ==
  LET content == MadeUnder(s, k[1], ContentOf(s, k, config), under)
  IN  [kind |-> <<s, k[1]>>, sources |-> Scope(s, k, config), producer |-> <<s, k[1]>>,
       config |-> IF k[1] = "block-derivations" THEN DerivationDigest(config, content.under)
                  ELSE Digest(s, k, config),
       content |-> content]

\* A gate of an import fails unless the recipe is the one that its plan makes.
Fails(under) == under["curate"] \in Failing \/ (route = "import" /\ under["objective"] # 1)

\* The status of a validation is what its gates say.
ValidationStatus(s, under) == IF s = "validate" /\ Fails(under) THEN "failed" ELSE "complete"

Honest(s, own, selected, besides) ==
  LET under == Under(s, own, besides)
      config == Configured(s, under, selected)
      outputs == [k \in Required(s) |-> Artifact(s, k, config, under)]
  IN  [status |-> ValidationStatus(s, under), config |-> config, outputs |-> outputs,
       links |-> IF s = "parse" THEN [k \in Linked \X ReplaySources |-> outputs[k]] ELSE <<>>]

OwnChoices(s) == IF s \in Chosen(s) THEN SettingChoices ELSE {1}
SelectionsOf(s) == IF s = Scoping THEN Selections ELSE IF s = "parse" THEN {ReplaySources} ELSE {{}}
BesidesOf(s, own) == IF s = "construct" /\ own \in Reviewed THEN SettingChoices ELSE {1}
HonestCommits(s) ==
  UNION {{Honest(s, own, selected, besides) : selected \in SelectionsOf(s), besides \in BesidesOf(s, own)}
         : own \in OwnChoices(s)}

-----------------------------------------------------------------------------
(* What else a transaction may be asked to commit *)

Other(c) == CHOOSE d \in SettingChoices : d # c
OtherSources(set) == CHOOSE other \in Selections : other # set
OtherContent(set) == IF set = {} THEN set ELSE OtherSources(set)

\* The content made under another choice of g.
Elsewise(content, g) ==
  IF g \in DOMAIN content.under THEN [content EXCEPT !.under[g] = Other(@)] ELSE content

\* Bound: one output, all but one, or all of them.
Remakeable(s) == {{k} : k \in Required(s)} \cup {Required(s) \ {k} : k \in Required(s)} \cup {Required(s)}

Remade(a, group, g) ==
  LET content(k) == IF k \in group THEN Elsewise(a.outputs[k].content, g) ELSE a.outputs[k].content
  IN  [a EXCEPT !.outputs = [k \in DOMAIN @ |-> [@[k] EXCEPT !.content = content(k)]]]

ForgedContents(s, a) ==
  {Remade(a, group, g) : group \in Remakeable(s), g \in SettingsOf(s)}
    \cup {[a EXCEPT !.outputs[k].content.for = OtherContent(@)] : k \in Required(s)}
    \cup {[a EXCEPT !.outputs[k].content = a.outputs[l].content] : k \in Required(s), l \in Required(s)}

ForgedReferences(s, a) ==
  {[a EXCEPT !.outputs[k].kind = <<s, "other">>] : k \in Required(s)}
    \cup {[a EXCEPT !.outputs[k].sources = OtherSources(@)] : k \in Required(s)}
    \cup {[a EXCEPT !.outputs[k].producer = <<s, "other">>] : k \in Required(s)}
    \cup {[a EXCEPT !.outputs[k].config = [other |-> 0]] : k \in Required(s)}
    \cup {[a EXCEPT !.links[k] = a.outputs[l]] : k \in DOMAIN a.links, l \in DOMAIN a.links}
    \cup {[a EXCEPT !.outputs = [l \in DOMAIN @ \ {k} |-> @[l]]] : k \in Required(s)}
    \cup {[a EXCEPT !.outputs = [l \in DOMAIN @ \cup {<<"other", 0>>} |-> IF l \in DOMAIN @ THEN @[l] ELSE @[k]]]
             : k \in Required(s)}

OtherSetting(a, g) == [a EXCEPT !.config.under[g] = Other(@)]

\* A config, alone or with outputs that were made under it.
OtherConfigs(s, a) ==
  {OtherSetting(a, g) : g \in DOMAIN a.config.under}
    \cup {Remade(OtherSetting(a, g), group, g) : group \in Remakeable(s), g \in DOMAIN a.config.under}
    \cup {[a EXCEPT !.config.selected = OtherContent(@)]}

\* Every reference of b names the digest of the config it comes with, as those of a do.
Rebound(a, b) ==
  [b EXCEPT !.outputs = [k \in DOMAIN @ |->
     IF @[k].config = a.config THEN [@[k] EXCEPT !.config = b.config] ELSE @[k]]]

ForgedConfigs(s, a) == OtherConfigs(s, a) \cup {Rebound(a, b) : b \in OtherConfigs(s, a)}

ForgedStatus(s, a) ==
  IF s = "validate" THEN {[a EXCEPT !.status = IF @ = "failed" THEN "complete" ELSE "failed"]} ELSE {}

Forged(s, a) == ForgedContents(s, a) \cup ForgedReferences(s, a) \cup ForgedConfigs(s, a) \cup ForgedStatus(s, a)

-----------------------------------------------------------------------------
(* The structure of the candidate *)

\* _validate_source_artifact_bindings, and the link check of the parse outputs.
LinksHold(a) ==
  \A k \in DOMAIN a.links :
    /\ a.links[k].kind = <<"parse", k[1]>> /\ a.links[k].sources = {k[2]}
    /\ k[1] = "raw" => a.links[k].content.under = a.config.under /\ a.links[k].content.for = {k[2]}
    /\ k[1] # "raw" => a.links[k].producer = <<"parse", k[1]>> /\ a.links[k].config = [parser |-> k[2]]
    /\ a.links[k] = a.outputs[k]

\* The plans of the stages that stay active are one.
OnePlan(s, a) ==
  s \in Finished => \A g \in (UpTo(s) \cap Finished) \ {s} : committed[g].config.under = a.config.under

\* The references name their stage, its config and the sources it was run for.
ReferencesHold(s, a) ==
  \A k \in DOMAIN a.outputs :
    /\ a.outputs[k].kind = <<s, k[1]>>
    /\ a.outputs[k].sources = Scope(s, k, a.config)
    /\ a.outputs[k].producer = <<s, k[1]>>
    /\ k[1] # "block-derivations" => a.outputs[k].config = Digest(s, k, a.config)

BindingsHold(s, a) ==
  /\ s = "parse" => a.config.selected = ReplaySources
  /\ s = Scoping => a.config.selected \subseteq ReplaySources /\ a.config.selected # {}
  /\ OnePlan(s, a)
  /\ DOMAIN a.outputs = Required(s)
  /\ ReferencesHold(s, a)
  /\ s = "parse" => LinksHold(a)

-----------------------------------------------------------------------------
(* The replay of a stage from what the candidate revision holds *)

Held(rev, s, n, i) == rev[s].outputs[<<n, i>>].content

\* The registry lists the descriptors of the candidate.
RegistryHolds(rev) ==
  Held(rev, "parse", "registry", 0) =
    MadeUnder("parse", "registry", ReplaySources, rev["parse"].config.under)

\* validate_parse: the registry, then every source parsed again from its captured bytes.
ParseReplays(rev) ==
  /\ RegistryHolds(rev)
  /\ \A i \in ReplaySources :
       LET raw == Held(rev, "parse", "raw", i)
           again(n) == MadeUnder("parse", n, raw.for, raw.under)
       IN  /\ Held(rev, "parse", "document", i).for = {i}
           /\ Held(rev, "parse", "diagnostics", i).for = {i}
           /\ \A n \in {"canonical", "document", "diagnostics"} : Held(rev, "parse", n, i) = again(n)

\* The rows captured again from the bytes of every source.
RowSourcesReplay(rev) ==
  /\ RegistryHolds(rev)
  /\ \A i \in ReplaySources :
       LET raw == Held(rev, "parse", "raw", i)
       IN  Held(rev, "parse", "row-source", i) = MadeUnder("parse", "row-source", raw.for, raw.under)

\* A parsed document cleaned again under the clean config.
CleanedAgain(rev, i) ==
  LET parsed == Held(rev, "parse", "document", i)
      under == Combined(parsed.under, rev["clean"].config.under)
  IN  /\ parsed.for = {i} /\ parsed.under = Held(rev, "parse", "canonical", i).under
      /\ Held(rev, "clean", "cleaning-plan", i) = MadeUnder("clean", "cleaning-plan", {i}, under)
      /\ Held(rev, "clean", "document", i) = MadeUnder("clean", "document", {i}, under)

\* The derivations are those of the cleaned document under its plan.
DerivationsReplay(rev, i) ==
  LET plan == Held(rev, "clean", "cleaning-plan", i)
  IN  /\ Held(rev, "clean", "block-derivations", i) = MadeUnder("clean", "block-derivations", {i}, plan.under)
      /\ rev["clean"].outputs[<<"block-derivations", i>>].config = DerivationDigest(rev["clean"].config, plan.under)

\* validate_clean
CleanReplays(rev) ==
  /\ \A i \in ReplaySources : CleanedAgain(rev, i) /\ DerivationsReplay(rev, i)
  /\ \A i \in ReplaySources :
       Held(rev, "clean", "transforms", 0) =
         MadeUnder("clean", "transforms", ReplaySources, Held(rev, "clean", "cleaning-plan", i).under)

\* validate_chunk: the cleaning again, and the chunks of what it made.
ChunkReplays(rev) ==
  /\ CleanReplays(rev)
  /\ \A i \in ReplaySources :
       Held(rev, "chunk", "chunks", 0) =
         MadeUnder("chunk", "chunks", ReplaySources,
                   Combined(Held(rev, "clean", "document", i).under, rev["chunk"].config.under))

\* The result is made again from the chunks, and from the reviews that stand in the result itself.
ConstructionReplays(rev) ==
  LET recipe == Held(rev, "construct", "recipe", 0)
      result == Held(rev, "construct", "result", 0)
      chunks == Held(rev, "chunk", "chunks", 0)
      config == rev["construct"].config
  IN  /\ recipe = MadeUnder("construct", "recipe", config.selected, config.under)
      /\ result.of = <<"construct", "result">>
      /\ recipe.under["construct"] \notin Reviewed => result.under["reviews"] = 1
      /\ result = MadeUnder("construct", "result", recipe.for,
                       Combined(Combined(chunks.under, recipe.under), [reviews |-> result.under["reviews"]]))

\* A mutant: the recipe need not be of the active cleaning and segmentation.
ConstructReplaysUnbound(rev) == ConstructionReplays(rev)

\* validate_construct
ConstructReplays(rev) ==
  /\ ConstructionReplays(rev)
  /\ \A g \in {"clean", "chunk"} :
       Held(rev, "construct", "recipe", 0).under[g] = rev[g].config.under[g]

\* The records of the sources, mapped again from their bytes under the plan and a recipe.
MappedAgain(rev, sources, recipe) ==
  \A i \in sources :
    Held(rev, "map", "result", 0) =
      MadeUnder("map", "result", sources,
                Combined(Combined(Held(rev, "parse", "raw", i).under, Held(rev, "map", "plan", 0).under), recipe.under))

\* Of a recipe, the commit compares the plan and the sources; the mapping is
\* made again under whatever else the recipe that was stored says.
MapReplays(rev) ==
  LET plan == Held(rev, "map", "plan", 0)
      recipe == Held(rev, "map", "recipe", 0)
      config == rev["map"].config
  IN  /\ plan = MadeUnder("map", "plan", {}, config.under)
      /\ recipe.of = <<"map", "recipe">>
      /\ recipe = MadeUnder("map", "recipe", config.selected,
                            Combined(plan.under, [objective |-> recipe.under["objective"]]))
      /\ MappedAgain(rev, config.selected, recipe)

-----------------------------------------------------------------------------
(* The stages of a finished dataset *)

MadeRecords(rev) == Held(rev, Scoping, "result", 0)

\* An import does not make its mapping again: it is read as it was committed.
ContextReplays(rev) == route = "document" => ConstructionReplays(rev)

\* The plan that the config of the stage names, of the records it names.
PlanHolds(rev, s) ==
  LET plan == Held(rev, "curate", "plan", 0)
  IN  /\ plan = MadeUnder("curate", "plan", MadeRecords(rev).for, rev[s].config.under)
      /\ \A g \in DOMAIN MadeRecords(rev).under : plan.under[g] = MadeRecords(rev).under[g]

\* What a finished stage makes from the records under the plan.
Again(rev, s, n) == MadeUnder(s, n, MadeRecords(rev).for, Held(rev, "curate", "plan", 0).under)
SameAgain(rev, s, names) == \A n \in names : Held(rev, s, n, 0) = Again(rev, s, n)

\* Curation, split and rows, as far as the stage has come.
RowsAgain(rev, s) ==
  /\ SameAgain(rev, "curate", {"result"})
  /\ s # "curate" => SameAgain(rev, "split", {"result"})
  /\ s \notin {"curate", "split"} => SameAgain(rev, "format", Fixed["format"])

\* validate_finished_rows
RowsReplay(rev, s) == ContextReplays(rev) /\ PlanHolds(rev, s) /\ RowsAgain(rev, s)

\* replay_captured_mapping: the recipe and the result are those that the plan
\* makes of the sources of the recipe.  A plan is taken to be confirmed for them:
\* with another one the gates do not come to an answer.
MappingMatches(rev) ==
  LET plan == Held(rev, "map", "plan", 0)
      recipe == Held(rev, "map", "recipe", 0)
      rebuilt == MadeUnder("map", "recipe", recipe.for, Combined(plan.under, [objective |-> 1]))
  IN  recipe = rebuilt /\ MappedAgain(rev, recipe.for, rebuilt)

\* The gates make the rows again too, those of an import the mapping besides,
\* and the dataset fails when they differ.
Passes(rev) ==
  /\ RowsAgain(rev, "validate") /\ Held(rev, "curate", "plan", 0).under["curate"] \notin Failing
  /\ route = "import" => MappingMatches(rev)

\* What comes before the gates: an import refuses rows that differ by itself.
Validatable(rev, s) ==
  IF route = "import" THEN RowsReplay(rev, s) ELSE ConstructionReplays(rev) /\ PlanHolds(rev, s)

\* An import compares its report and the status, and leaves the snapshot.
ReportReplays(rev) ==
  /\ SameAgain(rev, "validate", {"report"})
  /\ (rev["validate"].status = "complete") = Passes(rev)

\* validate_finished_validation
ValidationReplays(rev) ==
  /\ Validatable(rev, "validate") /\ ReportReplays(rev)
  /\ route = "document" => SameAgain(rev, "validate", {"snapshot"})

\* The receipts of the bundle, over the report of a dataset that passes.
ReceiptsReplay(rev) ==
  /\ SameAgain(rev, "validate", {"report"}) /\ Passes(rev)
  /\ SameAgain(rev, "seal", {"manifest", "attestation"})

\* validate_finished_seal
SealReplays(rev) == Validatable(rev, "seal") /\ ReceiptsReplay(rev)

\* _validate_stage_semantics
Replays(s, rev) ==
  CASE s = "parse" -> IF route = "document" THEN ParseReplays(rev) ELSE RowSourcesReplay(rev)
    [] s = "clean" -> CleanReplays(rev)
    [] s = "chunk" -> ChunkReplays(rev)
    [] s = "construct" -> ConstructReplays(rev)
    [] s = "map" -> MapReplays(rev)
    [] s \in {"curate", "split", "format"} -> RowsReplay(rev, s)
    [] s = "validate" -> ValidationReplays(rev)
    [] s = "seal" -> SealReplays(rev)

-----------------------------------------------------------------------------
(* The commit *)

\* The candidate: the stage as it is asked for, everything after it stale and without outputs.
Candidate(s, a) ==
  [g \in ReplayStages |-> IF g = s THEN a ELSE IF g \in UpTo(s) THEN committed[g] ELSE NotMade]

Taken(s, a) == BindingsHold(s, a) /\ Replays(s, Candidate(s, a))

\* Bound: a stage that is complete is committed again only by a run of it.
CommitStage(s) ==
  /\ MayRun(s)
  /\ \E honest \in HonestCommits(s) :
       \E a \in {honest} \cup (IF committed[s] = NotMade THEN Forged(s, honest) ELSE {}) :
         Taken(s, a) /\ committed' = Candidate(s, a)
  /\ UNCHANGED route

ReplayInit == route \in {"document", "import"} /\ committed = [g \in ReplayStages |-> NotMade]
ReplayNext == \E s \in ReplayStages : CommitStage(s)
ReplaySpec == ReplayInit /\ [][ReplayNext]_replayVars

-----------------------------------------------------------------------------
(* Every output of a revision is what its stage makes from what was committed before it,    *)
(* under the settings its config names: the contents, their sources and their references.   *)
(* What stands for itself is the decisions of a reviewer, the snapshot of an imported       *)
(* validation, which no commit compares, and what a mapping recipe says besides its plan    *)
(* and its sources: all that follows is made under it, but its dataset does not pass and is *)
(* never sealed.  A validation is complete exactly when its dataset passes, and a run that  *)
(* does what its stage should is never refused.                                             *)
RevisionReplays ==
  /\ \A s \in ReplayStages : committed[s] # NotMade =>
       LET own == IF s \in Chosen(s) THEN committed[s].config.under[s] ELSE 1
           besides == IF s = Scoping THEN committed[s].outputs[<<"result", 0>>].content.under[Besides] ELSE 1
           honest == Honest(s, own, committed[s].config.selected, besides)
           free == IF <<route, s>> = <<"import", "validate">> THEN {<<"snapshot", 0>>} ELSE {}
       IN  /\ \A k \in Required(s) \ free : committed[s].outputs[k] = honest.outputs[k]
           /\ committed[s].status = honest.status
  /\ (route = "import" /\ committed["seal"] # NotMade) =>
       committed["map"].outputs[<<"recipe", 0>>].content =
         MadeUnder("map", "recipe", committed["map"].config.selected,
                   Combined(committed["map"].config.under, [objective |-> 1]))
  /\ \A s \in ReplayStages : MayRun(s) => \A honest \in HonestCommits(s) : Taken(s, honest)
=============================================================================
