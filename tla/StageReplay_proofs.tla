-------------------------- MODULE StageReplay_proofs --------------------------
(***************************************************************************)
(* What a commit lets into a revision is what its stage makes: the         *)
(* invariant is stated of a revision, so that it can be said of HEAD and   *)
(* of the candidate that a transaction puts in its place.                  *)
(***************************************************************************)
EXTENDS StageReplay, TLAPS

-----------------------------------------------------------------------------
(* The stages of the two routes *)

DocumentStages == {"parse", "clean", "chunk", "construct", "curate", "split", "format", "validate", "seal"}
ImportStages == {"parse", "map", "curate", "split", "format", "validate", "seal"}

LEMMA DocumentOrder ==
  ASSUME route = "document"
  PROVE  /\ ReplayStages = DocumentStages /\ Scoping = "construct"
         /\ Place("parse") = 1 /\ Place("clean") = 2 /\ Place("chunk") = 3 /\ Place("construct") = 4
         /\ Place("curate") = 5 /\ Place("split") = 6 /\ Place("format") = 7 /\ Place("validate") = 8 /\ Place("seal") = 9
         /\ \A s \in ReplayStages : UpTo(s) = {g \in ReplayStages : Place(g) <= Place(s)}
<1> DEFINE o == <<"parse", "clean", "chunk", "construct", "curate", "split", "format", "validate", "seal">>
<1>1. Order[route] = o
  BY DEF Order
<1>2. DOMAIN o = 1..9
  OBVIOUS
<1>3. /\ o[1] = "parse" /\ o[2] = "clean" /\ o[3] = "chunk" /\ o[4] = "construct" /\ o[5] = "curate"
      /\ o[6] = "split" /\ o[7] = "format" /\ o[8] = "validate" /\ o[9] = "seal"
  OBVIOUS
<1>4. \A n \in 1..9 : n = 1 \/ n = 2 \/ n = 3 \/ n = 4 \/ n = 5 \/ n = 6 \/ n = 7 \/ n = 8 \/ n = 9
  OBVIOUS
<1> HIDE DEF o
<1>5. ReplayStages = DocumentStages
  BY <1>1, <1>2, <1>3, <1>4 DEF ReplayStages, DocumentStages
<1>6. \A m, n \in 1..9 : o[m] = o[n] => m = n
  BY <1>3, <1>4
<1>7. \A n \in 1..9 : Place(o[n]) = n
  BY <1>1, <1>2, <1>6 DEF Place
<1>8. ReplayStages = {o[n] : n \in 1..9}
  BY <1>1, <1>2 DEF ReplayStages
<1>9. ASSUME NEW s \in ReplayStages PROVE UpTo(s) = {g \in ReplayStages : Place(g) <= Place(s)}
  <2>1. Place(s) \in 1..9 /\ UpTo(s) = {o[n] : n \in 1..Place(s)}
    BY <1>1, <1>7, <1>8 DEF UpTo
  <2> QED BY <1>7, <1>8, <2>1
<1> QED BY <1>3, <1>5, <1>7, <1>9 DEF Scoping

LEMMA ImportOrder ==
  ASSUME route = "import"
  PROVE  /\ ReplayStages = ImportStages /\ Scoping = "map"
         /\ Place("parse") = 1 /\ Place("map") = 2 /\ Place("curate") = 3 /\ Place("split") = 4
         /\ Place("format") = 5 /\ Place("validate") = 6 /\ Place("seal") = 7
         /\ \A s \in ReplayStages : UpTo(s) = {g \in ReplayStages : Place(g) <= Place(s)}
<1> DEFINE o == <<"parse", "map", "curate", "split", "format", "validate", "seal">>
<1>1. Order[route] = o
  BY DEF Order
<1>2. DOMAIN o = 1..7
  OBVIOUS
<1>3. /\ o[1] = "parse" /\ o[2] = "map" /\ o[3] = "curate" /\ o[4] = "split"
      /\ o[5] = "format" /\ o[6] = "validate" /\ o[7] = "seal"
  OBVIOUS
<1>4. \A n \in 1..7 : n = 1 \/ n = 2 \/ n = 3 \/ n = 4 \/ n = 5 \/ n = 6 \/ n = 7
  OBVIOUS
<1> HIDE DEF o
<1>5. ReplayStages = ImportStages
  BY <1>1, <1>2, <1>3, <1>4 DEF ReplayStages, ImportStages
<1>6. \A m, n \in 1..7 : o[m] = o[n] => m = n
  BY <1>3, <1>4
<1>7. \A n \in 1..7 : Place(o[n]) = n
  BY <1>1, <1>2, <1>6 DEF Place
<1>8. ReplayStages = {o[n] : n \in 1..7}
  BY <1>1, <1>2 DEF ReplayStages
<1>9. ASSUME NEW s \in ReplayStages PROVE UpTo(s) = {g \in ReplayStages : Place(g) <= Place(s)}
  <2>1. Place(s) \in 1..7 /\ UpTo(s) = {o[n] : n \in 1..Place(s)}
    BY <1>1, <1>7, <1>8 DEF UpTo
  <2> QED BY <1>7, <1>8, <2>1
<1> QED BY <1>3, <1>5, <1>7, <1>9 DEF Scoping

LEMMA DocumentUpTo ==
  ASSUME route = "document"
  PROVE  /\ UpTo("parse") = {"parse"}
         /\ UpTo("clean") = {"parse", "clean"}
         /\ UpTo("chunk") = {"parse", "clean", "chunk"}
         /\ UpTo("construct") = {"parse", "clean", "chunk", "construct"}
         /\ UpTo("curate") = {"parse", "clean", "chunk", "construct", "curate"}
         /\ UpTo("split") = {"parse", "clean", "chunk", "construct", "curate", "split"}
         /\ UpTo("format") = {"parse", "clean", "chunk", "construct", "curate", "split", "format"}
         /\ UpTo("validate") = {"parse", "clean", "chunk", "construct", "curate", "split", "format", "validate"}
         /\ UpTo("seal") = DocumentStages
BY DocumentOrder DEF DocumentStages

LEMMA ImportUpTo ==
  ASSUME route = "import"
  PROVE  /\ UpTo("parse") = {"parse"}
         /\ UpTo("map") = {"parse", "map"}
         /\ UpTo("curate") = {"parse", "map", "curate"}
         /\ UpTo("split") = {"parse", "map", "curate", "split"}
         /\ UpTo("format") = {"parse", "map", "curate", "split", "format"}
         /\ UpTo("validate") = {"parse", "map", "curate", "split", "format", "validate"}
         /\ UpTo("seal") = ImportStages
BY ImportOrder DEF ImportStages

\* The settings that the outputs of a finished stage depend on.
DocumentSettings == {"parse", "clean", "chunk", "construct", "reviews", "curate"}
ImportSettings == {"parse", "map", "objective", "curate"}

LEMMA DocumentSettingsOf ==
  ASSUME route = "document"
  PROVE  /\ SettingsOf("parse") = {"parse"} /\ SettingsOf("clean") = {"parse", "clean"}
         /\ SettingsOf("chunk") = {"parse", "clean", "chunk"}
         /\ SettingsOf("construct") = {"parse", "clean", "chunk", "construct", "reviews"}
         /\ \A s \in Finished : SettingsOf(s) = DocumentSettings
<1> USE DocumentUpTo, DocumentOrder DEF SettingsOf, Besides, Chosen, Finished, DocumentStages, DocumentSettings
<1>1. SettingsOf("parse") = {"parse"} /\ SettingsOf("clean") = {"parse", "clean"}
  OBVIOUS
<1>2. SettingsOf("chunk") = {"parse", "clean", "chunk"}
  OBVIOUS
<1>3. SettingsOf("construct") = {"parse", "clean", "chunk", "construct", "reviews"}
  OBVIOUS
<1>4. SettingsOf("curate") = DocumentSettings /\ SettingsOf("split") = DocumentSettings
  OBVIOUS
<1>5. SettingsOf("format") = DocumentSettings /\ SettingsOf("validate") = DocumentSettings
  OBVIOUS
<1>6. SettingsOf("seal") = DocumentSettings
  OBVIOUS
<1> QED BY <1>1, <1>2, <1>3, <1>4, <1>5, <1>6

LEMMA ImportSettingsOf ==
  ASSUME route = "import"
  PROVE  /\ SettingsOf("parse") = {"parse"} /\ SettingsOf("map") = {"parse", "map", "objective"}
         /\ \A s \in Finished : SettingsOf(s) = ImportSettings
<1> USE ImportUpTo, ImportOrder DEF SettingsOf, Besides, Chosen, Finished, ImportStages, ImportSettings
<1>1. SettingsOf("parse") = {"parse"} /\ SettingsOf("map") = {"parse", "map", "objective"}
  OBVIOUS
<1>2. SettingsOf("curate") = ImportSettings /\ SettingsOf("split") = ImportSettings
  OBVIOUS
<1>3. SettingsOf("format") = ImportSettings /\ SettingsOf("validate") = ImportSettings
  OBVIOUS
<1>4. SettingsOf("seal") = ImportSettings
  OBVIOUS
<1> QED BY <1>1, <1>2, <1>3, <1>4

-----------------------------------------------------------------------------
(* What a revision holds when its stages did what they should *)

\* A setting, as the stage that has it was committed with it.
Setting(rev, g) ==
  CASE g = "reviews" -> Held(rev, "construct", "result", 0).under["reviews"]
    [] g = "objective" -> Held(rev, "map", "result", 0).under["objective"]
    [] OTHER -> rev[g].config.under[g]

Known(rev, under) == \A g \in DOMAIN under : under[g] = Setting(rev, g)

Made(rev, s, n, for) == [of |-> <<s, n>>, for |-> for, under |-> [g \in Binds(s, n) |-> Setting(rev, g)]]

\* The sources of an output that a stage has once.
Whole(rev, s, n) ==
  IF s = "map" /\ n = "plan" THEN {}
  ELSE IF s \in Finished \cup {Scoping} THEN rev[Scoping].config.selected ELSE ReplaySources

Compared(s, n) == ~(route = "import" /\ s = "validate" /\ n = "snapshot")

ConfigIn(rev, s) ==
  /\ DOMAIN rev[s].config.under = NamedBy(s) /\ Known(rev, rev[s].config.under)
  /\ s = "parse" => rev[s].config.selected = ReplaySources
  /\ s = Scoping => rev[s].config.selected \subseteq ReplaySources /\ rev[s].config.selected # {}

\* The gates pass unless the plan is one whose dataset fails, or the recipe of an
\* import is not the one that its plan makes.
Passing(rev) == Setting(rev, "curate") \notin Failing /\ (route = "import" => Setting(rev, "objective") = 1)

\* The status is complete, but that of a validation is what its gates say.
StatusIn(rev, s) ==
  rev[s].status = IF s = "validate" /\ ~Passing(rev) THEN "failed" ELSE "complete"

ContentsIn(rev, s) ==
  /\ \A n \in Fixed[s] : Compared(s, n) => Held(rev, s, n, 0) = Made(rev, s, n, Whole(rev, s, n))
  /\ \A n \in PerSource(s), i \in ReplaySources : Held(rev, s, n, i) = Made(rev, s, n, {i})
  /\ s = "construct" /\ Setting(rev, "construct") \notin Reviewed => Setting(rev, "reviews") = 1

MadeIn(rev, s) == ConfigIn(rev, s) /\ StatusIn(rev, s) /\ ContentsIn(rev, s)

LEMMA KnownMade ==
  ASSUME NEW rev, NEW s, NEW n, NEW for
  PROVE  /\ Made(rev, s, n, for).of = <<s, n>> /\ Made(rev, s, n, for).for = for
         /\ DOMAIN Made(rev, s, n, for).under = Binds(s, n) /\ Known(rev, Made(rev, s, n, for).under)
BY DEF Made, Known

LEMMA MadeIs ==
  ASSUME NEW rev, NEW s, NEW n, NEW for, NEW under, Known(rev, under), Binds(s, n) \subseteq DOMAIN under
  PROVE  MadeUnder(s, n, for, under) = Made(rev, s, n, for)
BY DEF MadeUnder, Made, Known

LEMMA KnownCombined ==
  ASSUME NEW rev, NEW under, NEW others, Known(rev, under), Known(rev, others)
  PROVE  /\ DOMAIN Combined(under, others) = DOMAIN under \cup DOMAIN others
         /\ Known(rev, Combined(under, others))
BY DEF Combined, Known

-----------------------------------------------------------------------------
(* A replay accepts what the stage makes, and nothing else *)

Earlier(rev, s) == \A g \in UpTo(s) \ {s} : MadeIn(rev, g)

\* What the bindings of a candidate and the ways to ask for a commit leave.
Asked(rev, s) ==
  /\ rev[s].config.under = [g \in NamedBy(s) |-> rev[s].config.under[g]]
  /\ s = "parse" => rev[s].config.selected = ReplaySources
  /\ s = Scoping => rev[s].config.selected \subseteq ReplaySources /\ rev[s].config.selected # {}
  /\ rev[s].status \in IF s = "validate" THEN {"complete", "failed"} ELSE {"complete"}
  /\ s = "parse" => \A i \in ReplaySources :
       Held(rev, s, "raw", i) = [of |-> <<s, "raw">>, for |-> {i}, under |-> rev[s].config.under]

\* A stage before the plan whose config names its own setting knows its config.
LEMMA OwnConfig ==
  ASSUME NEW rev, NEW s \in {"parse", "clean", "chunk", "map"}, Asked(rev, s)
  PROVE  /\ ConfigIn(rev, s) /\ DOMAIN rev[s].config.under = {s} /\ Known(rev, rev[s].config.under)
         /\ StatusIn(rev, s)
<1>1. NamedBy(s) = {s}
  BY DEF NamedBy, Finished
<1>2. Setting(rev, s) = rev[s].config.under[s]
  BY DEF Setting
<1> QED BY <1>1, <1>2 DEF Asked, ConfigIn, Known, StatusIn

\* validate_parse: what was made again from the bytes of a source.
LEMMA ParseSound ==
  ASSUME route = "document", NEW rev, Asked(rev, "parse"), ParseReplays(rev)
  PROVE  MadeIn(rev, "parse")
<1>1. Known(rev, rev["parse"].config.under) /\ DOMAIN rev["parse"].config.under = {"parse"}
  BY OwnConfig
<1>2. \A n : Binds("parse", n) = {"parse"}
  BY DocumentSettingsOf DEF Binds
<1>3. \A n, for : MadeUnder("parse", n, for, rev["parse"].config.under) = Made(rev, "parse", n, for)
  BY <1>1, <1>2, MadeIs
<1>4. Whole(rev, "parse", "registry") = ReplaySources
  BY DocumentOrder DEF Whole, Finished
<1>5. ASSUME NEW i \in ReplaySources
      PROVE  /\ Held(rev, "parse", "raw", i) = Made(rev, "parse", "raw", {i})
             /\ \A n \in {"canonical", "document", "diagnostics"} : Held(rev, "parse", n, i) = Made(rev, "parse", n, {i})
  <2>1. Held(rev, "parse", "raw", i) = [of |-> <<"parse", "raw">>, for |-> {i}, under |-> rev["parse"].config.under]
    BY DEF Asked
  <2>2. rev["parse"].config.under = [g \in {"parse"} |-> Setting(rev, g)]
    BY <1>1 DEF Known, Asked
  <2>3. Held(rev, "parse", "raw", i) = Made(rev, "parse", "raw", {i})
    BY <1>2, <2>1, <2>2 DEF Made
  <2>4. \A n \in {"canonical", "document", "diagnostics"} :
          Held(rev, "parse", n, i) = MadeUnder("parse", n, {i}, rev["parse"].config.under)
    <3>1. Held(rev, "parse", "raw", i).for = {i} /\ Held(rev, "parse", "raw", i).under = rev["parse"].config.under
      BY <2>1
    <3>2. \A n \in {"canonical", "document", "diagnostics"} :
            Held(rev, "parse", n, i) =
              MadeUnder("parse", n, Held(rev, "parse", "raw", i).for, Held(rev, "parse", "raw", i).under)
      BY Zenon DEF ParseReplays
    <3> QED BY <3>1, <3>2
  <2> QED BY <1>3, <2>3, <2>4
<1>6. Held(rev, "parse", "registry", 0) = Made(rev, "parse", "registry", ReplaySources)
  BY <1>3 DEF ParseReplays, RegistryHolds
<1>7. Fixed["parse"] = {"registry"} /\ PerSource("parse") = {"raw", "canonical", "document", "diagnostics"}
  BY DEF Fixed, PerSource
<1>8. ContentsIn(rev, "parse")
  BY <1>4, <1>5, <1>6, <1>7 DEF ContentsIn
<1> QED BY <1>8, OwnConfig DEF MadeIn

LEMMA ParseComplete ==
  ASSUME route = "document", NEW rev, MadeIn(rev, "parse")
  PROVE  ParseReplays(rev)
<1>1. /\ DOMAIN rev["parse"].config.under = {"parse"} /\ Known(rev, rev["parse"].config.under)
  BY DEF MadeIn, ConfigIn, NamedBy, Finished
<1>2. \A n : Binds("parse", n) = {"parse"}
  BY DocumentSettingsOf DEF Binds
<1>3. Whole(rev, "parse", "registry") = ReplaySources
  BY DocumentOrder DEF Whole, Finished
<1>4. Fixed["parse"] = {"registry"} /\ PerSource("parse") = {"raw", "canonical", "document", "diagnostics"}
  BY DEF Fixed, PerSource
<1>5. RegistryHolds(rev)
  BY <1>1, <1>2, <1>3, <1>4, MadeIs DEF RegistryHolds, MadeIn, ContentsIn, Compared
<1>6. ASSUME NEW i \in ReplaySources
      PROVE  /\ Held(rev, "parse", "document", i).for = {i} /\ Held(rev, "parse", "diagnostics", i).for = {i}
             /\ \A n \in {"canonical", "document", "diagnostics"} :
                  Held(rev, "parse", n, i) =
                    MadeUnder("parse", n, Held(rev, "parse", "raw", i).for, Held(rev, "parse", "raw", i).under)
  <2>1. \A n \in {"raw", "canonical", "document", "diagnostics"} : Held(rev, "parse", n, i) = Made(rev, "parse", n, {i})
    BY <1>4 DEF MadeIn, ContentsIn
  <2>2. /\ Held(rev, "parse", "raw", i).for = {i} /\ Known(rev, Held(rev, "parse", "raw", i).under)
        /\ DOMAIN Held(rev, "parse", "raw", i).under = {"parse"}
    BY <1>2, <2>1, KnownMade
  <2>3. \A n : MadeUnder("parse", n, {i}, Held(rev, "parse", "raw", i).under) = Made(rev, "parse", n, {i})
    BY <1>2, <2>2, MadeIs
  <2> QED BY <2>1, <2>2, <2>3, KnownMade
<1> QED BY <1>5, <1>6 DEF ParseReplays

\* The rows captured again from the bytes of a source.
LEMMA RowSourcesSound ==
  ASSUME route = "import", NEW rev, Asked(rev, "parse"), RowSourcesReplay(rev)
  PROVE  MadeIn(rev, "parse")
<1>1. Known(rev, rev["parse"].config.under) /\ DOMAIN rev["parse"].config.under = {"parse"}
  BY OwnConfig
<1>2. \A n : Binds("parse", n) = {"parse"}
  BY ImportSettingsOf DEF Binds
<1>3. \A n, for : MadeUnder("parse", n, for, rev["parse"].config.under) = Made(rev, "parse", n, for)
  BY <1>1, <1>2, MadeIs
<1>4. Whole(rev, "parse", "registry") = ReplaySources
  BY ImportOrder DEF Whole, Finished
<1>5. ASSUME NEW i \in ReplaySources
      PROVE  /\ Held(rev, "parse", "raw", i) = Made(rev, "parse", "raw", {i})
             /\ Held(rev, "parse", "row-source", i) = Made(rev, "parse", "row-source", {i})
  <2>1. Held(rev, "parse", "raw", i) = [of |-> <<"parse", "raw">>, for |-> {i}, under |-> rev["parse"].config.under]
    BY DEF Asked
  <2>2. rev["parse"].config.under = [g \in {"parse"} |-> Setting(rev, g)]
    BY <1>1 DEF Known, Asked
  <2>3. Held(rev, "parse", "raw", i) = Made(rev, "parse", "raw", {i})
    BY <1>2, <2>1, <2>2 DEF Made
  <2>4. Held(rev, "parse", "row-source", i) = MadeUnder("parse", "row-source", {i}, rev["parse"].config.under)
    <3>1. Held(rev, "parse", "raw", i).for = {i} /\ Held(rev, "parse", "raw", i).under = rev["parse"].config.under
      BY <2>1
    <3>2. Held(rev, "parse", "row-source", i) =
            MadeUnder("parse", "row-source", Held(rev, "parse", "raw", i).for, Held(rev, "parse", "raw", i).under)
      BY Zenon DEF RowSourcesReplay
    <3> QED BY <3>1, <3>2
  <2> QED BY <1>3, <2>3, <2>4
<1>6. Held(rev, "parse", "registry", 0) = Made(rev, "parse", "registry", ReplaySources)
  BY <1>3 DEF RowSourcesReplay, RegistryHolds
<1>7. Fixed["parse"] = {"registry"} /\ PerSource("parse") = {"raw", "row-source"}
  BY DEF Fixed, PerSource
<1>8. ContentsIn(rev, "parse")
  BY <1>4, <1>5, <1>6, <1>7 DEF ContentsIn
<1> QED BY <1>8, OwnConfig DEF MadeIn

LEMMA RowSourcesComplete ==
  ASSUME route = "import", NEW rev, MadeIn(rev, "parse")
  PROVE  RowSourcesReplay(rev)
<1>1. /\ DOMAIN rev["parse"].config.under = {"parse"} /\ Known(rev, rev["parse"].config.under)
  BY DEF MadeIn, ConfigIn, NamedBy, Finished
<1>2. \A n : Binds("parse", n) = {"parse"}
  BY ImportSettingsOf DEF Binds
<1>3. Whole(rev, "parse", "registry") = ReplaySources
  BY ImportOrder DEF Whole, Finished
<1>4. Fixed["parse"] = {"registry"} /\ PerSource("parse") = {"raw", "row-source"}
  BY DEF Fixed, PerSource
<1>5. RegistryHolds(rev)
  BY <1>1, <1>2, <1>3, <1>4, MadeIs DEF RegistryHolds, MadeIn, ContentsIn, Compared
<1>6. ASSUME NEW i \in ReplaySources
      PROVE  Held(rev, "parse", "row-source", i) =
               MadeUnder("parse", "row-source", Held(rev, "parse", "raw", i).for, Held(rev, "parse", "raw", i).under)
  <2>1. \A n \in {"raw", "row-source"} : Held(rev, "parse", n, i) = Made(rev, "parse", n, {i})
    BY <1>4 DEF MadeIn, ContentsIn
  <2>2. /\ Held(rev, "parse", "raw", i).for = {i} /\ Known(rev, Held(rev, "parse", "raw", i).under)
        /\ DOMAIN Held(rev, "parse", "raw", i).under = {"parse"}
    BY <1>2, <2>1, KnownMade
  <2> QED BY <1>2, <2>1, <2>2, MadeIs
<1> QED BY <1>5, <1>6 DEF RowSourcesReplay

\* What a parsed document is cleaned under.
LEMMA CleanedUnder ==
  ASSUME route = "document", NEW rev, MadeIn(rev, "parse"), ConfigIn(rev, "clean"), NEW i \in ReplaySources
  PROVE  LET parsed == Held(rev, "parse", "document", i)
             under == Combined(parsed.under, rev["clean"].config.under)
         IN  /\ parsed.for = {i} /\ parsed.under = Held(rev, "parse", "canonical", i).under
             /\ \A n, for : MadeUnder("clean", n, for, under) = Made(rev, "clean", n, for)
<1> DEFINE parsed == Held(rev, "parse", "document", i)
           own == rev["clean"].config.under
<1>1. \A n : Binds("parse", n) = {"parse"} /\ Binds("clean", n) = {"parse", "clean"}
  BY DocumentSettingsOf DEF Binds
<1>2. PerSource("parse") = {"raw", "canonical", "document", "diagnostics"}
  BY DEF PerSource
<1>3. parsed = Made(rev, "parse", "document", {i}) /\ Held(rev, "parse", "canonical", i) = Made(rev, "parse", "canonical", {i})
  BY <1>2 DEF MadeIn, ContentsIn
<1>4. parsed.for = {i} /\ Known(rev, parsed.under) /\ DOMAIN parsed.under = {"parse"}
  BY <1>1, <1>3, KnownMade
<1>5. parsed.under = Held(rev, "parse", "canonical", i).under
  BY <1>1, <1>3 DEF Made
<1>6. Known(rev, own) /\ DOMAIN own = {"clean"}
  BY DEF ConfigIn, NamedBy, Finished
<1> HIDE DEF parsed, own
<1>7. Known(rev, Combined(parsed.under, own)) /\ DOMAIN Combined(parsed.under, own) = {"parse", "clean"}
  <2>1. Known(rev, parsed.under) /\ Known(rev, own)
    BY <1>4, <1>6
  <2>2. Known(rev, Combined(parsed.under, own)) /\ DOMAIN Combined(parsed.under, own) = DOMAIN parsed.under \cup DOMAIN own
    BY <2>1, KnownCombined
  <2> QED BY <1>4, <1>6, <2>2
<1>8. \A n, for : MadeUnder("clean", n, for, Combined(parsed.under, own)) = Made(rev, "clean", n, for)
  BY <1>1, <1>7, MadeIs
<1> QED BY <1>4, <1>5, <1>8 DEF parsed, own

\* What follows from the plan of a source is made under the settings of the cleaning.
LEMMA PlannedUnder ==
  ASSUME route = "document", NEW rev, NEW i, Held(rev, "clean", "cleaning-plan", i) = Made(rev, "clean", "cleaning-plan", {i})
  PROVE  LET plan == Held(rev, "clean", "cleaning-plan", i)
         IN  \A n, for : MadeUnder("clean", n, for, plan.under) = Made(rev, "clean", n, for)
<1> DEFINE plan == Held(rev, "clean", "cleaning-plan", i)
<1>1. \A n : Binds("clean", n) = {"parse", "clean"}
  BY DocumentSettingsOf DEF Binds
<1>2. Known(rev, plan.under) /\ DOMAIN plan.under = {"parse", "clean"}
  BY <1>1, KnownMade
<1> HIDE DEF plan
<1> QED BY <1>1, <1>2, MadeIs DEF plan

\* validate_clean
LEMMA CleanSound ==
  ASSUME route = "document", NEW rev, Earlier(rev, "clean"), Asked(rev, "clean"), CleanReplays(rev)
  PROVE  MadeIn(rev, "clean")
<1>1. ConfigIn(rev, "clean")
  BY OwnConfig
<1>2. MadeIn(rev, "parse")
  BY DocumentUpTo DEF Earlier
<1>3. ASSUME NEW i \in ReplaySources
      PROVE  \A n \in {"document", "cleaning-plan", "block-derivations"} : Held(rev, "clean", n, i) = Made(rev, "clean", n, {i})
  <2>1. /\ Held(rev, "clean", "cleaning-plan", i) = Made(rev, "clean", "cleaning-plan", {i})
        /\ Held(rev, "clean", "document", i) = Made(rev, "clean", "document", {i})
    <3>1. CleanedAgain(rev, i)
      BY DEF CleanReplays
    <3>2. LET under == Combined(Held(rev, "parse", "document", i).under, rev["clean"].config.under)
          IN  \A n, for : MadeUnder("clean", n, for, under) = Made(rev, "clean", n, for)
      BY <1>1, <1>2, CleanedUnder
    <3> QED BY <3>1, <3>2 DEF CleanedAgain
  <2>2. Held(rev, "clean", "block-derivations", i) =
          MadeUnder("clean", "block-derivations", {i}, Held(rev, "clean", "cleaning-plan", i).under)
    BY DEF CleanReplays, DerivationsReplay
  <2> QED BY <2>1, <2>2, PlannedUnder
<1>4. Held(rev, "clean", "transforms", 0) = Made(rev, "clean", "transforms", ReplaySources)
  <2>1. PICK i \in ReplaySources : TRUE
    BY SourcesAssumption
  <2>2. Held(rev, "clean", "transforms", 0) =
          MadeUnder("clean", "transforms", ReplaySources, Held(rev, "clean", "cleaning-plan", i).under)
    BY DEF CleanReplays
  <2>3. Held(rev, "clean", "cleaning-plan", i) = Made(rev, "clean", "cleaning-plan", {i})
    BY <1>3
  <2> QED BY <2>2, <2>3, PlannedUnder
<1>5. Whole(rev, "clean", "transforms") = ReplaySources
  BY DocumentOrder DEF Whole, Finished
<1>6. Fixed["clean"] = {"transforms"} /\ PerSource("clean") = {"document", "cleaning-plan", "block-derivations"}
  BY DEF Fixed, PerSource
<1>7. ContentsIn(rev, "clean")
  BY <1>3, <1>4, <1>5, <1>6 DEF ContentsIn
<1> QED BY <1>7, OwnConfig DEF MadeIn

\* The references of the derivations, which their replay compares.
DerivationsBound(rev) ==
  \A i \in ReplaySources :
    rev["clean"].outputs[<<"block-derivations", i>>].config =
      DerivationDigest(rev["clean"].config, Held(rev, "clean", "cleaning-plan", i).under)

LEMMA CleanComplete ==
  ASSUME route = "document", NEW rev, MadeIn(rev, "parse"), MadeIn(rev, "clean"), DerivationsBound(rev)
  PROVE  CleanReplays(rev)
<1>1. ConfigIn(rev, "clean")
  BY DEF MadeIn
<1>2. Whole(rev, "clean", "transforms") = ReplaySources
  BY DocumentOrder DEF Whole, Finished
<1>3. Fixed["clean"] = {"transforms"} /\ PerSource("clean") = {"document", "cleaning-plan", "block-derivations"}
  BY DEF Fixed, PerSource
<1>4. Held(rev, "clean", "transforms", 0) = Made(rev, "clean", "transforms", ReplaySources)
  BY <1>2, <1>3 DEF MadeIn, ContentsIn, Compared
<1>5. ASSUME NEW i \in ReplaySources
      PROVE  /\ CleanedAgain(rev, i) /\ DerivationsReplay(rev, i)
             /\ Held(rev, "clean", "transforms", 0) =
                  MadeUnder("clean", "transforms", ReplaySources, Held(rev, "clean", "cleaning-plan", i).under)
  <2>1. \A n \in {"document", "cleaning-plan", "block-derivations"} : Held(rev, "clean", n, i) = Made(rev, "clean", n, {i})
    BY <1>3 DEF MadeIn, ContentsIn
  <2>2. CleanedAgain(rev, i)
    BY <1>1, <2>1, CleanedUnder DEF CleanedAgain
  <2>3. DerivationsReplay(rev, i)
    BY <2>1, PlannedUnder DEF DerivationsReplay, DerivationsBound
  <2> QED BY <1>4, <2>1, <2>2, <2>3, PlannedUnder
<1> QED BY <1>5 DEF CleanReplays

LEMMA CombinedIs ==
  ASSUME NEW rev, NEW s, NEW n, NEW for, NEW under, NEW others, Known(rev, under), Known(rev, others),
         Binds(s, n) \subseteq DOMAIN under \cup DOMAIN others
  PROVE  MadeUnder(s, n, for, Combined(under, others)) = Made(rev, s, n, for)
<1>1. Known(rev, Combined(under, others)) /\ Binds(s, n) \subseteq DOMAIN Combined(under, others)
  BY KnownCombined
<1> QED BY <1>1, MadeIs

\* What the chunks of a cleaned document are made under.
LEMMA ChunkedUnder ==
  ASSUME route = "document", NEW rev, MadeIn(rev, "clean"), ConfigIn(rev, "chunk"), NEW i \in ReplaySources
  PROVE  MadeUnder("chunk", "chunks", ReplaySources,
                   Combined(Held(rev, "clean", "document", i).under, rev["chunk"].config.under))
           = Made(rev, "chunk", "chunks", ReplaySources)
<1> DEFINE cleaned == Held(rev, "clean", "document", i)
           own == rev["chunk"].config.under
<1>1. Binds("clean", "document") = {"parse", "clean"} /\ Binds("chunk", "chunks") = {"parse", "clean", "chunk"}
  BY DocumentSettingsOf DEF Binds
<1>2. "document" \in PerSource("clean")
  BY DEF PerSource
<1>3. cleaned = Made(rev, "clean", "document", {i})
  BY <1>2 DEF MadeIn, ContentsIn
<1>4. Known(rev, cleaned.under) /\ DOMAIN cleaned.under = {"parse", "clean"}
  BY <1>1, <1>3, KnownMade
<1>5. Known(rev, own) /\ DOMAIN own = {"chunk"}
  BY DEF ConfigIn, NamedBy, Finished
<1> HIDE DEF cleaned, own
<1>6. Binds("chunk", "chunks") \subseteq DOMAIN cleaned.under \cup DOMAIN own
  BY <1>1, <1>4, <1>5
<1>7. MadeUnder("chunk", "chunks", ReplaySources, Combined(cleaned.under, own)) = Made(rev, "chunk", "chunks", ReplaySources)
  BY <1>4, <1>5, <1>6, CombinedIs
<1> QED BY <1>7 DEF cleaned, own

\* validate_chunk
LEMMA ChunkSound ==
  ASSUME route = "document", NEW rev, Earlier(rev, "chunk"), Asked(rev, "chunk"), ChunkReplays(rev)
  PROVE  MadeIn(rev, "chunk")
<1>1. ConfigIn(rev, "chunk") /\ StatusIn(rev, "chunk")
  BY OwnConfig
<1>2. MadeIn(rev, "clean")
  BY DocumentUpTo DEF Earlier
<1>3. Held(rev, "chunk", "chunks", 0) = Made(rev, "chunk", "chunks", ReplaySources)
  <2>1. PICK i \in ReplaySources : TRUE
    BY SourcesAssumption
  <2>2. Held(rev, "chunk", "chunks", 0) =
          MadeUnder("chunk", "chunks", ReplaySources,
                    Combined(Held(rev, "clean", "document", i).under, rev["chunk"].config.under))
    BY DEF ChunkReplays
  <2> QED BY <1>1, <1>2, <2>2, ChunkedUnder
<1>4. Whole(rev, "chunk", "chunks") = ReplaySources
  BY DocumentOrder DEF Whole, Finished
<1>5. Fixed["chunk"] = {"chunks"} /\ PerSource("chunk") = {}
  BY DEF Fixed, PerSource
<1>6. ContentsIn(rev, "chunk")
  BY <1>3, <1>4, <1>5 DEF ContentsIn
<1> QED BY <1>1, <1>6 DEF MadeIn

LEMMA ChunkComplete ==
  ASSUME route = "document", NEW rev, MadeIn(rev, "parse"), MadeIn(rev, "clean"), MadeIn(rev, "chunk"),
         DerivationsBound(rev)
  PROVE  ChunkReplays(rev)
<1>1. Whole(rev, "chunk", "chunks") = ReplaySources
  BY DocumentOrder DEF Whole, Finished
<1>2. Fixed["chunk"] = {"chunks"}
  BY DEF Fixed
<1>3. Held(rev, "chunk", "chunks", 0) = Made(rev, "chunk", "chunks", ReplaySources)
  BY <1>1, <1>2 DEF MadeIn, ContentsIn, Compared
<1>4. ConfigIn(rev, "chunk")
  BY DEF MadeIn
<1> QED BY <1>3, <1>4, ChunkedUnder, CleanComplete DEF ChunkReplays

\* The recipe is of the settings it was made under; its result adds the reviews.
LEMMA ConstructedUnder ==
  ASSUME route = "document", NEW rev, MadeIn(rev, "chunk"),
         Held(rev, "construct", "recipe", 0) = Made(rev, "construct", "recipe", rev["construct"].config.selected)
  PROVE  MadeUnder("construct", "result", Held(rev, "construct", "recipe", 0).for,
                   Combined(Combined(Held(rev, "chunk", "chunks", 0).under, Held(rev, "construct", "recipe", 0).under),
                            [reviews |-> Held(rev, "construct", "result", 0).under["reviews"]]))
           = Made(rev, "construct", "result", rev["construct"].config.selected)
<1> DEFINE recipe == Held(rev, "construct", "recipe", 0)
           chunks == Held(rev, "chunk", "chunks", 0)
           reviews == [reviews |-> Held(rev, "construct", "result", 0).under["reviews"]]
           selected == rev["construct"].config.selected
<1>1. /\ Binds("chunk", "chunks") = {"parse", "clean", "chunk"}
      /\ Binds("construct", "recipe") = {"clean", "chunk", "construct"}
      /\ Binds("construct", "result") = {"parse", "clean", "chunk", "construct", "reviews"}
  BY DocumentSettingsOf DEF Binds
<1>2. Known(rev, chunks.under) /\ DOMAIN chunks.under = {"parse", "clean", "chunk"}
  <2>1. Fixed["chunk"] = {"chunks"}
    BY DEF Fixed
  <2>2. chunks = Made(rev, "chunk", "chunks", Whole(rev, "chunk", "chunks"))
    BY <2>1 DEF MadeIn, ContentsIn, Compared
  <2> QED BY <1>1, <2>2, KnownMade
<1>3. Known(rev, recipe.under) /\ DOMAIN recipe.under = {"clean", "chunk", "construct"} /\ recipe.for = selected
  BY <1>1, KnownMade
<1>4. Known(rev, reviews) /\ DOMAIN reviews = {"reviews"}
  BY DEF Known, Setting
<1> HIDE DEF recipe, chunks, reviews, selected
<1>5. /\ Known(rev, Combined(chunks.under, recipe.under))
      /\ DOMAIN Combined(chunks.under, recipe.under) = DOMAIN chunks.under \cup DOMAIN recipe.under
  BY <1>2, <1>3, KnownCombined
<1>6. Binds("construct", "result") \subseteq DOMAIN Combined(chunks.under, recipe.under) \cup DOMAIN reviews
  BY <1>1, <1>2, <1>3, <1>4, <1>5
<1>7. MadeUnder("construct", "result", selected, Combined(Combined(chunks.under, recipe.under), reviews))
        = Made(rev, "construct", "result", selected)
  BY <1>4, <1>5, <1>6, CombinedIs
<1> QED BY <1>3, <1>7 DEF recipe, chunks, reviews, selected

\* validate_construct
LEMMA ConstructSound ==
  ASSUME route = "document", NEW rev, Earlier(rev, "construct"), Asked(rev, "construct"), ConstructReplays(rev)
  PROVE  MadeIn(rev, "construct")
<1> DEFINE recipe == Held(rev, "construct", "recipe", 0)
           result == Held(rev, "construct", "result", 0)
           config == rev["construct"].config
<1>1. /\ Binds("construct", "recipe") = {"clean", "chunk", "construct"}
      /\ NamedBy("construct") = {"clean", "chunk", "construct"}
  BY DEF Binds, NamedBy, Finished
<1>2. recipe = MadeUnder("construct", "recipe", config.selected, config.under)
  BY DEF ConstructReplays, ConstructionReplays
<1>3. \A g \in {"clean", "chunk", "construct"} : recipe.under[g] = config.under[g]
  BY <1>1, <1>2 DEF MadeUnder
<1>4. \A g \in {"clean", "chunk"} : recipe.under[g] = Setting(rev, g)
  BY DEF ConstructReplays, Setting
<1>5. recipe.under["construct"] = Setting(rev, "construct")
  BY <1>3 DEF Setting
<1>6. DOMAIN config.under = {"clean", "chunk", "construct"}
  BY <1>1 DEF Asked
<1>7. \A g \in {"clean", "chunk", "construct"} : config.under[g] = Setting(rev, g)
  BY <1>3, <1>4, <1>5
<1>8. Known(rev, config.under)
  BY <1>6, <1>7 DEF Known
<1>9. ConfigIn(rev, "construct")
  BY <1>1, <1>6, <1>8 DEF ConfigIn, Asked
<1>10. recipe = Made(rev, "construct", "recipe", config.selected)
  BY <1>1, <1>2, <1>6, <1>8, MadeIs
<1>11. MadeIn(rev, "chunk")
  BY DocumentUpTo DEF Earlier
<1>12. result = Made(rev, "construct", "result", config.selected)
  BY <1>10, <1>11, ConstructedUnder DEF ConstructReplays, ConstructionReplays
<1>13. Setting(rev, "construct") \notin Reviewed => Setting(rev, "reviews") = 1
  BY <1>5 DEF ConstructReplays, ConstructionReplays, Setting
<1>14. /\ Fixed["construct"] = {"recipe", "result"} /\ PerSource("construct") = {}
       /\ \A n : Whole(rev, "construct", n) = config.selected
  BY DocumentOrder DEF Fixed, PerSource, Whole
<1>15. ContentsIn(rev, "construct")
  BY <1>10, <1>12, <1>13, <1>14 DEF ContentsIn
<1>16. StatusIn(rev, "construct")
  BY DEF StatusIn, Asked
<1> QED BY <1>9, <1>15, <1>16 DEF MadeIn

LEMMA ConstructionComplete ==
  ASSUME route = "document", NEW rev, MadeIn(rev, "chunk"), MadeIn(rev, "construct")
  PROVE  ConstructionReplays(rev)
<1> DEFINE recipe == Held(rev, "construct", "recipe", 0)
           result == Held(rev, "construct", "result", 0)
           config == rev["construct"].config
<1>1. /\ Binds("construct", "recipe") = {"clean", "chunk", "construct"}
      /\ NamedBy("construct") = {"clean", "chunk", "construct"}
  BY DEF Binds, NamedBy, Finished
<1>2. /\ Fixed["construct"] = {"recipe", "result"}
      /\ \A n : Whole(rev, "construct", n) = config.selected
  BY DocumentOrder DEF Fixed, Whole
<1>3. /\ recipe = Made(rev, "construct", "recipe", config.selected)
      /\ result = Made(rev, "construct", "result", config.selected)
  BY <1>2 DEF MadeIn, ContentsIn, Compared
<1>4. recipe = MadeUnder("construct", "recipe", config.selected, config.under)
  BY <1>1, <1>3, MadeIs DEF MadeIn, ConfigIn
<1>5. recipe.under["construct"] = Setting(rev, "construct")
  BY <1>1, <1>3 DEF Made
<1>6. recipe.under["construct"] \notin Reviewed => result.under["reviews"] = 1
  BY <1>5 DEF MadeIn, ContentsIn, Setting
<1>7. result.of = <<"construct", "result">>
  BY <1>3, KnownMade
<1> QED BY <1>3, <1>4, <1>6, <1>7, ConstructedUnder DEF ConstructionReplays

LEMMA ConstructComplete ==
  ASSUME route = "document", NEW rev, MadeIn(rev, "chunk"), MadeIn(rev, "construct")
  PROVE  ConstructReplays(rev)
<1> DEFINE recipe == Held(rev, "construct", "recipe", 0)
<1>1. Binds("construct", "recipe") = {"clean", "chunk", "construct"}
  BY DEF Binds
<1>2. "recipe" \in Fixed["construct"]
  BY DEF Fixed
<1>3. recipe = Made(rev, "construct", "recipe", Whole(rev, "construct", "recipe"))
  BY <1>2 DEF MadeIn, ContentsIn, Compared
<1>4. \A g \in {"clean", "chunk"} : recipe.under[g] = rev[g].config.under[g]
  BY <1>1, <1>3 DEF Made, Setting
<1> QED BY <1>4, ConstructionComplete DEF ConstructReplays

\* What the mapping of the rows of a source is made under.
LEMMA MappedUnder ==
  ASSUME route = "import", NEW rev, MadeIn(rev, "parse"), NEW i \in ReplaySources, NEW for,
         Held(rev, "map", "plan", 0) = Made(rev, "map", "plan", {}),
         NEW recipe, Known(rev, recipe.under), "objective" \in DOMAIN recipe.under
  PROVE  MadeUnder("map", "result", for,
                   Combined(Combined(Held(rev, "parse", "raw", i).under, Held(rev, "map", "plan", 0).under), recipe.under))
           = Made(rev, "map", "result", for)
<1> DEFINE raw == Held(rev, "parse", "raw", i)
           plan == Held(rev, "map", "plan", 0)
           under == recipe.under
           mapping == Combined(raw.under, plan.under)
<1>1. /\ Binds("parse", "raw") = {"parse"} /\ Binds("map", "plan") = {"map"}
      /\ Binds("map", "result") = {"parse", "map", "objective"}
  BY ImportSettingsOf DEF Binds
<1>2. "raw" \in PerSource("parse")
  BY DEF PerSource
<1>3. Known(rev, raw.under) /\ DOMAIN raw.under = {"parse"}
  <2>1. raw = Made(rev, "parse", "raw", {i})
    BY <1>2 DEF MadeIn, ContentsIn
  <2> QED BY <1>1, <2>1, KnownMade
<1>4. Known(rev, plan.under) /\ DOMAIN plan.under = {"map"}
  BY <1>1, KnownMade
<1>5. Known(rev, under) /\ "objective" \in DOMAIN under
  OBVIOUS
<1> HIDE DEF raw, plan, under
<1>6. Known(rev, mapping) /\ DOMAIN mapping = {"parse", "map"}
  <2>1. DOMAIN mapping = {"parse", "map"}
    BY <1>3, <1>4 DEF Combined
  <2>2. mapping["parse"] = Setting(rev, "parse") /\ mapping["map"] = Setting(rev, "map")
    BY <1>3, <1>4 DEF Combined, Known
  <2> HIDE DEF mapping
  <2> QED BY <2>1, <2>2 DEF Known
<1> HIDE DEF mapping
<1>7. Binds("map", "result") \subseteq DOMAIN mapping \cup DOMAIN under
  BY <1>1, <1>5, <1>6
<1>8. MadeUnder("map", "result", for, Combined(mapping, under)) = Made(rev, "map", "result", for)
  BY <1>5, <1>6, <1>7, CombinedIs
<1> QED BY <1>8 DEF raw, plan, under, mapping

\* A recipe that names the plan, and says something besides.
RecipeSaying(rev, for, said) ==
  MadeUnder("map", "recipe", for, Combined(Made(rev, "map", "plan", {}).under, [objective |-> said]))

LEMMA RecipeUnder ==
  ASSUME NEW rev, NEW for, NEW said
  PROVE  /\ RecipeSaying(rev, for, said).of = <<"map", "recipe">> /\ RecipeSaying(rev, for, said).for = for
         /\ DOMAIN RecipeSaying(rev, for, said).under = {"map", "objective"}
         /\ RecipeSaying(rev, for, said).under["map"] = Setting(rev, "map")
         /\ RecipeSaying(rev, for, said).under["objective"] = said
<1> DEFINE under == Made(rev, "map", "plan", {}).under
           besides == [objective |-> said]
<1>1. Binds("map", "plan") = {"map"} /\ Binds("map", "recipe") = {"map", "objective"}
  BY DEF Binds
<1>2. under = [g \in {"map"} |-> Setting(rev, g)]
  BY <1>1 DEF Made
<1>3. DOMAIN besides = {"objective"} /\ besides["objective"] = said
  OBVIOUS
<1> HIDE DEF under, besides
<1>4. Combined(under, besides)["map"] = Setting(rev, "map") /\ Combined(under, besides)["objective"] = said
  BY <1>2, <1>3 DEF Combined
<1> QED BY <1>1, <1>4 DEF MadeUnder, RecipeSaying, under, besides

\* It is the recipe of the mapping when what it says is what the mapping was made under.
LEMMA RecipeIs ==
  ASSUME NEW rev, NEW for
  PROVE  RecipeSaying(rev, for, Setting(rev, "objective")) = Made(rev, "map", "recipe", for)
<1> DEFINE under == Made(rev, "map", "plan", {}).under
           besides == [objective |-> Setting(rev, "objective")]
<1>1. Binds("map", "plan") = {"map"} /\ Binds("map", "recipe") = {"map", "objective"}
  BY DEF Binds
<1>2. Known(rev, under) /\ DOMAIN under = {"map"}
  BY <1>1, KnownMade
<1>3. Known(rev, besides) /\ DOMAIN besides = {"objective"}
  BY DEF Known
<1> HIDE DEF under, besides
<1>4. MadeUnder("map", "recipe", for, Combined(under, besides)) = Made(rev, "map", "recipe", for)
  BY <1>1, <1>2, <1>3, CombinedIs
<1> QED BY <1>4 DEF RecipeSaying, under, besides

\* The plan of a mapping is the one its config names.
LEMMA MappingNamed ==
  ASSUME NEW rev, ConfigIn(rev, "map")
  PROVE  MadeUnder("map", "plan", {}, rev["map"].config.under) = Made(rev, "map", "plan", {})
<1>1. Binds("map", "plan") = {"map"} /\ NamedBy("map") = {"map"}
  BY DEF Binds, NamedBy, Finished
<1> QED BY <1>1, MadeIs DEF ConfigIn

LEMMA MapSound ==
  ASSUME route = "import", NEW rev, Earlier(rev, "map"), Asked(rev, "map"), MapReplays(rev)
  PROVE  MadeIn(rev, "map")
<1> DEFINE config == rev["map"].config
           plan == Held(rev, "map", "plan", 0)
           recipe == Held(rev, "map", "recipe", 0)
           result == Held(rev, "map", "result", 0)
           mapped(i) == Combined(Combined(Held(rev, "parse", "raw", i).under, plan.under), recipe.under)
<1>1. ConfigIn(rev, "map") /\ StatusIn(rev, "map")
  BY OwnConfig
<1>2. MadeIn(rev, "parse")
  BY ImportUpTo DEF Earlier
<1>3. plan = Made(rev, "map", "plan", {})
  BY <1>1, MappingNamed DEF MapReplays
<1>4. PICK i \in ReplaySources : i \in config.selected
  BY ImportOrder DEF Asked
<1>5. result = MadeUnder("map", "result", config.selected, mapped(i))
  BY <1>4, Zenon DEF MapReplays, MappedAgain
<1>6. recipe = RecipeSaying(rev, config.selected, recipe.under["objective"])
  BY <1>3 DEF MapReplays, RecipeSaying
<1>7. DOMAIN recipe.under = {"map", "objective"} /\ recipe.under["map"] = Setting(rev, "map")
  BY <1>6, RecipeUnder
\* The mapping was made under what the recipe says.
<1>8. recipe.under["objective"] = Setting(rev, "objective")
  <2>1. "objective" \in Binds("map", "result")
    BY ImportSettingsOf DEF Binds
  <2>2. DOMAIN Held(rev, "parse", "raw", i).under = {"parse"} /\ DOMAIN plan.under = {"map"}
    <3>1. Binds("parse", "raw") = {"parse"} /\ Binds("map", "plan") = {"map"} /\ "raw" \in PerSource("parse")
      BY ImportSettingsOf DEF Binds, PerSource
    <3>2. Held(rev, "parse", "raw", i) = Made(rev, "parse", "raw", {i})
      BY <1>2, <3>1 DEF MadeIn, ContentsIn
    <3> QED BY <1>3, <3>1, <3>2, KnownMade
  <2> HIDE DEF plan, recipe
  <2>3. mapped(i)["objective"] = recipe.under["objective"]
    BY <1>7, <2>2 DEF Combined
  <2> HIDE DEF mapped
  <2>4. result.under["objective"] = mapped(i)["objective"]
    BY <1>5, <2>1 DEF MadeUnder
  <2> QED BY <2>3, <2>4 DEF Setting, result
<1>9. recipe = Made(rev, "map", "recipe", config.selected)
  BY <1>6, <1>8, RecipeIs
<1>10. result = Made(rev, "map", "result", config.selected)
  <2>1. Known(rev, recipe.under) /\ "objective" \in DOMAIN recipe.under
    BY <1>7, <1>8 DEF Known
  <2> QED BY <1>2, <1>3, <1>5, <2>1, MappedUnder
<1>11. /\ Fixed["map"] = {"plan", "recipe", "result"} /\ PerSource("map") = {}
       /\ Whole(rev, "map", "plan") = {} /\ Whole(rev, "map", "recipe") = config.selected
       /\ Whole(rev, "map", "result") = config.selected
  BY ImportOrder DEF Fixed, PerSource, Whole
<1>12. ContentsIn(rev, "map")
  BY <1>3, <1>9, <1>10, <1>11 DEF ContentsIn
<1> QED BY <1>1, <1>12 DEF MadeIn

\* A mapping that is what it is made as is made again the same, under the recipe that is stored.
LEMMA MappingIs ==
  ASSUME route = "import", NEW rev, MadeIn(rev, "parse"), MadeIn(rev, "map")
  PROVE  /\ Held(rev, "map", "plan", 0) = Made(rev, "map", "plan", {})
         /\ Held(rev, "map", "recipe", 0) = Made(rev, "map", "recipe", rev["map"].config.selected)
         /\ Held(rev, "map", "recipe", 0).under["objective"] = Setting(rev, "objective")
         /\ MappedAgain(rev, rev["map"].config.selected, Held(rev, "map", "recipe", 0))
<1> DEFINE selected == rev["map"].config.selected
           recipe == Held(rev, "map", "recipe", 0)
<1>1. /\ Fixed["map"] = {"plan", "recipe", "result"}
      /\ Whole(rev, "map", "plan") = {} /\ Whole(rev, "map", "recipe") = selected
      /\ Whole(rev, "map", "result") = selected
  BY ImportOrder DEF Fixed, Whole
<1>2. /\ Held(rev, "map", "plan", 0) = Made(rev, "map", "plan", {})
      /\ recipe = Made(rev, "map", "recipe", selected)
      /\ Held(rev, "map", "result", 0) = Made(rev, "map", "result", selected)
  BY <1>1 DEF MadeIn, ContentsIn, Compared
<1>3. Known(rev, recipe.under) /\ DOMAIN recipe.under = {"map", "objective"}
  <2>1. Binds("map", "recipe") = {"map", "objective"}
    BY DEF Binds
  <2> QED BY <1>2, <2>1, KnownMade
<1>4. selected \subseteq ReplaySources
  BY ImportOrder DEF MadeIn, ConfigIn
<1>5. MappedAgain(rev, selected, recipe)
  BY <1>2, <1>3, <1>4, MappedUnder DEF MappedAgain
<1> QED BY <1>2, <1>3, <1>5 DEF Known

LEMMA MapComplete ==
  ASSUME route = "import", NEW rev, MadeIn(rev, "parse"), MadeIn(rev, "map")
  PROVE  MapReplays(rev)
<1> DEFINE config == rev["map"].config
           plan == Held(rev, "map", "plan", 0)
           recipe == Held(rev, "map", "recipe", 0)
<1>1. /\ plan = Made(rev, "map", "plan", {}) /\ recipe = Made(rev, "map", "recipe", config.selected)
      /\ recipe.under["objective"] = Setting(rev, "objective")
      /\ MappedAgain(rev, config.selected, recipe)
  BY MappingIs
<1>2. plan = MadeUnder("map", "plan", {}, config.under)
  BY <1>1, MappingNamed DEF MadeIn
<1>3. recipe = MadeUnder("map", "recipe", config.selected,
                         Combined(plan.under, [objective |-> recipe.under["objective"]]))
  BY <1>1, RecipeIs DEF RecipeSaying
<1>4. recipe.of = <<"map", "recipe">>
  BY <1>1, KnownMade
<1> QED BY <1>1, <1>2, <1>3, <1>4 DEF MapReplays

\* replay_captured_mapping finds the mapping of the plan when the recipe says nothing else.
LEMMA MatchesIs ==
  ASSUME route = "import", NEW rev, MadeIn(rev, "parse"), MadeIn(rev, "map")
  PROVE  MappingMatches(rev) <=> Setting(rev, "objective") = 1
<1> DEFINE plan == Held(rev, "map", "plan", 0)
           recipe == Held(rev, "map", "recipe", 0)
           selected == rev["map"].config.selected
           rebuilt == RecipeSaying(rev, selected, 1)
<1>1. /\ plan = Made(rev, "map", "plan", {}) /\ recipe = Made(rev, "map", "recipe", selected)
      /\ recipe.under["objective"] = Setting(rev, "objective")
      /\ MappedAgain(rev, selected, recipe)
  BY MappingIs
<1>2. recipe.for = selected
  BY <1>1, KnownMade
<1>3. MappingMatches(rev) <=> recipe = rebuilt /\ MappedAgain(rev, selected, rebuilt)
  BY <1>1, <1>2 DEF MappingMatches, RecipeSaying
<1>4. ASSUME recipe = rebuilt
      PROVE  Setting(rev, "objective") = 1
  BY <1>1, <1>4, RecipeUnder
<1>5. ASSUME Setting(rev, "objective") = 1
      PROVE  recipe = rebuilt
  BY <1>1, <1>5, RecipeIs
<1> HIDE DEF rebuilt, recipe
<1> QED BY <1>1, <1>3, <1>4, <1>5

-----------------------------------------------------------------------------
(* The stages of a finished dataset *)

Routed == route \in {"document", "import"}
PlanSettings == IF route = "document" THEN DocumentSettings ELSE ImportSettings
Records(rev) == rev[Scoping].config.selected

LEMMA FinishedSettings ==
  ASSUME Routed
  PROVE  /\ \A s \in Finished : \A n : Binds(s, n) = PlanSettings
         /\ \A s \in Finished : NamedBy(s) = PlanSettings
         /\ Binds(Scoping, "result") = PlanSettings \ {"curate"} /\ "curate" \in PlanSettings
         /\ \A s \in Finished : \A rev, n : Whole(rev, s, n) = Records(rev)
         /\ \A rev : Whole(rev, Scoping, "result") = Records(rev)
         /\ "result" \in Fixed[Scoping] /\ Compared(Scoping, "result") /\ Scoping \notin Finished
<1>1. \A s \in Finished : SettingsOf(s) = PlanSettings
  BY DocumentSettingsOf, ImportSettingsOf DEF Routed, PlanSettings
<1>2. \A s \in Finished : s # "construct" /\ s # "map" /\ s # "parse"
  BY DEF Finished
<1>3. \A s \in Finished : \A n : Binds(s, n) = PlanSettings
  BY <1>1, <1>2 DEF Binds
<1>4. \A s \in Finished : NamedBy(s) = PlanSettings
  <2>1. "curate" \in Finished
    BY DEF Finished
  <2> QED BY <1>1, <1>2, <2>1 DEF NamedBy
<1>5. Binds(Scoping, "result") = PlanSettings \ {"curate"} /\ "curate" \in PlanSettings
  BY DocumentSettingsOf, ImportSettingsOf
     DEF Routed, PlanSettings, Scoping, Binds, DocumentSettings, ImportSettings
<1>6. \A s \in Finished : \A rev, n : Whole(rev, s, n) = Records(rev)
  BY <1>2 DEF Whole, Records
<1>7. \A rev : Whole(rev, Scoping, "result") = Records(rev)
  BY DEF Whole, Records
<1>8. "result" \in Fixed[Scoping] /\ Compared(Scoping, "result") /\ Scoping \notin Finished
  BY DEF Fixed, Scoping, Compared, Finished
<1> QED BY <1>3, <1>4, <1>5, <1>6, <1>7, <1>8

LEMMA RecordsKnown ==
  ASSUME Routed, NEW rev, MadeIn(rev, Scoping)
  PROVE  /\ MadeRecords(rev).for = Records(rev) /\ Known(rev, MadeRecords(rev).under)
         /\ DOMAIN MadeRecords(rev).under = PlanSettings \ {"curate"}
<1>1. MadeRecords(rev) = Made(rev, Scoping, "result", Records(rev))
  BY FinishedSettings DEF MadeIn, ContentsIn, MadeRecords
<1> QED BY <1>1, FinishedSettings, KnownMade

MadePlan(rev) == Held(rev, "curate", "plan", 0) = Made(rev, "curate", "plan", Records(rev))

LEMMA PlanKnown ==
  ASSUME Routed, NEW rev, MadePlan(rev)
  PROVE  /\ Known(rev, Held(rev, "curate", "plan", 0).under)
         /\ DOMAIN Held(rev, "curate", "plan", 0).under = PlanSettings
<1>1. Binds("curate", "plan") = PlanSettings
  BY FinishedSettings DEF Finished
<1> QED BY <1>1, KnownMade DEF MadePlan

\* The plan of a dataset names the records it is for, and the stage names the plan.
LEMMA PlanSound ==
  ASSUME Routed, NEW rev, NEW s \in Finished, MadeIn(rev, Scoping), Asked(rev, s), PlanHolds(rev, s),
         s # "curate" => MadePlan(rev)
  PROVE  ConfigIn(rev, s) /\ MadePlan(rev)
<1> DEFINE plan == Held(rev, "curate", "plan", 0)
           under == rev[s].config.under
           records == MadeRecords(rev)
<1>1. DOMAIN under = PlanSettings /\ Binds("curate", "plan") = PlanSettings /\ NamedBy(s) = PlanSettings
  BY FinishedSettings DEF Asked, Finished
<1>2. records.for = Records(rev) /\ Known(rev, records.under) /\ DOMAIN records.under = PlanSettings \ {"curate"}
  BY RecordsKnown
<1>3. plan = MadeUnder("curate", "plan", records.for, under) /\ \A g \in DOMAIN records.under : plan.under[g] = records.under[g]
  BY DEF PlanHolds
<1>4. s # Scoping /\ s # "parse"
  BY FinishedSettings DEF Finished
<1>5. s = "curate" => under["curate"] = Setting(rev, "curate")
  BY DEF Setting
<1>6. s # "curate" => Known(rev, plan.under) /\ DOMAIN plan.under = PlanSettings
  BY PlanKnown
<1> HIDE DEF plan, under, records
<1>7. \A g \in PlanSettings : plan.under[g] = under[g]
  BY <1>1, <1>3 DEF MadeUnder
<1>8. \A g \in PlanSettings : under[g] = Setting(rev, g)
  <2>1. CASE s = "curate"
    <3>1. \A g \in PlanSettings \ {"curate"} : plan.under[g] = Setting(rev, g)
      BY <1>2, <1>3 DEF Known
    <3> QED BY <1>5, <1>7, <2>1, <3>1
  <2>2. CASE s # "curate"
    BY <1>6, <1>7, <2>2 DEF Known
  <2> QED BY <2>1, <2>2
<1>9. Known(rev, under)
  BY <1>1, <1>8 DEF Known
<1>10. plan = Made(rev, "curate", "plan", Records(rev))
  BY <1>1, <1>2, <1>3, <1>9, MadeIs
<1> QED BY <1>1, <1>4, <1>9, <1>10 DEF ConfigIn, MadePlan, plan, under

LEMMA PlanComplete ==
  ASSUME Routed, NEW rev, NEW s \in Finished, MadeIn(rev, Scoping), MadePlan(rev), ConfigIn(rev, s)
  PROVE  PlanHolds(rev, s)
<1> DEFINE plan == Held(rev, "curate", "plan", 0)
           under == rev[s].config.under
           records == MadeRecords(rev)
<1>1. DOMAIN under = PlanSettings /\ Binds("curate", "plan") = PlanSettings /\ Known(rev, under)
  BY FinishedSettings DEF ConfigIn, Finished
<1>2. records.for = Records(rev) /\ Known(rev, records.under) /\ DOMAIN records.under = PlanSettings \ {"curate"}
  BY RecordsKnown
<1>3. Known(rev, plan.under) /\ DOMAIN plan.under = PlanSettings
  BY PlanKnown
<1>4. plan = Made(rev, "curate", "plan", Records(rev))
  BY DEF MadePlan
<1> HIDE DEF plan, under, records
<1>5. MadeUnder("curate", "plan", records.for, under) = plan
  BY <1>1, <1>2, <1>4, MadeIs
<1>6. \A g \in DOMAIN records.under : plan.under[g] = records.under[g]
  BY <1>2, <1>3 DEF Known
<1> QED BY <1>5, <1>6 DEF PlanHolds, plan, under, records

\* What is made again from the records under the plan is what the stage makes.
LEMMA AgainIs ==
  ASSUME Routed, NEW rev, MadeIn(rev, Scoping), MadePlan(rev), NEW s \in Finished, NEW names
  PROVE  SameAgain(rev, s, names) <=> \A n \in names : Held(rev, s, n, 0) = Made(rev, s, n, Whole(rev, s, n))
<1> DEFINE plan == Held(rev, "curate", "plan", 0)
<1>1. Known(rev, plan.under) /\ DOMAIN plan.under = PlanSettings
  BY PlanKnown
<1>2. \A n : Binds(s, n) = PlanSettings /\ Whole(rev, s, n) = Records(rev)
  BY FinishedSettings
<1>3. MadeRecords(rev).for = Records(rev)
  BY RecordsKnown
<1>4. \A n : Again(rev, s, n) = MadeUnder(s, n, Records(rev), plan.under)
  BY <1>3 DEF Again
<1> HIDE DEF plan
<1>5. \A n : MadeUnder(s, n, Records(rev), plan.under) = Made(rev, s, n, Records(rev))
  BY <1>1, <1>2, MadeIs
<1> QED BY <1>2, <1>4, <1>5 DEF SameAgain

LEMMA NamesOfFinished ==
  /\ Fixed["curate"] = {"plan", "result"} /\ Fixed["split"] = {"result"}
  /\ Fixed["format"] = {"row-set", "train", "evaluation", "provenance"}
  /\ Fixed["validate"] = {"snapshot", "report"} /\ Fixed["seal"] = {"manifest", "attestation"}
  /\ \A s \in Finished : PerSource(s) = {} /\ s # "construct"
  /\ \A s, n : s # "validate" \/ n # "snapshot" \/ route # "import" => Compared(s, n)
  /\ Finished = {"curate", "split", "format", "validate", "seal"}
<1>1. \A s \in Finished : PerSource(s) = {} /\ s # "construct"
  BY DEF Finished, PerSource
<1> QED BY <1>1 DEF Fixed, Compared, Finished

\* What stands before a finished stage.
LEMMA BeforeFinished ==
  ASSUME Routed, NEW rev, NEW s \in Finished, Earlier(rev, s)
  PROVE  /\ MadeIn(rev, Scoping) /\ (route = "document" => MadeIn(rev, "chunk"))
         /\ s # "curate" => MadeIn(rev, "curate")
         /\ s \notin {"curate", "split"} => MadeIn(rev, "split")
         /\ s \in {"validate", "seal"} => MadeIn(rev, "format")
         /\ s = "seal" => MadeIn(rev, "validate")
         /\ route = "import" => MadeIn(rev, "parse") /\ MadeIn(rev, "map")
<1>1. CASE route = "document"
  BY <1>1, DocumentUpTo DEF Earlier, Scoping, Finished, DocumentStages
<1>2. CASE route = "import"
  BY <1>2, ImportUpTo DEF Earlier, Scoping, Finished, ImportStages
<1> QED BY <1>1, <1>2 DEF Routed

LEMMA ContextComplete ==
  ASSUME Routed, NEW rev, NEW s \in Finished, Earlier(rev, s)
  PROVE  ContextReplays(rev)
<1>1. MadeIn(rev, Scoping) /\ (route = "document" => MadeIn(rev, "chunk"))
  BY BeforeFinished
<1> QED BY <1>1, ConstructionComplete DEF ContextReplays, Scoping

\* The plan of a stage after the curation is that of the curation.
LEMMA PlanOfCuration ==
  ASSUME Routed, NEW rev, MadeIn(rev, "curate")
  PROVE  MadePlan(rev)
BY FinishedSettings, NamesOfFinished DEF MadeIn, ContentsIn, MadePlan

\* What makes a finished stage sound: its plan and its contents.
LEMMA FinishedMade ==
  ASSUME Routed, NEW rev, NEW s \in Finished, ConfigIn(rev, s), StatusIn(rev, s),
         \A n \in Fixed[s] : Compared(s, n) => Held(rev, s, n, 0) = Made(rev, s, n, Whole(rev, s, n))
  PROVE  MadeIn(rev, s)
BY NamesOfFinished DEF MadeIn, ContentsIn

\* validate_finished_rows: curation, split and rows made again.
LEMMA RowsSound ==
  ASSUME Routed, NEW rev, NEW s \in {"curate", "split", "format"}, Earlier(rev, s), Asked(rev, s), RowsReplay(rev, s)
  PROVE  MadeIn(rev, s)
<1>1. s \in Finished /\ s # "validate"
  BY DEF Finished
<1>2. MadeIn(rev, Scoping) /\ (s # "curate" => MadePlan(rev))
  BY <1>1, BeforeFinished, PlanOfCuration
<1>3. ConfigIn(rev, s) /\ MadePlan(rev)
  BY <1>1, <1>2, PlanSound DEF RowsReplay
<1>4. StatusIn(rev, s)
  BY <1>1 DEF StatusIn, Asked
<1>5. \A n \in Fixed[s] : Held(rev, s, n, 0) = Made(rev, s, n, Whole(rev, s, n))
  <2>1. CASE s = "curate"
    <3>1. SameAgain(rev, "curate", {"result"})
      BY DEF RowsReplay, RowsAgain
    <3>2. Held(rev, "curate", "result", 0) = Made(rev, "curate", "result", Whole(rev, "curate", "result"))
      BY <1>1, <1>2, <1>3, <2>1, <3>1, AgainIs
    <3>3. Held(rev, "curate", "plan", 0) = Made(rev, "curate", "plan", Whole(rev, "curate", "plan"))
      BY <1>1, <1>3, <2>1, FinishedSettings DEF MadePlan
    <3> QED BY <2>1, <3>2, <3>3, NamesOfFinished
  <2>2. CASE s = "split"
    <3>1. SameAgain(rev, "split", {"result"})
      BY <2>2 DEF RowsReplay, RowsAgain
    <3> QED BY <1>1, <1>2, <1>3, <2>2, <3>1, AgainIs, NamesOfFinished
  <2>3. CASE s = "format"
    <3>1. SameAgain(rev, "format", Fixed["format"])
      BY <2>3 DEF RowsReplay, RowsAgain
    <3> QED BY <1>1, <1>2, <1>3, <2>3, <3>1, AgainIs
  <2> QED BY <2>1, <2>2, <2>3
<1> QED BY <1>1, <1>3, <1>4, <1>5, FinishedMade

\* Curation, split and rows that are as they are made are made again the same.
LEMMA RowsAgainHold ==
  ASSUME Routed, NEW rev, NEW s \in Finished, MadeIn(rev, Scoping), MadeIn(rev, "curate"),
         s # "curate" => MadeIn(rev, "split"), s \notin {"curate", "split"} => MadeIn(rev, "format")
  PROVE  RowsAgain(rev, s)
<1>1. MadePlan(rev)
  BY PlanOfCuration
<1>2. SameAgain(rev, "curate", {"result"})
  <2>1. Held(rev, "curate", "result", 0) = Made(rev, "curate", "result", Whole(rev, "curate", "result"))
    BY NamesOfFinished DEF MadeIn, ContentsIn
  <2> QED BY <1>1, <2>1, AgainIs, NamesOfFinished
<1>3. s # "curate" => SameAgain(rev, "split", {"result"})
  <2>1. s # "curate" => Held(rev, "split", "result", 0) = Made(rev, "split", "result", Whole(rev, "split", "result"))
    BY NamesOfFinished DEF MadeIn, ContentsIn
  <2> QED BY <1>1, <2>1, AgainIs, NamesOfFinished
<1>4. s \notin {"curate", "split"} => SameAgain(rev, "format", Fixed["format"])
  <2>1. s \notin {"curate", "split"} =>
          \A n \in Fixed["format"] : Held(rev, "format", n, 0) = Made(rev, "format", n, Whole(rev, "format", n))
    BY NamesOfFinished DEF MadeIn, ContentsIn
  <2> QED BY <1>1, <2>1, AgainIs, NamesOfFinished
<1> QED BY <1>2, <1>3, <1>4 DEF RowsAgain

LEMMA RowsComplete ==
  ASSUME Routed, NEW rev, NEW s \in Finished, Earlier(rev, s), MadeIn(rev, s)
  PROVE  RowsReplay(rev, s) /\ PlanHolds(rev, s) /\ RowsAgain(rev, s) /\ ContextReplays(rev)
<1>1. /\ MadeIn(rev, Scoping) /\ MadeIn(rev, "curate") /\ (s # "curate" => MadeIn(rev, "split"))
      /\ s \notin {"curate", "split"} => MadeIn(rev, "format")
  BY BeforeFinished, NamesOfFinished
<1>2. RowsAgain(rev, s)
  BY <1>1, RowsAgainHold
<1>3. PlanHolds(rev, s)
  BY <1>1, PlanOfCuration, PlanComplete DEF MadeIn
<1> QED BY <1>2, <1>3, ContextComplete DEF RowsReplay

\* What the gates say of a dataset that is as it is made.
LEMMA PassesIs ==
  ASSUME Routed, NEW rev, MadeIn(rev, Scoping), MadeIn(rev, "curate"), MadeIn(rev, "split"), MadeIn(rev, "format"),
         route = "import" => MadeIn(rev, "parse") /\ MadeIn(rev, "map")
  PROVE  Passes(rev) <=> Passing(rev)
<1>1. RowsAgain(rev, "validate")
  BY RowsAgainHold, NamesOfFinished
<1>2. Held(rev, "curate", "plan", 0).under["curate"] = Setting(rev, "curate")
  BY PlanOfCuration, PlanKnown, FinishedSettings DEF Known
<1>3. route = "import" => (MappingMatches(rev) <=> Setting(rev, "objective") = 1)
  BY MatchesIs
<1> QED BY <1>1, <1>2, <1>3 DEF Passes, Passing

\* validate_finished_validation
LEMMA ValidationSound ==
  ASSUME Routed, NEW rev, Earlier(rev, "validate"), Asked(rev, "validate"), ValidationReplays(rev)
  PROVE  MadeIn(rev, "validate")
<1>1. "validate" \in Finished /\ Fixed["validate"] = {"snapshot", "report"}
  BY NamesOfFinished
<1>2. /\ MadeIn(rev, Scoping) /\ MadeIn(rev, "curate") /\ MadeIn(rev, "split") /\ MadeIn(rev, "format")
      /\ route = "import" => MadeIn(rev, "parse") /\ MadeIn(rev, "map")
  BY <1>1, BeforeFinished
<1>3. PlanHolds(rev, "validate") /\ SameAgain(rev, "validate", {"report"})
  BY DEF ValidationReplays, Validatable, RowsReplay, ReportReplays
<1>4. ConfigIn(rev, "validate") /\ MadePlan(rev)
  BY <1>1, <1>2, <1>3, PlanOfCuration, PlanSound
<1>5. StatusIn(rev, "validate")
  <2>1. rev["validate"].status \in {"complete", "failed"}
    BY DEF Asked
  <2>2. (rev["validate"].status = "complete") <=> Passes(rev)
    BY DEF ValidationReplays, ReportReplays
  <2>3. Passes(rev) <=> Passing(rev)
    BY <1>2, PassesIs
  <2> QED BY <2>1, <2>2, <2>3 DEF StatusIn
<1>6. Held(rev, "validate", "report", 0) = Made(rev, "validate", "report", Whole(rev, "validate", "report"))
  BY <1>1, <1>2, <1>3, <1>4, AgainIs
<1>7. Compared("validate", "snapshot") =>
        Held(rev, "validate", "snapshot", 0) = Made(rev, "validate", "snapshot", Whole(rev, "validate", "snapshot"))
  <2>1. Compared("validate", "snapshot") => SameAgain(rev, "validate", {"snapshot"})
    BY DEF ValidationReplays, Compared, Routed
  <2> QED BY <1>1, <1>2, <1>4, <2>1, AgainIs
<1> QED BY <1>1, <1>4, <1>5, <1>6, <1>7, FinishedMade

LEMMA ValidationComplete ==
  ASSUME Routed, NEW rev, Earlier(rev, "validate"), MadeIn(rev, "validate")
  PROVE  ValidationReplays(rev)
<1>1. "validate" \in Finished /\ Fixed["validate"] = {"snapshot", "report"}
  BY NamesOfFinished
<1>2. /\ MadeIn(rev, Scoping) /\ MadeIn(rev, "curate") /\ MadeIn(rev, "split") /\ MadeIn(rev, "format")
      /\ route = "import" => MadeIn(rev, "parse") /\ MadeIn(rev, "map")
  BY <1>1, BeforeFinished
<1>3. RowsReplay(rev, "validate") /\ PlanHolds(rev, "validate") /\ ContextReplays(rev)
  BY <1>1, RowsComplete
<1>4. Validatable(rev, "validate")
  BY <1>3 DEF Validatable, ContextReplays, Routed
<1>5. SameAgain(rev, "validate", {"report"}) /\ (route = "document" => SameAgain(rev, "validate", {"snapshot"}))
  <2>1. /\ Held(rev, "validate", "report", 0) = Made(rev, "validate", "report", Whole(rev, "validate", "report"))
        /\ route = "document" =>
             Held(rev, "validate", "snapshot", 0) = Made(rev, "validate", "snapshot", Whole(rev, "validate", "snapshot"))
    BY <1>1 DEF MadeIn, ContentsIn, Compared
  <2> QED BY <1>1, <1>2, <2>1, AgainIs, PlanOfCuration
<1>6. (rev["validate"].status = "complete") = Passes(rev)
  <2>1. rev["validate"].status = "complete" <=> Passing(rev)
    BY DEF MadeIn, StatusIn
  <2>2. Passes(rev) <=> Passing(rev)
    BY <1>2, PassesIs
  <2> QED BY <2>1, <2>2 DEF Passes
<1> QED BY <1>4, <1>5, <1>6 DEF ValidationReplays, ReportReplays

\* validate_finished_seal
LEMMA SealReplaySound ==
  ASSUME Routed, NEW rev, Earlier(rev, "seal"), Asked(rev, "seal"), SealReplays(rev)
  PROVE  MadeIn(rev, "seal")
<1>1. "seal" \in Finished /\ Fixed["seal"] = {"manifest", "attestation"}
  BY NamesOfFinished
<1>2. MadeIn(rev, Scoping) /\ MadeIn(rev, "curate")
  BY <1>1, BeforeFinished
<1>3. PlanHolds(rev, "seal") /\ SameAgain(rev, "seal", {"manifest", "attestation"})
  BY DEF SealReplays, Validatable, RowsReplay, ReceiptsReplay
<1>4. ConfigIn(rev, "seal") /\ MadePlan(rev)
  BY <1>1, <1>2, <1>3, PlanOfCuration, PlanSound
<1>5. StatusIn(rev, "seal")
  BY DEF StatusIn, Asked
<1>6. \A n \in Fixed["seal"] : Held(rev, "seal", n, 0) = Made(rev, "seal", n, Whole(rev, "seal", n))
  BY <1>1, <1>2, <1>3, <1>4, AgainIs
<1> QED BY <1>1, <1>4, <1>5, <1>6, FinishedMade

LEMMA SealReplayComplete ==
  ASSUME Routed, NEW rev, Earlier(rev, "seal"), MadeIn(rev, "seal"), rev["validate"].status = "complete"
  PROVE  SealReplays(rev)
<1>1. /\ "seal" \in Finished /\ "validate" \in Finished /\ Fixed["seal"] = {"manifest", "attestation"}
      /\ "report" \in Fixed["validate"] /\ Compared("validate", "report")
  BY NamesOfFinished
<1>2. /\ MadeIn(rev, Scoping) /\ MadeIn(rev, "curate") /\ MadeIn(rev, "split") /\ MadeIn(rev, "format")
      /\ MadeIn(rev, "validate") /\ (route = "import" => MadeIn(rev, "parse") /\ MadeIn(rev, "map"))
  BY <1>1, BeforeFinished
<1>3. RowsReplay(rev, "seal") /\ PlanHolds(rev, "seal") /\ ContextReplays(rev)
  BY <1>1, RowsComplete
<1>4. Validatable(rev, "seal")
  BY <1>3 DEF Validatable, ContextReplays, Routed
<1>5. SameAgain(rev, "validate", {"report"}) /\ SameAgain(rev, "seal", {"manifest", "attestation"})
  <2>1. /\ Held(rev, "validate", "report", 0) = Made(rev, "validate", "report", Whole(rev, "validate", "report"))
        /\ \A n \in {"manifest", "attestation"} : Held(rev, "seal", n, 0) = Made(rev, "seal", n, Whole(rev, "seal", n))
    BY <1>1, <1>2 DEF MadeIn, ContentsIn, Compared
  <2> QED BY <1>1, <1>2, <2>1, AgainIs, PlanOfCuration
<1>6. Passes(rev)
  <2>1. Passing(rev)
    BY <1>2 DEF MadeIn, StatusIn
  <2> QED BY <1>2, <2>1, PassesIs
<1> QED BY <1>4, <1>5, <1>6 DEF SealReplays, ReceiptsReplay

-----------------------------------------------------------------------------
(* Every stage *)

LEMMA StagesOf ==
  ASSUME Routed, NEW s \in ReplayStages
  PROVE  /\ s \in {"parse", "construct", "clean", "chunk", "map"} \cup Finished
         /\ s \in {"clean", "chunk", "construct"} => route = "document"
         /\ s = "map" => route = "import"
BY DocumentOrder, ImportOrder DEF Routed, DocumentStages, ImportStages, Finished

\* _validate_stage_semantics refuses a stage that is not what it makes of what is before it.
\* What a mapping recipe says besides its plan and its sources is not decided by it: any
\* such recipe is taken, with the mapping that is made under it, and the gates say later
\* whether it is the one of the plan.
THEOREM ReplaySound ==
  ASSUME Routed, NEW s \in ReplayStages, NEW rev, Earlier(rev, s), Asked(rev, s), Replays(s, rev)
  PROVE  MadeIn(rev, s)
<1>1. CASE s = "parse"
  BY <1>1, ParseSound, RowSourcesSound DEF Replays, Routed
<1>2. CASE s = "clean"
  BY <1>2, StagesOf, CleanSound DEF Replays
<1>3. CASE s = "chunk"
  BY <1>3, StagesOf, ChunkSound DEF Replays
<1>4. CASE s = "construct"
  BY <1>4, StagesOf, ConstructSound DEF Replays
<1>5. CASE s = "map"
  BY <1>5, StagesOf, MapSound DEF Replays
<1>6. CASE s \in {"curate", "split", "format"}
  BY <1>6, RowsSound DEF Replays
<1>7. CASE s = "validate"
  BY <1>7, ValidationSound DEF Replays
<1>8. CASE s = "seal"
  BY <1>8, SealReplaySound DEF Replays
<1> QED BY <1>1, <1>2, <1>3, <1>4, <1>5, <1>6, <1>7, <1>8, StagesOf, NamesOfFinished

\* And refuses nothing else.
THEOREM ReplayComplete ==
  ASSUME Routed, NEW s \in ReplayStages, NEW rev, Earlier(rev, s), MadeIn(rev, s),
         s \in {"clean", "chunk"} => DerivationsBound(rev),
         s = "seal" => rev["validate"].status = "complete"
  PROVE  Replays(s, rev)
<1>1. CASE s = "parse"
  BY <1>1, ParseComplete, RowSourcesComplete DEF Replays, Routed
<1>2. CASE s = "clean"
  <2>1. route = "document" /\ MadeIn(rev, "parse")
    BY <1>2, StagesOf, DocumentUpTo DEF Earlier
  <2> QED BY <1>2, <2>1, CleanComplete DEF Replays
<1>3. CASE s = "chunk"
  <2>1. route = "document" /\ MadeIn(rev, "parse") /\ MadeIn(rev, "clean")
    BY <1>3, StagesOf, DocumentUpTo DEF Earlier
  <2> QED BY <1>3, <2>1, ChunkComplete DEF Replays
<1>4. CASE s = "construct"
  <2>1. route = "document" /\ MadeIn(rev, "chunk")
    BY <1>4, StagesOf, DocumentUpTo DEF Earlier
  <2> QED BY <1>4, <2>1, ConstructComplete DEF Replays
<1>5. CASE s = "map"
  <2>1. route = "import" /\ MadeIn(rev, "parse")
    BY <1>5, StagesOf, ImportUpTo DEF Earlier
  <2> QED BY <1>5, <2>1, MapComplete DEF Replays
<1>6. CASE s \in {"curate", "split", "format"}
  <2>1. s \in Finished
    BY <1>6 DEF Finished
  <2> QED BY <1>6, <2>1, RowsComplete DEF Replays
<1>7. CASE s = "validate"
  BY <1>7, ValidationComplete DEF Replays
<1>8. CASE s = "seal"
  BY <1>8, SealReplayComplete DEF Replays
<1> QED BY <1>1, <1>2, <1>3, <1>4, <1>5, <1>6, <1>7, <1>8, StagesOf, NamesOfFinished

-----------------------------------------------------------------------------
(* What makes a stage honest *)

\* The sources an output is of.
ScopeIn(rev, s, k) == IF k[2] # 0 THEN {k[2]} ELSE IF s \in Finished \cup {Scoping} THEN Records(rev) ELSE ReplaySources

\* What its references say of the outputs of a stage.
ReferencesIn(rev, s) ==
  /\ rev[s].config = [under |-> [g \in NamedBy(s) |-> rev[s].config.under[g]], selected |-> rev[s].config.selected]
  /\ \A k \in Required(s) :
       rev[s].outputs[k] =
         [kind |-> <<s, k[1]>>, sources |-> ScopeIn(rev, s, k), producer |-> <<s, k[1]>>,
          config |-> IF k[1] = "block-derivations" THEN DerivationDigest(rev[s].config, rev[s].outputs[k].content.under)
                     ELSE Digest(s, k, rev[s].config),
          content |-> rev[s].outputs[k].content]

\* A revision that differs from HEAD in the stage and what is after it.
OnHead(rev, s) == \A g \in UpTo(s) \ {s} : rev[g] = committed[g]

\* Up to a stage are the stages of the route whose place is not behind its own.
LEMMA UpToIs ==
  ASSUME Routed, NEW s \in ReplayStages
  PROVE  UpTo(s) = {g \in ReplayStages : Place(g) <= Place(s)}
BY DocumentOrder, ImportOrder DEF Routed

\* Every setting that the outputs of a stage depend on is of it or of a stage before it.
LEMMA SettingsBefore ==
  ASSUME Routed, NEW s \in ReplayStages
  PROVE  /\ \A g \in SettingsOf(s) : g = s \/ g = Besides \/ g \in UpTo(s) \ {s}
         /\ Besides \in SettingsOf(s) => s = Scoping \/ Scoping \in UpTo(s) \ {s}
         /\ s \in Finished => Scoping \in UpTo(s) \ {s}
         /\ \A n : Binds(s, n) \subseteq SettingsOf(s)
         /\ NamedBy(s) \subseteq SettingsOf(s) /\ (s \in Chosen(s) => s \in NamedBy(s))
         /\ (s \in SettingsOf(s) <=> s \in Chosen(s)) /\ s # Besides /\ s # "reviews" /\ s # "objective" /\ s \in UpTo(s)
         /\ s = Scoping => Besides \in SettingsOf(s) /\ s \in Chosen(s) /\ Besides \in Binds(s, "result")
<1>1. CASE route = "document"
  BY <1>1, DocumentOrder, DocumentUpTo
  DEF DocumentStages, SettingsOf, Chosen, Binds, NamedBy, Scoping, Finished, Besides
<1>2. CASE route = "import"
  BY <1>2, ImportOrder, ImportUpTo
  DEF ImportStages, SettingsOf, Chosen, Binds, NamedBy, Scoping, Finished, Besides
<1> QED BY <1>1, <1>2 DEF Routed

\* What no config decides is read off the records.
LEMMA BesidesIs ==
  ASSUME Routed, NEW rev
  PROVE  /\ Setting(rev, Besides) = MadeRecords(rev).under[Besides]
         /\ \A s \in ReplayStages : \A g \in SettingsOf(s) \ {Besides} : Setting(rev, g) = rev[g].config.under[g]
         /\ \A s \in ReplayStages : Setting(rev, s) = rev[s].config.under[s]
<1>1. Setting(rev, Besides) = MadeRecords(rev).under[Besides]
  BY DEF Setting, Besides, MadeRecords, Scoping, Routed
<1>2. ASSUME NEW s \in ReplayStages PROVE s # "reviews" /\ s # "objective"
  BY SettingsBefore
<1>3. ASSUME NEW s \in ReplayStages, NEW g \in SettingsOf(s) \ {Besides} PROVE g # "reviews" /\ g # "objective"
  <2>1. g \in ReplayStages
    BY SettingsBefore, UpToIs
  <2> QED BY <2>1, <1>2
<1> QED BY <1>1, <1>2, <1>3 DEF Setting

\* The settings a run of the stage takes are those the revision was made under.
LEMMA UnderIs ==
  ASSUME Routed, NEW s \in ReplayStages, NEW rev, OnHead(rev, s), NEW own, NEW besides,
         s \in Chosen(s) => own = Setting(rev, s), s = Scoping => besides = Setting(rev, Besides)
  PROVE  Under(s, own, besides) = [g \in SettingsOf(s) |-> Setting(rev, g)]
<1> SUFFICES ASSUME NEW g \in SettingsOf(s)
             PROVE  (IF g = s THEN own
                     ELSE IF g # Besides THEN committed[g].config.under[g]
                     ELSE IF s = Scoping THEN besides
                     ELSE committed[Scoping].outputs[<<"result", 0>>].content.under[Besides]) = Setting(rev, g)
  BY DEF Under
<1>1. CASE g = s
  BY <1>1, SettingsBefore
<1>2. CASE g # s /\ g # Besides
  <2>1. rev[g] = committed[g]
    BY <1>2, SettingsBefore DEF OnHead
  <2> QED BY <1>2, <2>1, BesidesIs
<1>3. CASE g = Besides
  <2>1. s # Scoping => rev[Scoping] = committed[Scoping]
    BY <1>3, SettingsBefore DEF OnHead
  <2>2. Setting(rev, Besides) = rev[Scoping].outputs[<<"result", 0>>].content.under[Besides]
    BY BesidesIs DEF MadeRecords, Held
  <2>3. g # s
    BY <1>3, SettingsBefore
  <2> QED BY <1>3, <2>1, <2>2, <2>3
<1> QED BY <1>1, <1>2, <1>3

LEMMA KeysOf ==
  ASSUME NEW s, NEW k \in Required(s)
  PROVE  /\ k = <<k[1], k[2]>>
         /\ k[2] = 0 => k[1] \in Fixed[s]
         /\ k[2] # 0 => k[1] \in PerSource(s) /\ k[2] \in ReplaySources
<1>1. CASE k \in Fixed[s] \X {0}
  BY <1>1
<1>2. CASE k \in PerSource(s) \X ReplaySources
  <2>1. k[2] # 0
    BY <1>2, SourcesAssumption
  <2> QED BY <1>2, <2>1
<1> QED BY <1>1, <1>2 DEF Required

LEMMA KeysAre ==
  ASSUME NEW s
  PROVE  /\ \A n \in Fixed[s] : <<n, 0>> \in Required(s)
         /\ \A n \in PerSource(s), i \in ReplaySources : <<n, i>> \in Required(s) /\ i # 0
<1>1. \A i \in ReplaySources : i # 0
  BY SourcesAssumption
<1> QED BY <1>1 DEF Required

\* The sources whose content an output holds.
For(rev, s, k) == IF k[2] # 0 THEN {k[2]} ELSE Whole(rev, s, k[1])
MadeAt(rev, s, k) == Made(rev, s, k[1], For(rev, s, k))

LEMMA ContentsAt ==
  ASSUME NEW rev, NEW s
  PROVE  /\ ContentsIn(rev, s) => \A k \in Required(s) : Compared(s, k[1]) => rev[s].outputs[k].content = MadeAt(rev, s, k)
         /\ /\ \A k \in Required(s) : Compared(s, k[1]) => rev[s].outputs[k].content = MadeAt(rev, s, k)
            /\ s = "construct" /\ Setting(rev, "construct") \notin Reviewed => Setting(rev, "reviews") = 1
            => ContentsIn(rev, s)
<1>1. ASSUME ContentsIn(rev, s), NEW k \in Required(s), Compared(s, k[1])
      PROVE  rev[s].outputs[k].content = MadeAt(rev, s, k)
  <2> DEFINE n == k[1]
             i == k[2]
  <2>1. k = <<n, i>> /\ (i = 0 => n \in Fixed[s]) /\ (i # 0 => n \in PerSource(s) /\ i \in ReplaySources)
    BY KeysOf
  <2>2. Compared(s, n) /\ For(rev, s, k) = IF i # 0 THEN {i} ELSE Whole(rev, s, n)
    BY <1>1 DEF For
  <2>3. MadeAt(rev, s, k) = Made(rev, s, n, For(rev, s, k))
    BY DEF MadeAt
  <2> HIDE DEF n, i
  <2>4. Held(rev, s, n, i) = Made(rev, s, n, For(rev, s, k))
    BY <1>1, <2>1, <2>2 DEF ContentsIn
  <2> QED BY <2>1, <2>3, <2>4 DEF Held
<1>2. ASSUME \A k \in Required(s) : Compared(s, k[1]) => rev[s].outputs[k].content = MadeAt(rev, s, k),
             s = "construct" /\ Setting(rev, "construct") \notin Reviewed => Setting(rev, "reviews") = 1
      PROVE  ContentsIn(rev, s)
  <2>1. ASSUME NEW n \in Fixed[s], Compared(s, n) PROVE Held(rev, s, n, 0) = Made(rev, s, n, Whole(rev, s, n))
    <3>1. <<n, 0>> \in Required(s) /\ <<n, 0>>[1] = n /\ <<n, 0>>[2] = 0
      BY KeysAre
    <3>2. rev[s].outputs[<<n, 0>>].content = MadeAt(rev, s, <<n, 0>>)
      BY <1>2, <2>1, <3>1
    <3> QED BY <3>1, <3>2 DEF Held, MadeAt, For
  <2>2. ASSUME NEW n \in PerSource(s), NEW i \in ReplaySources PROVE Held(rev, s, n, i) = Made(rev, s, n, {i})
    <3>1. <<n, i>> \in Required(s) /\ <<n, i>>[1] = n /\ <<n, i>>[2] = i /\ i # 0
      BY KeysAre
    <3>2. Compared(s, n)
      BY DEF Compared, PerSource
    <3>3. rev[s].outputs[<<n, i>>].content = MadeAt(rev, s, <<n, i>>)
      BY <1>2, <3>1, <3>2
    <3> QED BY <3>1, <3>3 DEF Held, MadeAt, For
  <2> QED BY <1>2, <2>1, <2>2 DEF ContentsIn
<1> QED BY <1>1, <1>2

LEMMA ScopeIs ==
  ASSUME Routed, NEW s \in ReplayStages, NEW rev, OnHead(rev, s), NEW k \in Required(s)
  PROVE  /\ Scope(s, k, rev[s].config) = ScopeIn(rev, s, k)
         /\ ContentOf(s, k, rev[s].config) = For(rev, s, k)
<1>1. s \in Finished => rev[Scoping] = committed[Scoping]
  BY SettingsBefore DEF OnHead
<1>2. Scope(s, k, rev[s].config) = ScopeIn(rev, s, k)
  BY <1>1 DEF Scope, ScopeIn, Records
<1>3. <<s, k[1]>> = <<"map", "plan">> => k[2] = 0
  BY KeysOf DEF PerSource
<1>4. <<s, k[1]>> = <<"map", "plan">> <=> s = "map" /\ k[1] = "plan"
  OBVIOUS
<1> QED BY <1>2, <1>3, <1>4 DEF ContentOf, For, Whole, ScopeIn, Records

\* What a run of the stage makes under given settings.
LEMMA ArtifactIs ==
  ASSUME Routed, NEW s \in ReplayStages, NEW rev, OnHead(rev, s), NEW k \in Required(s)
  PROVE  LET under == [g \in SettingsOf(s) |-> Setting(rev, g)]
         IN  Artifact(s, k, rev[s].config, under) =
               [kind |-> <<s, k[1]>>, sources |-> ScopeIn(rev, s, k), producer |-> <<s, k[1]>>,
                config |-> IF k[1] = "block-derivations" THEN DerivationDigest(rev[s].config, MadeAt(rev, s, k).under)
                           ELSE Digest(s, k, rev[s].config),
                content |-> MadeAt(rev, s, k)]
<1> DEFINE under == [g \in SettingsOf(s) |-> Setting(rev, g)]
<1>1. Known(rev, under) /\ DOMAIN under = SettingsOf(s)
  BY DEF Known
<1> HIDE DEF under
<1>2. Binds(s, k[1]) \subseteq DOMAIN under
  BY <1>1, SettingsBefore
<1>3. MadeUnder(s, k[1], For(rev, s, k), under) = MadeAt(rev, s, k)
  BY <1>1, <1>2, MadeIs DEF MadeAt
<1>4. Artifact(s, k, rev[s].config, under) =
        [kind |-> <<s, k[1]>>, sources |-> ScopeIn(rev, s, k), producer |-> <<s, k[1]>>,
         config |-> IF k[1] = "block-derivations" THEN DerivationDigest(rev[s].config, MadeAt(rev, s, k).under)
                    ELSE Digest(s, k, rev[s].config),
         content |-> MadeAt(rev, s, k)]
  BY <1>3, ScopeIs, Zenon DEF Artifact
<1> QED BY <1>4 DEF under

\* The gates fail under the settings of a revision that does not pass.
LEMMA FailsIs ==
  ASSUME Routed, NEW rev
  PROVE  Fails([g \in SettingsOf("validate") |-> Setting(rev, g)]) <=> ~Passing(rev)
<1>1. "curate" \in SettingsOf("validate") /\ (route = "import" => "objective" \in SettingsOf("validate"))
  BY DocumentSettingsOf, ImportSettingsOf, NamesOfFinished DEF Routed, DocumentSettings, ImportSettings
<1> QED BY <1>1 DEF Fails, Passing

\* A stage that holds what a run of it commits.
AsRun(rev, s, own, besides) ==
  LET honest == Honest(s, own, rev[s].config.selected, besides)
  IN  /\ \A k \in Required(s) : Compared(s, k[1]) => rev[s].outputs[k] = honest.outputs[k]
      /\ rev[s].status = honest.status

\* A stage that is as it is made is what a run of it commits.
LEMMA HonestIs ==
  ASSUME Routed, NEW s \in ReplayStages, NEW rev, OnHead(rev, s), MadeIn(rev, s), ReferencesIn(rev, s),
         NEW own, NEW besides, s \in Chosen(s) => own = Setting(rev, s), s = Scoping => besides = Setting(rev, Besides)
  PROVE  AsRun(rev, s, own, besides)
<1> DEFINE selected == rev[s].config.selected
           under == [g \in SettingsOf(s) |-> Setting(rev, g)]
           honest == Honest(s, own, selected, besides)
<1>1. Under(s, own, besides) = under
  BY UnderIs
<1>2. Configured(s, under, selected) = rev[s].config
  <2>1. \A g \in NamedBy(s) : under[g] = rev[s].config.under[g]
    BY SettingsBefore DEF MadeIn, ConfigIn, Known
  <2>2. [g \in NamedBy(s) |-> under[g]] = [g \in NamedBy(s) |-> rev[s].config.under[g]]
    BY <2>1
  <2>3. rev[s].config = [under |-> [g \in NamedBy(s) |-> rev[s].config.under[g]], selected |-> selected]
    BY DEF ReferencesIn
  <2> QED BY <2>2, <2>3 DEF Configured
<1>3. honest.outputs = [k \in Required(s) |-> Artifact(s, k, rev[s].config, under)]
  BY <1>1, <1>2 DEF Honest
<1>4. honest.status = ValidationStatus(s, under)
  BY <1>1 DEF Honest
<1>5. s = "validate" => (Fails(under) <=> ~Passing(rev))
  BY FailsIs
<1>6. rev[s].status = honest.status
  BY <1>4, <1>5 DEF MadeIn, StatusIn, ValidationStatus
<1>7. ASSUME NEW k \in Required(s), Compared(s, k[1]) PROVE rev[s].outputs[k] = honest.outputs[k]
  <2>1. rev[s].outputs[k].content = MadeAt(rev, s, k)
    BY <1>7, ContentsAt DEF MadeIn
  <2>2. rev[s].outputs[k] =
          [kind |-> <<s, k[1]>>, sources |-> ScopeIn(rev, s, k), producer |-> <<s, k[1]>>,
           config |-> IF k[1] = "block-derivations" THEN DerivationDigest(rev[s].config, rev[s].outputs[k].content.under)
                      ELSE Digest(s, k, rev[s].config),
           content |-> rev[s].outputs[k].content]
    BY DEF ReferencesIn
  <2>3. Artifact(s, k, rev[s].config, under) =
          [kind |-> <<s, k[1]>>, sources |-> ScopeIn(rev, s, k), producer |-> <<s, k[1]>>,
           config |-> IF k[1] = "block-derivations" THEN DerivationDigest(rev[s].config, MadeAt(rev, s, k).under)
                      ELSE Digest(s, k, rev[s].config),
           content |-> MadeAt(rev, s, k)]
    BY ArtifactIs
  <2>4. honest.outputs[k] = Artifact(s, k, rev[s].config, under)
    BY <1>3
  <2> HIDE DEF under, honest
  <2> QED BY <2>1, <2>2, <2>3, <2>4
<1> QED BY <1>6, <1>7 DEF AsRun

\* What a run of the stage commits is as it is made.
LEMMA HonestMade ==
  ASSUME Routed, NEW s \in ReplayStages, NEW rev, OnHead(rev, s),
         NEW own, NEW selected \in SelectionsOf(s), NEW besides \in BesidesOf(s, own),
         rev[s] = Honest(s, own, selected, besides)
  PROVE  /\ MadeIn(rev, s) /\ ReferencesIn(rev, s)
         /\ DOMAIN rev[s].outputs = Required(s)
         /\ s = "parse" => rev[s].links = [k \in Linked \X ReplaySources |-> rev[s].outputs[k]]
<1> DEFINE under == Under(s, own, besides)
           known == [g \in SettingsOf(s) |-> Setting(rev, g)]
<1>1. /\ rev[s].config = Configured(s, under, selected) /\ rev[s].status = ValidationStatus(s, under)
      /\ rev[s].outputs = [k \in Required(s) |-> Artifact(s, k, Configured(s, under, selected), under)]
      /\ s = "parse" => rev[s].links = [k \in Linked \X ReplaySources |-> rev[s].outputs[k]]
  BY DEF Honest
<1>2. rev[s].config.under = [g \in NamedBy(s) |-> under[g]] /\ rev[s].config.selected = selected
  BY <1>1 DEF Configured
<1>3. s \in Chosen(s) => own = Setting(rev, s)
  <2>1. s \in Chosen(s) => under[s] = own
    BY SettingsBefore DEF Under
  <2> QED BY <1>2, <2>1, SettingsBefore DEF Setting
<1>4. s = Scoping => besides = Setting(rev, Besides)
  <2> SUFFICES ASSUME s = Scoping PROVE besides = Setting(rev, Besides)
    OBVIOUS
  <2> DEFINE k == <<"result", 0>>
  <2>1. k \in Required(s) /\ k[1] = "result"
    BY KeysAre, FinishedSettings
  <2>2. rev[s].outputs[k].content = MadeUnder(s, "result", ContentOf(s, k, Configured(s, under, selected)), under)
    BY <1>1, <2>1 DEF Artifact
  <2>3. rev[s].outputs[k].content.under = [g \in Binds(s, "result") |-> under[g]]
    BY <2>2 DEF MadeUnder
  <2>4. under[Besides] = besides
    BY SettingsBefore DEF Under
  <2>5. rev[s].outputs[k].content.under[Besides] = besides
    BY <2>3, <2>4, SettingsBefore
  <2> QED BY <2>5, BesidesIs DEF MadeRecords, Held
<1>5. under = known
  BY <1>3, <1>4, UnderIs
<1>6. ConfigIn(rev, s)
  <2>1. DOMAIN rev[s].config.under = NamedBy(s) /\ Known(rev, rev[s].config.under)
    BY <1>2, <1>5, SettingsBefore DEF Known
  <2>2. s = "parse" => selected = ReplaySources
    BY DEF SelectionsOf, Scoping
  <2>3. s = Scoping => selected \subseteq ReplaySources /\ selected # {}
    BY SelectionsAssumption DEF SelectionsOf
  <2> QED BY <1>2, <2>1, <2>2, <2>3 DEF ConfigIn
<1>7. ASSUME NEW k \in Required(s)
      PROVE  rev[s].outputs[k] =
               [kind |-> <<s, k[1]>>, sources |-> ScopeIn(rev, s, k), producer |-> <<s, k[1]>>,
                config |-> IF k[1] = "block-derivations" THEN DerivationDigest(rev[s].config, MadeAt(rev, s, k).under)
                           ELSE Digest(s, k, rev[s].config),
                content |-> MadeAt(rev, s, k)]
  <2>1. rev[s].outputs[k] = Artifact(s, k, rev[s].config, known)
    BY <1>1, <1>5
  <2> QED BY <2>1, ArtifactIs
<1>8. ASSUME NEW k \in Required(s) PROVE rev[s].outputs[k].content = MadeAt(rev, s, k)
  <2> DEFINE output == rev[s].outputs[k]
             made == MadeAt(rev, s, k)
             digest == IF k[1] = "block-derivations" THEN DerivationDigest(rev[s].config, made.under)
                       ELSE Digest(s, k, rev[s].config)
             scope == ScopeIn(rev, s, k)
  <2>1. output = [kind |-> <<s, k[1]>>, sources |-> scope, producer |-> <<s, k[1]>>, config |-> digest, content |-> made]
    BY <1>7
  <2> HIDE DEF output, made, digest, scope
  <2>2. output.content = made
    BY <2>1
  <2> QED BY <2>2 DEF output, made
<1>9. s = "construct" /\ Setting(rev, "construct") \notin Reviewed => Setting(rev, "reviews") = 1
  <2>1. s = "construct" => Scoping = "construct" /\ Besides = "reviews"
    BY StagesOf DEF Scoping, Besides
  <2> QED BY <1>3, <1>4, <2>1, SettingsBefore DEF BesidesOf
<1>10. ContentsIn(rev, s)
  BY <1>8, <1>9, ContentsAt
<1>11. StatusIn(rev, s)
  <2>1. s = "validate" => (Fails(under) <=> ~Passing(rev))
    BY <1>5, FailsIs
  <2> QED BY <1>1, <2>1 DEF StatusIn, ValidationStatus
<1>12. ReferencesIn(rev, s)
  <2>1. rev[s].config = [under |-> [g \in NamedBy(s) |-> rev[s].config.under[g]], selected |-> rev[s].config.selected]
    <3>1. [g \in NamedBy(s) |-> rev[s].config.under[g]] = [g \in NamedBy(s) |-> under[g]]
      BY <1>2
    <3> QED BY <1>1, <1>2, <3>1 DEF Configured
  <2>2. \A k \in Required(s) :
          rev[s].outputs[k] =
            [kind |-> <<s, k[1]>>, sources |-> ScopeIn(rev, s, k), producer |-> <<s, k[1]>>,
             config |-> IF k[1] = "block-derivations" THEN DerivationDigest(rev[s].config, rev[s].outputs[k].content.under)
                        ELSE Digest(s, k, rev[s].config),
             content |-> rev[s].outputs[k].content]
    BY <1>7, <1>8
  <2> QED BY <2>1, <2>2 DEF ReferencesIn
<1> QED BY <1>1, <1>6, <1>10, <1>11, <1>12 DEF MadeIn

\* The derivations of a stage that is as it is made are bound to their plan.
LEMMA DerivationsAreBound ==
  ASSUME route = "document", NEW rev, MadeIn(rev, "clean"), ReferencesIn(rev, "clean")
  PROVE  DerivationsBound(rev)
<1> SUFFICES ASSUME NEW i \in ReplaySources
             PROVE  rev["clean"].outputs[<<"block-derivations", i>>].config =
                      DerivationDigest(rev["clean"].config, Held(rev, "clean", "cleaning-plan", i).under)
  BY DEF DerivationsBound
<1> DEFINE k == <<"block-derivations", i>>
<1>1. PerSource("clean") = {"document", "cleaning-plan", "block-derivations"}
  BY DEF PerSource
<1>2. k \in Required("clean") /\ k[1] = "block-derivations"
  BY <1>1, KeysAre
<1>3. rev["clean"].outputs[k].config = DerivationDigest(rev["clean"].config, rev["clean"].outputs[k].content.under)
  <2> HIDE DEF k
  <2>1. rev["clean"].outputs[k] =
          [kind |-> <<"clean", k[1]>>, sources |-> ScopeIn(rev, "clean", k), producer |-> <<"clean", k[1]>>,
           config |-> IF k[1] = "block-derivations"
                      THEN DerivationDigest(rev["clean"].config, rev["clean"].outputs[k].content.under)
                      ELSE Digest("clean", k, rev["clean"].config),
           content |-> rev["clean"].outputs[k].content]
    BY <1>2 DEF ReferencesIn
  <2> QED BY <1>2, <2>1
<1>4. /\ Held(rev, "clean", "block-derivations", i) = Made(rev, "clean", "block-derivations", {i})
      /\ Held(rev, "clean", "cleaning-plan", i) = Made(rev, "clean", "cleaning-plan", {i})
  BY <1>1 DEF MadeIn, ContentsIn
<1>5. \A n : Binds("clean", n) = {"parse", "clean"}
  BY DocumentSettingsOf DEF Binds
<1>6. Made(rev, "clean", "block-derivations", {i}).under = Made(rev, "clean", "cleaning-plan", {i}).under
  BY <1>5 DEF Made
<1> QED BY <1>3, <1>4, <1>6 DEF Held

-----------------------------------------------------------------------------
(* The shape of whatever a transaction may be asked to commit *)

IsArtifact(x) ==
  x = [kind |-> x.kind, sources |-> x.sources, producer |-> x.producer, config |-> x.config, content |-> x.content]

ShapedOutputs(o) == o = [k \in DOMAIN o |-> o[k]] /\ \A k \in DOMAIN o : IsArtifact(o[k])
ShapedConfig(s, c) == c = [under |-> [g \in NamedBy(s) |-> c.under[g]], selected |-> c.selected]

\* An output that a source descriptor links to holds what its kind says.
ShapedLinks(links) ==
  /\ DOMAIN links = Linked \X ReplaySources
  /\ \A k \in DOMAIN links :
       links[k].content = [of |-> links[k].kind, for |-> links[k].content.for, under |-> links[k].content.under]

StatusesOf(s) == IF s = "validate" THEN {"complete", "failed"} ELSE {"complete"}

Shaped(s, a) ==
  /\ a = [status |-> a.status, config |-> a.config, outputs |-> a.outputs, links |-> a.links]
  /\ a.status \in StatusesOf(s) /\ ShapedConfig(s, a.config) /\ ShapedOutputs(a.outputs)
  /\ s = "parse" => ShapedLinks(a.links)

LEMMA ShapedParts ==
  ASSUME NEW s, NEW a, Shaped(s, a)
  PROVE  /\ \A o : ShapedOutputs(o) => Shaped(s, [a EXCEPT !.outputs = o])
         /\ \A c : ShapedConfig(s, c) => Shaped(s, [a EXCEPT !.config = c])
         /\ \A b : b \in StatusesOf(s) => Shaped(s, [a EXCEPT !.status = b])
         /\ \A l : (s = "parse" => ShapedLinks(l)) => Shaped(s, [a EXCEPT !.links = l])
<1>1. a = [status |-> a.status, config |-> a.config, outputs |-> a.outputs, links |-> a.links]
  BY DEF Shaped
<1>2. ASSUME NEW o, ShapedOutputs(o) PROVE Shaped(s, [a EXCEPT !.outputs = o])
  <2>1. [a EXCEPT !.outputs = o] = [status |-> a.status, config |-> a.config, outputs |-> o, links |-> a.links]
    BY <1>1
  <2> QED BY <1>2, <2>1 DEF Shaped
<1>3. ASSUME NEW c, ShapedConfig(s, c) PROVE Shaped(s, [a EXCEPT !.config = c])
  <2>1. [a EXCEPT !.config = c] = [status |-> a.status, config |-> c, outputs |-> a.outputs, links |-> a.links]
    BY <1>1
  <2> QED BY <1>3, <2>1 DEF Shaped
<1>4. ASSUME NEW b \in StatusesOf(s) PROVE Shaped(s, [a EXCEPT !.status = b])
  <2>1. [a EXCEPT !.status = b] = [status |-> b, config |-> a.config, outputs |-> a.outputs, links |-> a.links]
    BY <1>1
  <2> QED BY <2>1 DEF Shaped
<1>5. ASSUME NEW l, s = "parse" => ShapedLinks(l) PROVE Shaped(s, [a EXCEPT !.links = l])
  <2>1. [a EXCEPT !.links = l] = [status |-> a.status, config |-> a.config, outputs |-> a.outputs, links |-> l]
    BY <1>1
  <2> QED BY <1>5, <2>1 DEF Shaped
<1> QED BY <1>2, <1>3, <1>4, <1>5

\* An artifact is one whatever a field of it says.
LEMMA ShapedArtifact ==
  ASSUME NEW x, IsArtifact(x), NEW v
  PROVE  /\ IsArtifact([x EXCEPT !.kind = v]) /\ IsArtifact([x EXCEPT !.sources = v])
         /\ IsArtifact([x EXCEPT !.producer = v]) /\ IsArtifact([x EXCEPT !.config = v])
         /\ IsArtifact([x EXCEPT !.content = v])
BY DEF IsArtifact

LEMMA ShapedOutput ==
  ASSUME NEW o, ShapedOutputs(o), NEW k \in DOMAIN o, NEW x, IsArtifact(x)
  PROVE  ShapedOutputs([o EXCEPT ![k] = x])
BY DEF ShapedOutputs

\* One field of one output, as a change of the outputs.
LEMMA OneOutput ==
  ASSUME NEW s, NEW a, Shaped(s, a), NEW k \in DOMAIN a.outputs, NEW v
  PROVE  /\ Shaped(s, [a EXCEPT !.outputs[k].kind = v]) /\ Shaped(s, [a EXCEPT !.outputs[k].sources = v])
         /\ Shaped(s, [a EXCEPT !.outputs[k].producer = v]) /\ Shaped(s, [a EXCEPT !.outputs[k].config = v])
         /\ Shaped(s, [a EXCEPT !.outputs[k].content = v]) /\ Shaped(s, [a EXCEPT !.outputs[k].content.for = v])
<1> DEFINE o == a.outputs
           x == a.outputs[k]
<1>1. ShapedOutputs(o) /\ IsArtifact(x)
  BY DEF Shaped, ShapedOutputs
<1>2. ASSUME NEW y, IsArtifact(y) PROVE Shaped(s, [a EXCEPT !.outputs = [o EXCEPT ![k] = y]])
  BY <1>1, <1>2, ShapedOutput, ShapedParts
<1>3. Shaped(s, [a EXCEPT !.outputs = [o EXCEPT ![k] = [x EXCEPT !.kind = v]]])
  BY <1>1, <1>2, ShapedArtifact
<1>4. Shaped(s, [a EXCEPT !.outputs = [o EXCEPT ![k] = [x EXCEPT !.sources = v]]])
  BY <1>1, <1>2, ShapedArtifact
<1>5. Shaped(s, [a EXCEPT !.outputs = [o EXCEPT ![k] = [x EXCEPT !.producer = v]]])
  BY <1>1, <1>2, ShapedArtifact
<1>6. Shaped(s, [a EXCEPT !.outputs = [o EXCEPT ![k] = [x EXCEPT !.config = v]]])
  BY <1>1, <1>2, ShapedArtifact
<1>7. \A w : Shaped(s, [a EXCEPT !.outputs = [o EXCEPT ![k] = [x EXCEPT !.content = w]]])
  BY <1>1, <1>2, ShapedArtifact
<1>8. [a EXCEPT !.outputs[k].kind = v] = [a EXCEPT !.outputs = [o EXCEPT ![k] = [x EXCEPT !.kind = v]]]
  BY DEF Shaped
<1>9. [a EXCEPT !.outputs[k].sources = v] = [a EXCEPT !.outputs = [o EXCEPT ![k] = [x EXCEPT !.sources = v]]]
  BY DEF Shaped
<1>10. [a EXCEPT !.outputs[k].producer = v] = [a EXCEPT !.outputs = [o EXCEPT ![k] = [x EXCEPT !.producer = v]]]
  BY DEF Shaped
<1>11. [a EXCEPT !.outputs[k].config = v] = [a EXCEPT !.outputs = [o EXCEPT ![k] = [x EXCEPT !.config = v]]]
  BY DEF Shaped
<1>12. [a EXCEPT !.outputs[k].content = v] = [a EXCEPT !.outputs = [o EXCEPT ![k] = [x EXCEPT !.content = v]]]
  BY DEF Shaped
<1>13. [a EXCEPT !.outputs[k].content.for = v] =
         [a EXCEPT !.outputs = [o EXCEPT ![k] = [x EXCEPT !.content = [x.content EXCEPT !.for = v]]]]
  BY DEF Shaped
<1> QED BY <1>3, <1>4, <1>5, <1>6, <1>7, <1>8, <1>9, <1>10, <1>11, <1>12, <1>13

\* Some of the contents made under another choice.
LEMMA ShapedRemade ==
  ASSUME NEW s, NEW a, Shaped(s, a), NEW group, NEW g
  PROVE  Shaped(s, Remade(a, group, g)) /\ DOMAIN Remade(a, group, g).outputs = DOMAIN a.outputs
<1> DEFINE o == a.outputs
           content(k) == IF k \in group THEN Elsewise(o[k].content, g) ELSE o[k].content
           p == [k \in DOMAIN o |-> [o[k] EXCEPT !.content = content(k)]]
<1>1. \A k \in DOMAIN o : IsArtifact(o[k])
  BY DEF Shaped, ShapedOutputs
<1>2. \A k \in DOMAIN o : IsArtifact([o[k] EXCEPT !.content = content(k)])
  BY <1>1, ShapedArtifact
<1>3. DOMAIN p = DOMAIN o
  OBVIOUS
<1>4. \A k \in DOMAIN o : p[k] = [o[k] EXCEPT !.content = content(k)]
  OBVIOUS
<1>5. p = [k \in DOMAIN p |-> p[k]]
  OBVIOUS
<1>6. Remade(a, group, g) = [a EXCEPT !.outputs = p]
  BY DEF Remade
<1>9. \A k \in DOMAIN p : IsArtifact(p[k])
  BY <1>2, <1>3, <1>4
<1> HIDE DEF p
<1>7. ShapedOutputs(p)
  BY <1>5, <1>9 DEF ShapedOutputs
<1>8. [a EXCEPT !.outputs = p].outputs = p
  BY DEF Shaped
<1> QED BY <1>3, <1>6, <1>7, <1>8, ShapedParts

\* What a run of the stage commits.
LEMMA ShapedHonest ==
  ASSUME Routed, NEW s \in ReplayStages, NEW own, NEW selected, NEW besides
  PROVE  LET honest == Honest(s, own, selected, besides)
         IN  Shaped(s, honest) /\ DOMAIN honest.outputs = Required(s)
<1> DEFINE under == Under(s, own, besides)
           config == Configured(s, under, selected)
           outputs == [k \in Required(s) |-> Artifact(s, k, config, under)]
           links == IF s = "parse" THEN [k \in Linked \X ReplaySources |-> outputs[k]] ELSE <<>>
           honest == Honest(s, own, selected, besides)
<1>1. honest = [status |-> ValidationStatus(s, under), config |-> config, outputs |-> outputs, links |-> links]
  BY DEF Honest
<1>2. \A k \in Required(s) : IsArtifact(outputs[k]) /\ outputs[k].content = MadeUnder(s, k[1], ContentOf(s, k, config), under)
                             /\ outputs[k].kind = <<s, k[1]>>
  BY DEF Artifact, IsArtifact
<1>3. ShapedOutputs(outputs)
  <2>1. DOMAIN outputs = Required(s) /\ outputs = [k \in DOMAIN outputs |-> outputs[k]]
    OBVIOUS
  <2> HIDE DEF outputs
  <2> QED BY <1>2, <2>1 DEF ShapedOutputs
<1>4. ShapedConfig(s, config)
  BY DEF ShapedConfig, Configured
<1>5. ValidationStatus(s, under) \in StatusesOf(s)
  BY DEF ValidationStatus, StatusesOf
<1>6. s = "parse" => ShapedLinks(links)
  <2> SUFFICES ASSUME s = "parse" PROVE ShapedLinks(links)
    OBVIOUS
  <2>1. DOMAIN links = Linked \X ReplaySources /\ \A k \in Linked \X ReplaySources : links[k] = outputs[k]
    OBVIOUS
  <2>2. Linked \X ReplaySources \subseteq Required(s)
    BY DEF Linked, Required
  <2>3. ASSUME NEW k \in Linked \X ReplaySources
        PROVE  outputs[k].content = [of |-> outputs[k].kind, for |-> outputs[k].content.for, under |-> outputs[k].content.under]
    <3>1. outputs[k].content = MadeUnder(s, k[1], ContentOf(s, k, config), under) /\ outputs[k].kind = <<s, k[1]>>
      BY <1>2, <2>2
    <3> HIDE DEF outputs, config, under
    <3> QED BY <3>1 DEF MadeUnder
  <2> HIDE DEF links, outputs
  <2> QED BY <2>1, <2>3 DEF ShapedLinks
<1> HIDE DEF honest, outputs, links, config, under
<1>7. honest.status = ValidationStatus(s, under) /\ honest.config = config /\ honest.outputs = outputs /\ honest.links = links
  BY <1>1
<1>8. Shaped(s, honest)
  BY <1>1, <1>3, <1>4, <1>5, <1>6, <1>7 DEF Shaped
<1> QED BY <1>7, <1>8 DEF outputs, honest

LEMMA ShapedContents ==
  ASSUME NEW s, NEW a, Shaped(s, a), DOMAIN a.outputs = Required(s), NEW b \in ForgedContents(s, a)
  PROVE  Shaped(s, b)
<1> DEFINE others(k) == [a EXCEPT !.outputs[k].content.for = OtherContent(@)]
           swapped(k, l) == [a EXCEPT !.outputs[k].content = a.outputs[l].content]
<1>1. \A group, g : Shaped(s, Remade(a, group, g))
  BY ShapedRemade
<1>2. \A k \in Required(s) : Shaped(s, others(k))
  BY OneOutput
<1>3. \A k, l \in Required(s) : Shaped(s, swapped(k, l))
  BY OneOutput
<1>4. \/ b \in {Remade(a, group, g) : group \in Remakeable(s), g \in SettingsOf(s)}
      \/ b \in {others(k) : k \in Required(s)}
      \/ b \in {swapped(k, l) : k \in Required(s), l \in Required(s)}
  BY DEF ForgedContents
<1> HIDE DEF others, swapped
<1>5. CASE b \in {Remade(a, group, g) : group \in Remakeable(s), g \in SettingsOf(s)}
  BY <1>1, <1>5
<1>6. CASE b \in {others(k) : k \in Required(s)}
  BY <1>2, <1>6
<1>7. CASE b \in {swapped(k, l) : k \in Required(s), l \in Required(s)}
  <2> PICK k \in Required(s), l \in Required(s) : b = swapped(k, l)
    BY <1>7
  <2> QED BY <1>3
<1> QED BY <1>4, <1>5, <1>6, <1>7

LEMMA ShapedReferences ==
  ASSUME NEW s, NEW a, Shaped(s, a), DOMAIN a.outputs = Required(s), NEW b \in ForgedReferences(s, a),
         s = "parse" => \A k \in DOMAIN a.links : a.outputs[k] = a.links[k]
  PROVE  Shaped(s, b)
<1> DEFINE o == a.outputs
           kinds(k) == [a EXCEPT !.outputs[k].kind = <<s, "other">>]
           sources(k) == [a EXCEPT !.outputs[k].sources = OtherSources(@)]
           producers(k) == [a EXCEPT !.outputs[k].producer = <<s, "other">>]
           configs(k) == [a EXCEPT !.outputs[k].config = [other |-> 0]]
           links(k, l) == [a EXCEPT !.links[k] = a.outputs[l]]
           fewer(k) == [a EXCEPT !.outputs = [l \in DOMAIN @ \ {k} |-> @[l]]]
           more(k) == [a EXCEPT !.outputs = [l \in DOMAIN @ \cup {<<"other", 0>>} |-> IF l \in DOMAIN @ THEN @[l] ELSE @[k]]]
<1>1. ASSUME NEW k \in Required(s)
      PROVE  Shaped(s, kinds(k)) /\ Shaped(s, sources(k)) /\ Shaped(s, producers(k)) /\ Shaped(s, configs(k))
  <2>1. k \in DOMAIN a.outputs
    OBVIOUS
  <2>2. Shaped(s, kinds(k))
    BY <2>1, OneOutput
  <2>3. Shaped(s, sources(k))
    BY <2>1, OneOutput
  <2>4. Shaped(s, producers(k))
    BY <2>1, OneOutput
  <2>5. Shaped(s, configs(k))
    BY <2>1, OneOutput
  <2> QED BY <2>2, <2>3, <2>4, <2>5
<1>2. ASSUME NEW k \in DOMAIN a.links, NEW l \in DOMAIN a.links PROVE Shaped(s, links(k, l))
  <2> DEFINE linked == [a.links EXCEPT ![k] = o[l]]
  <2>1. links(k, l) = [a EXCEPT !.links = linked]
    OBVIOUS
  <2>2. s = "parse" => ShapedLinks(linked)
    <3> SUFFICES ASSUME s = "parse" PROVE ShapedLinks(linked)
      OBVIOUS
    <3>1. ShapedLinks(a.links) /\ o[l] = a.links[l]
      BY DEF Shaped
    <3>2. DOMAIN linked = DOMAIN a.links
      OBVIOUS
    <3>3. \A m \in DOMAIN a.links : linked[m] = IF m = k THEN a.links[l] ELSE a.links[m]
      BY <3>1
    <3> HIDE DEF linked
    <3> QED BY <3>1, <3>2, <3>3 DEF ShapedLinks
  <2> HIDE DEF links, linked
  <2> QED BY <2>1, <2>2, ShapedParts
<1>3. ASSUME NEW k \in Required(s) PROVE Shaped(s, fewer(k))
  <2> DEFINE p == [l \in DOMAIN o \ {k} |-> o[l]]
  <2>1. ShapedOutputs(p)
    BY DEF Shaped, ShapedOutputs
  <2>2. fewer(k) = [a EXCEPT !.outputs = p]
    OBVIOUS
  <2> HIDE DEF p, fewer
  <2> QED BY <2>1, <2>2, ShapedParts
<1>4. ASSUME NEW k \in Required(s) PROVE Shaped(s, more(k))
  <2> DEFINE p == [l \in DOMAIN o \cup {<<"other", 0>>} |-> IF l \in DOMAIN o THEN o[l] ELSE o[k]]
  <2>1. ShapedOutputs(p)
    BY DEF Shaped, ShapedOutputs
  <2>2. more(k) = [a EXCEPT !.outputs = p]
    OBVIOUS
  <2> HIDE DEF p, more
  <2> QED BY <2>1, <2>2, ShapedParts
<1>5. ForgedReferences(s, a) =
        {kinds(k) : k \in Required(s)} \cup {sources(k) : k \in Required(s)} \cup {producers(k) : k \in Required(s)}
          \cup {configs(k) : k \in Required(s)} \cup {links(k, l) : k \in DOMAIN a.links, l \in DOMAIN a.links}
          \cup {fewer(k) : k \in Required(s)} \cup {more(k) : k \in Required(s)}
  BY DEF ForgedReferences
<1> HIDE DEF kinds, sources, producers, configs, links, fewer, more
<1> QED BY <1>1, <1>2, <1>3, <1>4, <1>5

LEMMA ShapedConfigs ==
  ASSUME NEW s, NEW a, Shaped(s, a), NEW b \in ForgedConfigs(s, a)
  PROVE  Shaped(s, b)
<1> DEFINE selected == [a EXCEPT !.config.selected = OtherContent(@)]
<1>1. ASSUME NEW g \in DOMAIN a.config.under PROVE Shaped(s, OtherSetting(a, g))
  <2> DEFINE c == [a.config EXCEPT !.under = [a.config.under EXCEPT ![g] = Other(a.config.under[g])]]
  <2>1. OtherSetting(a, g) = [a EXCEPT !.config = c]
    BY DEF OtherSetting
  <2>2. a.config = [under |-> [h \in NamedBy(s) |-> a.config.under[h]], selected |-> a.config.selected]
    BY DEF Shaped, ShapedConfig
  <2>3. c = [under |-> [a.config.under EXCEPT ![g] = Other(a.config.under[g])], selected |-> a.config.selected]
    BY <2>2
  <2>4. ShapedConfig(s, c)
    BY <2>2, <2>3 DEF ShapedConfig
  <2> HIDE DEF c
  <2> QED BY <2>1, <2>4, ShapedParts
<1>2. Shaped(s, selected)
  <2> DEFINE c == [a.config EXCEPT !.selected = OtherContent(a.config.selected)]
  <2>1. selected = [a EXCEPT !.config = c]
    OBVIOUS
  <2>2. a.config = [under |-> [h \in NamedBy(s) |-> a.config.under[h]], selected |-> a.config.selected]
    BY DEF Shaped, ShapedConfig
  <2>3. c = [under |-> a.config.under, selected |-> OtherContent(a.config.selected)]
    BY <2>2
  <2>4. ShapedConfig(s, c)
    BY <2>2, <2>3 DEF ShapedConfig
  <2> HIDE DEF c
  <2> QED BY <2>1, <2>4, ShapedParts
<1>3. ASSUME NEW c, Shaped(s, c) PROVE Shaped(s, Rebound(a, c))
  <2> DEFINE o == c.outputs
             p == [k \in DOMAIN o |-> IF o[k].config = a.config THEN [o[k] EXCEPT !.config = c.config] ELSE o[k]]
  <2>1. Rebound(a, c) = [c EXCEPT !.outputs = p]
    BY DEF Rebound
  <2>2. \A k \in DOMAIN o : IsArtifact(o[k]) /\ IsArtifact([o[k] EXCEPT !.config = c.config])
    BY <1>3, ShapedArtifact DEF Shaped, ShapedOutputs
  <2>3. DOMAIN p = DOMAIN o /\ p = [k \in DOMAIN p |-> p[k]] /\ \A k \in DOMAIN p : IsArtifact(p[k])
    BY <2>2
  <2> HIDE DEF p
  <2>4. ShapedOutputs(p)
    BY <2>3 DEF ShapedOutputs
  <2> QED BY <1>3, <2>1, <2>4, ShapedParts
<1>4. ASSUME NEW c \in OtherConfigs(s, a) PROVE Shaped(s, c)
  <2>1. OtherConfigs(s, a) =
          {OtherSetting(a, g) : g \in DOMAIN a.config.under}
            \cup {Remade(OtherSetting(a, g), group, g) : group \in Remakeable(s), g \in DOMAIN a.config.under}
            \cup {selected}
    BY DEF OtherConfigs
  <2> HIDE DEF selected
  <2> QED BY <1>1, <1>2, <2>1, ShapedRemade
<1> QED BY <1>3, <1>4 DEF ForgedConfigs

\* Whatever a transaction may be asked to commit has the shape of a stage.
LEMMA ShapedAsked ==
  ASSUME Routed, NEW s \in ReplayStages, NEW honest \in HonestCommits(s), NEW a \in {honest} \cup Forged(s, honest)
  PROVE  Shaped(s, a)
<1>1. PICK own \in OwnChoices(s) : \E selected \in SelectionsOf(s), besides \in BesidesOf(s, own) :
        honest = Honest(s, own, selected, besides)
  BY DEF HonestCommits
<1>2. PICK selected \in SelectionsOf(s), besides \in BesidesOf(s, own) : honest = Honest(s, own, selected, besides)
  BY <1>1
<1>3. Shaped(s, honest) /\ DOMAIN honest.outputs = Required(s)
  BY <1>2, ShapedHonest
<1>4. s = "parse" => \A k \in DOMAIN honest.links : honest.outputs[k] = honest.links[k]
  BY <1>2 DEF Honest
<1>5. CASE a \in ForgedStatus(s, honest)
  <2>1. s = "validate" /\ a = [honest EXCEPT !.status = IF honest.status = "failed" THEN "complete" ELSE "failed"]
    BY <1>5 DEF ForgedStatus
  <2> QED BY <1>3, <2>1, ShapedParts DEF StatusesOf
<1> QED BY <1>3, <1>4, <1>5, ShapedContents, ShapedReferences, ShapedConfigs DEF Forged

-----------------------------------------------------------------------------
(* What is committed after a stage does not change what that stage is *)

LEMMA UpToInside ==
  ASSUME Routed, NEW s \in ReplayStages, NEW g \in UpTo(s) \ {s}
  PROVE  g \in ReplayStages /\ UpTo(g) \subseteq UpTo(s) \ {s}
<1>1. g \in ReplayStages
  BY UpToIs
<1>2. ASSUME route = "document" PROVE UpTo(g) \subseteq UpTo(s) \ {s}
  <2>1. \A x, y \in DocumentStages : Place(x) \in Nat /\ (Place(x) = Place(y) => x = y)
    BY <1>2, DocumentOrder DEF DocumentStages
  <2> QED BY <1>2, <2>1, DocumentOrder
<1>3. ASSUME route = "import" PROVE UpTo(g) \subseteq UpTo(s) \ {s}
  <2>1. \A x, y \in ImportStages : Place(x) \in Nat /\ (Place(x) = Place(y) => x = y)
    BY <1>3, ImportOrder DEF ImportStages
  <2> QED BY <1>3, <2>1, ImportOrder
<1> QED BY <1>1, <1>2, <1>3 DEF Routed

Same(rev, other, s) == \A h \in UpTo(s) : rev[h] = other[h]

LEMMA SameSettings ==
  ASSUME Routed, NEW s \in ReplayStages, NEW rev, NEW other, Same(rev, other, s)
  PROVE  /\ \A g \in SettingsOf(s) : Setting(rev, g) = Setting(other, g)
         /\ rev[s] = other[s]
         /\ s \in Finished \cup {Scoping} => Records(rev) = Records(other)
         /\ \A n : \A for : Made(rev, s, n, for) = Made(other, s, n, for)
         /\ \A n : Whole(rev, s, n) = Whole(other, s, n)
<1>1. ASSUME NEW g \in SettingsOf(s) PROVE Setting(rev, g) = Setting(other, g)
  <2>1. CASE g = Besides
    <3>1. rev[Scoping] = other[Scoping]
      BY <2>1, SettingsBefore DEF Same
    <3> QED BY <2>1, <3>1, BesidesIs DEF MadeRecords, Held
  <2>2. CASE g # Besides
    <3>1. rev[g] = other[g]
      BY <2>2, SettingsBefore DEF Same
    <3> QED BY <2>2, <3>1, BesidesIs
  <2> QED BY <2>1, <2>2
<1>2. rev[s] = other[s]
  BY SettingsBefore DEF Same
<1>3. s \in Finished \cup {Scoping} => Records(rev) = Records(other)
  <2>1. s \in Finished \cup {Scoping} => rev[Scoping] = other[Scoping]
    BY <1>2, SettingsBefore DEF Same
  <2> QED BY <2>1 DEF Records
<1>4. ASSUME NEW n, NEW for PROVE Made(rev, s, n, for) = Made(other, s, n, for)
  <2>1. \A g \in Binds(s, n) : Setting(rev, g) = Setting(other, g)
    BY <1>1, SettingsBefore
  <2>2. [g \in Binds(s, n) |-> Setting(rev, g)] = [g \in Binds(s, n) |-> Setting(other, g)]
    BY <2>1
  <2> QED BY <2>2 DEF Made
<1>5. ASSUME NEW n PROVE Whole(rev, s, n) = Whole(other, s, n)
  BY <1>3 DEF Whole, Records
<1> QED BY <1>1, <1>2, <1>3, <1>4, <1>5

\* What a stage is made of is settled by it and the stages before it.
LEMMA MadeFrame ==
  ASSUME Routed, NEW s \in ReplayStages, NEW rev, NEW other, Same(rev, other, s)
  PROVE  /\ MadeIn(rev, s) => MadeIn(other, s)
         /\ ReferencesIn(rev, s) => ReferencesIn(other, s)
<1>1. /\ \A g \in SettingsOf(s) : Setting(rev, g) = Setting(other, g)
      /\ rev[s] = other[s]
      /\ s \in Finished \cup {Scoping} => Records(rev) = Records(other)
      /\ \A n : \A for : Made(rev, s, n, for) = Made(other, s, n, for)
      /\ \A n : Whole(rev, s, n) = Whole(other, s, n)
  BY SameSettings
<1>2. ASSUME ConfigIn(rev, s) PROVE ConfigIn(other, s)
  <2>1. NamedBy(s) \subseteq SettingsOf(s)
    BY SettingsBefore
  <2> QED BY <1>1, <1>2, <2>1 DEF ConfigIn, Known
<1>3. ASSUME StatusIn(rev, s) PROVE StatusIn(other, s)
  <2>1. s = "validate" => "curate" \in SettingsOf(s) /\ (route = "import" => "objective" \in SettingsOf(s))
    BY DocumentSettingsOf, ImportSettingsOf, NamesOfFinished DEF Routed, DocumentSettings, ImportSettings
  <2>2. s = "validate" => (Passing(rev) <=> Passing(other))
    BY <1>1, <2>1 DEF Passing
  <2> QED BY <1>1, <1>3, <2>2 DEF StatusIn
<1>4. ASSUME ContentsIn(rev, s) PROVE ContentsIn(other, s)
  <2>1. \A n, i : Held(rev, s, n, i) = Held(other, s, n, i)
    BY <1>1 DEF Held
  <2>2. s = "construct" => {"construct", "reviews"} \subseteq SettingsOf(s)
    BY StagesOf, DocumentSettingsOf
  <2>3. s = "construct" => Setting(rev, "construct") = Setting(other, "construct") /\ Setting(rev, "reviews") = Setting(other, "reviews")
    BY <1>1, <2>2
  <2> QED BY <1>1, <1>4, <2>1, <2>3 DEF ContentsIn
<1>5. ASSUME ReferencesIn(rev, s) PROVE ReferencesIn(other, s)
  <2>1. \A k : ScopeIn(rev, s, k) = ScopeIn(other, s, k)
    BY <1>1 DEF ScopeIn
  <2> QED BY <1>1, <1>5, <2>1 DEF ReferencesIn
<1> QED BY <1>2, <1>3, <1>4, <1>5 DEF MadeIn

-----------------------------------------------------------------------------
(* A commit lets in what its stage makes *)

\* The bindings of a candidate are those that a replay takes for granted.
LEMMA BindingsAsked ==
  ASSUME Routed, NEW s \in ReplayStages, NEW rev, NEW a, rev[s] = a, Shaped(s, a), BindingsHold(s, a)
  PROVE  Asked(rev, s)
<1>1. rev[s].config.under = [g \in NamedBy(s) |-> rev[s].config.under[g]]
  <2>1. a.config = [under |-> [g \in NamedBy(s) |-> a.config.under[g]], selected |-> a.config.selected]
    BY DEF Shaped, ShapedConfig
  <2> QED BY <2>1
<1>2. rev[s].status \in IF s = "validate" THEN {"complete", "failed"} ELSE {"complete"}
  BY DEF Shaped, StatusesOf
<1>3. ASSUME s = "parse", NEW i \in ReplaySources
      PROVE  Held(rev, s, "raw", i) = [of |-> <<s, "raw">>, for |-> {i}, under |-> rev[s].config.under]
  <2> DEFINE k == <<"raw", i>>
             link == a.links[k]
  <2>1. k \in Linked \X ReplaySources
    BY DEF Linked, PerSource, Routed
  <2>2. ShapedLinks(a.links) /\ LinksHold(a)
    BY <1>3 DEF Shaped, BindingsHold
  <2>3. k \in DOMAIN a.links /\ k[1] = "raw" /\ k[2] = i
    BY <2>1, <2>2 DEF ShapedLinks
  <2>4. link.content = [of |-> link.kind, for |-> link.content.for, under |-> link.content.under]
    BY <2>2, <2>3 DEF ShapedLinks
  <2>5. link.kind = <<"parse", "raw">> /\ link.content.under = a.config.under /\ link.content.for = {i}
        /\ link = a.outputs[k]
    BY <2>2, <2>3 DEF LinksHold
  <2> HIDE DEF link
  <2>6. link.content = [of |-> <<"parse", "raw">>, for |-> {i}, under |-> a.config.under]
    BY <2>4, <2>5
  <2> QED BY <1>3, <2>5, <2>6 DEF Held
<1> QED BY <1>1, <1>2, <1>3 DEF Asked, BindingsHold

\* The references of a stage that is replayed are those it is made with.
LEMMA ReferencesSound ==
  ASSUME Routed, NEW s \in ReplayStages, NEW rev, NEW a, rev[s] = a, OnHead(rev, s),
         Shaped(s, a), BindingsHold(s, a), MadeIn(rev, s), Replays(s, rev)
  PROVE  ReferencesIn(rev, s)
<1>1. a.config = [under |-> [g \in NamedBy(s) |-> a.config.under[g]], selected |-> a.config.selected]
  BY DEF Shaped, ShapedConfig
<1>2. ASSUME NEW k \in Required(s)
      PROVE  a.outputs[k] =
               [kind |-> <<s, k[1]>>, sources |-> ScopeIn(rev, s, k), producer |-> <<s, k[1]>>,
                config |-> IF k[1] = "block-derivations" THEN DerivationDigest(a.config, a.outputs[k].content.under)
                           ELSE Digest(s, k, a.config),
                content |-> a.outputs[k].content]
  <2> DEFINE x == a.outputs[k]
  <2>1. IsArtifact(x)
    BY DEF Shaped, ShapedOutputs, BindingsHold
  <2>2. x.kind = <<s, k[1]>> /\ x.sources = Scope(s, k, a.config) /\ x.producer = <<s, k[1]>>
        /\ (k[1] # "block-derivations" => x.config = Digest(s, k, a.config))
    BY DEF BindingsHold, ReferencesHold
  <2>3. Scope(s, k, a.config) = ScopeIn(rev, s, k)
    BY ScopeIs
  <2>4. k[1] = "block-derivations" => x.config = DerivationDigest(a.config, x.content.under)
    <3> SUFFICES ASSUME k[1] = "block-derivations" PROVE x.config = DerivationDigest(a.config, x.content.under)
      OBVIOUS
    <3>1. k = <<k[1], k[2]>> /\ (k[2] = 0 => k[1] \in Fixed[s]) /\ (k[2] # 0 => k[1] \in PerSource(s) /\ k[2] \in ReplaySources)
      BY KeysOf
    <3>2. "block-derivations" \notin Fixed[s]
      BY StagesOf DEF Fixed, Finished
    <3>3. s = "clean" /\ k[2] \in ReplaySources
      BY <3>1, <3>2 DEF PerSource
    <3> DEFINE i == k[2]
               plan == Held(rev, "clean", "cleaning-plan", i)
    <3>4. k = <<"block-derivations", i>> /\ i \in ReplaySources
      BY <3>1, <3>3
    <3> HIDE DEF i
    <3>5. DerivationsReplay(rev, i)
      BY <3>3, <3>4 DEF Replays, CleanReplays
    <3>6. x = rev["clean"].outputs[<<"block-derivations", i>>]
      BY <3>3, <3>4
    <3>7. x.config = DerivationDigest(rev["clean"].config, plan.under)
      BY <3>5, <3>6 DEF DerivationsReplay
    <3>8. x.content = Made(rev, "clean", "block-derivations", {i}) /\ plan = Made(rev, "clean", "cleaning-plan", {i})
      BY <3>3, <3>4, <3>6 DEF MadeIn, ContentsIn, PerSource, Held
    <3>9. Binds("clean", "block-derivations") = Binds("clean", "cleaning-plan")
      BY DEF Binds
    <3>10. x.content.under = plan.under
      BY <3>8, <3>9 DEF Made
    <3> QED BY <3>3, <3>7, <3>10
  <2> HIDE DEF x
  <2>5. x = [kind |-> <<s, k[1]>>, sources |-> ScopeIn(rev, s, k), producer |-> <<s, k[1]>>, config |-> x.config,
             content |-> x.content]
    BY <2>1, <2>2, <2>3 DEF IsArtifact
  <2>6. x.config = IF k[1] = "block-derivations" THEN DerivationDigest(a.config, x.content.under)
                   ELSE Digest(s, k, a.config)
    BY <2>2, <2>4
  <2> QED BY <2>5, <2>6 DEF x
<1> QED BY <1>1, <1>2 DEF ReferencesIn

\* An imported dataset that is sealed has the mapping that its plan makes.
SealedAsPlanned(rev) ==
  route = "import" /\ rev["seal"] # NotMade => rev["map"] # NotMade /\ Setting(rev, "objective") = 1

\* HEAD holds what its stages make, under the settings their configs name.
ReplayInv ==
  /\ Routed
  /\ \A s \in ReplayStages : committed[s] # NotMade => MadeIn(committed, s) /\ ReferencesIn(committed, s)
  /\ SealedAsPlanned(committed)

\* The stages before one that may run.
LEMMA BeforeMade ==
  ASSUME ReplayInv, NEW s \in ReplayStages, MayRun(s), NEW rev, OnHead(rev, s)
  PROVE  /\ Earlier(rev, s) /\ \A g \in UpTo(s) \ {s} : ReferencesIn(rev, g)
         /\ \A g \in UpTo(s) \ {s} : rev[g].status = "complete"
<1>1. ASSUME NEW g \in UpTo(s) \ {s}
      PROVE  MadeIn(rev, g) /\ ReferencesIn(rev, g) /\ rev[g].status = "complete"
  <2>1. g \in ReplayStages /\ UpTo(g) \subseteq UpTo(s) \ {s}
    BY UpToInside DEF ReplayInv
  <2>2. Same(committed, rev, g)
    BY <2>1 DEF Same, OnHead
  <2>3. committed[g].status = "complete" /\ rev[g] = committed[g]
    BY DEF MayRun, Complete, OnHead
  <2>4. committed[g] # NotMade
    BY <2>3 DEF NotMade
  <2> QED BY <2>1, <2>2, <2>3, <2>4, MadeFrame DEF ReplayInv
<1> QED BY <1>1 DEF Earlier

LEMMA CandidateIs ==
  ASSUME Routed, NEW s \in ReplayStages, NEW a
  PROVE  LET rev == Candidate(s, a)
         IN  /\ rev[s] = a /\ OnHead(rev, s)
             /\ \A g \in ReplayStages : g \notin UpTo(s) => rev[g] = NotMade
             /\ \A g \in UpTo(s) \ {s} : rev[g] = committed[g]
<1>1. s \in UpTo(s) /\ UpTo(s) \subseteq ReplayStages
  BY SettingsBefore, UpToIs
<1> QED BY <1>1 DEF Candidate, OnHead

\* Whatever is taken is what the stage makes.
LEMMA TakenIsMade ==
  ASSUME ReplayInv, NEW s \in ReplayStages, MayRun(s), NEW a, Shaped(s, a), Taken(s, a)
  PROVE  MadeIn(Candidate(s, a), s) /\ ReferencesIn(Candidate(s, a), s)
<1> DEFINE rev == Candidate(s, a)
<1>1. rev[s] = a /\ OnHead(rev, s) /\ BindingsHold(s, a) /\ Replays(s, rev)
  BY CandidateIs DEF ReplayInv, Taken
<1> HIDE DEF rev
<1>2. Earlier(rev, s)
  BY <1>1, BeforeMade
<1>3. Asked(rev, s)
  BY <1>1, BindingsAsked DEF ReplayInv
<1>4. MadeIn(rev, s)
  BY <1>1, <1>2, <1>3, ReplaySound DEF ReplayInv
<1>5. ReferencesIn(rev, s)
  BY <1>1, <1>4, ReferencesSound DEF ReplayInv
<1> QED BY <1>4, <1>5 DEF rev

\* A seal is taken after a validation that passed, and any other stage takes the seal away.
LEMMA CandidateAsPlanned ==
  ASSUME ReplayInv, NEW s \in ReplayStages, MayRun(s), NEW a
  PROVE  SealedAsPlanned(Candidate(s, a))
<1> DEFINE rev == Candidate(s, a)
<1> SUFFICES ASSUME route = "import", rev["seal"] # NotMade
             PROVE  rev["map"] # NotMade /\ Setting(rev, "objective") = 1
  BY DEF SealedAsPlanned
<1>1. OnHead(rev, s) /\ \A g \in ReplayStages : g \notin UpTo(s) => rev[g] = NotMade
  BY CandidateIs DEF ReplayInv
<1> HIDE DEF rev
<1>2. s = "seal"
  <2>1. "seal" \in ReplayStages
    BY ImportOrder DEF ImportStages
  <2>2. "seal" \in UpTo(s)
    BY <1>1, <2>1
  <2> QED BY <2>2, ImportOrder, ImportUpTo DEF ImportStages
<1>3. {"map", "validate"} \subseteq UpTo(s) \ {s}
  BY <1>2, ImportUpTo DEF ImportStages
<1>4. MadeIn(rev, "validate") /\ rev["validate"].status = "complete" /\ rev["map"].status = "complete"
  BY <1>1, <1>3, BeforeMade DEF Earlier
<1>5. Passing(rev)
  BY <1>4 DEF MadeIn, StatusIn
<1> QED BY <1>4, <1>5 DEF Passing, NotMade

\* The plans that the stages of a finished dataset name are one.
LEMMA OnePlanIs ==
  ASSUME Routed, NEW s \in ReplayStages, NEW rev, NEW a, rev[s] = a, OnHead(rev, s), Earlier(rev, s),
         \A g \in UpTo(s) \ {s} : ReferencesIn(rev, g), MadeIn(rev, s), ReferencesIn(rev, s)
  PROVE  OnePlan(s, a)
<1>1. ASSUME NEW g \in Finished, MadeIn(rev, g), ReferencesIn(rev, g)
      PROVE  rev[g].config.under = [h \in PlanSettings |-> Setting(rev, h)]
  <2>1. NamedBy(g) = PlanSettings
    BY FinishedSettings
  <2>2. rev[g].config.under = [h \in PlanSettings |-> rev[g].config.under[h]]
    <3> DEFINE c == rev[g].config
    <3>1. c = [under |-> [h \in PlanSettings |-> c.under[h]], selected |-> c.selected]
      BY <1>1, <2>1 DEF ReferencesIn
    <3> HIDE DEF c
    <3>2. c.under = [h \in PlanSettings |-> c.under[h]]
      BY <3>1
    <3> QED BY <3>2 DEF c
  <2>3. \A h \in PlanSettings : rev[g].config.under[h] = Setting(rev, h)
    BY <1>1, <2>1 DEF MadeIn, ConfigIn, Known
  <2> QED BY <2>2, <2>3
<1>2. ASSUME s \in Finished, NEW g \in (UpTo(s) \cap Finished) \ {s}
      PROVE  committed[g].config.under = a.config.under
  <2>1. rev[g] = committed[g] /\ MadeIn(rev, g) /\ ReferencesIn(rev, g)
    BY DEF OnHead, Earlier
  <2>2. rev[g].config.under = [h \in PlanSettings |-> Setting(rev, h)]
    BY <1>1, <2>1
  <2>3. rev[s].config.under = [h \in PlanSettings |-> Setting(rev, h)]
    BY <1>1, <1>2
  <2> QED BY <2>1, <2>2, <2>3
<1> QED BY <1>2 DEF OnePlan

\* The descriptors of what a parse makes link to its outputs.
LEMMA LinksAre ==
  ASSUME Routed, NEW rev, NEW a, rev["parse"] = a, MadeIn(rev, "parse"), ReferencesIn(rev, "parse"),
         a.links = [k \in Linked \X ReplaySources |-> a.outputs[k]]
  PROVE  LinksHold(a)
<1> SUFFICES ASSUME NEW k \in Linked \X ReplaySources
             PROVE  /\ a.outputs[k].kind = <<"parse", k[1]>> /\ a.outputs[k].sources = {k[2]}
                    /\ k[1] = "raw" => a.outputs[k].content.under = a.config.under /\ a.outputs[k].content.for = {k[2]}
                    /\ k[1] # "raw" => a.outputs[k].producer = <<"parse", k[1]>> /\ a.outputs[k].config = [parser |-> k[2]]
  BY DEF LinksHold
<1> DEFINE n == k[1]
           i == k[2]
           x == a.outputs[k]
<1>1. k = <<n, i>> /\ n \in Linked /\ i \in ReplaySources /\ i # 0 /\ k \in Required("parse")
  BY SourcesAssumption DEF Linked, Required
<1>2. n # "block-derivations" /\ n # "registry" /\ n \in PerSource("parse")
  BY <1>1 DEF Linked
<1>3. x = [kind |-> <<"parse", n>>, sources |-> {i}, producer |-> <<"parse", n>>, config |-> Digest("parse", k, a.config),
           content |-> x.content]
  BY <1>1, <1>2 DEF ReferencesIn, ScopeIn
<1>4. n # "raw" => Digest("parse", k, a.config) = [parser |-> i]
  BY <1>1, <1>2 DEF Digest
<1>5. x.content = Made(rev, "parse", n, {i})
  BY <1>1, <1>2 DEF MadeIn, ContentsIn, Held
<1>6. Binds("parse", n) = {"parse"} /\ NamedBy("parse") = {"parse"}
  BY DocumentSettingsOf, ImportSettingsOf DEF Binds, NamedBy, Finished, Routed
<1>7. a.config.under = [g \in {"parse"} |-> Setting(rev, g)]
  <2> DEFINE c == a.config
  <2>1. c = [under |-> [g \in {"parse"} |-> c.under[g]], selected |-> c.selected]
    BY <1>6 DEF ReferencesIn
  <2>2. c.under["parse"] = Setting(rev, "parse")
    BY DEF Setting
  <2> HIDE DEF c
  <2>3. c.under = [g \in {"parse"} |-> c.under[g]]
    BY <2>1
  <2>4. c.under = [g \in {"parse"} |-> Setting(rev, g)]
    BY <2>2, <2>3
  <2> QED BY <2>4 DEF c
<1>8. x.content.for = {i} /\ x.content.under = a.config.under
  BY <1>5, <1>6, <1>7 DEF Made
<1> HIDE DEF x, n, i
<1>9. x.kind = <<"parse", n>> /\ x.sources = {i} /\ x.producer = <<"parse", n>> /\ x.config = Digest("parse", k, a.config)
  BY <1>3
<1> QED BY <1>4, <1>8, <1>9 DEF x, n, i

\* A run of a stage that does what it should is taken.
LEMMA HonestIsTaken ==
  ASSUME ReplayInv, NEW s \in ReplayStages, MayRun(s), NEW honest \in HonestCommits(s)
  PROVE  Taken(s, honest)
<1> DEFINE rev == Candidate(s, honest)
<1>1. rev[s] = honest /\ OnHead(rev, s) /\ Routed
  BY CandidateIs DEF ReplayInv
<1> SUFFICES BindingsHold(s, honest) /\ Replays(s, rev)
  BY DEF Taken
<1> HIDE DEF rev
<1>2. PICK own \in OwnChoices(s) : \E selected \in SelectionsOf(s), besides \in BesidesOf(s, own) :
        honest = Honest(s, own, selected, besides)
  BY DEF HonestCommits
<1>3. PICK selected \in SelectionsOf(s), besides \in BesidesOf(s, own) : honest = Honest(s, own, selected, besides)
  BY <1>2
<1>4. /\ MadeIn(rev, s) /\ ReferencesIn(rev, s)
      /\ DOMAIN rev[s].outputs = Required(s)
      /\ s = "parse" => rev[s].links = [k \in Linked \X ReplaySources |-> rev[s].outputs[k]]
  <2>1. rev[s] = Honest(s, own, selected, besides)
    BY <1>1, <1>3
  <2>2. selected \in SelectionsOf(s) /\ besides \in BesidesOf(s, own)
    BY <1>3
  <2> QED BY <1>1, <2>1, <2>2, HonestMade
<1>5. /\ Earlier(rev, s) /\ \A g \in UpTo(s) \ {s} : ReferencesIn(rev, g)
      /\ \A g \in UpTo(s) \ {s} : rev[g].status = "complete"
  BY <1>1, BeforeMade
<1>6. OnePlan(s, honest)
  BY <1>1, <1>4, <1>5, OnePlanIs
<1>7. s = "parse" => LinksHold(honest)
  BY <1>1, <1>4, LinksAre
<1>8. ReferencesHold(s, honest)
  <2> SUFFICES ASSUME NEW k \in Required(s)
               PROVE  /\ honest.outputs[k].kind = <<s, k[1]>>
                      /\ honest.outputs[k].sources = Scope(s, k, honest.config)
                      /\ honest.outputs[k].producer = <<s, k[1]>>
                      /\ k[1] # "block-derivations" => honest.outputs[k].config = Digest(s, k, honest.config)
    BY <1>1, <1>4 DEF ReferencesHold
  <2> DEFINE x == honest.outputs[k]
             d == IF k[1] = "block-derivations" THEN DerivationDigest(honest.config, x.content.under)
                  ELSE Digest(s, k, honest.config)
             c == x.content
  <2>1. x = [kind |-> <<s, k[1]>>, sources |-> ScopeIn(rev, s, k), producer |-> <<s, k[1]>>, config |-> d, content |-> c]
    BY <1>1, <1>4 DEF ReferencesIn
  <2>2. Scope(s, k, honest.config) = ScopeIn(rev, s, k)
    BY <1>1, ScopeIs
  <2>3. k[1] # "block-derivations" => d = Digest(s, k, honest.config)
    OBVIOUS
  <2> HIDE DEF x, d, c
  <2>4. x.kind = <<s, k[1]>> /\ x.sources = ScopeIn(rev, s, k) /\ x.producer = <<s, k[1]>> /\ x.config = d
    BY <2>1
  <2> QED BY <2>2, <2>3, <2>4 DEF x
<1>9. BindingsHold(s, honest)
  <2>1. ConfigIn(rev, s)
    BY <1>4 DEF MadeIn
  <2> QED BY <1>1, <1>4, <1>6, <1>7, <1>8, <2>1 DEF BindingsHold, ConfigIn
<1>10. s \in {"clean", "chunk"} => DerivationsBound(rev)
  <2> SUFFICES ASSUME s \in {"clean", "chunk"} PROVE DerivationsBound(rev)
    OBVIOUS
  <2>1. route = "document"
    BY <1>1, StagesOf
  <2>2. MadeIn(rev, "clean") /\ ReferencesIn(rev, "clean")
    <3>1. CASE s = "clean"
      BY <1>4, <3>1
    <3>2. CASE s = "chunk"
      <4>1. "clean" \in UpTo(s) \ {s}
        BY <2>1, <3>2, DocumentUpTo
      <4> QED BY <1>5, <4>1 DEF Earlier
    <3> QED BY <3>1, <3>2
  <2> QED BY <2>1, <2>2, DerivationsAreBound
<1>11. s = "seal" => rev["validate"].status = "complete"
  <2>1. s = "seal" => "validate" \in UpTo(s) \ {s}
    BY <1>1, DocumentUpTo, ImportUpTo DEF Routed, DocumentStages, ImportStages
  <2> QED BY <1>5, <2>1
<1>12. Replays(s, rev)
  BY <1>1, <1>4, <1>5, <1>10, <1>11, ReplayComplete
<1> QED BY <1>9, <1>12

\* What a revision holds is what runs of its stages commit.
LEMMA ReplayInvImplies ==
  ASSUME ReplayInv
  PROVE  RevisionReplays
<1>1. ASSUME NEW s \in ReplayStages, committed[s] # NotMade
      PROVE  LET own == IF s \in Chosen(s) THEN committed[s].config.under[s] ELSE 1
                 besides == IF s = Scoping THEN committed[s].outputs[<<"result", 0>>].content.under[Besides] ELSE 1
                 honest == Honest(s, own, committed[s].config.selected, besides)
                 free == IF <<route, s>> = <<"import", "validate">> THEN {<<"snapshot", 0>>} ELSE {}
             IN  /\ \A k \in Required(s) \ free : committed[s].outputs[k] = honest.outputs[k]
                 /\ committed[s].status = honest.status
  <2> DEFINE own == IF s \in Chosen(s) THEN committed[s].config.under[s] ELSE 1
             besides == IF s = Scoping THEN committed[s].outputs[<<"result", 0>>].content.under[Besides] ELSE 1
             honest == Honest(s, own, committed[s].config.selected, besides)
             free == IF <<route, s>> = <<"import", "validate">> THEN {<<"snapshot", 0>>} ELSE {}
  <2>1. Routed /\ MadeIn(committed, s) /\ ReferencesIn(committed, s)
    BY <1>1 DEF ReplayInv
  <2>2. OnHead(committed, s)
    BY DEF OnHead
  <2>3. s \in Chosen(s) => own = Setting(committed, s)
    BY <2>1, BesidesIs
  <2>4. s = Scoping => besides = Setting(committed, Besides)
    BY <2>1, BesidesIs DEF MadeRecords, Held
  <2> HIDE DEF own, besides
  <2>5. /\ \A k \in Required(s) : Compared(s, k[1]) => committed[s].outputs[k] = honest.outputs[k]
        /\ committed[s].status = honest.status
    <3>1. AsRun(committed, s, own, besides)
      BY <2>1, <2>2, <2>3, <2>4, HonestIs
    <3> QED BY <3>1 DEF AsRun
  <2>6. ASSUME NEW k \in Required(s) \ free PROVE Compared(s, k[1])
    <3> SUFFICES ASSUME route = "import", s = "validate", k[1] = "snapshot" PROVE FALSE
      BY DEF Compared
    <3>1. k[2] = 0
      BY KeysOf DEF PerSource
    <3>2. k = <<"snapshot", 0>>
      BY <3>1, KeysOf
    <3> QED BY <3>2
  <2> HIDE DEF honest, free
  <2>7. /\ \A k \in Required(s) \ free : committed[s].outputs[k] = honest.outputs[k]
        /\ committed[s].status = honest.status
    BY <2>5, <2>6
  <2> QED BY <2>7 DEF honest, own, besides, free
<1>2. \A s \in ReplayStages : MayRun(s) => \A honest \in HonestCommits(s) : Taken(s, honest)
  BY HonestIsTaken
<1>3. ASSUME route = "import", committed["seal"] # NotMade
      PROVE  Held(committed, "map", "recipe", 0) =
               MadeUnder("map", "recipe", committed["map"].config.selected,
                         Combined(committed["map"].config.under, [objective |-> 1]))
  <2> DEFINE config == committed["map"].config
             planned == [objective |-> 1]
  <2>1. committed["map"] # NotMade /\ Setting(committed, "objective") = 1
    BY <1>3 DEF ReplayInv, SealedAsPlanned
  <2>2. "map" \in ReplayStages
    BY <1>3, ImportOrder DEF ImportStages
  <2>3. MadeIn(committed, "map")
    BY <2>1, <2>2 DEF ReplayInv
  <2>4. Held(committed, "map", "recipe", 0) = Made(committed, "map", "recipe", config.selected)
    BY <1>3, <2>3, ImportOrder DEF MadeIn, ContentsIn, Compared, Fixed, Whole
  <2>5. Known(committed, config.under) /\ DOMAIN config.under = {"map"}
    BY <2>3 DEF MadeIn, ConfigIn, NamedBy, Finished
  <2>6. Known(committed, planned) /\ DOMAIN planned = {"objective"}
    BY <2>1 DEF Known
  <2>7. Binds("map", "recipe") = {"map", "objective"}
    BY DEF Binds
  <2> HIDE DEF config, planned
  <2>8. MadeUnder("map", "recipe", config.selected, Combined(config.under, planned))
          = Made(committed, "map", "recipe", config.selected)
    BY <2>5, <2>6, <2>7, CombinedIs
  <2> QED BY <2>4, <2>8 DEF config, planned
<1> QED BY <1>1, <1>2, <1>3 DEF RevisionReplays, Held

LEMMA InitReplayInv ==
  ASSUME ReplayInit
  PROVE  ReplayInv
<1>1. route = "import" => committed["seal"] = NotMade
  BY ImportOrder DEF ReplayInit, ImportStages
<1> QED BY <1>1 DEF ReplayInit, ReplayInv, Routed, SealedAsPlanned

\* The stages and what they depend on are those of the route, and the route stays.
LEMMA SameRoute ==
  ASSUME route' = route
  PROVE  /\ ReplayStages' = ReplayStages /\ Scoping' = Scoping
         /\ \A s : UpTo(s)' = UpTo(s) /\ SettingsOf(s)' = SettingsOf(s) /\ NamedBy(s)' = NamedBy(s)
         /\ \A s : PerSource(s)' = PerSource(s) /\ Required(s)' = Required(s)
         /\ \A s, n : Binds(s, n)' = Binds(s, n)
         /\ \A s, n : Compared(s, n)' <=> Compared(s, n)
<1>1. ReplayStages' = ReplayStages /\ Scoping' = Scoping
  BY DEF ReplayStages, Scoping
<1>2. \A s : Place(s)' = Place(s)
  BY DEF Place
<1>3. ASSUME NEW s PROVE UpTo(s)' = UpTo(s)
  BY <1>1, <1>2 DEF UpTo
<1>4. ASSUME NEW s PROVE SettingsOf(s)' = SettingsOf(s)
  BY <1>1, <1>3 DEF SettingsOf, Chosen, Besides
<1>5. ASSUME NEW s, NEW n PROVE Binds(s, n)' = Binds(s, n)
  BY <1>4 DEF Binds
<1>6. ASSUME NEW s PROVE NamedBy(s)' = NamedBy(s)
  BY <1>4, <1>5 DEF NamedBy
<1>7. ASSUME NEW s PROVE PerSource(s)' = PerSource(s) /\ Required(s)' = Required(s)
  BY DEF PerSource, Required
<1>8. ASSUME NEW s, NEW n PROVE Compared(s, n)' <=> Compared(s, n)
  BY DEF Compared
<1> QED BY <1>1, <1>3, <1>4, <1>5, <1>6, <1>7, <1>8

\* What is said of a candidate is said of HEAD once it is committed.
LEMMA CommittedIs ==
  ASSUME route' = route, NEW s, NEW rev, committed' = rev
  PROVE  /\ MadeIn(rev, s) => MadeIn(committed, s)'
         /\ ReferencesIn(rev, s) => ReferencesIn(committed, s)'
<1> USE SameRoute
<1>1. \A n : \A for : Made(committed, s, n, for)' = Made(rev, s, n, for)
  BY DEF Made, Setting, Held
<1>2. \A n : Whole(committed, s, n)' = Whole(rev, s, n)
  BY DEF Whole
<1>3. \A g : Setting(committed, g)' = Setting(rev, g)
  BY DEF Setting, Held
<1>4. ASSUME ConfigIn(rev, s) PROVE ConfigIn(committed, s)'
  BY <1>3, <1>4 DEF ConfigIn, Known
<1>5. ASSUME StatusIn(rev, s) PROVE StatusIn(committed, s)'
  <2>1. Passing(committed)' <=> Passing(rev)
    BY <1>3 DEF Passing
  <2> QED BY <1>5, <2>1 DEF StatusIn
<1>6. ASSUME ContentsIn(rev, s) PROVE ContentsIn(committed, s)'
  <2>1. \A n, i : Held(committed, s, n, i)' = Held(rev, s, n, i)
    BY DEF Held
  <2> QED BY <1>1, <1>2, <1>3, <1>6, <2>1 DEF ContentsIn
<1>7. ASSUME ReferencesIn(rev, s) PROVE ReferencesIn(committed, s)'
  <2>1. \A k : ScopeIn(committed, s, k)' = ScopeIn(rev, s, k)
    BY DEF ScopeIn, Records
  <2> QED BY <1>7, <2>1 DEF ReferencesIn, Digest, DerivationDigest
<1> QED BY <1>4, <1>5, <1>6, <1>7 DEF MadeIn

LEMMA NextReplayInv ==
  ASSUME ReplayInv, [ReplayNext]_replayVars
  PROVE  ReplayInv'
<1>1. CASE UNCHANGED replayVars
  <2>1. route' = route /\ committed' = committed
    BY <1>1 DEF replayVars
  <2>2. ASSUME NEW s \in ReplayStages', committed'[s] # NotMade PROVE MadeIn(committed, s)' /\ ReferencesIn(committed, s)'
    <3>1. s \in ReplayStages /\ committed[s] # NotMade
      BY <2>1, <2>2, SameRoute
    <3>2. MadeIn(committed, s) /\ ReferencesIn(committed, s)
      BY <3>1 DEF ReplayInv
    <3> QED BY <2>1, <3>2, CommittedIs
  <2>3. SealedAsPlanned(committed)'
    BY <2>1 DEF ReplayInv, SealedAsPlanned, Setting, Held, NotMade
  <2> QED BY <2>1, <2>2, <2>3 DEF ReplayInv, Routed, NotMade
<1>2. CASE ReplayNext
  <2>1. PICK s \in ReplayStages : CommitStage(s)
    BY <1>2 DEF ReplayNext
  <2> PICK honest \in HonestCommits(s) : \E a \in {honest} \cup Forged(s, honest) :
             Taken(s, a) /\ committed' = Candidate(s, a)
    BY <2>1 DEF CommitStage
  <2>2. PICK a \in {honest} \cup Forged(s, honest) : Taken(s, a) /\ committed' = Candidate(s, a)
    OBVIOUS
  <2> DEFINE rev == Candidate(s, a)
  <2>3. MayRun(s) /\ route' = route /\ Routed
    BY <2>1 DEF CommitStage, ReplayInv
  <2>4. MadeIn(rev, s) /\ ReferencesIn(rev, s)
    BY <2>2, <2>3, ShapedAsked, TakenIsMade
  <2>5. /\ OnHead(rev, s) /\ \A g \in ReplayStages : g \notin UpTo(s) => rev[g] = NotMade
        /\ committed' = rev /\ SealedAsPlanned(rev)
    BY <2>2, <2>3, CandidateIs, CandidateAsPlanned
  <2> HIDE DEF rev
  <2>6. ASSUME NEW g \in ReplayStages', committed'[g] # NotMade
        PROVE  MadeIn(committed, g)' /\ ReferencesIn(committed, g)'
    <3>1. g \in ReplayStages /\ g \in UpTo(s)
      BY <2>3, <2>5, <2>6, SameRoute DEF NotMade
    <3>2. MadeIn(rev, g) /\ ReferencesIn(rev, g)
      BY <2>3, <2>4, <2>5, <3>1, BeforeMade DEF Earlier
    <3> QED BY <2>3, <2>5, <3>2, CommittedIs
  <2>7. SealedAsPlanned(committed)'
    BY <2>3, <2>5 DEF SealedAsPlanned, Setting, Held, NotMade
  <2> QED BY <2>3, <2>6, <2>7 DEF ReplayInv, Routed, NotMade
<1> QED BY <1>1, <1>2

\* Every output of a committed revision is what its stage makes from what was committed before it
\* and, of an import, from what its mapping recipe says besides its plan and its sources, which no
\* commit compares; but the mapping of a sealed import is the one that its plan makes.  A run that
\* does what its stage should is never refused.  For every number of sources, every choice of
\* settings, and on both routes.
THEOREM RevisionIsReplayed == ReplaySpec => []RevisionReplays
<1>1. ReplayInit => ReplayInv
  BY InitReplayInv
<1>2. ReplayInv /\ [ReplayNext]_replayVars => ReplayInv'
  BY NextReplayInv
<1>3. ReplayInv => RevisionReplays
  BY ReplayInvImplies
<1> QED BY <1>1, <1>2, <1>3, PTL DEF ReplaySpec
=============================================================================
