--------------------------- MODULE ProjectRun_proofs ---------------------------
(***************************************************************************)
(* The stages of a workspace, for any clients, contents, settings and      *)
(* numbers of changes, and the projects that run them, for every spec,     *)
(* setting and environment, and however often files change, somebody works *)
(* by hand or a project is taken up again.  A project's stages are those   *)
(* of StageRevisions, and its proofs rest on what is proved of them.       *)
(***************************************************************************)
EXTENDS ProjectRun, TLAPS

-----------------------------------------------------------------------------
(* The stage graph                                                         *)

\* Every stage comes after the stages it depends on.
Rank(s) ==
  CASE s = "parse" -> 0 [] s \in {"clean", "map"} -> 1 [] s = "chunk" -> 2
    [] s = "construct" -> 3 [] s = "curate" -> 4 [] s = "split" -> 5
    [] s = "format" -> 6 [] s = "validate" -> 7 [] s = "seal" -> 8

LEMMA RankValue ==
  /\ Rank("parse") = 0 /\ Rank("clean") = 1 /\ Rank("map") = 1 /\ Rank("chunk") = 2
  /\ Rank("construct") = 3 /\ Rank("curate") = 4 /\ Rank("split") = 5
  /\ Rank("format") = 6 /\ Rank("validate") = 7 /\ Rank("seal") = 8
BY DEF Rank

LEMMA RankType == \A s \in StageNames : Rank(s) \in 0..8
BY RankValue DEF StageNames

LEMMA StagesValue ==
  /\ Stages(1) = {"parse", "clean", "chunk", "format", "validate", "seal"}
  /\ Stages(2) = {"parse", "clean", "chunk", "construct", "format", "validate", "seal"}
  /\ Stages(3) = {"parse", "clean", "chunk", "construct",
                  "curate", "split", "format", "validate", "seal"}
  /\ Stages(4) = {"parse", "map", "curate", "split", "format", "validate", "seal"}
BY DEF Stages, Core, Finished

LEMMA StagesType == \A v \in SchemaVersions : Stages(v) \subseteq StageNames /\ "parse" \in Stages(v)
<1>1. \A v \in SchemaVersions : v \in {1, 2, 3, 4}
  BY DEF SchemaVersions
<1>2. QED
  BY <1>1, StagesValue DEF StageNames

LEMMA RequiresValue ==
  ASSUME NEW v \in SchemaVersions
  PROVE  /\ Requires(v, "parse") = {}
         /\ Requires(v, "clean") = {"parse"}
         /\ Requires(v, "chunk") = {"clean"}
         /\ Requires(v, "construct") = {"parse", "clean", "chunk"}
         /\ Requires(v, "map") = {"parse"}
         /\ Requires(v, "curate") = CurateRequires(v)
         /\ Requires(v, "split") = CurateRequires(v) \cup {"curate"}
         /\ Requires(v, "format") = IF v < 3 THEN {"chunk"} ELSE CurateRequires(v) \cup {"curate", "split"}
         /\ Requires(v, "validate") =
              Stages(v) \ (IF v = 2 THEN {"construct", "validate", "seal"} ELSE {"validate", "seal"})
         /\ Requires(v, "seal") = Stages(v) \ (IF v = 2 THEN {"construct", "seal"} ELSE {"seal"})
         /\ CurateRequires(v) = IF v = 3 THEN {"construct"} ELSE {"parse", "map"}
BY DEF Requires, Core, SplitRequires, FormatRequires, CurateRequires

LEMMA RequiresBefore ==
  ASSUME NEW v \in SchemaVersions, NEW s \in Stages(v), NEW d \in Requires(v, s)
  PROVE  d \in Stages(v) /\ Rank(d) < Rank(s)
<1>1. v \in {1, 2, 3, 4}
  BY DEF SchemaVersions
<1>2. CASE v = 1
  BY <1>2, RequiresValue, StagesValue, RankValue
<1>3. CASE v = 2
  BY <1>3, RequiresValue, StagesValue, RankValue
<1>4. CASE v = 3
  BY <1>4, RequiresValue, StagesValue, RankValue
<1>5. CASE v = 4
  BY <1>5, RequiresValue, StagesValue, RankValue
<1>6. QED
  BY <1>1, <1>2, <1>3, <1>4, <1>5

\* Descendants, by the property that defines them.
Below(v, s) == Descendants[v][s]
ClosedFor(v, s, closed) ==
  \A u \in Stages(v) : Requires(v, u) \cap ({s} \cup closed) # {} => u \in closed

LEMMA BelowDef ==
  ASSUME NEW v \in SchemaVersions, NEW s \in Stages(v)
  PROVE  Below(v, s) =
           {t \in Stages(v) : \A closed \in SUBSET Stages(v) : ClosedFor(v, s, closed) => t \in closed}
BY DEF Below, Descendants, ClosedFor

\* A stage that requires s depends on it, and so does what depends on that.
LEMMA BelowRequires ==
  ASSUME NEW v \in SchemaVersions, NEW s \in Stages(v), NEW t \in Stages(v),
         s \in Requires(v, t) \/ \E u \in Below(v, s) : u \in Requires(v, t)
  PROVE  t \in Below(v, s)
<1>1. ASSUME NEW closed \in SUBSET Stages(v), ClosedFor(v, s, closed)
      PROVE  t \in closed
  BY <1>1, BelowDef DEF ClosedFor
<1>2. QED
  BY <1>1, BelowDef

LEMMA BelowTransitive ==
  ASSUME NEW v \in SchemaVersions, NEW s \in Stages(v), NEW t \in Below(v, s), NEW u \in Below(v, t)
  PROVE  u \in Below(v, s)
<1>1. t \in Stages(v) /\ u \in Stages(v)
  BY BelowDef
<1>2. ASSUME NEW closed \in SUBSET Stages(v), ClosedFor(v, s, closed)
      PROVE  u \in closed
  <2>1. t \in closed
    BY <1>2, BelowDef
  <2>2. ClosedFor(v, t, closed)
    BY <1>2, <2>1 DEF ClosedFor
  <2>3. QED
    BY <1>1, <2>2, BelowDef
<1>3. QED
  BY <1>1, <1>2, BelowDef

\* No stage depends on itself.
LEMMA BelowAfter ==
  ASSUME NEW v \in SchemaVersions, NEW s \in Stages(v), NEW t \in Below(v, s)
  PROVE  t \in Stages(v) /\ Rank(s) < Rank(t) /\ t # s
<1> DEFINE later == {u \in Stages(v) : Rank(s) < Rank(u)}
<1>1. ClosedFor(v, s, later)
  <2>1. ASSUME NEW u \in Stages(v), NEW d \in Requires(v, u), d = s \/ Rank(s) < Rank(d)
        PROVE  Rank(s) < Rank(u)
    BY <2>1, RequiresBefore, RankType, StagesType
  <2>2. QED
    BY <2>1 DEF ClosedFor
<1>2. t \in later
  BY <1>1, BelowDef
<1>3. QED
  BY <1>2, BelowDef, RankType, StagesType

\* Every command reads only outputs of stages that its own depends on.
LEMMA ReadsBelow ==
  ASSUME NEW v \in SchemaVersions, NEW s \in Stages(v), NEW d \in Reads(v, s)
  PROVE  d \in Stages(v) /\ s \in Below(v, d)
<1>1. v \in {1, 2, 3, 4}
  BY DEF SchemaVersions
<1>2. CASE d \in Requires(v, s)
  BY <1>2, RequiresBefore, BelowRequires
<1>3. CASE s = "chunk" /\ d = "parse"
  <2>1. {"parse", "clean"} \subseteq Stages(v)
    BY <1>1, <1>3, StagesValue
  <2>2. "clean" \in Below(v, "parse")
    BY <2>1, RequiresValue, BelowRequires
  <2>3. QED
    BY <1>3, <2>1, <2>2, RequiresValue, BelowRequires
<1>4. CASE v = 3 /\ s \in {"curate", "split", "format"} /\ d \in {"parse", "clean", "chunk"}
  <2>1. d \in Stages(v) /\ "construct" \in Stages(v)
    BY <1>4, StagesValue
  <2>2. "construct" \in Below(v, d)
    BY <1>4, <2>1, RequiresValue, BelowRequires
  <2>3. "construct" \in Requires(v, s)
    BY <1>4, RequiresValue
  <2>4. QED
    BY <2>1, <2>2, <2>3, BelowRequires
<1>5. \/ d \in Requires(v, s)
      \/ s = "chunk" /\ d = "parse"
      \/ v = 3 /\ s \in {"curate", "split", "format"} /\ d \in {"parse", "clean", "chunk"}
  <2>1. CASE s = "chunk"
    <3>1. d \in {"parse", "clean"} \cup Requires(v, s)
      BY <2>1 DEF Reads, DocumentReads, ImportReads
    <3>2. "clean" \in Requires(v, s)
      BY <2>1, RequiresValue
    <3>3. QED
      BY <2>1, <3>1, <3>2
  <2>2. CASE v = 3 /\ s \in {"curate", "split", "format"}
    <3>1. "construct" \in Requires(v, s)
      BY <2>2, RequiresValue
    <3>2. d \in Requires(v, s) \cup {"parse", "clean", "chunk", "construct"}
      BY <2>2 DEF Reads, DocumentReads, Core
    <3>3. QED
      BY <2>2, <3>1, <3>2
  <2>3. CASE v = 4 /\ s = "curate"
    <3>1. "map" \in Requires(v, s)
      BY <2>3, RequiresValue
    <3>2. d = "map"
      BY <2>3 DEF Reads, ImportReads
    <3>3. QED
      BY <3>1, <3>2
  <2>4. CASE s # "chunk" /\ ~(v = 3 /\ s \in {"curate", "split", "format"}) /\ ~(v = 4 /\ s = "curate")
    BY <2>4 DEF Reads, DocumentReads, ImportReads
  <2>5. QED
    BY <2>1, <2>2, <2>3, <2>4
<1>6. QED
  BY <1>2, <1>3, <1>4, <1>5

\* In every schema but the second any two stages are in order.
LEMMA BelowTotal ==
  ASSUME NEW v \in {1, 3, 4}, NEW s \in Stages(v), NEW t \in Stages(v), Rank(s) < Rank(t)
  PROVE  t \in Below(v, s)
<1>1. v \in SchemaVersions
  BY DEF SchemaVersions
<1> DEFINE reached(u) == Rank(s) < Rank(u) => u \in Below(v, s)
<1>2. ASSUME NEW d \in Stages(v), NEW u \in Stages(v), d \in Requires(v, u), reached(d),
             \A w \in Stages(v) : Rank(w) < Rank(u) => w = d \/ Rank(w) < Rank(d)
      PROVE  reached(u)
  BY <1>1, <1>2, BelowRequires
<1> HIDE DEF reached
<1>3. CASE v = 3
  <2>1. Stages(v) = {"parse", "clean", "chunk", "construct", "curate", "split", "format", "validate", "seal"}
    BY <1>3, StagesValue
  <2>2. reached("parse")
    BY RankType, RankValue, StagesType, <1>1 DEF reached
  <2>3. reached("clean")
    BY <1>1, <1>2, <1>3, <2>1, <2>2, RequiresValue, RankValue
  <2>4. reached("chunk")
    BY <1>1, <1>2, <1>3, <2>1, <2>3, RequiresValue, RankValue
  <2>5. reached("construct")
    BY <1>1, <1>2, <1>3, <2>1, <2>4, RequiresValue, RankValue
  <2>6. reached("curate")
    BY <1>1, <1>2, <1>3, <2>1, <2>5, RequiresValue, RankValue
  <2>7. reached("split")
    BY <1>1, <1>2, <1>3, <2>1, <2>6, RequiresValue, RankValue
  <2>8. reached("format")
    BY <1>1, <1>2, <1>3, <2>1, <2>7, RequiresValue, RankValue
  <2>9. reached("validate")
    BY <1>1, <1>2, <1>3, <2>1, <2>8, RequiresValue, RankValue
  <2>10. reached("seal")
    BY <1>1, <1>2, <1>3, <2>1, <2>9, RequiresValue, RankValue
  <2>11. QED
    BY <2>1, <2>2, <2>3, <2>4, <2>5, <2>6, <2>7, <2>8, <2>9, <2>10 DEF reached
<1>4. CASE v = 4
  <2>1. Stages(v) = {"parse", "map", "curate", "split", "format", "validate", "seal"}
    BY <1>4, StagesValue
  <2>2. reached("parse")
    BY RankType, RankValue, StagesType, <1>1 DEF reached
  <2>3. reached("map")
    BY <1>1, <1>2, <1>4, <2>1, <2>2, RequiresValue, RankValue
  <2>4. reached("curate")
    BY <1>1, <1>2, <1>4, <2>1, <2>3, RequiresValue, RankValue
  <2>5. reached("split")
    BY <1>1, <1>2, <1>4, <2>1, <2>4, RequiresValue, RankValue
  <2>6. reached("format")
    BY <1>1, <1>2, <1>4, <2>1, <2>5, RequiresValue, RankValue
  <2>7. reached("validate")
    BY <1>1, <1>2, <1>4, <2>1, <2>6, RequiresValue, RankValue
  <2>8. reached("seal")
    BY <1>1, <1>2, <1>4, <2>1, <2>7, RequiresValue, RankValue
  <2>9. QED
    BY <2>1, <2>2, <2>3, <2>4, <2>5, <2>6, <2>7, <2>8 DEF reached
<1>5. CASE v = 1
  <2>1. Stages(v) = {"parse", "clean", "chunk", "format", "validate", "seal"}
    BY <1>5, StagesValue
  <2>2. reached("parse")
    BY RankType, RankValue, StagesType, <1>1 DEF reached
  <2>3. reached("clean")
    BY <1>1, <1>2, <1>5, <2>1, <2>2, RequiresValue, RankValue
  <2>4. reached("chunk")
    BY <1>1, <1>2, <1>5, <2>1, <2>3, RequiresValue, RankValue
  <2>5. reached("format")
    BY <1>1, <1>2, <1>5, <2>1, <2>4, RequiresValue, RankValue
  <2>6. reached("validate")
    BY <1>1, <1>2, <1>5, <2>1, <2>5, RequiresValue, RankValue
  <2>7. reached("seal")
    BY <1>1, <1>2, <1>5, <2>1, <2>6, RequiresValue, RankValue
  <2>8. QED
    BY <2>1, <2>2, <2>3, <2>4, <2>5, <2>6, <2>7 DEF reached
<1>6. QED
  BY <1>3, <1>4, <1>5 DEF reached

-----------------------------------------------------------------------------
(* The inductive invariant                                                 *)

ArtifactSet == [stage : StageNames, made : SUBSET Pairs]
Configs == UNION {Settings[s] : s \in StageNames}
Work ==
  [base : Nat, stage : StageNames, config : Configs, made : SUBSET Pairs,
   status : {"complete", "failed"}]

\* What stage s contributes to what it makes, and all that it makes of r.
Own(r, s) == <<s, IF s = "parse" THEN r.sources ELSE r.stages[s].config>>
Made(r, s) == MadeOf(r.stages[s].outputs)
Base(r, s) == {Own(r, s)} \cup MadeOf(OutputsOf(r, Reads(r.schema, s)))

Shaped(r) ==
  /\ r.schema \in SchemaVersions /\ r.id \in Nat
  /\ r.by \in StageNames \cup {"init", "migration"}
  /\ r.sources \in Contents \cup {""}
  /\ r.stages \in [Stages(r.schema) -> StageState]

\* A stage that is not active holds nothing, and one that is says nothing
\* about who made it stale.
Emptied(r) ==
  /\ \A s \in Stages(r.schema) :
       IF Active(r.stages[s]) THEN r.stages[s].by = "" /\ r.stages[s].prior = 0
       ELSE r.stages[s].outputs = {} /\ r.stages[s].inputs = {}
  /\ Active(r.stages["parse"]) => r.stages["parse"].config = ""

\* An active stage holds what its command makes of what its reads hold now;
\* a construction may have the decisions about it beside that.
Remade(r) ==
  \A s \in Stages(r.schema) : Active(r.stages[s]) =>
    /\ r.stages[s].outputs = {Artifact(s, Made(r, s))}
    /\ \/ Made(r, s) = Base(r, s)
       \/ s = "construct" /\ Made(r, s) = Base(r, s) \cup {Review(Base(r, s))}

\* Every pair in it is of the stage or of one it depends on, as that is now.
Lineage(r) ==
  \A s \in Stages(r.schema) : \A p \in Made(r, s) :
    \/ p[1] = "review" /\ s \notin Core
    \/ /\ p[1] \in Stages(r.schema) /\ p = Own(r, p[1])
       /\ p[1] = s \/ s \in Below(r.schema, p[1])

\* Only validate can fail, and only on contents that it rejects.
Judged(r) ==
  \A s \in Stages(r.schema) : Active(r.stages[s]) =>
    r.stages[s].status = IF s = "validate" THEN Verdict(Made(r, s)) ELSE "complete"

\* In the schemas whose seal reads the construction, it is sealed reviewed.
Reviewable(r) ==
  r.schema \in {3, 4} /\ Active(r.stages["seal"]) => ReviewsResolved(r)

GoodRevision(r) ==
  /\ Shaped(r) /\ Emptied(r) /\ Remade(r) /\ Lineage(r)
  /\ Judged(r) /\ Reviewable(r) /\ Consistent(r)

\* What was computed from the revision that HEAD still names.
GoodWork(w) ==
  /\ w.base \in Nat /\ w.base <= head.id
  /\ w.base = head.id =>
       /\ w.stage \in Stages(head.schema) /\ w.config \in Settings[w.stage]
       /\ GateOpen(head, w.stage)
       /\ \/ w.made = MadeFrom(head, w.stage, w.config)
          \/ /\ w.stage = "construct"
             /\ w.made = MadeFrom(head, w.stage, w.config)
                            \cup {Review(MadeFrom(head, w.stage, w.config))}
       /\ w.status = IF w.stage = "validate" THEN Verdict(w.made) ELSE "complete"
       /\ w.stage = "seal" => ReviewsResolved(head)

\* A packet binds a plan to the construction that the plan was made of.
GoodPacket ==
  packet # None =>
    /\ \E k \in {""} \cup Configs : packet.plan = packet.built \cup {<<"curate", k>>}
    /\ packet.built \subseteq Choices /\ \A p \in packet.built : p[1] # "curate"

Inv ==
  /\ TypeOK /\ GoodRevision(head) /\ GoodPacket
  /\ \A c \in Clients : work[c] # None => GoodWork(work[c])

-----------------------------------------------------------------------------
(* What an open gate and an active stage say of the stages upstream        *)

\* The last step of a dependency.
LEMMA BelowLast ==
  ASSUME NEW v \in SchemaVersions, NEW d \in Stages(v), NEW s \in Below(v, d)
  PROVE  d \in Requires(v, s) \/ \E u \in Requires(v, s) : u \in Below(v, d)
<1> SUFFICES ASSUME d \notin Requires(v, s), \A u \in Requires(v, s) : u \notin Below(v, d)
             PROVE  FALSE
  OBVIOUS
<1> DEFINE others == Below(v, d) \ {s}
<1>1. others \in SUBSET Stages(v)
  BY BelowDef
<1>2. ClosedFor(v, d, others)
  <2>1. ASSUME NEW u \in Stages(v), Requires(v, u) \cap ({d} \cup others) # {}
        PROVE  u \in Below(v, d) /\ u # s
    BY <2>1, BelowRequires
  <2>2. QED
    BY <2>1 DEF ClosedFor
<1>3. QED
  BY <1>1, <1>2, BelowDef

LEMMA AncestorsComplete ==
  ASSUME NEW r, Shaped(r), Consistent(r),
         NEW d \in Stages(r.schema), NEW s \in Below(r.schema, d), Active(r.stages[s])
  PROVE  r.stages[d].status = "complete"
<1> SUFFICES ASSUME r.stages[d].status # "complete" PROVE FALSE
  OBVIOUS
<1> DEFINE v == r.schema
           idle == {t \in Stages(v) : ~Active(r.stages[t])}
<1>1. v \in SchemaVersions /\ s \in Stages(v)
  BY BelowDef DEF Shaped
<1>2. ClosedFor(v, d, idle)
  <2>1. ASSUME NEW u \in Stages(v), NEW x \in Requires(v, u), x = d \/ x \in idle, Active(r.stages[u])
        PROVE  FALSE
    <3>1. r.stages[x].status = "complete"
      BY <2>1 DEF Consistent
    <3>2. QED
      BY <2>1, <3>1 DEF Active
  <2>2. QED
    BY <2>1 DEF ClosedFor
<1>3. s \in idle
  BY <1>1, <1>2, BelowDef
<1>4. QED
  BY <1>3

LEMMA GateComplete ==
  ASSUME NEW r, Shaped(r), Consistent(r), NEW s \in Stages(r.schema), GateOpen(r, s),
         NEW d \in Stages(r.schema), s \in Below(r.schema, d)
  PROVE  r.stages[d].status = "complete"
<1>1. r.schema \in SchemaVersions
  BY DEF Shaped
<1>2. CASE d \in Requires(r.schema, s)
  BY <1>2 DEF GateOpen
<1>3. ASSUME NEW u \in Requires(r.schema, s), u \in Below(r.schema, d)
      PROVE  r.stages[d].status = "complete"
  BY <1>1, <1>3, AncestorsComplete DEF GateOpen, Active
<1>4. QED
  BY <1>1, <1>2, <1>3, BelowLast

-----------------------------------------------------------------------------
(* What a commit does to the stages                                        *)

Untouched(w, t) == t # w.stage /\ t \notin Below(head.schema, w.stage)

\* What GoodWork says of work that a commit will accept.
Pending(w) == GoodWork(w) /\ w.base = head.id

LEMMA NewStateFields ==
  \A w : /\ NewState(w).status = w.status /\ NewState(w).config = ConfigOf(w)
         /\ NewState(w).inputs = OutputsOf(head, Requires(head.schema, w.stage))
         /\ NewState(w).outputs = {Artifact(w.stage, w.made)}
         /\ NewState(w).by = "" /\ NewState(w).prior = 0
BY DEF NewState

LEMMA AsStaleFields ==
  \A st, s, n : /\ AsStale(st, s, n).status = "stale" /\ AsStale(st, s, n).config = st.config
                /\ AsStale(st, s, n).inputs = {} /\ AsStale(st, s, n).outputs = {}
                /\ AsStale(st, s, n).by = s /\ AsStale(st, s, n).prior = n
BY DEF AsStale

LEMMA ChildStages ==
  ASSUME Shaped(head), NEW w, Pending(w)
  PROVE  LET c == Child(w) IN
         /\ c.id = head.id + 1 /\ c.schema = head.schema /\ c.by = w.stage
         /\ c.sources = NewSources(w)
         /\ DOMAIN c.stages = Stages(head.schema)
         /\ c.stages[w.stage] = NewState(w) /\ Active(c.stages[w.stage])
         /\ \A t \in Below(head.schema, w.stage) :
              IF head.stages[t].status # "absent"
                THEN c.stages[t] = AsStale(head.stages[t], w.stage, head.id)
                ELSE c.stages[t] = head.stages[t]
         /\ \A t \in Stages(head.schema) : Untouched(w, t) => c.stages[t] = head.stages[t]
<1> DEFINE v == head.schema
           c == Child(w)
<1>1. v \in SchemaVersions /\ w.stage \in Stages(v)
  BY DEF Shaped, Pending, GoodWork
<1>2. /\ c.id = head.id + 1 /\ c.schema = head.schema /\ c.by = w.stage /\ c.sources = NewSources(w)
      /\ c.stages = [s \in Stages(v) |->
           IF s \in Below(v, w.stage) /\ head.stages[s].status # "absent"
             THEN AsStale(head.stages[s], w.stage, head.id) ELSE Replaced(w)[s]]
  BY DEF Child, Below
<1>3. DOMAIN head.stages = Stages(v)
  BY DEF Shaped
<1>4. \A t \in Stages(v) : Replaced(w)[t] = IF t = w.stage THEN NewState(w) ELSE head.stages[t]
  BY <1>1, <1>3 DEF Replaced
<1>5. w.stage \notin Below(v, w.stage) /\ \A t \in Below(v, w.stage) : t \in Stages(v) /\ t # w.stage
  BY <1>1, BelowAfter
<1>6. Active(NewState(w))
  BY DEF NewState, Active, Pending, GoodWork, Verdict
<1>7. QED
  BY <1>1, <1>2, <1>4, <1>5, <1>6 DEF Untouched

LEMMA UntouchedUpstream ==
  ASSUME Shaped(head), NEW w, Pending(w), NEW d \in Stages(head.schema)
  PROVE  /\ w.stage \in Below(head.schema, d) => Untouched(w, d)
         /\ \A t \in Below(head.schema, d) : Untouched(w, t) => Untouched(w, d)
<1>1. head.schema \in SchemaVersions /\ w.stage \in Stages(head.schema)
  BY DEF Shaped, Pending, GoodWork
<1>2. QED
  BY <1>1, BelowTransitive, BelowAfter DEF Untouched

\* What artifacts are made of.
LEMMA MadeOfOne == \A s, m : MadeOf({Artifact(s, m)}) = m
BY DEF MadeOf, Artifact

LEMMA MadeOfOutputs ==
  ASSUME NEW r, NEW S
  PROVE  \A p : p \in MadeOf(OutputsOf(r, S)) <=> \E d \in S : p \in Made(r, d)
BY DEF MadeOf, OutputsOf, Made

LEMMA ChildMade ==
  ASSUME GoodRevision(head), NEW w, Pending(w)
  PROVE  LET c == Child(w) IN
         /\ Made(c, w.stage) = w.made /\ Own(c, w.stage) = <<w.stage, w.config>>
         /\ \A t \in Below(head.schema, w.stage) :
              /\ ~Active(c.stages[t]) /\ Made(c, t) = {}
              /\ c.stages[t].outputs = {} /\ c.stages[t].inputs = {}
              /\ c.stages[t].status \in {head.stages[t].status, "stale"}
              /\ c.stages[t].status = "absent" <=> head.stages[t].status = "absent"
         /\ \A t \in Stages(head.schema) : Untouched(w, t) =>
              Made(c, t) = Made(head, t) /\ Own(c, t) = Own(head, t)
<1> DEFINE c == Child(w)
<1> USE DEF GoodRevision
<1>0. c.stages[w.stage] = NewState(w) /\ c.sources = NewSources(w)
  BY ChildStages
<1>1. Made(c, w.stage) = w.made
  <2>1. c.stages[w.stage].outputs = {Artifact(w.stage, w.made)}
    BY <1>0, NewStateFields
  <2>2. QED
    BY <2>1, MadeOfOne DEF Made
<1>2. Own(c, w.stage) = <<w.stage, w.config>>
  <2>1. c.stages[w.stage].config = ConfigOf(w)
    BY <1>0, NewStateFields
  <2>2. QED
    BY <1>0, <2>1 DEF Own, NewSources, ConfigOf
<1>3. ASSUME NEW t \in Below(head.schema, w.stage)
      PROVE  /\ ~Active(c.stages[t]) /\ Made(c, t) = {}
             /\ c.stages[t].outputs = {} /\ c.stages[t].inputs = {}
             /\ c.stages[t].status \in {head.stages[t].status, "stale"}
             /\ c.stages[t].status = "absent" <=> head.stages[t].status = "absent"
  <2>1. CASE head.stages[t].status # "absent"
    <3>1. c.stages[t] = AsStale(head.stages[t], w.stage, head.id)
      BY <2>1, ChildStages
    <3>2. QED
      BY <2>1, <3>1 DEF AsStale, Active, Made, MadeOf
  <2>2. CASE head.stages[t].status = "absent"
    <3>1. c.stages[t] = head.stages[t] /\ t \in Stages(head.schema)
      BY <2>2, ChildStages, BelowDef DEF Shaped, Pending, GoodWork
    <3>2. QED
      BY <2>2, <3>1 DEF Active, Made, MadeOf, Emptied
  <2>3. QED
    BY <2>1, <2>2
<1>4. ASSUME NEW t \in Stages(head.schema), Untouched(w, t)
      PROVE  Made(c, t) = Made(head, t) /\ Own(c, t) = Own(head, t)
  BY <1>4, ChildStages DEF Made, Own, NewSources, Untouched
<1>5. QED
  BY <1>1, <1>2, <1>3, <1>4

LEMMA ChildBase ==
  ASSUME GoodRevision(head), NEW w, Pending(w)
  PROVE  /\ Base(Child(w), w.stage) = MadeFrom(head, w.stage, w.config)
         /\ \A t \in Stages(head.schema) : Untouched(w, t) => Base(Child(w), t) = Base(head, t)
<1> DEFINE c == Child(w)
<1> USE DEF GoodRevision
<1>1. head.schema \in SchemaVersions /\ w.stage \in Stages(head.schema) /\ c.schema = head.schema
  BY ChildStages DEF Shaped, Pending, GoodWork
<1>2. ASSUME NEW t \in Stages(head.schema), t = w.stage \/ Untouched(w, t)
      PROVE  MadeOf(OutputsOf(c, Reads(head.schema, t))) = MadeOf(OutputsOf(head, Reads(head.schema, t)))
  <2>1. \A d \in Reads(head.schema, t) : Made(c, d) = Made(head, d)
    BY <1>1, <1>2, ReadsBelow, UntouchedUpstream, ChildMade
  <2>2. \A p : p \in MadeOf(OutputsOf(c, Reads(head.schema, t)))
                <=> p \in MadeOf(OutputsOf(head, Reads(head.schema, t)))
    BY <2>1, MadeOfOutputs
  <2>3. QED
    BY <2>2 DEF MadeOf
<1>3. Base(c, w.stage) = MadeFrom(head, w.stage, w.config)
  BY <1>1, <1>2, ChildMade DEF Base, MadeFrom
<1>4. ASSUME NEW t \in Stages(head.schema), Untouched(w, t)
      PROVE  Base(c, t) = Base(head, t)
  BY <1>1, <1>2, <1>4, ChildMade DEF Base
<1>5. QED
  BY <1>3, <1>4

-----------------------------------------------------------------------------
(* A commit makes a good revision of a good one                            *)

LEMMA StageStateValue ==
  StageState =
    [status : {"absent", "complete", "failed", "stale"}, config : {""} \cup Configs,
     inputs : SUBSET ArtifactSet, outputs : SUBSET ArtifactSet, by : StageNames \cup {""}, prior : Nat]
BY DEF StageState, ArtifactSet, Configs

LEMMA StateFields ==
  ASSUME NEW r, Shaped(r), NEW t \in Stages(r.schema)
  PROVE  /\ r.stages[t] \in StageState
         /\ r.stages[t].outputs \subseteq ArtifactSet /\ r.stages[t].inputs \subseteq ArtifactSet
         /\ r.stages[t].status \in {"absent", "complete", "failed", "stale"}
         /\ r.stages[t].config \in {""} \cup Configs
<1>1. r.stages[t] \in StageState
  BY DEF Shaped
<1>2. \A st \in StageState :
        /\ st.outputs \in SUBSET ArtifactSet /\ st.inputs \in SUBSET ArtifactSet
        /\ st.status \in {"absent", "complete", "failed", "stale"}
        /\ st.config \in {""} \cup Configs
  BY StageStateValue
<1>3. QED
  BY <1>1, <1>2

LEMMA MadeType ==
  ASSUME NEW r, Shaped(r), NEW S \in SUBSET Stages(r.schema)
  PROVE  OutputsOf(r, S) \subseteq ArtifactSet /\ MadeOf(OutputsOf(r, S)) \subseteq Pairs
<1>1. OutputsOf(r, S) \subseteq ArtifactSet
  <2>1. \A d \in S : r.stages[d].outputs \subseteq ArtifactSet
    BY StateFields
  <2>2. QED
    BY <2>1 DEF OutputsOf
<1>2. QED
  BY <1>1 DEF MadeOf, ArtifactSet

LEMMA ChildShaped ==
  ASSUME GoodRevision(head), NEW w \in Work, Pending(w)
  PROVE  Shaped(Child(w))
<1> DEFINE c == Child(w)
           v == head.schema
<1>1. Shaped(head) /\ v \in SchemaVersions /\ head.id \in Nat /\ w.stage \in Stages(v) /\ w.stage \in StageNames
  BY DEF GoodRevision, Shaped, Pending, GoodWork, Work
<1>2. NewState(w) \in StageState
  <2>1. ConfigOf(w) \in {""} \cup Configs /\ w.status \in {"absent", "complete", "failed", "stale"}
    BY DEF ConfigOf, Work
  <2>2. OutputsOf(head, Requires(v, w.stage)) \in SUBSET ArtifactSet
    BY <1>1, MadeType, RequiresBefore
  <2>3. {Artifact(w.stage, w.made)} \in SUBSET ArtifactSet
    BY <1>1 DEF Artifact, ArtifactSet, Work
  <2>4. \A st, k, i, o : st \in {"absent", "complete", "failed", "stale"} /\ k \in {""} \cup Configs
                         /\ i \in SUBSET ArtifactSet /\ o \in SUBSET ArtifactSet =>
          [status |-> st, config |-> k, inputs |-> i, outputs |-> o, by |-> "", prior |-> 0] \in StageState
    BY StageStateValue
  <2>5. QED
    BY <2>1, <2>2, <2>3, <2>4 DEF NewState
<1>3. \A t \in Stages(v) : AsStale(head.stages[t], w.stage, head.id) \in StageState
  BY <1>1, StateFields DEF AsStale, StageState, Configs
<1>4. c.sources \in Contents \cup {""}
  <2>1. w.stage = "parse" => w.config \in Contents
    BY StagesAssumption DEF Pending, GoodWork
  <2>2. QED
    BY <1>1, <2>1, ChildStages DEF NewSources, Shaped
<1>5. c.stages \in [Stages(v) -> StageState]
  <2>1. c.stages = [s \in Stages(v) |->
           IF s \in Below(v, w.stage) /\ head.stages[s].status # "absent"
             THEN AsStale(head.stages[s], w.stage, head.id) ELSE Replaced(w)[s]]
    BY DEF Child, Below
  <2>2. \A t \in Stages(v) : Replaced(w)[t] \in StageState
    BY <1>1, <1>2, StateFields DEF Replaced, Shaped
  <2>3. QED
    BY <1>3, <2>1, <2>2
<1>6. /\ c.id = head.id + 1 /\ c.schema = v /\ c.by = w.stage
  BY <1>1, ChildStages
<1>7. c.id \in Nat
  BY <1>1, <1>6
<1> HIDE DEF c
<1>8. Shaped(c)
  BY <1>1, <1>4, <1>5, <1>6, <1>7 DEF Shaped
<1>9. QED
  BY <1>8 DEF c

\* Every stage of a child is the new one, one it does not touch, or below.
LEMMA ThreeWays ==
  ASSUME Shaped(head), NEW w, Pending(w), NEW t \in Stages(head.schema)
  PROVE  t = w.stage \/ Untouched(w, t) \/ t \in Below(head.schema, w.stage)
BY DEF Untouched

LEMMA ChildLineage ==
  ASSUME GoodRevision(head), NEW w \in Work, Pending(w)
  PROVE  Lineage(Child(w))
<1> DEFINE c == Child(w)
           v == head.schema
<1> USE DEF GoodRevision
<1>1. v \in SchemaVersions /\ w.stage \in Stages(v) /\ c.schema = v
  BY ChildStages DEF Shaped, Pending, GoodWork
<1>2. ASSUME NEW d \in Stages(v), w.stage \in Below(v, d), NEW p \in Made(head, d),
             w.stage \in Core => d \in Core
      PROVE  \/ p[1] = "review" /\ w.stage \notin Core
             \/ p[1] \in Stages(v) /\ p = Own(c, p[1]) /\ w.stage \in Below(v, p[1])
  <2>1. CASE p[1] = "review" /\ d \notin Core
    BY <1>2, <2>1
  <2>2. CASE p[1] \in Stages(v) /\ p = Own(head, p[1]) /\ (p[1] = d \/ d \in Below(v, p[1]))
    <3>1. w.stage \in Below(v, p[1])
      BY <1>1, <1>2, <2>2, BelowTransitive
    <3>2. QED
      BY <2>2, <3>1, UntouchedUpstream, ChildMade
  <2>3. QED
    BY <1>2, <2>1, <2>2 DEF Lineage
<1>3. ASSUME NEW d \in Reads(v, w.stage), w.stage \in Core
      PROVE  d \in Core
  <2>1. d \in Requires(v, w.stage) \cup {"parse", "clean"} /\ w.stage \in {"parse", "clean", "chunk"}
    BY <1>3 DEF Reads, DocumentReads, ImportReads, Core, Requires
  <2>2. QED
    BY <1>1, <1>3, <2>1, RequiresValue DEF Core
<1>4. ASSUME NEW p \in w.made
      PROVE  \/ p[1] = "review" /\ w.stage \notin Core
             \/ /\ p[1] \in Stages(v) /\ p = Own(c, p[1])
                /\ p[1] = w.stage \/ w.stage \in Below(v, p[1])
  <2>1. CASE p = <<w.stage, w.config>>
    BY <1>1, <2>1, ChildMade
  <2>2. ASSUME NEW d \in Reads(v, w.stage), p \in Made(head, d)
        PROVE  \/ p[1] = "review" /\ w.stage \notin Core
               \/ /\ p[1] \in Stages(v) /\ p = Own(c, p[1])
                  /\ p[1] = w.stage \/ w.stage \in Below(v, p[1])
    BY <1>1, <1>2, <1>3, <2>2, ReadsBelow
  <2>3. CASE w.stage = "construct" /\ p = Review(MadeFrom(head, w.stage, w.config))
    BY <2>3 DEF Review, Core
  <2>4. p \in MadeFrom(head, w.stage, w.config)
          \/ (w.stage = "construct" /\ p = Review(MadeFrom(head, w.stage, w.config)))
    BY <1>4 DEF Pending, GoodWork
  <2>5. QED
    BY <2>1, <2>2, <2>3, <2>4, MadeOfOutputs DEF MadeFrom
<1>5. ASSUME NEW t \in Stages(v), Untouched(w, t), NEW p \in Made(c, t)
      PROVE  \/ p[1] = "review" /\ t \notin Core
             \/ /\ p[1] \in Stages(v) /\ p = Own(c, p[1])
                /\ p[1] = t \/ t \in Below(v, p[1])
  <2>1. p \in Made(head, t)
    BY <1>5, ChildMade
  <2>2. CASE p[1] \in Stages(v) /\ p = Own(head, p[1]) /\ (p[1] = t \/ t \in Below(v, p[1]))
    BY <1>5, <2>2, UntouchedUpstream, ChildMade
  <2>3. QED
    BY <1>5, <2>1, <2>2 DEF Lineage
<1>6. QED
  BY <1>1, <1>4, <1>5, ThreeWays, ChildMade DEF Lineage

LEMMA ChildGood ==
  ASSUME GoodRevision(head), NEW w \in Work, Pending(w), Consistent(Child(w))
  PROVE  GoodRevision(Child(w))
<1> DEFINE c == Child(w)
           v == head.schema
<1>1. /\ Shaped(head) /\ Emptied(head) /\ Remade(head) /\ Judged(head) /\ Reviewable(head)
      /\ v \in SchemaVersions /\ w.stage \in Stages(v) /\ c.schema = v
  BY ChildStages DEF GoodRevision, Shaped, Pending, GoodWork
<1>0. /\ c.stages[w.stage].status = w.status /\ c.stages[w.stage].by = "" /\ c.stages[w.stage].prior = 0
      /\ c.stages[w.stage].outputs = {Artifact(w.stage, w.made)}
      /\ Active(c.stages[w.stage])
  <2>1. c.stages[w.stage] = NewState(w) /\ Active(c.stages[w.stage])
    BY <1>1, ChildStages
  <2>2. QED
    BY <2>1, NewStateFields
<1>a. \A t \in Stages(v) : Untouched(w, t) => c.stages[t] = head.stages[t]
  BY <1>1, ChildStages
<1>b. \A t \in Below(v, w.stage) :
        ~Active(c.stages[t]) /\ c.stages[t].outputs = {} /\ c.stages[t].inputs = {}
  BY ChildMade
<1>2. Emptied(c)
  <2>1. \A t \in Stages(v) : t = w.stage \/ Untouched(w, t) \/ t \in Below(v, w.stage)
    BY <1>1, ThreeWays
  <2>2. QED
    <3>1. \A t \in Stages(v) :
            IF Active(c.stages[t]) THEN c.stages[t].by = "" /\ c.stages[t].prior = 0
            ELSE c.stages[t].outputs = {} /\ c.stages[t].inputs = {}
      BY <1>1, <1>0, <1>a, <1>b, <2>1 DEF Emptied
    <3>2. "parse" \in Stages(v)
      BY <1>1, StagesType
    <3>3. w.stage = "parse" => c.stages["parse"].config = ""
      <4>1. c.stages[w.stage] = NewState(w)
        BY <1>1, ChildStages
      <4>2. QED
        BY <4>1, NewStateFields DEF ConfigOf
    <3>4. QED
      BY <1>1, <1>a, <1>b, <2>1, <3>1, <3>2, <3>3 DEF Emptied
<1>3. Remade(c)
  <2>1. /\ c.stages[w.stage].outputs = {Artifact(w.stage, Made(c, w.stage))}
        /\ \/ Made(c, w.stage) = Base(c, w.stage)
           \/ w.stage = "construct" /\ Made(c, w.stage) = Base(c, w.stage) \cup {Review(Base(c, w.stage))}
    <3>1. Made(c, w.stage) = w.made /\ Base(c, w.stage) = MadeFrom(head, w.stage, w.config)
      BY ChildMade, ChildBase
    <3>2. QED
      BY <1>0, <3>1 DEF Pending, GoodWork
  <2>2. ASSUME NEW t \in Stages(v), Untouched(w, t), Active(c.stages[t])
        PROVE  /\ c.stages[t].outputs = {Artifact(t, Made(c, t))}
               /\ \/ Made(c, t) = Base(c, t)
                  \/ t = "construct" /\ Made(c, t) = Base(c, t) \cup {Review(Base(c, t))}
    BY <1>1, <2>2, ChildStages, ChildMade, ChildBase DEF Remade
  <2>3. QED
    BY <1>1, <2>1, <2>2, ThreeWays, ChildMade DEF Remade
<1>4. Judged(c)
  <2>1. c.stages[w.stage].status = IF w.stage = "validate" THEN Verdict(Made(c, w.stage)) ELSE "complete"
    BY <1>1, <1>0, ChildMade DEF Pending, GoodWork
  <2>2. QED
    BY <1>1, <1>a, <1>b, <2>1, ThreeWays, ChildMade DEF Judged
<1>5. Reviewable(c)
  <2>1. ASSUME v \in {3, 4}, Active(c.stages["seal"]), "construct" \in Stages(v)
        PROVE  ReviewsResolved(c)
    <3>1. "seal" \in Below(v, "construct") /\ "seal" \in Stages(v)
      BY <1>1, <2>1, StagesValue, RequiresValue, BelowRequires
    <3>2. ReviewsResolved(head) /\ Untouched(w, "construct")
      <4>1. CASE w.stage = "seal"
        BY <1>1, <2>1, <3>1, <4>1, UntouchedUpstream DEF Pending, GoodWork
      <4>2. CASE Untouched(w, "seal")
        BY <1>1, <2>1, <3>1, <4>2, UntouchedUpstream, ChildStages DEF Reviewable
      <4>3. QED
        BY <2>1, <3>1, <4>1, <4>2, <1>1, ThreeWays, ChildMade DEF GoodRevision
    <3>3. c.stages["construct"] = head.stages["construct"]
      BY <1>1, <2>1, <3>2, ChildStages
    <3>4. QED
      BY <1>1, <3>2, <3>3 DEF ReviewsResolved, RequiresReview
  <2>2. QED
    BY <1>1, <2>1 DEF Reviewable, ReviewsResolved, RequiresReview
<1>6. QED
  BY <1>2, <1>3, <1>4, <1>5, ChildShaped, ChildLineage DEF GoodRevision

-----------------------------------------------------------------------------
(* An upgrade makes a good revision of a good one                          *)

\* What the two migrations start from and keep.
Migration(v, kept) ==
  \/ v = 2 /\ head.schema = 1 /\ kept = Stages(1)
  \/ v = 3 /\ head.schema = 2 /\ kept = Core \cup {"construct"}

LEMMA MigratedFields ==
  ASSUME NEW v, NEW kept
  PROVE  /\ Migrated(v, kept).id = head.id + 1 /\ Migrated(v, kept).by = "migration"
         /\ Migrated(v, kept).schema = v /\ Migrated(v, kept).sources = head.sources
BY DEF Migrated

LEMMA MigrationKeeps ==
  ASSUME NEW v, NEW kept, Migration(v, kept)
  PROVE  /\ v \in SchemaVersions /\ kept \subseteq Stages(v) /\ kept \subseteq Stages(head.schema)
         /\ "parse" \in kept /\ (v = 3 => "seal" \notin kept)
BY StagesValue DEF Migration, Core, SchemaVersions

LEMMA MigratedStages ==
  ASSUME Shaped(head), NEW v, NEW kept, Migration(v, kept)
  PROVE  LET m == Migrated(v, kept) IN
         /\ m.id = head.id + 1 /\ m.schema = v /\ m.by = "migration" /\ m.sources = head.sources
         /\ v \in SchemaVersions /\ kept \subseteq Stages(v) /\ kept \subseteq Stages(head.schema)
         /\ "parse" \in kept /\ (v = 3 => "seal" \notin kept)
         /\ \A t \in kept : m.stages[t] = head.stages[t]
         /\ \A t \in Stages(v) \ kept : m.stages[t] = Absent
         /\ m.stages = [t \in Stages(v) |-> IF t \in kept THEN head.stages[t] ELSE Absent]
<1> DEFINE m == Migrated(v, kept)
<1>1. /\ m.id = head.id + 1 /\ m.schema = v /\ m.by = "migration" /\ m.sources = head.sources
      /\ m.stages = [t \in Stages(v) |-> IF t \in kept THEN head.stages[t] ELSE Absent]
  BY DEF Migrated
<1>2. v \in SchemaVersions /\ kept \subseteq Stages(v) /\ kept \subseteq Stages(head.schema)
      /\ "parse" \in kept /\ (v = 3 => "seal" \notin kept)
  BY MigrationKeeps
<1> HIDE DEF m
<1>3. QED
  BY <1>1, <1>2 DEF m

\* A stage that is kept reads the same stages as before, all of them kept.
LEMMA MigratedReads ==
  ASSUME Shaped(head), NEW v, NEW kept, Migration(v, kept), NEW t \in kept
  PROVE  Reads(v, t) = Reads(head.schema, t) /\ Reads(v, t) \subseteq kept
<1>1. CASE v = 2 /\ head.schema = 1 /\ kept = Stages(1)
  <2>1. t \in {"parse", "clean", "chunk", "format", "validate", "seal"}
    BY <1>1, StagesValue
  <2>2. Reads(2, t) = (IF t = "chunk" THEN {"parse", "clean"} ELSE Requires(2, t))
        /\ Reads(1, t) = (IF t = "chunk" THEN {"parse", "clean"} ELSE Requires(1, t))
    BY DEF Reads
  <2>3. Requires(2, t) = Requires(1, t)
    <3>1. 1 \in SchemaVersions /\ 2 \in SchemaVersions
      BY DEF SchemaVersions
    <3>2. CASE t \in {"parse", "clean", "chunk"}
      BY <3>1, <3>2, RequiresValue
    <3>f. CASE t = "format"
      <4>1. Requires(1, "format") = {"chunk"} /\ Requires(2, "format") = {"chunk"}
        BY DEF Requires, FormatRequires
      <4>2. QED
        BY <3>f, <4>1
    <3>3. CASE t = "validate"
      <4>1. Requires(1, "validate") = Stages(1) \ {"validate", "seal"}
        BY <3>1, RequiresValue
      <4>2. Requires(2, "validate") = Stages(2) \ {"construct", "validate", "seal"}
        BY <3>1, RequiresValue
      <4>3. QED
        BY <3>3, <4>1, <4>2, StagesValue
    <3>4. CASE t = "seal"
      <4>1. Requires(1, "seal") = Stages(1) \ {"seal"}
        BY <3>1, RequiresValue
      <4>2. Requires(2, "seal") = Stages(2) \ {"construct", "seal"}
        BY <3>1, RequiresValue
      <4>3. QED
        BY <3>4, <4>1, <4>2, StagesValue
    <3>5. QED
      BY <2>1, <3>2, <3>f, <3>3, <3>4
  <2>4. Requires(1, t) \subseteq Stages(1)
    BY <2>1, <1>1, RequiresBefore DEF SchemaVersions
  <2>5. QED
    BY <1>1, <2>2, <2>3, <2>4, StagesValue
<1>2. CASE v = 3 /\ head.schema = 2 /\ kept = Core \cup {"construct"}
  <2>1. t \in {"parse", "clean", "chunk", "construct"}
    BY <1>2 DEF Core
  <2>2. Reads(2, t) = (IF t = "chunk" THEN {"parse", "clean"} ELSE Requires(2, t))
        /\ Reads(3, t) = (IF t = "chunk" THEN {"parse", "clean"} ELSE Requires(3, t))
    BY <2>1 DEF Reads, DocumentReads
  <2>3. Requires(3, t) = Requires(2, t) /\ Requires(2, t) \subseteq Core
    <3>1. 2 \in SchemaVersions /\ 3 \in SchemaVersions
      BY DEF SchemaVersions
    <3>2. Requires(3, t) = Requires(2, t)
      BY <2>1, <3>1, RequiresValue
    <3>3. Requires(2, t) \subseteq {"parse", "clean", "chunk"}
      BY <2>1, <3>1, RequiresValue
    <3>4. QED
      BY <3>2, <3>3 DEF Core
  <2>4. QED
    BY <1>2, <2>2, <2>3 DEF Core
<1>3. QED
  BY <1>1, <1>2 DEF Migration

\* And it depends on the same stages.
LEMMA MigratedBelow ==
  ASSUME Shaped(head), NEW v, NEW kept, Migration(v, kept), NEW t \in kept,
         NEW d \in Stages(head.schema), t \in Below(head.schema, d)
  PROVE  d \in kept /\ t \in Below(v, d)
<1>0. head.schema \in SchemaVersions
  BY DEF Shaped
<1>1. CASE v = 2 /\ head.schema = 1 /\ kept = Stages(1)
  <2>1. \A u \in Stages(1) : Requires(1, u) \subseteq Requires(2, u) /\ u \in Stages(2)
    BY StagesValue, RequiresValue DEF SchemaVersions
  <2>2. ASSUME NEW closed \in SUBSET Stages(2), ClosedFor(2, d, closed)
        PROVE  t \in closed
    <3>1. ClosedFor(1, d, closed \cap Stages(1))
      BY <2>1, <2>2 DEF ClosedFor
    <3>2. QED
      BY <1>0, <1>1, <3>1, BelowDef
  <2>3. QED
    BY <1>1, <2>1, <2>2, BelowDef DEF SchemaVersions
<1>2. CASE v = 3 /\ head.schema = 2 /\ kept = Core \cup {"construct"}
  <2>1. Rank(d) < Rank(t)
    BY <1>0, BelowAfter
  <2>2. d \in kept /\ d \in Stages(3) /\ t \in Stages(3)
    BY <1>2, <2>1, StagesValue, RankValue DEF Core
  <2>3. QED
    BY <1>2, <2>1, <2>2, BelowTotal
<1>3. QED
  BY <1>1, <1>2 DEF Migration

LEMMA AbsentFields ==
  /\ ~Active(Absent) /\ Absent.outputs = {} /\ Absent.inputs = {} /\ Absent \in StageState
  /\ Absent.status = "absent"
BY StageStateValue DEF Absent, Active

LEMMA MigratedGood ==
  ASSUME GoodRevision(head), NEW v, NEW kept, Migration(v, kept), Consistent(Migrated(v, kept))
  PROVE  GoodRevision(Migrated(v, kept))
<1> DEFINE m == Migrated(v, kept)
<1>1. /\ Shaped(head) /\ Emptied(head) /\ Remade(head) /\ Lineage(head) /\ Judged(head)
      /\ v \in SchemaVersions /\ kept \subseteq Stages(v) /\ kept \subseteq Stages(head.schema)
      /\ m.schema = v /\ m.sources = head.sources /\ "parse" \in kept
  <2>1. Shaped(head) /\ Emptied(head) /\ Remade(head) /\ Lineage(head) /\ Judged(head)
    BY DEF GoodRevision
  <2>2. QED
    BY <2>1, MigratedFields, MigrationKeeps
<1>c. m.id = head.id + 1 /\ m.by = "migration"
      /\ m.stages = [t \in Stages(v) |-> IF t \in kept THEN head.stages[t] ELSE Absent]
  BY <1>1, MigratedStages
<1> HIDE DEF m
<1>a. \A t \in kept : m.stages[t] = head.stages[t]
  BY <1>1, <1>c
<1>b. \A t \in Stages(v) \ kept : m.stages[t] = Absent
  BY <1>1, <1>c
<1>2. \A t \in kept : m.stages[t] = head.stages[t] /\ Made(m, t) = Made(head, t) /\ Own(m, t) = Own(head, t)
  BY <1>1, <1>a DEF Made, Own
<1>3. \A t \in Stages(v) \ kept : m.stages[t] = Absent /\ ~Active(m.stages[t]) /\ Made(m, t) = {}
  BY <1>b, AbsentFields DEF Made, MadeOf
<1>4. Shaped(m)
  <2>1. \A t \in kept : head.stages[t] \in StageState
    BY <1>1, StateFields
  <2>2. m.stages \in [Stages(v) -> StageState]
    BY <1>c, <2>1, AbsentFields
  <2>3. m.id \in Nat /\ m.by \in StageNames \cup {"init", "migration"} /\ m.sources \in Contents \cup {""}
    <3>1. head.id \in Nat /\ head.sources \in {""} \cup Contents
      BY DEF GoodRevision, Shaped
    <3>2. m.id = head.id + 1 /\ m.by = "migration" /\ m.sources = head.sources
      BY <1>1, <1>c
    <3>3. m.id \in Nat
      <4>1. head.id \in Nat
        BY <3>1
      <4>2. m.id = head.id + 1
        BY <3>2
      <4>3. QED
        BY <4>1, <4>2
    <3>4. m.sources \in Contents \cup {""}
      BY <3>1, <3>2
    <3>5. m.by \in StageNames \cup {"init", "migration"}
      BY <3>2
    <3>6. QED
      BY <3>3, <3>4, <3>5
  <2>4. QED
    BY <1>1, <2>2, <2>3 DEF Shaped
<1>5. Emptied(m)
  BY <1>1, <1>2, <1>3, AbsentFields DEF Emptied
<1>6. ASSUME NEW t \in kept
      PROVE  Base(m, t) = Base(head, t)
  <2>1. Reads(v, t) = Reads(head.schema, t) /\ Reads(v, t) \subseteq kept
    BY <1>1, MigratedReads
  <2>2. \A p : p \in MadeOf(OutputsOf(m, Reads(v, t))) <=> p \in MadeOf(OutputsOf(head, Reads(v, t)))
    BY <1>2, <2>1, MadeOfOutputs
  <2>3. MadeOf(OutputsOf(m, Reads(v, t))) = MadeOf(OutputsOf(head, Reads(v, t)))
    BY <2>2 DEF MadeOf
  <2>4. QED
    BY <1>1, <1>2, <2>1, <2>3 DEF Base
<1>7. Remade(m)
  BY <1>1, <1>2, <1>3, <1>6 DEF Remade
<1>8. Lineage(m)
  <2>1. ASSUME NEW t \in kept, NEW p \in Made(m, t)
        PROVE  \/ p[1] = "review" /\ t \notin Core
               \/ /\ p[1] \in Stages(v) /\ p = Own(m, p[1])
                  /\ p[1] = t \/ t \in Below(v, p[1])
    <3>1. CASE p[1] \in Stages(head.schema) /\ p = Own(head, p[1]) /\ t \in Below(head.schema, p[1])
      <4>1. p[1] \in kept /\ t \in Below(v, p[1])
        BY <1>1, <3>1, MigratedBelow
      <4>2. QED
        BY <1>1, <1>2, <3>1, <4>1
    <3>2. QED
      BY <1>1, <1>2, <2>1, <3>1 DEF Lineage
  <2>2. QED
    BY <1>1, <1>3, <2>1 DEF Lineage
<1>9. Judged(m)
  BY <1>1, <1>2, <1>3 DEF Judged
<1>10. Reviewable(m)
  <2>1. v \in {2, 3} /\ (v = 3 => "seal" \in Stages(v) \ kept)
    BY <1>1, MigratedStages, StagesValue DEF Migration
  <2>2. QED
    BY <1>1, <1>3, <2>1 DEF Reviewable
<1>11. Consistent(m)
  BY DEF m
<1>12. GoodRevision(m)
  BY <1>4, <1>5, <1>7, <1>8, <1>9, <1>10, <1>11 DEF GoodRevision
<1>13. QED
  BY <1>12 DEF m

-----------------------------------------------------------------------------
(* Commands compute good work                                              *)

LEMMA SettingsType == \A s \in StageNames : Settings[s] \subseteq Configs
BY DEF Configs

LEMMA MadeFromType ==
  ASSUME GoodRevision(head), NEW s \in Stages(head.schema), NEW k \in Settings[s]
  PROVE  MadeFrom(head, s, k) \subseteq Pairs
<1>1. Shaped(head) /\ head.schema \in SchemaVersions
  BY DEF GoodRevision, Shaped
<1>2. Reads(head.schema, s) \in SUBSET Stages(head.schema)
  BY <1>1, ReadsBelow
<1>3. MadeOf(OutputsOf(head, Reads(head.schema, s))) \subseteq Pairs
  BY <1>1, <1>2, MadeType
<1>4. <<s, k>> \in Pairs
  <2>1. s \in StageNames /\ k \in Configs
    BY <1>1, StagesType, SettingsType
  <2>2. <<s, k>> \in Choices
    BY <2>1 DEF Choices, Configs
  <2>3. QED
    BY <2>2 DEF Pairs
<1>5. QED
  BY <1>3, <1>4 DEF MadeFrom

LEMMA ComputedFields ==
  ASSUME NEW s, NEW k
  PROVE  LET w == Computed(head, s, k) IN
         /\ w.base = head.id /\ w.stage = s /\ w.config = k /\ w.made = MadeFrom(head, s, k)
         /\ w.status = IF s = "validate" THEN Verdict(w.made) ELSE "complete"
         /\ w = [base |-> head.id, stage |-> s, config |-> k, made |-> MadeFrom(head, s, k),
                  status |-> IF s = "validate" THEN Verdict(MadeFrom(head, s, k)) ELSE "complete"]
BY DEF Computed

LEMMA ComputedGood ==
  ASSUME GoodRevision(head), NEW s \in Stages(head.schema), NEW k \in Settings[s], Admitted(head, s)
  PROVE  Computed(head, s, k) \in Work /\ GoodWork(Computed(head, s, k))
<1> DEFINE w == Computed(head, s, k)
<1>1. head.schema \in SchemaVersions /\ s \in StageNames /\ head.id \in Nat /\ k \in Configs
  BY StagesType, SettingsType DEF GoodRevision, Shaped
<1>2. /\ w.base = head.id /\ w.stage = s /\ w.config = k /\ w.made = MadeFrom(head, s, k)
      /\ w.status = IF s = "validate" THEN Verdict(w.made) ELSE "complete"
  BY ComputedFields
<1>3. w \in Work
  <2>1. MadeFrom(head, s, k) \in SUBSET Pairs
    BY MadeFromType
  <2>2. (IF s = "validate" THEN Verdict(MadeFrom(head, s, k)) ELSE "complete") \in {"complete", "failed"}
    BY DEF Verdict
  <2>3. QED
    BY <1>1, <2>1, <2>2, ComputedFields DEF Work
<1> HIDE DEF w
<1>4. GoodWork(w)
  BY <1>1, <1>2 DEF GoodWork, Admitted
<1>5. QED
  BY <1>3, <1>4 DEF w

\* What the construction reads is all there is of the core.
LEMMA ConstructReads ==
  ASSUME NEW v \in SchemaVersions
  PROVE  Reads(v, "construct") = Core
BY RequiresValue DEF Reads, DocumentReads, ImportReads, Core, SchemaVersions

\* A plan is what the construction it was curated from is made of, and its
\* own setting.
LEMMA PlanMade ==
  ASSUME GoodRevision(head), head.schema = 3, Active(head.stages["curate"])
  PROVE  Made(head, "curate") = {Own(head, "curate")} \cup Made(head, "construct")
<1>1. Remade(head) /\ Shaped(head) /\ Consistent(head) /\ 3 \in SchemaVersions
  BY DEF GoodRevision, SchemaVersions
<1>2. {"parse", "clean", "chunk", "construct", "curate"} \subseteq Stages(3)
  BY StagesValue
<1>3. Active(head.stages["construct"])
  <2>1. "construct" \in Requires(3, "curate")
    BY <1>1, RequiresValue
  <2>2. QED
    BY <1>1, <1>2, <2>1 DEF Consistent, Active
<1>4. Made(head, "curate") = Base(head, "curate") /\ Base(head, "construct") \subseteq Made(head, "construct")
  BY <1>1, <1>2, <1>3 DEF Remade
<1>5. Reads(3, "curate") = Core \cup {"construct"}
  BY <1>1, RequiresValue DEF Reads, DocumentReads
<1>6. \A d \in Core : Made(head, d) \subseteq Made(head, "construct")
  BY <1>1, <1>4, ConstructReads, MadeOfOutputs DEF Base
<1>7. \A p : p \in MadeOf(OutputsOf(head, Reads(3, "curate"))) <=> p \in Made(head, "construct")
  BY <1>5, <1>6, MadeOfOutputs
<1>8. MadeOf(OutputsOf(head, Reads(3, "curate"))) = Made(head, "construct")
  BY <1>7 DEF MadeOf, Made
<1>9. QED
  BY <1>4, <1>8 DEF Base

LEMMA ConstructPairs ==
  ASSUME GoodRevision(head), head.schema = 3, NEW p \in Made(head, "construct")
  PROVE  p[1] # "curate"
<1>1. Lineage(head) /\ 3 \in SchemaVersions /\ "construct" \in Stages(3)
  BY StagesValue DEF GoodRevision, SchemaVersions
<1>2. ASSUME p[1] \in Stages(3), "construct" \in Below(3, p[1])
      PROVE  p[1] # "curate"
  <2>1. Rank(p[1]) < Rank("construct")
    BY <1>1, <1>2, BelowAfter
  <2>2. QED
    BY <2>1, RankValue
<1>3. QED
  BY <1>1, <1>2 DEF Lineage

\* A packet that matches the current plan binds the current construction.
LEMMA PacketBinds ==
  ASSUME GoodRevision(head), GoodPacket, head.schema = 3, ReviewAdmitted(head)
  PROVE  packet.built = MadeFrom(head, "construct", setting["construct"])
<1>1. /\ packet # None /\ packet.plan = Made(head, "curate")
      /\ Made(head, "construct") = MadeFrom(head, "construct", setting["construct"])
  BY DEF ReviewAdmitted, ReviewMatches, Made
<1>2. PICK k \in {""} \cup Configs : packet.plan = packet.built \cup {<<"curate", k>>}
  BY <1>1 DEF GoodPacket
<1>3. Active(head.stages["curate"])
  <2>1. Emptied(head) /\ "curate" \in Stages(3)
    BY StagesValue DEF GoodRevision
  <2>2. Made(head, "curate") # {}
    BY <1>1, <1>2
  <2>3. ~Active(head.stages["curate"]) => Made(head, "curate") = {}
    BY <2>1 DEF Emptied, Made, MadeOf
  <2>4. QED
    BY <2>2, <2>3
<1>4. Made(head, "curate") = {Own(head, "curate")} \cup Made(head, "construct")
  BY <1>3, PlanMade
<1>5. Own(head, "curate")[1] = "curate" /\ <<"curate", k>>[1] = "curate"
  BY DEF Own
<1>6. \A p \in Made(head, "construct") : p[1] # "curate"
  BY ConstructPairs
<1>7. \A p \in packet.built : p[1] # "curate"
  BY <1>1 DEF GoodPacket
<1>8. \A p : p \in packet.built <=> p \in Made(head, "construct")
  BY <1>1, <1>2, <1>4, <1>5, <1>6, <1>7
<1>9. packet.built = Made(head, "construct")
  <2>1. packet.built \subseteq Choices
    BY <1>1 DEF GoodPacket
  <2>2. QED
    BY <1>8
<1>10. QED
  BY <1>1, <1>9

LEMMA ReviewedGood ==
  ASSUME GoodRevision(head), GoodPacket, head.schema = 3, ReviewAdmitted(head),
         setting["construct"] \in Settings["construct"]
  PROVE  LET w == Computed(head, "construct", setting["construct"])
             reviewed == [w EXCEPT !.made = @ \cup {Review(packet.built)}]
         IN  reviewed \in Work /\ GoodWork(reviewed)
<1> DEFINE k == setting["construct"]
           w == Computed(head, "construct", k)
           made == MadeFrom(head, "construct", k)
           reviewed == [w EXCEPT !.made = @ \cup {Review(packet.built)}]
<1>1. "construct" \in Stages(head.schema) /\ Admitted(head, "construct") /\ packet # None
  BY StagesValue DEF ReviewAdmitted, ReviewMatches
<1>2. w \in Work /\ GoodWork(w)
  BY <1>1, ComputedGood
<1>3. w = [base |-> head.id, stage |-> "construct", config |-> k, made |-> made, status |-> "complete"]
  BY ComputedFields
<1>4. packet.built = made
  BY PacketBinds
<1>5. reviewed = [base |-> head.id, stage |-> "construct", config |-> k,
                  made |-> made \cup {Review(made)}, status |-> "complete"]
  BY <1>3, <1>4
<1>6. Review(made) \in Pairs
  <2>1. made \in SUBSET Choices
    BY <1>1, <1>4 DEF GoodPacket
  <2>2. QED
    BY <2>1 DEF Review, Pairs
<1> HIDE DEF made, k, reviewed
<1>7. reviewed \in Work
  BY <1>2, <1>3, <1>5, <1>6 DEF Work
<1>8. /\ reviewed.base = head.id /\ reviewed.stage = "construct" /\ reviewed.config = k
      /\ reviewed.made = made \cup {Review(made)} /\ reviewed.status = "complete"
  BY <1>5
<1>9. /\ w.base = head.id /\ w.stage = "construct" /\ w.config = k
  BY <1>3
<1> HIDE DEF w
<1>10. GoodWork(reviewed)
  BY <1>2, <1>8, <1>9 DEF GoodWork, made
<1>11. QED
  BY <1>7, <1>10 DEF reviewed, w, k

\* Reviewers bind what they are shown.
LEMMA PacketGood ==
  ASSUME GoodRevision(head), FillPacket
  PROVE  GoodPacket'
<1>1. /\ head.schema = 3 /\ head.stages["construct"].status = "complete"
      /\ head.stages["curate"].status = "complete" /\ ~ReviewsResolved(head)
      /\ packet' = [plan |-> Made(head, "curate"), built |-> Made(head, "construct")]
  BY DEF FillPacket, Made
<1>2. packet'.plan = Made(head, "curate") /\ packet'.built = Made(head, "construct")
  BY <1>1
<1>3. Made(head, "curate") = Made(head, "construct") \cup {Own(head, "curate")}
  BY <1>1, PlanMade DEF Active
<1>4. \E k \in {""} \cup Configs : Own(head, "curate") = <<"curate", k>>
  <2>1. "curate" \in Stages(head.schema) /\ Shaped(head)
    BY <1>1, StagesValue DEF GoodRevision
  <2>2. head.stages["curate"].config \in {""} \cup Configs
    BY <2>1, StateFields
  <2>3. Own(head, "curate") = <<"curate", head.stages["curate"].config>>
    BY DEF Own
  <2>4. QED
    BY <2>2, <2>3
<1>5. Made(head, "construct") \subseteq Choices
  <2>1. Made(head, "construct") \subseteq Pairs
    <3>1. {"construct"} \in SUBSET Stages(head.schema) /\ Shaped(head)
      BY <1>1, StagesValue DEF GoodRevision
    <3>2. MadeOf(OutputsOf(head, {"construct"})) \subseteq Pairs
      BY <3>1, MadeType
    <3>3. QED
      BY <3>2, MadeOfOutputs
  <2>2. ASSUME NEW p \in Made(head, "construct") PROVE p[1] # "review"
    BY <1>1 DEF ReviewsResolved, Made
  <2>3. \A p \in {"review"} \X SUBSET Choices : p[1] = "review"
    OBVIOUS
  <2>4. QED
    BY <2>1, <2>2, <2>3 DEF Pairs
<1>6. \A p \in Made(head, "construct") : p[1] # "curate"
  BY <1>1, ConstructPairs
<1>7. QED
  BY <1>2, <1>3, <1>4, <1>5, <1>6 DEF GoodPacket

-----------------------------------------------------------------------------
(* The invariant is inductive                                              *)

\* Work stays good while HEAD stays, and is a conflict once HEAD has moved.
LEMMA KeptWork ==
  ASSUME head' = head, NEW w, GoodWork(w)
  PROVE  GoodWork(w)'
BY DEF GoodWork, GateOpen, MadeFrom, ReviewsResolved, RequiresReview

LEMMA OlderWork ==
  ASSUME head.id \in Nat, head'.id = head.id + 1, NEW w, GoodWork(w)
  PROVE  GoodWork(w)'
<1>1. w.base \in Nat /\ w.base <= head.id
  BY DEF GoodWork
<1>2. w.base <= head'.id /\ w.base # head'.id
  BY <1>1
<1>3. QED
  BY <1>1, <1>2 DEF GoodWork

\* One client's work changes.
LEMMA WorkStep ==
  ASSUME Inv, head' = head, NEW c \in Clients, NEW w \in {None} \cup Work, w # None => GoodWork(w),
         work' = [work EXCEPT ![c] = w]
  PROVE  /\ work' \in [Clients -> {None} \cup Work]
         /\ \A d \in Clients : work'[d] # None => GoodWork(work[d])'
<1>1. work \in [Clients -> {None} \cup Work]
  BY DEF Inv, TypeOK, Work, Configs
<1>2. work' \in [Clients -> {None} \cup Work]
  BY <1>1
<1>3. \A d \in Clients : work'[d] = IF d = c THEN w ELSE work[d]
  BY <1>1
<1>4. ASSUME NEW d \in Clients, work'[d] # None
      PROVE  GoodWork(work'[d])
  BY <1>3, <1>4 DEF Inv
<1>5. ASSUME NEW d \in Clients, work'[d] # None
      PROVE  GoodWork(work[d])'
  <2> DEFINE x == work'[d]
  <2>1. GoodWork(x)
    BY <1>4, <1>5
  <2>2. QED
    BY <2>1 DEF GoodWork, GateOpen, MadeFrom, ReviewsResolved, RequiresReview
<1>6. QED
  BY <1>2, <1>5

\* HEAD moves on to a good revision, and one client may finish.
LEMMA HeadStep ==
  ASSUME Inv, head'.id = head.id + 1, GoodRevision(head'),
         work' = work \/ \E c \in Clients : work' = [work EXCEPT ![c] = None],
         UNCHANGED <<setting, packet>>, edits' = edits \/ edits' \in 0..MaxEdits
  PROVE  Inv'
<1>1. work \in [Clients -> {None} \cup Work] /\ head.id \in Nat
  BY DEF Inv, TypeOK, Work, Configs
<1>2. work' \in [Clients -> {None} \cup Work]
  BY <1>1
<1>3. \A d \in Clients : work'[d] # None => work'[d] = work[d]
  BY <1>1
<1>4. ASSUME NEW d \in Clients, work'[d] # None
      PROVE  GoodWork(work[d])'
  <2>1. work'[d] = work[d] /\ GoodWork(work[d])
    BY <1>3, <1>4 DEF Inv
  <2>2. work[d].base \in Nat /\ work[d].base <= head.id
    BY <2>1 DEF GoodWork
  <2>3. work'[d].base \in Nat /\ work'[d].base <= head'.id /\ work'[d].base # head'.id
    BY <1>1, <2>1, <2>2
  <2>4. QED
    BY <2>3 DEF GoodWork
<1>5. TypeOK'
  <2>1. Shaped(head')
    BY DEF GoodRevision
  <2>2. /\ head'.id \in Nat /\ head'.schema \in SchemaVersions
        /\ head'.by \in StageNames \cup {"init", "migration"}
        /\ head'.sources \in Contents \cup {""}
        /\ head'.stages \in [Stages(head'.schema) -> StageState]
    BY <2>1 DEF Shaped
  <2>3. QED
    BY <1>2, <2>2 DEF Inv, TypeOK, Work, Configs
<1>6. GoodPacket'
  BY DEF Inv, GoodPacket
<1>7. QED
  BY <1>4, <1>5, <1>6 DEF Inv

LEMMA RootGood ==
  ASSUME NEW v \in SchemaVersions
  PROVE  GoodRevision(Root(v))
<1> DEFINE r == Root(v)
<1>1. /\ r.id = 0 /\ r.schema = v /\ r.by = "init" /\ r.sources = "" /\ r.arts = {}
      /\ r.stages = [s \in Stages(v) |-> Absent] /\ r = Root(r.schema)
  BY DEF Root
<1> HIDE DEF r
<1>2. \A t \in Stages(v) : r.stages[t] = Absent
  BY <1>1
<1>3. \A t \in Stages(v) : /\ ~Active(r.stages[t]) /\ r.stages[t].outputs = {} /\ r.stages[t].inputs = {}
                          /\ r.stages[t].status = "absent" /\ Made(r, t) = {}
  BY <1>2, AbsentFields DEF Made, MadeOf
<1>4. Shaped(r)
  <2>1. r.stages \in [Stages(v) -> StageState]
    BY <1>1, AbsentFields
  <2>2. r.id \in Nat
    <3>1. r.id = 0
      BY <1>1
    <3>2. QED
      BY <3>1
  <2>3. QED
    BY <1>1, <2>1, <2>2 DEF Shaped
<1>5. "parse" \in Stages(v) /\ \A t \in Stages(v) : Below(v, t) \subseteq Stages(v)
  BY StagesType, BelowDef
<1>6. Emptied(r) /\ Remade(r) /\ Lineage(r) /\ Judged(r)
  BY <1>1, <1>3, <1>5 DEF Emptied, Remade, Lineage, Judged
<1>7. Reviewable(r)
  <2>1. v \in {3, 4} => "seal" \in Stages(v)
    BY StagesValue
  <2>2. QED
    BY <1>1, <1>3, <2>1 DEF Reviewable
<1>8. Consistent(r)
  <2>1. "init" \notin StageNames
    BY DEF StageNames
  <2>2. r.arts = Referenced(r.sources, r.stages)
    <3>1. DOMAIN r.stages = Stages(v)
      BY <1>1
    <3>2. UNION {r.stages[s].inputs \cup r.stages[s].outputs : s \in DOMAIN r.stages} = {}
      BY <1>3, <3>1
    <3>3. QED
      BY <1>1, <3>2 DEF Referenced, SourceArtifacts
  <2>3. \A s \in Stages(v) : \A t \in Descendants[v][s] : r.stages[t].status = "absent"
    BY <1>3, <1>5 DEF Below
  <2>4. StaleLineage(r)
    BY <1>1 DEF StaleLineage
  <2>5. QED
    BY <1>1, <1>3, <2>1, <2>2, <2>3, <2>4 DEF Consistent
<1>9. GoodRevision(r)
  BY <1>4, <1>6, <1>7, <1>8 DEF GoodRevision
<1>10. QED
  BY <1>9 DEF r

LEMMA InitInv == Init => Inv
<1> SUFFICES ASSUME Init PROVE Inv
  OBVIOUS
<1>1. PICK v \in Schemas : head = Root(v)
  BY DEF Init
<1>2. v \in SchemaVersions
  BY <1>1, StagesAssumption
<1>3. GoodRevision(head)
  BY <1>1, <1>2, RootGood
<1>4. TypeOK
  <2>1. /\ head.id \in Nat /\ head.schema \in SchemaVersions
        /\ head.by \in StageNames \cup {"init", "migration"}
        /\ head.sources \in Contents \cup {""}
        /\ head.stages \in [Stages(head.schema) -> StageState]
    BY <1>3 DEF GoodRevision, Shaped
  <2>2. work \in [Clients -> {None} \cup Work]
    BY DEF Init
  <2>3. edits \in 0..MaxEdits
    BY StagesAssumption DEF Init
  <2>4. setting \in [StageNames -> Configs] /\ \A s \in StageNames : setting[s] \in Settings[s]
    BY DEF Init, Configs
  <2>5. QED
    BY <2>1, <2>2, <2>3, <2>4 DEF TypeOK, Work, Configs
<1>5. QED
  BY <1>3, <1>4 DEF Init, Inv, GoodPacket

\* A command that computes, with or without a packet.
LEMMA ComputeInv ==
  ASSUME Inv, NEW c \in Clients, NEW s \in StageNames, Compute(c, s)
  PROVE  Inv'
<1>1. /\ s \in Stages(head.schema) /\ Admitted(head, s) /\ head' = head
      /\ work' = [work EXCEPT ![c] = Computed(head, s, setting[s])]
      /\ UNCHANGED <<setting, packet, edits>>
  BY DEF Compute
<1>2. setting[s] \in Settings[s] /\ GoodRevision(head)
  BY DEF Inv, TypeOK
<1> DEFINE w == Computed(head, s, setting[s])
<1>3. w \in Work /\ GoodWork(w)
  BY <1>1, <1>2, ComputedGood
<1> HIDE DEF w
<1>4. /\ work' \in [Clients -> {None} \cup Work]
      /\ \A d \in Clients : work'[d] # None => GoodWork(work[d])'
  BY <1>1, <1>3, WorkStep DEF w
<1>5. TypeOK'
  BY <1>1, <1>4 DEF Inv, TypeOK, Work, Configs
<1>6. GoodRevision(head)' /\ GoodPacket'
  BY <1>1 DEF Inv, GoodPacket
<1>7. QED
  BY <1>4, <1>5, <1>6 DEF Inv

LEMMA ReviewedInv ==
  ASSUME Inv, NEW c \in Clients, ComputeReviewed(c)
  PROVE  Inv'
<1> DEFINE k == setting["construct"]
           w == [Computed(head, "construct", k) EXCEPT !.made = @ \cup {Review(packet.built)}]
<1>1. /\ head.schema = 3 /\ ReviewAdmitted(head) /\ head' = head
      /\ work' = [work EXCEPT ![c] = w]
      /\ edits < MaxEdits /\ edits' = edits + 1 /\ UNCHANGED <<setting, packet>>
  BY DEF ComputeReviewed
<1>2. k \in Settings["construct"] /\ GoodRevision(head) /\ GoodPacket
  BY DEF Inv, TypeOK, StageNames
<1>3. w \in Work /\ GoodWork(w)
  BY <1>1, <1>2, ReviewedGood
<1> HIDE DEF w
<1>4. /\ work' \in [Clients -> {None} \cup Work]
      /\ \A d \in Clients : work'[d] # None => GoodWork(work[d])'
  BY <1>1, <1>3, WorkStep
<1>5. edits' \in 0..MaxEdits
  <2>1. edits \in 0..MaxEdits /\ MaxEdits \in Nat
    BY StagesAssumption DEF Inv, TypeOK
  <2>2. edits < MaxEdits /\ edits' = edits + 1
    BY <1>1
  <2>3. QED
    BY <2>1, <2>2
<1>6. TypeOK'
  BY <1>1, <1>4, <1>5 DEF Inv, TypeOK, Work, Configs
<1>7. GoodRevision(head)' /\ GoodPacket'
  BY <1>1 DEF Inv, GoodPacket
<1>8. QED
  BY <1>4, <1>6, <1>7 DEF Inv

\* A client that gives up, conflicts or finds nothing to change.
LEMMA FinishInv ==
  ASSUME Inv, NEW c \in Clients, work' = [work EXCEPT ![c] = None],
         UNCHANGED <<head, setting, packet, edits>>
  PROVE  Inv'
<1>1. /\ work' \in [Clients -> {None} \cup Work]
      /\ \A d \in Clients : work'[d] # None => GoodWork(work[d])'
  BY WorkStep
<1>2. TypeOK'
  BY <1>1 DEF Inv, TypeOK, Work, Configs
<1>3. GoodRevision(head)' /\ GoodPacket'
  BY DEF Inv, GoodPacket
<1>4. QED
  BY <1>1, <1>2, <1>3 DEF Inv

LEMMA PendingWork ==
  ASSUME Inv, NEW c \in Clients, CommitPending(c)
  PROVE  work[c] \in Work /\ Pending(work[c]) /\ GoodRevision(head)
BY DEF Inv, TypeOK, Work, Configs, CommitPending, Pending

LEMMA CommitInv ==
  ASSUME Inv, NEW c \in Clients, CommitNew(c)
  PROVE  Inv'
<1>1. /\ CommitPending(c) /\ head' = Child(work[c]) /\ Consistent(head')
      /\ work' = [work EXCEPT ![c] = None] /\ UNCHANGED <<setting, packet, edits>>
  BY DEF CommitNew, Accepted, Finish
<1>2. work[c] \in Work /\ Pending(work[c]) /\ GoodRevision(head)
  BY <1>1, PendingWork
<1>3. GoodRevision(head')
  BY <1>1, <1>2, ChildGood
<1>4. head'.id = head.id + 1
  BY <1>1, <1>2, ChildStages DEF GoodRevision
<1>5. QED
  BY <1>1, <1>3, <1>4, HeadStep

LEMMA UpgradeInv == ASSUME Inv, Upgrade PROVE Inv'
<1>1. PICK v, kept : Migration(v, kept) /\ head' = Migrated(v, kept)
  BY DEF Upgrade, Migration
<1>2. GoodRevision(head) /\ Consistent(head') /\ UNCHANGED <<work, setting, packet, edits>>
  BY DEF Inv, Upgrade
<1>3. GoodRevision(head')
  BY <1>1, <1>2, MigratedGood
<1>4. head'.id = head.id + 1
  BY <1>1, MigratedFields
<1>5. QED
  BY <1>2, <1>3, <1>4, HeadStep

\* Settings, files and packets change while HEAD stays.
LEMMA SettingsInv ==
  ASSUME Inv, head' = head, work' = work, edits' \in 0..MaxEdits, GoodPacket',
         setting' \in [StageNames -> Configs], \A s \in StageNames : setting'[s] \in Settings[s]
  PROVE  Inv'
<1>1. TypeOK'
  BY DEF Inv, TypeOK, Configs
<1>2. \A c \in Clients : work'[c] # None => GoodWork(work[c])'
  <2>1. ASSUME NEW c \in Clients, work'[c] # None
        PROVE  GoodWork(work[c])'
    <3> DEFINE w == work'[c]
    <3>1. GoodWork(w)
      BY <2>1 DEF Inv
    <3>2. QED
      BY <3>1 DEF GoodWork, GateOpen, MadeFrom, ReviewsResolved, RequiresReview
  <2>2. QED
    BY <2>1
<1>3. GoodRevision(head)'
  BY DEF Inv
<1>4. QED
  BY <1>1, <1>2, <1>3 DEF Inv

LEMMA NextInv == Inv /\ [Next]_vars => Inv'
<1> SUFFICES ASSUME Inv, [Next]_vars PROVE Inv'
  OBVIOUS
<1>1. ASSUME head' = head, work' = work, edits' \in 0..MaxEdits, GoodPacket',
             setting' \in [StageNames -> Configs], \A s \in StageNames : setting'[s] \in Settings[s]
      PROVE  Inv'
  BY <1>1, SettingsInv
<1>2. edits \in 0..MaxEdits /\ setting \in [StageNames -> Configs]
      /\ \A s \in StageNames : setting[s] \in Settings[s]
  BY DEF Inv, TypeOK, Configs
<1>3. CASE UNCHANGED vars
  BY <1>1, <1>2, <1>3 DEF vars, Inv, GoodPacket
<1>4. CASE Edit
  <2>1. PICK s \in StageNames : \E k \in Settings[s] : setting' = [setting EXCEPT ![s] = k]
    BY <1>4 DEF Edit
  <2>2. PICK k \in Settings[s] : setting' = [setting EXCEPT ![s] = k]
    BY <2>1
  <2>3. setting' \in [StageNames -> Configs] /\ \A t \in StageNames : setting'[t] \in Settings[t]
    BY <1>2, <2>2, SettingsType
  <2>4. edits' \in 0..MaxEdits /\ head' = head /\ work' = work /\ packet' = packet
    BY <1>2, <1>4, StagesAssumption DEF Edit
  <2>5. GoodPacket'
    BY <2>4 DEF Inv, GoodPacket
  <2>6. QED
    BY <1>1, <2>3, <2>4, <2>5
<1>5. CASE FillPacket
  <2>1. GoodPacket'
    BY <1>5, PacketGood DEF Inv
  <2>2. UNCHANGED <<head, work, setting, edits>>
    BY <1>5 DEF FillPacket
  <2>3. QED
    BY <1>1, <1>2, <2>1, <2>2
<1>6. CASE Upgrade
  BY <1>6, UpgradeInv
<1>7. ASSUME NEW c \in Clients, Run(c)
      PROVE  Inv'
  <2>1. ComputeReviewed(c) \/ \E s \in StageNames : Compute(c, s)
    BY <1>7 DEF Run, Parse, Clean, Chunk, Construct, MapRows, Curate, Split, Format, Validate, Seal,
                StageNames
  <2>2. QED
    BY <2>1, ComputeInv, ReviewedInv
<1>8. ASSUME NEW c \in Clients, Abandon(c)
      PROVE  Inv'
  BY <1>8, FinishInv DEF Abandon
<1>9. ASSUME NEW c \in Clients, Commit(c)
      PROVE  Inv'
  <2>1. CASE CommitConflict(c)
    BY <2>1, FinishInv DEF CommitConflict, Finish
  <2>2. CASE CommitUnchanged(c)
    BY <2>2, FinishInv DEF CommitUnchanged, Finish
  <2>3. CASE CommitNew(c)
    BY <2>3, CommitInv
  <2>4. QED
    BY <1>9, <2>1, <2>2, <2>3 DEF Commit
<1>10. QED
  BY <1>3, <1>4, <1>5, <1>6, <1>7, <1>8, <1>9 DEF Next

THEOREM Invariance == Spec => []Inv
<1>1. Init => Inv
  BY InitInv
<1>2. Inv /\ [Next]_vars => Inv'
  BY NextInv
<1>3. QED
  BY <1>1, <1>2, PTL DEF Spec

\* Every reachable state is one of revisions, work and settings: in particular
\* a manifest holds exactly the stages of its schema.
THEOREM TypeCorrect == Spec => []TypeOK
<1>1. Inv => TypeOK
  BY DEF Inv
<1>2. QED
  BY <1>1, Invariance, PTL

-----------------------------------------------------------------------------
(* What is active is of one generation                                     *)

LEMMA GoodOneGeneration == Inv => OneGeneration
<1> SUFFICES ASSUME Inv, NEW s \in Stages(head.schema), Active(head.stages[s])
             PROVE  /\ \A d \in Reads(head.schema, s) : Outputs(d) \subseteq Outputs(s)
                    /\ \A p \in Outputs(s) \ Reviews(Outputs(s)) :
                         /\ p[1] = s \/ head.stages[p[1]].status = "complete"
                         /\ p[2] = IF p[1] = "parse" THEN head.sources ELSE head.stages[p[1]].config
  BY DEF OneGeneration
<1>1. GoodRevision(head) /\ Shaped(head) /\ Remade(head) /\ Lineage(head) /\ Consistent(head)
  BY DEF Inv, GoodRevision
<1>2. \A t : Outputs(t) = Made(head, t)
  BY DEF Outputs, Made
<1>3. Base(head, s) \subseteq Made(head, s)
  BY <1>1 DEF Remade
<1>4. ASSUME NEW d \in Reads(head.schema, s)
      PROVE  Made(head, d) \subseteq Made(head, s)
  BY <1>3, MadeOfOutputs DEF Base
<1>5. ASSUME NEW p \in Made(head, s), p[1] # "review"
      PROVE  /\ p[1] = s \/ head.stages[p[1]].status = "complete"
             /\ p[2] = IF p[1] = "parse" THEN head.sources ELSE head.stages[p[1]].config
  <2>1. p[1] \in Stages(head.schema) /\ p = Own(head, p[1]) /\ (p[1] = s \/ s \in Below(head.schema, p[1]))
    BY <1>1, <1>5 DEF Lineage
  <2>2. p[2] = IF p[1] = "parse" THEN head.sources ELSE head.stages[p[1]].config
    BY <2>1 DEF Own
  <2>3. QED
    BY <1>1, <2>1, <2>2, AncestorsComplete
<1>6. QED
  BY <1>2, <1>4, <1>5 DEF Reviews

\* Whatever was run, raced, edited and migrated before, a stage that is active
\* was made from what the stages its command reads hold now, and every setting
\* in it is the one recorded for its stage: generations are never mixed.
THEOREM NoMixedGenerations == Spec => []OneGeneration
<1>1. QED
  BY GoodOneGeneration, Invariance, PTL

-----------------------------------------------------------------------------
(* Reviews                                                                 *)

LEMMA GoodReviewed == Inv => ReviewedAsBuilt
<1> DEFINE v == head.schema
           built == Base(head, "construct")
<1> SUFFICES ASSUME Inv, "construct" \in Stages(v), NEW p \in Made(head, "construct"), p[1] = "review"
             PROVE  p[2] = {q \in Made(head, "construct") : q[1] # "review"}
  BY DEF ReviewedAsBuilt, Reviews, Outputs, Made
<1>1. /\ Shaped(head) /\ Remade(head) /\ Lineage(head) /\ Emptied(head) /\ v \in SchemaVersions
  BY DEF Inv, GoodRevision, Shaped
<1>2. Active(head.stages["construct"])
  BY <1>1 DEF Emptied, Made, MadeOf
<1>3. \A q \in built : q[1] # "review"
  <2>1. ASSUME NEW d \in Core, NEW q \in Made(head, d)
        PROVE  q[1] # "review"
    <3>1. d \in Stages(v)
      BY <1>1, <2>1, ConstructReads, ReadsBelow
    <3>2. q[1] \in Stages(v)
      BY <1>1, <2>1, <3>1 DEF Lineage
    <3>3. "review" \notin StageNames
      BY DEF StageNames
    <3>4. QED
      BY <1>1, <3>2, <3>3, StagesType
  <2>2. Own(head, "construct")[1] = "construct"
    BY DEF Own
  <2>3. QED
    BY <1>1, <2>1, <2>2, ConstructReads, MadeOfOutputs DEF Base
<1>4. Made(head, "construct") = built \/ Made(head, "construct") = built \cup {Review(built)}
  BY <1>1, <1>2 DEF Remade
<1>5. Review(built)[1] = "review" /\ Review(built)[2] = built
  BY DEF Review
<1> HIDE DEF built
<1>6. p = Review(built)
  BY <1>3, <1>4
<1>7. built = {q \in Made(head, "construct") : q[1] # "review"}
  BY <1>3, <1>4, <1>5, <1>6
<1>8. QED
  BY <1>5, <1>6, <1>7

\* Decisions that reach the workspace through a packet are about exactly the
\* construction they are stored with, however old the packet is.
THEOREM ReviewsStayWithTheirConstruction == Spec => []ReviewedAsBuilt
<1>1. QED
  BY GoodReviewed, Invariance, PTL

-----------------------------------------------------------------------------
(* What is sealed                                                          *)

LEMMA GoodSealed == Inv => (head.schema # 2 => SealedPassed)
<1> DEFINE v == head.schema
<1> SUFFICES ASSUME Inv, v # 2, "seal" \in Stages(v), head.stages["seal"].status = "complete"
             PROVE  /\ head.sources \notin FailingContents
                    /\ RequiresReview(head) => Reviews(Outputs("seal")) # {}
  BY DEF SealedPassed
<1>1. /\ Shaped(head) /\ Remade(head) /\ Judged(head) /\ Reviewable(head) /\ Consistent(head)
      /\ v \in SchemaVersions
  BY DEF Inv, GoodRevision, Shaped
<1>2. \A d \in Requires(v, "seal") : head.stages[d].status = "complete"
  BY <1>1 DEF Consistent, Active
<1>3. "parse" \in Stages(v) /\ "validate" \in Stages(v)
      /\ Requires(v, "seal") = Stages(v) \ {"seal"}
      /\ Requires(v, "validate") = Stages(v) \ {"validate", "seal"}
  BY <1>1, RequiresValue, StagesValue DEF SchemaVersions
<1>4. \A s \in {"validate", "seal"} : Reads(v, s) = Requires(v, s)
  BY DEF Reads, DocumentReads, ImportReads, Requires
<1>5. \A s \in Stages(v) : head.stages[s].status = "complete" => Base(head, s) \subseteq Made(head, s)
  BY <1>1 DEF Remade, Active
<1>6. head.sources \notin FailingContents
  <2>1. <<"parse", head.sources>> \in Made(head, "validate")
    <3>1. <<"parse", head.sources>> \in Made(head, "parse")
      BY <1>2, <1>3, <1>5 DEF Base, Own
    <3>2. Made(head, "parse") \subseteq Base(head, "validate")
      BY <1>3, <1>4, MadeOfOutputs DEF Base
    <3>3. QED
      BY <1>2, <1>3, <1>5, <3>1, <3>2
  <2>2. Verdict(Made(head, "validate")) = "complete"
    BY <1>1, <1>2, <1>3 DEF Judged, Active
  <2>3. QED
    BY <2>1, <2>2 DEF Verdict
<1>7. ASSUME RequiresReview(head) PROVE Reviews(Outputs("seal")) # {}
  <2>1. "construct" \in Stages(v) /\ v \in {3, 4}
    BY <1>1, <1>7, StagesValue DEF RequiresReview, SchemaVersions
  <2>2. PICK p \in Made(head, "construct") : p[1] = "review"
    BY <1>1, <1>7, <2>1 DEF Reviewable, ReviewsResolved, Active, Made
  <2>3. Made(head, "construct") \subseteq Base(head, "seal")
    BY <1>3, <1>4, <2>1, MadeOfOutputs DEF Base
  <2>4. p \in Made(head, "seal")
    BY <1>5, <2>2, <2>3
  <2>5. QED
    BY <2>2, <2>4 DEF Reviews, Outputs, Made
<1>8. QED
  BY <1>6, <1>7

\* Where the seal depends on everything before it, which is in every schema but
\* the second, only contents that validation passes are sealed, with the
\* reviews that their recipe requires.
THEOREM OnlyValidatedIsSealed == Spec => [](head.schema # 2 => SealedPassed)
<1>1. QED
  BY GoodSealed, Invariance, PTL

-----------------------------------------------------------------------------
(* The revision validators accept what a commit makes                      *)

\* Everything before the stage of the work is complete.
LEMMA UpstreamComplete ==
  ASSUME GoodRevision(head), NEW w, Pending(w), head.schema # 2,
         NEW t \in Stages(head.schema), Untouched(w, t)
  PROVE  head.stages[t].status = "complete"
<1> DEFINE v == head.schema
<1>1. Shaped(head) /\ Consistent(head) /\ w.stage \in Stages(v) /\ GateOpen(head, w.stage)
      /\ v \in {1, 3, 4} /\ v \in SchemaVersions
  <2>1. Shaped(head) /\ Consistent(head) /\ w.stage \in Stages(v) /\ GateOpen(head, w.stage)
        /\ v \in SchemaVersions
    BY DEF GoodRevision, Shaped, Pending, GoodWork
  <2>2. \A n \in SchemaVersions : n # 2 => n \in {1, 3, 4}
    BY DEF SchemaVersions
  <2>3. QED
    BY <2>1, <2>2
<1>2. Rank(w.stage) # Rank(t)
  <2>1. t # w.stage
    BY DEF Untouched
  <2>2. CASE v = 1
    BY <1>1, <2>1, <2>2, StagesValue, RankValue
  <2>3. CASE v = 3
    BY <1>1, <2>1, <2>3, StagesValue, RankValue
  <2>4. CASE v = 4
    BY <1>1, <2>1, <2>4, StagesValue, RankValue
  <2>5. QED
    BY <1>1, <2>2, <2>3, <2>4
<1>3. ~(Rank(w.stage) < Rank(t))
  BY <1>1, BelowTotal DEF Untouched
<1>4. Rank(w.stage) \in 0..8 /\ Rank(t) \in 0..8
  BY <1>1, StagesType, RankType
<1>5. w.stage \in Below(v, t)
  BY <1>1, <1>2, <1>3, <1>4, BelowTotal
<1>6. QED
  BY <1>1, <1>5, GateComplete

LEMMA ChildArtifacts ==
  ASSUME GoodRevision(head), NEW w, Pending(w)
  PROVE  Child(w).arts = Referenced(Child(w).sources, Child(w).stages)
<1> DEFINE c == Child(w)
           v == head.schema
           one == Artifact(w.stage, w.made)
<1>1. /\ Shaped(head) /\ Consistent(head) /\ v \in SchemaVersions /\ w.stage \in Stages(v)
      /\ w.made = MadeFrom(head, w.stage, w.config) \/ w.stage = "construct"
  BY DEF GoodRevision, Shaped, Pending, GoodWork
<1>2. c.arts = (head.arts \cup {one}) \cap Referenced(c.sources, c.stages)
  BY DEF Child, Kept
<1>3. head.arts = Referenced(head.sources, head.stages) /\ DOMAIN head.stages = Stages(v)
  BY <1>1 DEF Consistent, Shaped
<1>4. c.stages[w.stage] = NewState(w) /\ DOMAIN c.stages = Stages(v) /\ c.sources = NewSources(w)
      /\ \A t \in Stages(v) : Untouched(w, t) => c.stages[t] = head.stages[t]
  BY <1>1, ChildStages
<1>5. \A t \in Below(v, w.stage) : c.stages[t].outputs = {} /\ c.stages[t].inputs = {}
  BY ChildMade
<1>6. \A t \in Stages(v) : head.stages[t].inputs \cup head.stages[t].outputs \subseteq head.arts
  BY <1>3 DEF Referenced
<1>7. SourceArtifacts(c.sources) \subseteq head.arts \cup {one}
  <2>1. CASE w.stage = "parse"
    <3>1. w.made = {<<"parse", w.config>>}
      <4>1. Reads(v, "parse") = {}
        BY <1>1, RequiresValue DEF Reads, DocumentReads, ImportReads, Requires
      <4>2. MadeOf(OutputsOf(head, {})) = {}
        BY DEF MadeOf, OutputsOf
      <4>3. QED
        BY <1>1, <2>1, <4>1, <4>2 DEF MadeFrom
    <3>2. c.sources = w.config
      BY <1>4, <2>1 DEF NewSources
    <3>3. QED
      BY <2>1, <3>1, <3>2 DEF SourceArtifacts
  <2>2. CASE w.stage # "parse"
    <3>1. c.sources = head.sources
      BY <1>4, <2>2 DEF NewSources
    <3>2. QED
      BY <1>3, <3>1 DEF Referenced
  <2>3. QED
    BY <2>1, <2>2
<1>8. ASSUME NEW t \in Stages(v)
      PROVE  c.stages[t].inputs \cup c.stages[t].outputs \subseteq head.arts \cup {one}
  <2>1. CASE t = w.stage
    <3>1. c.stages[t].outputs = {one} /\ c.stages[t].inputs = OutputsOf(head, Requires(v, t))
      BY <1>4, <2>1, NewStateFields
    <3>2. \A d \in Requires(v, t) : d \in Stages(v)
      BY <1>1, RequiresBefore
    <3>3. OutputsOf(head, Requires(v, t)) \subseteq head.arts
      BY <1>6, <3>2 DEF OutputsOf
    <3>4. QED
      BY <3>1, <3>3
  <2>2. CASE Untouched(w, t)
    BY <1>4, <1>6, <2>2
  <2>3. CASE t \in Below(v, w.stage)
    BY <1>5, <2>3
  <2>4. QED
    BY <1>1, <2>1, <2>2, <2>3, ThreeWays
<1> HIDE DEF c, one
<1>9. Referenced(c.sources, c.stages) \subseteq head.arts \cup {one}
  BY <1>4, <1>7, <1>8 DEF Referenced
<1>10. c.arts = Referenced(c.sources, c.stages)
  BY <1>2, <1>9
<1>11. QED
  BY <1>10 DEF c

LEMMA ChildConsistent ==
  ASSUME GoodRevision(head), NEW w \in Work, Pending(w), head.schema # 2
  PROVE  Consistent(Child(w))
<1> DEFINE c == Child(w)
           v == head.schema
<1>1. /\ Shaped(head) /\ Consistent(head) /\ v \in SchemaVersions /\ w.stage \in Stages(v)
      /\ GateOpen(head, w.stage) /\ w.stage \in StageNames /\ head.id \in Nat
      /\ w.status = IF w.stage = "validate" THEN Verdict(w.made) ELSE "complete"
  BY DEF GoodRevision, Shaped, Pending, GoodWork, Work
<1>2. /\ c.id = head.id + 1 /\ c.schema = v /\ c.by = w.stage
      /\ c.stages[w.stage] = NewState(w) /\ Active(c.stages[w.stage])
      /\ \A t \in Stages(v) : Untouched(w, t) => c.stages[t] = head.stages[t]
  BY <1>1, ChildStages
<1>3. \A t \in Below(v, w.stage) :
        /\ ~Active(c.stages[t])
        /\ c.stages[t].status = "absent" <=> head.stages[t].status = "absent"
  BY ChildMade
<1>4. \A t \in Below(v, w.stage) :
        IF head.stages[t].status # "absent"
          THEN c.stages[t] = AsStale(head.stages[t], w.stage, head.id)
          ELSE c.stages[t] = head.stages[t]
  BY <1>1, ChildStages
<1>5. \A t \in Stages(v) : t = w.stage \/ Untouched(w, t) \/ t \in Below(v, w.stage)
  BY <1>1, ThreeWays
<1>6. \A t \in Stages(v) : Untouched(w, t) => c.stages[t].status = "complete"
  BY <1>2, UpstreamComplete
<1>7. c.arts = Referenced(c.sources, c.stages)
  BY ChildArtifacts
<1>8. c.stages[w.stage].status = w.status /\ c.stages[w.stage].inputs = OutputsOf(head, Requires(v, w.stage))
  BY <1>2, NewStateFields
<1> HIDE DEF c
<1>9. c.stages[c.by].status \in (IF c.by = "validate" THEN {"complete", "failed"} ELSE {"complete"})
  BY <1>1, <1>2, <1>8 DEF Verdict
<1>10. StaleLineage(c)
  <2>1. ASSUME NEW t \in Stages(v), c.stages[t].status = "stale"
        PROVE  t \in Below(v, w.stage) /\ c.stages[t].by = w.stage /\ c.stages[t].prior = c.id - 1
    <3>1. t \in Below(v, w.stage)
      BY <1>2, <1>5, <1>6, <2>1 DEF Active
    <3>2. c.stages[t] = AsStale(head.stages[t], w.stage, head.id)
      BY <1>4, <2>1, <3>1
    <3>3. c.stages[t].by = w.stage /\ c.stages[t].prior = head.id
      BY <3>2, AsStaleFields
    <3>4. c.id - 1 = head.id
      <4>1. head.id \in Nat
        BY <1>1
      <4>2. c.id = head.id + 1
        BY <1>2
      <4>3. QED
        BY <4>1, <4>2
    <3>5. QED
      BY <3>1, <3>3, <3>4
  <2>2. QED
    BY <1>2, <2>1 DEF StaleLineage, Below
<1>11. ASSUME NEW t \in Stages(v), Active(c.stages[t])
       PROVE  /\ \A d \in Requires(v, t) : c.stages[d].status = "complete"
              /\ c.stages[t].inputs = OutputsOf(c, Requires(v, t))
  <2>1. \A d \in Requires(v, t) : d \in Stages(v) /\ t \in Below(v, d)
    BY <1>1, RequiresBefore, BelowRequires
  <2>2. \A d \in Requires(v, t) : Untouched(w, d)
    BY <1>1, <1>3, <1>5, <1>11, <2>1, UntouchedUpstream
  <2>3. \A d \in Requires(v, t) : c.stages[d] = head.stages[d] /\ c.stages[d].status = "complete"
    BY <1>2, <1>6, <2>1, <2>2
  <2>4. OutputsOf(c, Requires(v, t)) = OutputsOf(head, Requires(v, t))
    BY <2>3 DEF OutputsOf
  <2>5. c.stages[t].inputs = OutputsOf(head, Requires(v, t))
    <3>1. CASE t = w.stage
      BY <1>8, <3>1
    <3>2. CASE Untouched(w, t)
      BY <1>1, <1>2, <1>11, <3>2 DEF Consistent
    <3>3. QED
      BY <1>3, <1>5, <1>11, <3>1, <3>2
  <2>6. QED
    BY <2>3, <2>4, <2>5
<1>12. ASSUME NEW t \in Stages(v), c.stages[t].status = "absent", NEW u \in Below(v, t)
       PROVE  c.stages[u].status = "absent"
  <2>1. t \in Below(v, w.stage)
    BY <1>2, <1>5, <1>6, <1>12 DEF Active
  <2>2. u \in Below(v, w.stage)
    BY <1>1, <2>1, <1>12, BelowTransitive
  <2>3. head.stages[u].status = "absent"
    BY <1>1, <1>3, <1>12, <2>1 DEF Consistent, Below
  <2>4. QED
    BY <1>3, <2>2, <2>3
<1>13. c.by # "init" /\ c.by # "migration"
  BY <1>1, <1>2 DEF StageNames
<1>14. Consistent(c)
  BY <1>2, <1>7, <1>9, <1>10, <1>11, <1>12, <1>13 DEF Consistent, Below
<1>15. QED
  BY <1>14 DEF c

LEMMA ChildTransition ==
  ASSUME GoodRevision(head), NEW w \in Work, Pending(w), ~ExactNoop(w)
  PROVE  Transition(Child(w), head)
<1> DEFINE c == Child(w)
           v == head.schema
<1>1. /\ Shaped(head) /\ v \in SchemaVersions /\ w.stage \in Stages(v) /\ DOMAIN head.stages = Stages(v)
      /\ head.stages \in [Stages(v) -> StageState]
  BY DEF GoodRevision, Shaped, Pending, GoodWork
<1>2. /\ c.id = head.id + 1 /\ c.schema = v /\ c.by = w.stage /\ c.sources = NewSources(w)
      /\ c.stages[w.stage] = NewState(w)
  BY <1>1, ChildStages
<1>3. \A t \in Stages(v) \ {w.stage} :
        c.stages[t] = IF t \in Descendants[v][w.stage] /\ head.stages[t].status # "absent"
                        THEN AsStale(head.stages[t], w.stage, head.id) ELSE head.stages[t]
  <2>1. \A t \in Stages(v) :
          c.stages[t] = IF t \in Descendants[v][w.stage] /\ head.stages[t].status # "absent"
                          THEN AsStale(head.stages[t], w.stage, head.id) ELSE Replaced(w)[t]
    BY DEF Child
  <2>2. \A t \in Stages(v) \ {w.stage} : Replaced(w)[t] = head.stages[t]
    BY <1>1 DEF Replaced
  <2>3. QED
    BY <2>1, <2>2
<1>4. w.stage # "parse" => NewSources(w) = head.sources
  BY DEF NewSources
<1>5. <<c.sources, c.arts, c.stages>> # <<head.sources, head.arts, head.stages>>
  <2> SUFFICES ASSUME c.sources = head.sources, c.arts = head.arts, c.stages = head.stages PROVE FALSE
    OBVIOUS
  <2>1. NewState(w) = head.stages[w.stage]
    BY <1>2
  <2>2. Replaced(w) = head.stages
    BY <1>1, <2>1 DEF Replaced
  <2>3. c.arts = Kept(w, c.stages)
    BY DEF Child
  <2>4. QED
    BY <1>2, <2>1, <2>2, <2>3 DEF ExactNoop
<1> HIDE DEF c
<1>6. Transition(c, head)
  BY <1>2, <1>3, <1>4, <1>5 DEF Transition
<1>7. QED
  BY <1>6 DEF c

LEMMA GoodAccepted == Inv => (head.schema # 2 => NeverRefusedAsCorrupt)
<1> SUFFICES ASSUME Inv, head.schema # 2, NEW c \in Clients, CommitPending(c), ~ExactNoop(work[c])
             PROVE  Accepted(Child(work[c]))
  BY DEF NeverRefusedAsCorrupt
<1>1. work[c] \in Work /\ Pending(work[c]) /\ GoodRevision(head)
  BY PendingWork
<1>2. QED
  BY <1>1, ChildConsistent, ChildTransition DEF Accepted

\* In every schema whose stages are in one order, what the commit rules make is
\* what the revision validators accept: no command whose dependencies are
\* complete is refused as workspace-corrupt.  Schema 2 is left out because there
\* it is not so: construct and format do not depend on each other.
THEOREM CommitsAreAccepted == Spec => [](head.schema # 2 => NeverRefusedAsCorrupt)
<1>1. QED
  BY GoodAccepted, Invariance, PTL

-----------------------------------------------------------------------------
(* Nothing becomes stale without a reason                                  *)

\* Work whose stage would hold what it holds already is recognised.
LEMMA SameIsUnchanged ==
  ASSUME GoodRevision(head), NEW w \in Work, Pending(w),
         NewSources(w) = head.sources,
         head.stages[w.stage].status = w.status,
         head.stages[w.stage].outputs = {Artifact(w.stage, w.made)}
  PROVE  ExactNoop(w)
<1> DEFINE v == head.schema
           st == head.stages[w.stage]
<1>1. /\ Shaped(head) /\ Emptied(head) /\ Lineage(head) /\ Consistent(head)
      /\ v \in SchemaVersions /\ w.stage \in Stages(v)
      /\ DOMAIN head.stages = Stages(v) /\ head.stages \in [Stages(v) -> StageState]
  BY DEF GoodRevision, Shaped, Pending, GoodWork
<1>2. Active(st)
  BY DEF Active, Pending, GoodWork, Verdict
<1>3. Made(head, w.stage) = w.made
  BY MadeOfOne DEF Made
<1>4. st.config = ConfigOf(w)
  <2>1. CASE w.stage = "parse"
    BY <1>1, <1>2, <2>1 DEF Emptied, ConfigOf
  <2>2. CASE w.stage # "parse"
    <3>1. <<w.stage, w.config>> \in Made(head, w.stage)
      BY <1>3 DEF Pending, GoodWork, MadeFrom
    <3>2. w.stage # "review"
      BY <1>1, StagesType DEF StageNames
    <3>3. <<w.stage, w.config>> = Own(head, w.stage)
      BY <1>1, <3>1, <3>2 DEF Lineage
    <3>4. QED
      BY <2>2, <3>3 DEF Own, ConfigOf
  <2>3. QED
    BY <2>1, <2>2
<1>5. st.inputs = OutputsOf(head, Requires(v, w.stage)) /\ st.by = "" /\ st.prior = 0
  BY <1>1, <1>2 DEF Consistent, Emptied
<1>6. NewState(w) = st
  <2>1. st \in StageState
    BY <1>1
  <2>2. st = [status |-> st.status, config |-> st.config, inputs |-> st.inputs,
              outputs |-> st.outputs, by |-> st.by, prior |-> st.prior]
    BY <2>1, StageStateValue
  <2>3. QED
    BY <1>4, <1>5, <2>2 DEF NewState
<1>7. Replaced(w) = head.stages
  BY <1>1, <1>6 DEF Replaced
<1>8. Kept(w, head.stages) = head.arts
  <2>1. head.arts = Referenced(head.sources, head.stages)
    BY <1>1 DEF Consistent
  <2>2. Artifact(w.stage, w.made) \in st.outputs
    OBVIOUS
  <2>3. Artifact(w.stage, w.made) \in head.arts
    BY <1>1, <2>1, <2>2 DEF Referenced
  <2>4. QED
    BY <2>1, <2>3 DEF Kept
<1>9. QED
  BY <1>6, <1>7, <1>8 DEF ExactNoop

LEMMA StaleStep ==
  ASSUME Inv, [Next]_vars, NEW s \in DOMAIN head.stages \cap DOMAIN head'.stages,
         head.stages[s].status = "complete", head'.stages[s].status = "stale"
  PROVE  \/ head'.sources # head.sources
         \/ \E a \in DOMAIN head.stages :
              /\ s \in Descendants[head.schema][a]
              /\ head.stages[a].status # head'.stages[a].status
                   \/ head.stages[a].outputs # head'.stages[a].outputs
<1>1. head' # head
  OBVIOUS
<1>2. CASE \E c \in Clients : CommitNew(c)
  <2>1. PICK c \in Clients : CommitNew(c)
    BY <1>2
  <2> DEFINE w == work[c]
  <2>2. /\ w \in Work /\ Pending(w) /\ GoodRevision(head) /\ head' = Child(w) /\ ~ExactNoop(w)
    BY <2>1, PendingWork DEF CommitNew
  <2>3. Shaped(head) /\ DOMAIN head.stages = Stages(head.schema) /\ w.stage \in Stages(head.schema)
    BY <2>2 DEF GoodRevision, Shaped, Pending, GoodWork
  <2> HIDE DEF w
  <2>4. /\ head'.sources = NewSources(w) /\ head'.stages[w.stage] = NewState(w)
        /\ Active(head'.stages[w.stage])
        /\ \A t \in Stages(head.schema) : Untouched(w, t) => head'.stages[t] = head.stages[t]
    BY <2>2, <2>3, ChildStages
  <2>5. s \in Below(head.schema, w.stage)
    BY <2>2, <2>3, <2>4, ThreeWays DEF Active
  <2>6. head'.stages[w.stage].status = w.status
        /\ head'.stages[w.stage].outputs = {Artifact(w.stage, w.made)}
    BY <2>4, NewStateFields
  <2>7. \/ NewSources(w) # head.sources
        \/ head.stages[w.stage].status # w.status
        \/ head.stages[w.stage].outputs # {Artifact(w.stage, w.made)}
    BY <2>2, SameIsUnchanged
  <2>8. QED
    BY <2>3, <2>4, <2>5, <2>6, <2>7 DEF Below
<1>3. CASE Upgrade
  <2>1. PICK v, kept : Migration(v, kept) /\ head' = Migrated(v, kept)
    BY <1>3 DEF Upgrade, Migration
  <2>2. Shaped(head)
    BY DEF Inv, GoodRevision
  <2>3. /\ head'.stages = [t \in Stages(v) |-> IF t \in kept THEN head.stages[t] ELSE Absent]
    BY <2>1, <2>2, MigratedStages
  <2>4. head'.stages[s] = head.stages[s] \/ head'.stages[s] = Absent
    BY <2>3
  <2>5. QED
    BY <2>4, AbsentFields
<1>4. QED
  BY <1>1, <1>2, <1>3 DEF vars, Next, Edit, FillPacket, Abandon, Run, Parse, Clean, Chunk, Construct,
     MapRows, Curate, Split, Format, Validate, Seal, Compute, ComputeReviewed, Commit, CommitConflict,
     CommitUnchanged

\* A complete stage becomes stale only in a commit that changes the sources, or
\* the state or the outputs of a stage that it depends on: running a stage that
\* comes out as it was costs nothing downstream.
THEOREM NothingIsStaleForNothing == Spec => StaleForAReason
<1>1. Inv /\ [Next]_vars =>
        [\A s \in DOMAIN head.stages \cap DOMAIN head'.stages :
           head.stages[s].status = "complete" /\ head'.stages[s].status = "stale" =>
             \/ head'.sources # head.sources
             \/ \E a \in DOMAIN head.stages :
                  /\ s \in Descendants[head.schema][a]
                  /\ head.stages[a].status # head'.stages[a].status
                       \/ head.stages[a].outputs # head'.stages[a].outputs]_head
  BY StaleStep
<1>2. QED
  BY <1>1, Invariance, PTL DEF Spec, StaleForAReason

-----------------------------------------------------------------------------
(* Projects (automation/)                                                    *)

-----------------------------------------------------------------------------
(* The inductive invariant                                                  *)

\* The stages of the groups that were not chosen from yet.
Rest(groups) == UNION {groups[i] : i \in 1..Len(groups)}

Remainders(spec) ==
  LET tail == Planned(spec) \ {"parse", "map"} IN
  IF spec.mode = "dataset-row" THEN {Groups(spec), <<{"map"}, tail>>, <<tail>>, <<>>} ELSE {Groups(spec), <<>>}

Undone == project.left \cup Rest(project.groups)
Done == Planned(project.spec) \ Undone
IsComplete(s) == head.stages[s].status = "complete"
AsWritten(s) == s \in DOMAIN project.document => head.stages[s].config = project.document[s]

LockFields == {"spec", "document", "version", "head", "sources", "stages"}
IsLock(l) == l = [f \in LockFields |-> l[f]]

\* A bound lock is about a revision that HEAD was, and of which no other has the id.
LockGood ==
  lock # None =>
    /\ IsLock(lock) /\ lock.head \in Nat /\ lock.head <= head.id
    /\ lock.head = head.id => lock.stages = head.stages

\* What a project under way is made of.
ProjectShape ==
  /\ project = [kind |-> project.kind, spec |-> project.spec, lock |-> project.lock, phase |-> project.phase,
                mapping |-> project.mapping, document |-> project.document, groups |-> project.groups,
                left |-> project.left]
  /\ project.kind \in {"run", "resume"} /\ project.phase \in {"locked", "running"}
  /\ IsLock(project.lock)
  /\ project.spec \in Loaded /\ head.schema = SchemaOf(project.spec)
  /\ DOMAIN project.document = Planned(project.spec) \ {"parse", "map"}
  /\ \A s \in DOMAIN project.document : project.document[s] \in Settings[s]
  /\ project.groups \in Remainders(project.spec) /\ project.left \subseteq Planned(project.spec)
  /\ project.phase = "locked" => project.groups = Groups(project.spec) /\ project.left = {}
  /\ project.phase = "running" => project.mapping \in Settings["map"]
  /\ project.phase = "running" \/ project.kind = "resume" => project.lock.document = project.document

\* What is done is complete; what is chosen comes before what is not chosen yet.
DoneSoFar ==
  /\ \A s \in Done : IsComplete(s)
  /\ \A s \in project.left, t \in Rest(project.groups) : Earlier(s, t)

\* A run did everything itself and in order.
RunGood ==
  project.kind = "run" => /\ \A s \in Done : AsWritten(s)
                          /\ \A s \in Done, t \in Undone : Earlier(s, t)

\* A resume touches nothing that is complete.
ResumeGood ==
  project.kind = "resume" =>
    LET pinned == project.lock.stages IN
    /\ DOMAIN pinned = Stages(head.schema)
    /\ \A s \in DOMAIN pinned : pinned[s].status = "complete" => head.stages[s] = pinned[s]
    /\ \A s \in project.left : ~IsComplete(s)
    /\ \A s \in Undone : IsComplete(s) => pinned[s].status = "complete"
    /\ AsDocumented(pinned, project.lock) => \A s \in Done : AsWritten(s)

ProjectGood == project # None => ProjectShape /\ DoneSoFar /\ RunGood /\ ResumeGood
ProjectInv == Inv /\ LockGood /\ ProjectGood

-----------------------------------------------------------------------------
(* The order of the stages                                                  *)

Pos(s) ==
  CASE s = "parse" -> 1 [] s = "clean" -> 2 [] s = "chunk" -> 3 [] s = "construct" -> 4 [] s = "map" -> 5
    [] s = "curate" -> 6 [] s = "split" -> 7 [] s = "format" -> 8 [] s = "validate" -> 9 [] s = "seal" -> 10

LEMMA PosValue ==
  /\ Pos("parse") = 1 /\ Pos("clean") = 2 /\ Pos("chunk") = 3 /\ Pos("construct") = 4 /\ Pos("map") = 5
  /\ Pos("curate") = 6 /\ Pos("split") = 7 /\ Pos("format") = 8 /\ Pos("validate") = 9 /\ Pos("seal") = 10
BY DEF Pos

LEMMA EarlierPos == \A s, t \in StageNames : Earlier(s, t) <=> Pos(s) < Pos(t)
<1>1. /\ Len(StageOrder) = 10 /\ StageOrder[1] = "parse" /\ StageOrder[2] = "clean" /\ StageOrder[3] = "chunk"
      /\ StageOrder[4] = "construct" /\ StageOrder[5] = "map" /\ StageOrder[6] = "curate" /\ StageOrder[7] = "split"
      /\ StageOrder[8] = "format" /\ StageOrder[9] = "validate" /\ StageOrder[10] = "seal"
  BY DEF StageOrder
<1>2. \A i \in 1..10 : Pos(StageOrder[i]) = i
  BY <1>1, PosValue
<1>3. \A s \in StageNames : Pos(s) \in 1..10 /\ StageOrder[Pos(s)] = s
  BY <1>1, PosValue DEF StageNames
<1> QED BY <1>1, <1>2, <1>3 DEF Earlier

\* What runs next is before everything else that is left.
LEMMA ForemostFirst ==
  ASSUME NEW S \in SUBSET StageNames, S # {}
  PROVE  Foremost(S) \in S /\ \A t \in S \ {Foremost(S)} : Earlier(Foremost(S), t)
<1>1. \A s \in S : Pos(s) \in 1..10
  BY PosValue DEF StageNames
<1>2. \A s, t \in StageNames : Pos(s) = Pos(t) => s = t
  BY PosValue DEF StageNames
<1>3. \E s \in S : \A t \in S : ~(Pos(t) < Pos(s))
  <2> SUFFICES ASSUME \A s \in S : \E t \in S : Pos(t) < Pos(s) PROVE FALSE
    OBVIOUS
  <2>1. \A s \in S : Pos(s) > 2
    BY <1>1
  <2>2. \A s \in S : Pos(s) > 4
    BY <1>1, <2>1
  <2>3. \A s \in S : Pos(s) > 6
    BY <1>1, <2>2
  <2>4. \A s \in S : Pos(s) > 8
    BY <1>1, <2>3
  <2>5. \A s \in S : Pos(s) > 10
    BY <1>1, <2>4
  <2> QED BY <1>1, <2>5
<1>4. \E s \in S : \A t \in S \ {s} : Earlier(s, t)
  <2>1. PICK s \in S : \A t \in S : ~(Pos(t) < Pos(s))
    BY <1>3
  <2>2. \A t \in S \ {s} : Pos(s) < Pos(t)
    BY <1>1, <1>2, <2>1
  <2> QED BY <2>2, EarlierPos
<1> QED BY <1>4 DEF Foremost

\* No stage depends on one that runs after it.
LEMMA EarlierNotBelow ==
  ASSUME NEW v \in {3, 4}, NEW s \in Stages(v), NEW t \in Stages(v), Earlier(s, t)
  PROVE  s # t /\ s \notin Below(v, t)
<1>1. v \in SchemaVersions /\ s \in StageNames /\ t \in StageNames
  BY StagesType DEF SchemaVersions
<1>2. Pos(s) < Pos(t)
  BY <1>1, EarlierPos
<1>3. ~(Rank(t) < Rank(s))
  BY <1>2, PosValue, RankValue, StagesValue
<1>4. s # t
  <2>1. Pos(s) \in 1..10
    BY <1>1, PosValue DEF StageNames
  <2> QED BY <1>2, <2>1
<1> QED BY <1>1, <1>3, <1>4, BelowAfter

-----------------------------------------------------------------------------
(* Plans and groups                                                         *)

LEMMA PlannedStages ==
  ASSUME NEW spec \in Loaded
  PROVE  /\ spec.mode \in {"document-source", "dataset-row"}
         /\ SchemaOf(spec) \in {3, 4}
         /\ Planned(spec) \subseteq Stages(SchemaOf(spec)) /\ Planned(spec) \subseteq StageNames
         /\ spec.mode = "dataset-row" => {"parse", "map"} \subseteq Planned(spec) /\ Planned(spec) \subseteq {"parse", "map"} \cup Finished
         /\ spec.mode = "document-source" => "map" \notin Planned(spec)
<1>1. /\ spec.mode \in {"document-source", "dataset-row"} /\ spec.stages \subseteq StageNames \ {"map"}
  BY ProjectAssumption DEF Loaded
<1>2. Named(spec) \subseteq StageNames \ {"map"}
  BY <1>1, StagesValue DEF Named, StageNames
<1>3. StageNames \ {"map"} \subseteq Stages(3)
  BY StagesValue DEF StageNames
<1>4. {"parse", "map"} \cup Finished \subseteq Stages(4) /\ {"parse", "map"} \cup Finished \subseteq StageNames
  BY StagesValue DEF StageNames, Finished
<1>5. CASE spec.mode = "dataset-row"
  BY <1>4, <1>5 DEF Planned, SchemaOf
<1>6. CASE spec.mode = "document-source"
  BY <1>2, <1>3, <1>6 DEF Planned, SchemaOf
<1> QED BY <1>1, <1>5, <1>6

LEMMA RestOfOne == \A a : Rest(<<a>>) = a
BY DEF Rest
LEMMA RestOfTwo == \A a, b : Rest(<<a, b>>) = a \cup b
BY DEF Rest
LEMMA RestOfThree == \A a, b, c : Rest(<<a, b, c>>) = a \cup b \cup c
BY DEF Rest
LEMMA RestOfNone == Rest(<<>>) = {}
BY DEF Rest

\* A project chooses from all it plans, group by group, each before the next.
LEMMA GroupsInOrder ==
  ASSUME NEW spec \in Loaded
  PROVE  /\ Groups(spec) \in Remainders(spec) /\ Rest(Groups(spec)) = Planned(spec)
         /\ \A g \in Remainders(spec) :
              /\ Rest(g) \subseteq Planned(spec)
              /\ g # <<>> => /\ Tail(g) \in Remainders(spec) /\ Rest(g) = Head(g) \cup Rest(Tail(g))
                             /\ \A s \in Head(g), t \in Rest(Tail(g)) : Earlier(s, t)
<1> DEFINE tail == Planned(spec) \ {"parse", "map"}
<1>1. CASE spec.mode = "dataset-row"
  <2>1. Groups(spec) = <<{"parse"}, {"map"}, tail>>
    BY <1>1 DEF Groups
  <2>2. Remainders(spec) = {<<{"parse"}, {"map"}, tail>>, <<{"map"}, tail>>, <<tail>>, <<>>}
    BY <1>1, <2>1 DEF Remainders
  <2>3. /\ Rest(<<{"parse"}, {"map"}, tail>>) = Planned(spec) /\ Rest(<<{"map"}, tail>>) = {"map"} \cup tail
        /\ Rest(<<tail>>) = tail /\ Rest(<<>>) = {} /\ {"map"} \cup tail \subseteq Planned(spec)
    <3>1. Planned(spec) = {"parse"} \cup {"map"} \cup tail
      BY <1>1, PlannedStages
    <3> HIDE DEF tail
    <3> QED BY <3>1, RestOfOne, RestOfTwo, RestOfThree, RestOfNone
  <2>4. \A s \in {"map"} \cup tail : Earlier("parse", s)
    BY <1>1, PlannedStages, EarlierPos, PosValue DEF Finished, StageNames
  <2>5. \A s \in tail : Earlier("map", s)
    BY <1>1, PlannedStages, EarlierPos, PosValue DEF Finished, StageNames
  <2> HIDE DEF tail
  <2>6. \A a, b, c : /\ Head(<<a, b, c>>) = a /\ Tail(<<a, b, c>>) = <<b, c>>
                    /\ Head(<<b, c>>) = b /\ Tail(<<b, c>>) = <<c>> /\ Head(<<c>>) = c /\ Tail(<<c>>) = <<>>
    OBVIOUS
  <2>7. ASSUME NEW g \in Remainders(spec), g # <<>>
        PROVE  /\ Rest(g) \subseteq Planned(spec) /\ Tail(g) \in Remainders(spec) /\ Rest(g) = Head(g) \cup Rest(Tail(g))
               /\ \A s \in Head(g), t \in Rest(Tail(g)) : Earlier(s, t)
    <3>1. CASE g = <<{"parse"}, {"map"}, tail>>
      <4>1. Head(g) = {"parse"} /\ Tail(g) = <<{"map"}, tail>>
        BY <2>6, <3>1
      <4>2. Rest(g) = Planned(spec) /\ Rest(g) = {"parse"} \cup {"map"} \cup tail
        BY <2>3, <3>1, RestOfThree
      <4>3. Rest(Tail(g)) = {"map"} \cup tail
        BY <2>3, <4>1
      <4> QED BY <2>2, <2>4, <4>1, <4>2, <4>3
    <3>2. CASE g = <<{"map"}, tail>>
      BY <2>2, <2>3, <2>5, <2>6, <3>2, RestOfTwo
    <3>3. CASE g = <<tail>>
      BY <2>2, <2>3, <2>6, <3>3
    <3> QED BY <2>2, <2>7, <3>1, <3>2, <3>3
  <2> QED BY <2>1, <2>2, <2>3, <2>7
<1>2. CASE spec.mode # "dataset-row"
  <2>1. Groups(spec) = <<Planned(spec)>> /\ Remainders(spec) = {<<Planned(spec)>>, <<>>}
    BY <1>2 DEF Groups, Remainders
  <2>2. \A a : Head(<<a>>) = a /\ Tail(<<a>>) = <<>>
    OBVIOUS
  <2> QED BY <2>1, <2>2, RestOfOne, RestOfNone
<1> QED BY <1>1, <1>2

-----------------------------------------------------------------------------
(* What a command does to HEAD                                              *)

\* The stages that were complete and are not below s are what they were, and
\* nothing but s becomes complete.
Leaves(s) ==
  /\ head'.schema = head.schema /\ DOMAIN head'.stages = Stages(head.schema)
  /\ \A t \in Stages(head.schema) :
       /\ t # s /\ t \notin Below(head.schema, s) => head'.stages[t] = head.stages[t]
       /\ t # s /\ head'.stages[t].status = "complete" => head'.stages[t] = head.stages[t]

LEMMA CommittedLeaves ==
  ASSUME Inv, NEW w \in Work, GoodWork(w), w.base = head.id,
         head' = Committed(w.stage, w), head' # head => Accepted(head')
  PROVE  /\ GoodRevision(head') /\ Leaves(w.stage)
         /\ head' = head \/ head'.id = head.id + 1
         /\ head'.stages[w.stage].status \in {"complete", "failed"}
         /\ w.stage # "parse" => head'.stages[w.stage].config = w.config
<1> DEFINE s == w.stage
<1>1. /\ GoodRevision(head) /\ Shaped(head) /\ Pending(w) /\ head.schema \in SchemaVersions /\ s \in Stages(head.schema)
      /\ DOMAIN head.stages = Stages(head.schema) /\ w.status \in {"complete", "failed"}
  BY DEF Inv, GoodRevision, Shaped, Pending, GoodWork, Verdict
<1>2. CASE head' = head
  <2>1. CASE ExactNoop(w)
    BY <1>1, <1>2, <2>1, NewStateFields DEF ExactNoop, ConfigOf, Leaves
  <2>2. CASE s = "clean" /\ head.stages[s].status = "complete" /\ head.stages[s].config = w.config
    BY <1>1, <1>2, <2>2 DEF Leaves
  <2>3. CASE head' = Child(w)
    <3>1. head'.id = head.id + 1
      BY <1>1, <2>3, ChildStages
    <3>2. head.id \in Nat /\ head'.id = head.id
      BY <1>1, <1>2 DEF Shaped
    <3> QED BY <3>1, <3>2
  <2> QED BY <2>1, <2>2, <2>3 DEF Committed
<1>3. CASE head' # head
  <2>1. head' = Child(w) /\ Consistent(head')
    BY <1>3 DEF Committed, Accepted
  <2>2. GoodRevision(head')
    BY <1>1, <2>1, ChildGood
  <2>3. /\ head'.id = head.id + 1 /\ head'.schema = head.schema /\ DOMAIN head'.stages = Stages(head.schema)
        /\ head'.stages[s] = NewState(w)
        /\ \A t \in Below(head.schema, s) :
             IF head.stages[t].status # "absent"
               THEN head'.stages[t] = AsStale(head.stages[t], s, head.id) ELSE head'.stages[t] = head.stages[t]
        /\ \A t \in Stages(head.schema) : Untouched(w, t) => head'.stages[t] = head.stages[t]
    BY <1>1, <2>1, ChildStages
  <2>4. Leaves(s)
    BY <2>3, AsStaleFields DEF Leaves, Untouched
  <2> QED BY <1>1, <2>2, <2>3, <2>4, NewStateFields DEF ConfigOf
<1> QED BY <1>2, <1>3

-----------------------------------------------------------------------------
(* Steps beside a project                                                   *)

LEMMA InitProject == ProjectInit => ProjectInv
BY InitInv DEF ProjectInit, ProjectInv, LockGood, ProjectGood

\* A step that leaves HEAD and the project as they are.
LEMMA SameProject ==
  ASSUME ProjectGood, UNCHANGED <<head, project>>
  PROVE  ProjectGood'
<1>1. IsLock(project.lock) => IsLock(project.lock)'
  BY DEF IsLock
<1>2. ProjectShape => ProjectShape'
  BY <1>1 DEF ProjectShape
<1>3. DoneSoFar => DoneSoFar'
  BY DEF DoneSoFar, Done, Undone, IsComplete
<1>4. RunGood => RunGood'
  BY DEF RunGood, Done, Undone, AsWritten
<1>5. ResumeGood => ResumeGood'
  BY DEF ResumeGood, Done, Undone, AsWritten, IsComplete, AsDocumented, Complete
<1> QED BY <1>2, <1>3, <1>4, <1>5 DEF ProjectGood

LEMMA SameLock ==
  ASSUME LockGood, lock' = lock, Inv, head' = head \/ head'.id = head.id + 1
  PROVE  LockGood'
<1>1. head.id \in Nat
  BY DEF Inv, TypeOK
<1> QED BY <1>1 DEF LockGood, IsLock

LEMMA PrepareProject ==
  ASSUME ProjectInv, Prepare \/ Reinstall \/ UNCHANGED <<vars, projectVars>>
  PROVE  ProjectInv'
<1>1. UNCHANGED <<head, lock, project>>
  BY DEF Prepare, Reinstall, projectVars, Edit, FillPacket, vars
<1>2. Inv'
  <2>1. CASE Prepare \/ UNCHANGED vars
    BY <2>1, NextInv DEF Prepare, Next, ProjectInv
  <2>2. CASE Reinstall
    <3>1. /\ UNCHANGED <<head, work, setting, packet>> /\ edits < MaxEdits /\ edits' = edits + 1
          /\ edits \in 0..MaxEdits /\ MaxEdits \in Nat
      BY <2>2, StagesAssumption DEF Reinstall, ProjectInv, Inv, TypeOK
    <3>2. edits' \in 0..MaxEdits
      BY <3>1
    <3> QED BY <3>1, <3>2, SettingsInv DEF ProjectInv, Inv, TypeOK, GoodPacket, Configs
  <2> QED BY <2>1, <2>2
<1> QED BY <1>1, <1>2, SameProject, SameLock DEF ProjectInv

\* spec-lock binds what HEAD is.
LEMMA BoundGood ==
  ASSUME NEW l, IsLock(l)
  PROVE  IsLock(Bound(l)) /\ Bound(l).head = head.id /\ Bound(l).stages = head.stages
BY DEF IsLock, Bound, LockFields

LEMMA LockShape == \A spec : IsLock(Lock(spec))
BY DEF IsLock, Lock, LockFields

LEMMA WriteLockProject ==
  ASSUME ProjectInv, NEW spec \in Loaded, WriteLock(spec)
  PROVE  ProjectInv'
<1>1. /\ UNCHANGED <<head, work, setting, packet, project>> /\ edits < MaxEdits /\ edits' = edits + 1
      /\ edits \in 0..MaxEdits /\ MaxEdits \in Nat /\ lock' = Bound(Lock(spec))
  BY StagesAssumption DEF WriteLock, ProjectInv, Inv, TypeOK
<1>2. edits' \in 0..MaxEdits
  BY <1>1
<1>3. Inv'
  BY <1>1, <1>2, SettingsInv DEF ProjectInv, Inv, TypeOK, GoodPacket, Configs
<1>4. IsLock(lock') /\ lock'.head = head.id /\ lock'.stages = head.stages /\ head.id \in Nat
  BY <1>1, BoundGood, LockShape DEF ProjectInv, Inv, TypeOK
<1>5. LockGood'
  BY <1>1, <1>4 DEF LockGood, IsLock
<1> QED BY <1>1, <1>3, <1>5, SameProject DEF ProjectInv

LEMMA WorkByHandProject ==
  ASSUME ProjectInv, WorkByHand
  PROVE  ProjectInv'
<1>1. /\ head' # head /\ Accepted(head') /\ project' = None /\ UNCHANGED <<work, setting, packet, lock>>
      /\ Inv /\ GoodRevision(head) /\ edits \in 0..MaxEdits /\ MaxEdits \in Nat
      /\ \A s \in StageNames : setting[s] \in Settings[s]
  BY StagesAssumption DEF WorkByHand, ProjectInv, Inv, TypeOK
<1>2. edits' = edits \/ edits' \in 0..MaxEdits
  <2>1. edits' = edits \/ (edits < MaxEdits /\ edits' = edits + 1)
    BY DEF WorkByHand
  <2> QED BY <1>1, <2>1
<1>3. \E w \in Work : GoodWork(w) /\ w.base = head.id /\ head' = Committed(w.stage, w)
  <2>1. CASE \E s \in DOMAIN head.stages : Admitted(head, s) /\ head' = Committed(s, Computed(head, s, setting[s]))
    <3>1. PICK s \in DOMAIN head.stages : Admitted(head, s) /\ head' = Committed(s, Computed(head, s, setting[s]))
      BY <2>1
    <3>2. s \in Stages(head.schema) /\ setting[s] \in Settings[s]
      BY <1>1, StagesType DEF GoodRevision, Shaped
    <3> DEFINE w == Computed(head, s, setting[s])
    <3>3. w \in Work /\ GoodWork(w) /\ w.base = head.id /\ w.stage = s
      BY <1>1, <3>1, <3>2, ComputedGood, ComputedFields
    <3> HIDE DEF w
    <3>4. head' = Committed(w.stage, w)
      BY <3>1, <3>3 DEF w
    <3> QED BY <3>3, <3>4
  <2>2. CASE head.schema = 3 /\ ReviewAdmitted(head) /\ head' = Committed("construct", WithReviews)
    <3>1. WithReviews \in Work /\ GoodWork(WithReviews)
      BY <1>1, <2>2, ReviewedGood DEF WithReviews, Inv, StageNames
    <3>2. WithReviews.base = head.id /\ WithReviews.stage = "construct"
      BY DEF WithReviews, Computed
    <3>3. head' = Committed(WithReviews.stage, WithReviews)
      BY <2>2, <3>2
    <3> QED BY <3>1, <3>2, <3>3
  <2> QED BY <2>1, <2>2 DEF WorkByHand
<1>4. GoodRevision(head') /\ head'.id = head.id + 1
  BY <1>1, <1>3, CommittedLeaves
<1>5. Inv'
  BY <1>1, <1>2, <1>4, HeadStep
<1> QED BY <1>1, <1>4, <1>5, SameLock DEF ProjectInv, ProjectGood

LEMMA EndProject ==
  ASSUME ProjectInv, AnswerProject \/ FailProject
  PROVE  ProjectInv'
<1>1. UNCHANGED vars /\ head' = head /\ project' = None
  BY DEF AnswerProject, FailProject, vars
<1>2. Inv'
  BY <1>1, NextInv DEF ProjectInv
<1>3. CASE AnswerProject
  <2>1. lock' = Bound(project.lock) /\ IsLock(project.lock)
    BY <1>3 DEF AnswerProject, Answering, Running, ProjectInv, ProjectGood, ProjectShape
  <2>2. IsLock(lock') /\ lock'.head = head.id /\ lock'.stages = head.stages /\ head.id \in Nat
    BY <2>1, BoundGood DEF ProjectInv, Inv, TypeOK
  <2>3. LockGood'
    BY <1>1, <2>2 DEF LockGood, IsLock
  <2> QED BY <1>1, <1>2, <2>3 DEF ProjectInv, ProjectGood
<1>4. CASE FailProject
  BY <1>1, <1>2, <1>4, SameLock DEF FailProject, ProjectInv, ProjectGood
<1> QED BY <1>3, <1>4

-----------------------------------------------------------------------------
(* Steps of a project                                                       *)

\* What an edited document and a plan say are settings.
LEMMA DocumentType ==
  ASSUME Inv, NEW spec \in Loaded
  PROVE  /\ DOMAIN Document(spec) = Planned(spec) \ {"parse", "map"}
         /\ \A s \in DOMAIN Document(spec) : Document(spec)[s] \in Settings[s]
BY PlannedStages DEF Document, Inv, TypeOK

\* A run or a resume begins with everything before it.
LEMMA StartProject ==
  ASSUME ProjectInv, NEW spec \in Loaded, RunSpec(spec) \/ ResumeSpec(spec)
  PROVE  ProjectInv'
<1>1. UNCHANGED vars /\ head' = head /\ lock' = lock /\ head.schema = SchemaOf(spec)
  BY DEF RunSpec, ResumeSpec, vars
<1>2. Inv' /\ LockGood'
  BY <1>1, NextInv, SameLock DEF ProjectInv
<1>3. PICK kind, l :
        /\ kind \in {"run", "resume"}
        /\ project' = Project(kind, spec, l) /\ IsLock(l)
        /\ kind = "resume" => l.stages = head.stages /\ l.document = Document(spec)
  <2>1. CASE RunSpec(spec)
    BY <2>1, LockShape DEF RunSpec
  <2>2. CASE ResumeSpec(spec)
    <3>1. /\ lock # None /\ lock.head = head.id /\ lock.document = Document(spec) /\ project' = Project("resume", spec, lock)
      BY <2>2 DEF ResumeSpec, SameContext, AsPinned
    <3> QED BY <3>1 DEF ProjectInv, LockGood
  <2> QED BY <2>1, <2>2
<1>4. /\ project'.kind = kind /\ project'.spec = spec /\ project'.lock = l /\ project'.phase = "locked"
      /\ project'.document = Document(spec) /\ project'.groups = Groups(spec) /\ project'.left = {}
      /\ project' = [kind |-> kind, spec |-> spec, lock |-> l, phase |-> "locked", mapping |-> "",
                    document |-> Document(spec), groups |-> Groups(spec), left |-> {}]
  BY <1>3 DEF Project
<1>5. DOMAIN head.stages = Stages(head.schema)
  BY DEF ProjectInv, Inv, GoodRevision, Shaped
<1>6. Rest(Groups(spec)) = Planned(spec) /\ Groups(spec) \in Remainders(spec)
  BY GroupsInOrder
<1>7. ProjectShape'
  <2>1. IsLock(project.lock)'
    BY <1>3, <1>4 DEF IsLock
  <2>2. project' = [kind |-> project'.kind, spec |-> project'.spec, lock |-> project'.lock, phase |-> project'.phase,
                    mapping |-> project'.mapping, document |-> project'.document, groups |-> project'.groups,
                    left |-> project'.left]
    BY <1>4
  <2> QED BY <1>1, <1>3, <1>4, <1>6, <2>1, <2>2, DocumentType DEF ProjectShape, ProjectInv
<1>8. Done' = {} /\ Undone' = Planned(spec)
  BY <1>4, <1>6 DEF Done, Undone
<1>9. DoneSoFar' /\ RunGood'
  BY <1>4, <1>8 DEF DoneSoFar, RunGood
<1>10. ResumeGood'
  BY <1>1, <1>3, <1>4, <1>5, <1>8, PlannedStages DEF ResumeGood, IsComplete
<1> QED BY <1>2, <1>7, <1>9, <1>10 DEF ProjectInv, ProjectGood

\* The fields of a project that a step gives new values.
LEMMA ProjectFields ==
  ASSUME ProjectShape, NEW phase, NEW mapping, NEW document, NEW groups, NEW left,
         project' = [kind |-> project.kind, spec |-> project.spec, lock |-> project.lock, phase |-> phase,
                     mapping |-> mapping, document |-> document, groups |-> groups, left |-> left]
  PROVE  /\ project'.kind = project.kind /\ project'.spec = project.spec /\ project'.lock = project.lock
         /\ project'.phase = phase /\ project'.mapping = mapping /\ project'.document = document
         /\ project'.groups = groups /\ project'.left = left
         /\ IsLock(project.lock)'
         /\ project' = [kind |-> project'.kind, spec |-> project'.spec, lock |-> project'.lock, phase |-> project'.phase,
                         mapping |-> project'.mapping, document |-> project'.document, groups |-> project'.groups,
                         left |-> project'.left]
<1>1. IsLock(project.lock)
  BY DEF ProjectShape
<1>2. project'.lock = project.lock
  OBVIOUS
<1>3. IsLock(project.lock)'
  BY <1>1, <1>2 DEF IsLock
<1> QED BY <1>3

\* The document that was locked is the one that is executed.
LEMMA StartStagesProject ==
  ASSUME ProjectInv, StartStages
  PROVE  ProjectInv'
<1>1. UNCHANGED vars /\ head' = head /\ lock' = lock /\ project # None /\ project.phase = "locked"
      /\ ProjectShape /\ ResumeGood
  BY DEF StartStages, vars, ProjectInv, ProjectGood
<1>2. Inv' /\ LockGood'
  BY <1>1, NextInv, SameLock DEF ProjectInv
<1> DEFINE document == IF project.kind = "run" THEN Document(project.spec) ELSE project.document
<1>3. project' = [kind |-> project.kind, spec |-> project.spec, lock |-> project.lock, phase |-> "running",
                  mapping |-> setting["map"], document |-> document, groups |-> project.groups, left |-> project.left]
  <2>1. project' = [project EXCEPT !.phase = "running", !.mapping = setting["map"], !.document = document]
    BY DEF StartStages
  <2> QED BY <1>1, <2>1 DEF ProjectShape
<1>4. /\ DOMAIN document = Planned(project.spec) \ {"parse", "map"} /\ \A s \in DOMAIN document : document[s] \in Settings[s]
      /\ project.lock.document = document
  <2>1. project.kind = "run" => project.lock.document = Document(project.spec)
    BY DEF StartStages, SameContext
  <2> QED BY <1>1, <2>1, DocumentType DEF ProjectShape, ProjectInv
<1>5. setting["map"] \in Settings["map"]
  BY DEF ProjectInv, Inv, TypeOK, StageNames
<1> HIDE DEF document
<1>6. /\ project'.kind = project.kind /\ project'.spec = project.spec /\ project'.lock = project.lock
      /\ project'.phase = "running" /\ project'.mapping = setting["map"] /\ project'.document = document
      /\ project'.groups = project.groups /\ project'.left = project.left
      /\ IsLock(project.lock)'
      /\ project' = [kind |-> project'.kind, spec |-> project'.spec, lock |-> project'.lock, phase |-> project'.phase,
                      mapping |-> project'.mapping, document |-> project'.document, groups |-> project'.groups,
                      left |-> project'.left]
  BY <1>1, <1>3, ProjectFields
<1>7. ProjectShape'
  BY <1>1, <1>4, <1>5, <1>6 DEF ProjectShape
<1>8. Rest(project.groups) = Planned(project.spec) /\ project.left = {}
  BY <1>1, GroupsInOrder DEF ProjectShape
<1>9. Done' = {} /\ Undone' = Planned(project.spec) /\ Undone = Planned(project.spec)
  BY <1>6, <1>8 DEF Done, Undone
<1>10. DoneSoFar' /\ RunGood'
  BY <1>6, <1>8, <1>9 DEF DoneSoFar, RunGood
<1>11. ResumeGood'
  BY <1>1, <1>6, <1>8, <1>9 DEF ResumeGood, IsComplete
<1> QED BY <1>2, <1>7, <1>10, <1>11 DEF ProjectInv, ProjectGood

\* The next stages are chosen, by a resume without those that are complete.
LEMMA ChooseStagesProject ==
  ASSUME ProjectInv, ChooseStages
  PROVE  ProjectInv'
<1> DEFINE spec == project.spec
           named == Head(project.groups)
           left == IF project.kind = "run" THEN named ELSE Incomplete(named)
<1>1. UNCHANGED vars /\ head' = head /\ lock' = lock /\ project # None /\ project.phase = "running"
      /\ project.groups # <<>> /\ project.left = {} /\ ProjectShape /\ DoneSoFar /\ RunGood /\ ResumeGood
  BY DEF ChooseStages, Running, vars, ProjectInv, ProjectGood
<1>2. Inv' /\ LockGood'
  BY <1>1, NextInv, SameLock DEF ProjectInv
<1>3. project' = [kind |-> project.kind, spec |-> project.spec, lock |-> project.lock, phase |-> project.phase,
                  mapping |-> project.mapping, document |-> project.document, groups |-> Tail(project.groups),
                  left |-> left]
  <2>1. project' = [project EXCEPT !.groups = Tail(project.groups), !.left = left]
    BY <1>1 DEF ChooseStages, ProjectShape
  <2> QED BY <1>1, <2>1 DEF ProjectShape
<1>4. /\ Tail(project.groups) \in Remainders(spec) /\ Rest(project.groups) = named \cup Rest(Tail(project.groups))
      /\ Rest(project.groups) \subseteq Planned(spec)
      /\ \A s \in named, t \in Rest(Tail(project.groups)) : Earlier(s, t)
  BY <1>1, GroupsInOrder DEF ProjectShape
<1>5. /\ Planned(spec) \subseteq Stages(head.schema) /\ DOMAIN head.stages = Stages(head.schema)
  BY <1>1, PlannedStages DEF ProjectShape, ProjectInv, Inv, GoodRevision, Shaped
<1>6. /\ left \subseteq named /\ named \subseteq Planned(spec)
      /\ project.kind = "run" => left = named
      /\ project.kind # "run" => \A s \in named : s \in left <=> ~IsComplete(s)
  BY <1>4, <1>5 DEF Incomplete, Complete, IsComplete
<1> HIDE DEF left
<1>7. /\ project'.kind = project.kind /\ project'.spec = project.spec /\ project'.lock = project.lock
      /\ project'.phase = project.phase /\ project'.mapping = project.mapping /\ project'.document = project.document
      /\ project'.groups = Tail(project.groups) /\ project'.left = left
      /\ IsLock(project.lock)'
      /\ project' = [kind |-> project'.kind, spec |-> project'.spec, lock |-> project'.lock, phase |-> project'.phase,
                      mapping |-> project'.mapping, document |-> project'.document, groups |-> project'.groups,
                      left |-> project'.left]
  BY <1>1, <1>3, ProjectFields
<1>8. ProjectShape'
  <2>1. left \subseteq Planned(spec)
    BY <1>6
  <2> HIDE DEF named
  <2> QED BY <1>1, <1>4, <1>7, <2>1 DEF ProjectShape
<1>9. /\ Undone = Rest(project.groups) /\ Undone' = left \cup Rest(Tail(project.groups)) /\ Undone' \subseteq Undone
      /\ \A s \in Done' : s \in Done \/ (s \in named /\ s \notin left)
      /\ project.kind = "run" => Done' = Done /\ Undone' = Undone
  <2> HIDE DEF named
  <2> QED BY <1>1, <1>4, <1>6, <1>7 DEF Done, Undone
<1>10. DoneSoFar'
  <2>1. \A s \in Done' : IsComplete(s)
    BY <1>1, <1>6, <1>9 DEF DoneSoFar, ProjectShape
  <2>2. \A s \in left, t \in Rest(Tail(project.groups)) : Earlier(s, t)
    BY <1>4, <1>6
  <2> HIDE DEF named
  <2> QED BY <1>1, <1>7, <2>1, <2>2 DEF DoneSoFar, IsComplete
<1>11. RunGood'
  BY <1>1, <1>7, <1>9 DEF RunGood, AsWritten
<1>12. ResumeGood'
  <2> SUFFICES ASSUME project.kind = "resume" PROVE ResumeGood'
    BY <1>7 DEF ResumeGood
  <2> DEFINE pinned == project.lock.stages
  <2>1. /\ DOMAIN pinned = Stages(head.schema)
        /\ \A s \in DOMAIN pinned : pinned[s].status = "complete" => head.stages[s] = pinned[s]
        /\ \A s \in Undone : IsComplete(s) => pinned[s].status = "complete"
        /\ AsDocumented(pinned, project.lock) => \A s \in Done : AsWritten(s)
        /\ project.lock.document = project.document
    BY <1>1 DEF ResumeGood, ProjectShape
  <2>2. \A s \in left : ~IsComplete(s)
    BY <1>6
  <2>3. ASSUME AsDocumented(pinned, project.lock), NEW s \in named, s \notin left
        PROVE  AsWritten(s)
    <3>1. IsComplete(s) /\ s \in Undone /\ s \in DOMAIN pinned
      BY <1>1, <1>4, <1>5, <1>6, <1>9, <2>1, <2>3
    <3>2. pinned[s].status = "complete" /\ head.stages[s] = pinned[s]
      BY <2>1, <3>1
    <3> QED BY <2>1, <2>3, <3>1, <3>2 DEF AsDocumented, Complete, AsWritten
  <2>4. AsDocumented(pinned, project.lock) => \A s \in Done' : AsWritten(s)
    <3> HIDE DEF named, pinned
    <3> QED BY <1>9, <2>1, <2>3
  <2>5. AsDocumented(project.lock.stages, project.lock)' => AsDocumented(pinned, project.lock)
    BY <1>7 DEF AsDocumented, Complete
  <2> QED BY <1>1, <1>7, <1>9, <2>1, <2>2, <2>4, <2>5 DEF ResumeGood, IsComplete, AsWritten
<1> QED BY <1>2, <1>8, <1>10, <1>11, <1>12 DEF ProjectInv, ProjectGood

\* A stage runs with what the document or the plan says of it.  What it makes
\* stale comes after it, and for a resume was not complete.
LEMMA RunStageProject ==
  ASSUME ProjectInv, RunStage
  PROVE  ProjectInv'
<1> DEFINE spec == project.spec
           s == Foremost(project.left)
           w == Computed(head, s, ConfigFor(s))
<1>1. /\ project # None /\ project.phase = "running" /\ project.left # {} /\ Admitted(head, s)
      /\ head' = Committed(s, w) /\ (head' # head => Accepted(head'))
      /\ project' = IF head'.stages[s].status = "failed" THEN None ELSE [project EXCEPT !.left = project.left \ {s}]
      /\ UNCHANGED <<work, setting, packet, edits, lock>>
  BY DEF RunStage, Running, ProjectShape, ProjectInv, ProjectGood
<1>2. /\ ProjectShape /\ DoneSoFar /\ RunGood /\ ResumeGood /\ Inv /\ LockGood /\ GoodRevision(head)
      /\ Shaped(head) /\ Consistent(head) /\ DOMAIN head.stages = Stages(head.schema)
  BY <1>1 DEF ProjectInv, ProjectGood, Inv, GoodRevision, Shaped
<1>3. /\ project.left \subseteq Planned(spec) /\ Planned(spec) \subseteq StageNames
      /\ Planned(spec) \subseteq Stages(head.schema) /\ head.schema \in {3, 4}
  BY <1>2, PlannedStages DEF ProjectShape
<1>4. s \in project.left /\ \A t \in project.left \ {s} : Earlier(s, t)
  BY <1>1, <1>3, ForemostFirst
<1>5. s \in Stages(head.schema) /\ s \in Planned(spec)
  BY <1>3, <1>4
<1> HIDE DEF s
<1>6. ConfigFor(s) \in Settings[s]
  <2>1. s \notin {"parse", "map"} => s \in DOMAIN project.document
    BY <1>2, <1>5 DEF ProjectShape
  <2>2. setting["parse"] \in Settings["parse"]
    BY <1>2 DEF Inv, TypeOK, StageNames
  <2> QED BY <1>1, <1>2, <2>1, <2>2 DEF ConfigFor, ProjectShape
<1>7. w \in Work /\ GoodWork(w) /\ w.base = head.id /\ w.stage = s /\ w.config = ConfigFor(s)
  BY <1>1, <1>2, <1>5, <1>6, ComputedGood, ComputedFields
<1> HIDE DEF w
<1>8. /\ GoodRevision(head') /\ Leaves(s) /\ (head' = head \/ head'.id = head.id + 1)
      /\ head'.stages[s].status \in {"complete", "failed"}
      /\ s # "parse" => head'.stages[s].config = ConfigFor(s)
  BY <1>1, <1>2, <1>7, CommittedLeaves
<1>9. Inv'
  <2>1. CASE head' = head
    BY <1>1, <1>2, <2>1, SettingsInv DEF Inv, TypeOK, GoodPacket, Configs
  <2>2. CASE head'.id = head.id + 1
    BY <1>1, <1>2, <1>8, <2>2, HeadStep
  <2> QED BY <1>8, <2>1, <2>2
<1>10. LockGood'
  BY <1>1, <1>2, <1>8, SameLock
<1>11. CASE head'.stages[s].status = "failed"
  BY <1>1, <1>9, <1>10, <1>11 DEF ProjectInv, ProjectGood
<1>12. CASE head'.stages[s].status = "complete"
  <2> DEFINE left == project.left \ {s}
  <2>1. project' = [kind |-> project.kind, spec |-> project.spec, lock |-> project.lock, phase |-> project.phase,
                    mapping |-> project.mapping, document |-> project.document, groups |-> project.groups, left |-> left]
    <3>1. project' = [project EXCEPT !.left = left]
      BY <1>1, <1>12
    <3> HIDE DEF left
    <3> QED BY <1>2, <3>1 DEF ProjectShape
  <2>2. left \subseteq Planned(spec)
    BY <1>3
  <2> HIDE DEF left
  <2>3. /\ project'.kind = project.kind /\ project'.spec = project.spec /\ project'.lock = project.lock
        /\ project'.phase = project.phase /\ project'.mapping = project.mapping /\ project'.document = project.document
        /\ project'.groups = project.groups /\ project'.left = left
        /\ IsLock(project.lock)'
        /\ project' = [kind |-> project'.kind, spec |-> project'.spec, lock |-> project'.lock, phase |-> project'.phase,
                        mapping |-> project'.mapping, document |-> project'.document, groups |-> project'.groups,
                        left |-> project'.left]
    BY <1>2, <2>1, ProjectFields
  <2>4. head'.schema = head.schema /\ DOMAIN head'.stages = Stages(head.schema)
    BY <1>8 DEF Leaves
  <2>5. ProjectShape'
    BY <1>1, <1>2, <2>2, <2>3, <2>4 DEF ProjectShape
  <2>6. \A t, u \in Planned(spec) : Earlier(t, u) => t # u /\ t \notin Below(head.schema, u)
    BY <1>3, EarlierNotBelow
  <2>7. Rest(project.groups) \subseteq Planned(spec)
    BY <1>2, GroupsInOrder DEF ProjectShape
  <2>8. \A t \in Rest(project.groups) : Earlier(s, t) /\ t # s
    BY <1>2, <1>4, <1>5, <2>6, <2>7 DEF DoneSoFar
  <2>9. /\ Undone' = Undone \ {s} /\ Done' = Done \cup {s} /\ s \in Undone /\ Undone \subseteq Planned(spec)
        /\ \A t \in Undone' : Earlier(s, t)
    BY <1>3, <1>4, <1>5, <2>3, <2>7, <2>8 DEF Done, Undone, left
  <2>10. /\ head'.stages[s].status = "complete"
         /\ s \in DOMAIN project.document => head'.stages[s].config = project.document[s]
    <3>1. s \in DOMAIN project.document => ConfigFor(s) = project.document[s] /\ s # "parse"
      BY <1>2 DEF ConfigFor, ProjectShape
    <3> QED BY <1>8, <1>12, <3>1
  <2>11. \A t \in Done : head'.stages[t] = head.stages[t]
    <3> SUFFICES ASSUME NEW t \in Done PROVE head'.stages[t] = head.stages[t]
      OBVIOUS
    <3>1. t \in Planned(spec) /\ t \in Stages(head.schema) /\ t # s /\ IsComplete(t)
      BY <1>2, <1>3, <2>9 DEF Done, DoneSoFar
    <3>2. t \notin Below(head.schema, s)
      <4>1. CASE project.kind = "run"
        BY <1>2, <1>5, <2>6, <2>9, <3>1, <4>1 DEF RunGood
      <4>2. CASE project.kind = "resume"
        <5>1. ~IsComplete(s)
          BY <1>2, <1>4, <4>2 DEF ResumeGood
        <5> QED BY <1>2, <1>5, <3>1, <5>1, AncestorsComplete DEF IsComplete, Active
      <4> QED BY <1>2, <4>1, <4>2 DEF ProjectShape
    <3> QED BY <1>8, <3>1, <3>2 DEF Leaves
  <2>12. DoneSoFar'
    <3>1. \A t \in Done' : head'.stages[t].status = "complete"
      BY <1>2, <2>9, <2>10, <2>11 DEF DoneSoFar, IsComplete
    <3>2. \A t \in left, u \in Rest(project.groups) : Earlier(t, u)
      BY <1>2 DEF DoneSoFar, left
    <3> QED BY <2>3, <3>1, <3>2 DEF DoneSoFar, IsComplete
  <2>13. RunGood'
    <3> SUFFICES ASSUME project.kind = "run" PROVE RunGood'
      BY <2>3 DEF RunGood
    <3>1. \A t \in Done' : t \in DOMAIN project'.document => head'.stages[t].config = project'.document[t]
      BY <1>2, <2>3, <2>9, <2>10, <2>11 DEF RunGood, AsWritten
    <3>2. \A t \in Done', u \in Undone' : Earlier(t, u)
      BY <1>2, <2>9 DEF RunGood
    <3> QED BY <3>1, <3>2 DEF RunGood, AsWritten
  <2>14. ResumeGood'
    <3> SUFFICES ASSUME project.kind = "resume" PROVE ResumeGood'
      BY <2>3 DEF ResumeGood
    <3> DEFINE pinned == project.lock.stages
    <3>1. /\ DOMAIN pinned = Stages(head.schema)
          /\ \A t \in DOMAIN pinned : pinned[t].status = "complete" => head.stages[t] = pinned[t]
          /\ \A t \in project.left : ~IsComplete(t)
          /\ \A t \in Undone : IsComplete(t) => pinned[t].status = "complete"
          /\ AsDocumented(pinned, project.lock) => \A t \in Done : AsWritten(t)
      BY <1>2 DEF ResumeGood
    <3>2. \A t \in Stages(head.schema) : IsComplete(t) => head'.stages[t] = head.stages[t]
      <4> SUFFICES ASSUME NEW t \in Stages(head.schema), IsComplete(t) PROVE head'.stages[t] = head.stages[t]
        OBVIOUS
      <4>1. ~IsComplete(s)
        BY <1>4, <3>1
      <4>2. t # s /\ t \notin Below(head.schema, s)
        BY <1>2, <1>5, <4>1, AncestorsComplete DEF IsComplete, Active
      <4> QED BY <1>8, <4>2 DEF Leaves
    <3>3. \A t \in Stages(head.schema) : t # s /\ IsComplete(t)' => IsComplete(t)
      BY <1>8 DEF Leaves, IsComplete
    <3>4. \A t \in DOMAIN pinned : pinned[t].status = "complete" => head'.stages[t] = pinned[t]
      BY <3>1, <3>2 DEF IsComplete
    <3>5. \A t \in left : ~IsComplete(t)'
      BY <1>3, <3>1, <3>3 DEF left
    <3>6. \A t \in Undone' : IsComplete(t)' => pinned[t].status = "complete"
      BY <1>3, <2>9, <3>1, <3>3
    <3>7. AsDocumented(pinned, project.lock) =>
            \A t \in Done' : t \in DOMAIN project'.document => head'.stages[t].config = project'.document[t]
      BY <2>3, <2>9, <2>10, <2>11, <3>1 DEF AsWritten
    <3>8. AsDocumented(project.lock.stages, project.lock)' => AsDocumented(pinned, project.lock)
      BY <2>3 DEF AsDocumented, Complete
    <3> HIDE DEF pinned
    <3>9. pinned = project'.lock.stages
      BY <2>3 DEF pinned
    <3> QED BY <2>3, <2>4, <3>1, <3>4, <3>5, <3>6, <3>7, <3>8, <3>9 DEF ResumeGood, AsWritten, IsComplete
  <2> QED BY <1>9, <1>10, <2>5, <2>12, <2>13, <2>14 DEF ProjectInv, ProjectGood
<1> QED BY <1>8, <1>11, <1>12

LEMMA ProjectStep == ProjectInv /\ [ProjectNext]_<<vars, projectVars>> => ProjectInv'
BY PrepareProject, WriteLockProject, WorkByHandProject, EndProject, StartProject, StartStagesProject,
   ChooseStagesProject, RunStageProject DEF ProjectNext

THEOREM ProjectInvariance == ProjectSpec => []ProjectInv
<1> QED BY InitProject, ProjectStep, PTL DEF ProjectSpec

-----------------------------------------------------------------------------
\* When a run answers, every stage of its document is complete and was made
\* with exactly the document that the answered lock names, whatever files
\* changed meanwhile; and so when a resume answers whose lock pinned stages
\* made as it documents them (run_project_spec, resume_project_spec).
THEOREM AnswersAreAsLocked == ProjectSpec => []FinishedAsLocked
<1>1. ProjectInv => FinishedAsLocked
  <2> SUFFICES ASSUME ProjectInv, Answering, project.kind = "run" \/ AsDocumented(project.lock.stages, project.lock)
               PROVE  /\ Complete(head.stages, Planned(project.spec)) = Planned(project.spec)
                      /\ AsDocumented(head.stages, project.lock)
    BY DEF FinishedAsLocked
  <2>1. ProjectShape /\ DoneSoFar /\ RunGood /\ ResumeGood /\ project.left = {} /\ project.groups = <<>> /\ project.phase = "running"
    BY DEF Answering, Running, ProjectInv, ProjectGood
  <2>2. Done = Planned(project.spec) /\ Planned(project.spec) \subseteq Stages(head.schema) /\ DOMAIN head.stages = Stages(head.schema)
    BY <2>1, RestOfNone, PlannedStages DEF Done, Undone, ProjectShape, ProjectInv, Inv, GoodRevision, Shaped
  <2>3. \A s \in Done : IsComplete(s) /\ AsWritten(s)
    BY <2>1 DEF DoneSoFar, RunGood, ResumeGood, ProjectShape
  <2>4. Complete(head.stages, Planned(project.spec)) = Planned(project.spec)
    BY <2>2, <2>3 DEF Complete, IsComplete
  <2>5. project.lock.document = project.document /\ DOMAIN project.document \subseteq Planned(project.spec)
    BY <2>1 DEF ProjectShape
  <2>6. AsDocumented(head.stages, project.lock)
    BY <2>2, <2>3, <2>5 DEF AsDocumented, Complete, AsWritten
  <2> QED BY <2>4, <2>6
<1> QED BY <1>1, ProjectInvariance, PTL

\* A resume continues: what was complete in the revision its lock pins is
\* still there untouched, reviews and captured sources included, however files
\* and settings changed since (resume_project_spec, _filter_incomplete).
THEOREM ResumesContinue == ProjectSpec => []ResumeKeepsPinned
<1>1. ProjectInv => ResumeKeepsPinned
  BY DEF ProjectInv, ProjectGood, ResumeGood, ResumeKeepsPinned, Complete
<1> QED BY <1>1, ProjectInvariance, PTL

\* Working through projects and by hand, review decisions stay with the
\* construction they were made about.
THEOREM ProjectReviewsStay == ProjectSpec => []ReviewedAsBuilt
<1>1. ProjectInv => ReviewedAsBuilt
  BY GoodReviewed DEF ProjectInv
<1> QED BY <1>1, ProjectInvariance, PTL
=============================================================================
