--------------------------- MODULE FinishedDataset ---------------------------
(***************************************************************************)
(* Curation and splitting of a constructed dataset (datasets/curation.py,  *)
(* datasets/splitting.py), checked by the gates that share no code with    *)
(* them (datasets/_independent_checks.py).                                 *)
(*                                                                         *)
(* Records and sources are numbered in the order of their identities.  The *)
(* fields of a record are a context and a target, texts as sequences of    *)
(* characters.  A cap of 0 stands for the balance mode "none".  The        *)
(* digests that order the leakage groups are arbitrary: every order is     *)
(* tried.                                                                  *)
(***************************************************************************)
EXTENDS Naturals, SequencesExt, FiniteSetsExt

CONSTANTS
  Records,      \* record identities, in their sorted order
  Sources,      \* source identities, in their sorted order
  RawDigests,   \* the digests the raw bytes of the sources may have
  Shapes,       \* [sources, context, target] of a record
  Policies      \* [minimum, cap, ppm, required]

ASSUME DatasetAssumption ==
  /\ Records \subseteq Nat /\ IsFiniteSet(Records) /\ Records # {}
  /\ Sources \subseteq Nat /\ IsFiniteSet(Sources)
  /\ \A s \in Shapes : /\ s.sources \in (SUBSET Sources) \ {{}}
                       /\ Len(s.target) \in Nat \ {0}
  /\ RawDigests \subseteq [Sources -> Nat]

ASSUME PolicyAssumption ==
  \A p \in Policies : /\ {p.minimum, p.cap, p.ppm} \subseteq Nat
                      /\ 0 < p.ppm /\ p.ppm < 1000000
                      /\ p.required \in BOOLEAN

VARIABLES
  made,      \* the shape of every constructed record
  raw,       \* the digest of every selected source
  policy,    \* the curation and the split policy of the plan
  phase,     \* "idle", "curate", "group", "assign", "done", "refused" or "invalid"
  outcome,   \* the reason code of every record's decision
  keeper,    \* the representative named by an exact-duplicate finding
  parents,   \* the disjoint set over the included records
  owner,     \* token_owner: the first record that showed a token
  split      \* the groups, those of the evaluation part, and its target

inputs == <<made, raw, policy>>

\* The records of the dataset.
Rows == DOMAIN made
curated == <<outcome, keeper>>
datasetVars == <<inputs, phase, curated, parents, owner, split>>

Nobody == [t \in {} |-> 0]
Unsplit == [groups |-> {}, evaluation |-> {}, target |-> 0]

Undecided(records) ==
  [outcome |-> [r \in records |-> "undecided"], keeper |-> [r \in records |-> r]]

DatasetInit ==
  /\ made \in [Records -> Shapes]
  /\ raw \in RawDigests
  /\ policy \in Policies
  /\ phase = "curate"
  /\ outcome = Undecided(Records).outcome
  /\ keeper = Undecided(Records).keeper
  /\ parents = Nobody /\ owner = Nobody
  /\ split = Unsplit

-----------------------------------------------------------------------------
(* Curation. *)

Long == {r \in Rows : Len(made[r].target) >= policy.minimum}

\* A conflict group: one objective context within one exact source scope.
Rivals(r) == {s \in Long : /\ made[s].sources = made[r].sources
                           /\ made[s].context = made[r].context}

\* Mutant: a third variant is needed before a group counts as conflicting.
ConflictedOffByOne ==
  {r \in Long : Cardinality({made[s].target : s \in Rivals(r)}) > 2}

Conflicted == {r \in Long : Cardinality({made[s].target : s \in Rivals(r)}) >= 2}

Clear == Long \ Conflicted

\* exact_record_fingerprint: the sources take no part in it.
Content(r) == <<made[r].context, made[r].target>>

\* Mutant: duplicates are looked for before conflicts are put aside.
TwinsOfConflicted(r) == {s \in Long : Content(s) = Content(r)}

Twins(r) == {s \in Clear : Content(s) = Content(r)}

Unique == {r \in Clear : r = Min(Twins(r))}

Primary(r) == Min(made[r].sources)

Ordinal(r) == Cardinality({s \in Unique : Primary(s) = Primary(r) /\ s <= r})

\* Mutant: the ordinal of a record counts the records before it.
CappedOffByOne ==
  {r \in Unique : policy.cap # 0 /\ Ordinal(r) - 1 > policy.cap}

Capped == {r \in Unique : policy.cap # 0 /\ Ordinal(r) > policy.cap}

Reason(r) ==
  CASE r \notin Long              -> "target-too-short"
    [] r \in Conflicted           -> "conflicting-target"
    [] r \in Clear \ Unique       -> "exact-duplicate"
    [] r \in Capped               -> "primary-source-cap"
    [] r \in Unique \ Capped      -> "quality-passed"

\* CurationDecision: the status that goes with a reason code.
DecisionStatus(reason) ==
  CASE reason = "quality-passed"     -> "included"
    [] reason = "conflicting-target" -> "quarantined"
    [] OTHER                         -> "excluded"

\* QualityFinding: the counts and the other records a finding has to name.
FindingCloses(r, reason, representative) ==
  CASE reason = "target-too-short"   -> Len(made[r].target) < policy.minimum
    [] reason = "exact-duplicate"    -> representative # r
    [] reason = "conflicting-target" -> /\ Rivals(r) # {r}
                                        /\ Cardinality({made[s].target : s \in Rivals(r)}) >= 2
    [] reason = "primary-source-cap" -> 1 <= policy.cap /\ policy.cap < Ordinal(r)
    [] reason = "quality-passed"     -> representative = r

\* CurationResult: one decision for every record, with the finding it needs.
CurationCloses(outcomes, keepers) ==
  /\ DOMAIN outcomes = Rows
  /\ \A r \in Rows : FindingCloses(r, outcomes[r], keepers[r])

Curate ==
  /\ phase = "curate"
  /\ outcome' = [r \in Rows |-> Reason(r)]
  /\ keeper' = [r \in Rows |-> IF r \in Clear \ Unique THEN Min(Twins(r)) ELSE r]
  /\ phase' = IF CurationCloses(outcome', keeper') THEN "group" ELSE "invalid"
  /\ UNCHANGED <<inputs, parents, owner, split>>

-----------------------------------------------------------------------------
(* Leakage groups. *)

Included == {r \in Rows : outcome[r] = "quality-passed"}

\* split_dataset refuses a dataset from which curation kept nothing.
NothingToSplit ==
  /\ phase = "group" /\ Included = {}
  /\ phase' = "refused"
  /\ UNCHANGED <<inputs, curated, parents, owner, split>>

\* Mutant: the origins of excluded duplicates are forgotten.
OwnBasis(r) == made[r].sources

\* An included record answers for the sources of its excluded duplicates.
Basis(r) ==
  UNION {made[d].sources : d \in {r} \cup
            {x \in Rows : outcome[x] = "exact-duplicate" /\ keeper[x] = r}}

\* Numbered as their names sort: exact-record-fingerprint, raw-sha256, source.
Tokens(r) == {<<1, Content(r)>>}
               \cup {<<2, raw[s]>> : s \in Basis(r)}
               \cup {<<3, s>> : s \in Basis(r)}

\* A record has one fingerprint, so tokens of that kind are never compared.
Precedes(t, u) == t[1] < u[1] \/ (t[1] = u[1] /\ t[1] # 1 /\ t[2] < u[2])

\* The fold below applies the token it takes out last first.
Greatest(tokens) == CHOOSE t \in tokens : \A u \in tokens \ {t} : Precedes(u, t)

Path(p, i) ==
  LET up[j \in DOMAIN p] == IF p[j] = j THEN {j} ELSE {j} \cup up[p[j]] IN up[i]

Root(p, i) == CHOOSE j \in Path(p, i) : p[j] = j

\* find: every element on the way is put directly under the root.
Found(p, i) ==
  LET path == Path(p, i)
      root == Root(p, i)
  IN  [j \in DOMAIN p |-> IF j \in path THEN root ELSE p[j]]

\* union: the root of the smaller record stays a root.
Union(p, left, right) ==
  LET q == Found(Found(p, left), right)
      roots == {Root(q, left), Root(q, right)}
  IN  [q EXCEPT ![Max(roots)] = Min(roots)]

\* setdefault: what is there stays.
SetDefault(f, x, v) == [y \in DOMAIN f \cup {x} |-> IF y \in DOMAIN f THEN f[y] ELSE v]

\* One turn of the loop over the tokens of a record.
Join(r, state, t) ==
  LET first == IF t \in DOMAIN state.owner THEN state.owner[t] ELSE r
  IN  [owner   |-> SetDefault(state.owner, t, first),
       parents |-> Union(state.parents, r, first)]

\* The records not yet grouped; each turn takes the smallest.
Waiting == Included \ DOMAIN parents

Group ==
  /\ phase = "group" /\ Waiting # {}
  /\ LET r == Min(Waiting)
         after == MapThenFoldSet(LAMBDA t, state : Join(r, state, t),
                                 [owner |-> owner, parents |-> SetDefault(parents, r, r)],
                                 LAMBDA t : t, Greatest, Tokens(r))
     IN  owner' = after.owner /\ parents' = after.parents
  /\ UNCHANGED <<inputs, phase, curated, split>>

Classes == {{s \in Included : Root(parents, s) = Root(parents, r)} : r \in Included}

Grouped ==
  /\ phase = "group" /\ Included # {} /\ Waiting = {}
  /\ phase' = "assign"
  /\ split' = [split EXCEPT !.groups = Classes]
  /\ UNCHANGED <<inputs, curated, parents, owner>>

-----------------------------------------------------------------------------
(* Partitions. *)

Size(groups) == Cardinality(UNION groups)

Target(total) ==
  Max({1, Min({total - 1, (total * policy.ppm + 500000) \div 1000000})})

Distance(m, n) == IF m > n THEN m - n ELSE n - m

FirstOf(order, n) == {order[i] : i \in 1..n}

\* The shortest of the proper prefixes nearest to the target.
Nearest(order, target) ==
  LET lengths == 1..(Len(order) - 1)
      off(n) == Distance(Size(FirstOf(order, n)), target)
  IN  Min({n \in lengths : \A m \in lengths : off(n) <= off(m)})

\* SplitResult: every included record in one group, every group in one part.
SplitCloses(result) ==
  /\ UNION result.groups = Included /\ result.evaluation \subseteq result.groups
  /\ \A g, h \in result.groups : g # h => g \cap h = {}
  /\ result.evaluation # result.groups /\ result.target <= Cardinality(Included)

Settled(result) == IF SplitCloses(result) THEN "done" ELSE "invalid"

OneGroup ==
  /\ phase = "assign" /\ Cardinality(split.groups) < 2
  /\ phase' = IF policy.required THEN "refused" ELSE Settled(split)
  /\ UNCHANGED <<inputs, curated, parents, owner, split>>

Assign ==
  /\ phase = "assign" /\ Cardinality(split.groups) >= 2
  /\ \E order \in SetToSeqs(split.groups) :
       LET target == Target(Cardinality(Included))
           result == [split EXCEPT !.target = target,
                        !.evaluation = FirstOf(order, Nearest(order, target))]
       IN  split' = result /\ phase' = Settled(result)
  /\ UNCHANGED <<inputs, curated, parents, owner>>

DatasetNext == Curate \/ NothingToSplit \/ Group \/ Grouped \/ OneGroup \/ Assign

DatasetSpec == DatasetInit /\ [][DatasetNext]_datasetVars

-----------------------------------------------------------------------------
(* The independent gates. *)

Evaluation == UNION split.evaluation
Train == Included \ Evaluation

Deduplicated == \A r, s \in Included : r # s => Content(r) # Content(s)

Balanced ==
  policy.cap # 0 =>
    \A source \in DOMAIN raw :
      Cardinality({r \in Included : Primary(r) = source}) <= policy.cap

GroupTokens(groups) == UNION {Tokens(r) : r \in UNION groups}

Separate ==
  GroupTokens(split.evaluation) \cap GroupTokens(split.groups \ split.evaluation) = {}

-----------------------------------------------------------------------------
(* Properties. *)

\* curate_dataset: no dataset teaches two answers to one context of one source
\* scope, whatever was filtered, deduplicated or capped besides.
NoContradiction ==
  \A r, s \in Included :
    (made[r].sources = made[s].sources /\ made[r].context = made[s].context)
      => made[r].target = made[s].target

\* curate_dataset: without a cap, a content is lost only by being too short or
\* contradicted in every scope it comes from: some record still carries it.
ContentKept ==
  (phase # "curate" /\ policy.cap = 0) =>
    \A r \in Long :
      (\A s \in Long : ~(/\ made[s].sources = made[r].sources
                         /\ made[s].context = made[r].context
                         /\ made[s].target # made[r].target))
        => \E k \in Included : Content(k) = Content(r)

\* build_leakage_groups: the groups are the connected components of sharing a
\* token.  No token is in two groups, and no group falls into unrelated parts.
GroupsAreComponents ==
  phase \in {"assign", "done"} =>
    /\ UNION split.groups = Included
    /\ \A g, h \in split.groups :
         g # h => GroupTokens({g}) \cap GroupTokens({h}) = {}
    /\ \A g \in split.groups : \A part \in (SUBSET g) \ {{}, g} :
         GroupTokens({part}) \cap GroupTokens({g \ part}) # {}

\* split_dataset: groups are components, and what stands behind a training
\* record and what stands behind an evaluation record, duplicates curation
\* dropped included, come from no common source and from no two sources of
\* equal bytes.
LeakageFree ==
  /\ GroupsAreComponents
  /\ phase = "done" =>
       LET behind(r) == {d \in Rows : d = r \/ (/\ outcome[d] = "exact-duplicate"
                                                   /\ Content(d) = Content(r))}
           sources(r) == UNION {made[d].sources : d \in behind(r)}
       IN  \A r \in Train, s \in Evaluation : \A a \in sources(r), b \in sources(s) :
             raw[a] # raw[b] /\ a # b
=============================================================================
