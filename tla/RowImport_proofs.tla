----------------------------- MODULE RowImport_proofs -----------------------------
(***************************************************************************)
(* Every row of every file is accounted for, and whatever was mapped,      *)
(* curated and split passes its gates with nothing shared between the two  *)
(* parts, for any files, plans and policies.                               *)
(***************************************************************************)
EXTENDS FinishedBundle_proofs

-----------------------------------------------------------------------------
(* The inductive invariant *)

\* The plan is one of those given, or proposed for the first file.
ImportTyped ==
  /\ rowFiles \in RowFiles
  /\ \A i \in DOMAIN rowPlan.paths : IsList(rowPlan.paths[i]) /\ rowPlan.paths[i] # <<>>
  /\ importing \in {"files", "captured", "refused", "reported", "mapped", "curated", "split", "formatted",
                    "validated", "failed"}

AfterSplit == {"split", "formatted", "validated", "failed"}
AfterCuration == {"curated"} \cup AfterSplit
AfterMapping == {"reported", "mapped"} \cup AfterCuration

MappedSoFar ==
  importing \in AfterMapping =>
    /\ imported \in SetToSeqs(Mapped(rowPlan, rowFiles))
    /\ report = [written |-> TRUE, accepted |-> Cardinality(Mapped(rowPlan, rowFiles)),
                 rejected |-> Rejections(rowPlan, rowFiles)]

CuratedSoFar ==
  importing \in AfterCuration => rowPolicy \in Policies /\ verdict = [i \in Ids |-> RowReason(i, rowPolicy)]

\* What the two ways to split have in common, and what each keeps apart.
PartsSound ==
  /\ parts.train \cup parts.evaluation = Kept /\ parts.train \cap parts.evaluation = {} /\ parts.train # {}
  /\ \A g \in grouping : g \subseteq parts.train \/ g \subseteq parts.evaluation
  /\ rowPlan.membership = "authoritative" =>
       \A i \in parts.train, j \in parts.evaluation :
         imported[i].hint = "train" /\ imported[j].hint = "evaluation" /\ SourceOf(i) # SourceOf(j)
  /\ rowPlan.membership # "authoritative" =>
       /\ rowPolicy.required => parts.evaluation # {}
       /\ \A i \in parts.train, j \in parts.evaluation : ~Alike(i, j)

RowsInOrder ==
  formatted = [train |-> InOrder(parts.train), evaluation |-> InOrder(parts.evaluation),
               provenance |-> ProvenanceOf(InOrder(parts.train), InOrder(parts.evaluation))]

\* The gates refuse only what the two parts or a file lack.
Lacking ==
  \/ rowPlan.membership = "authoritative" /\ rowPolicy.required /\ parts.evaluation = {}
  \/ \E f \in DOMAIN rowFiles : \A i \in Ids : SourceOf(i) = f => i \notin Kept

ImportInv ==
  /\ ImportTyped /\ MappedSoFar /\ CuratedSoFar
  /\ importing \in AfterSplit => PartsSound
  /\ importing \in AfterSplit \ {"split"} => RowsInOrder
  /\ importing = "failed" => Lacking
  /\ importing = "validated" => ~Lacking

-----------------------------------------------------------------------------
(* What was captured *)

RowAt(at) == CaptureRows(rowFiles[at[1]])[at[2]]
Captured == UNION {{<<f, n>> : n \in DOMAIN CaptureRows(rowFiles[f])} : f \in DOMAIN rowFiles}
Taken == {at \in Captured : RowMapped(rowPlan, RowAt(at))}
RecordAt(at) == RecordOf(rowPlan, at[1], CaptureRows(rowFiles[at[1]]), at[2])

\* A captured row is an object, in whatever container it came.
LEMMA ObjectsOnly ==
  ASSUME NEW file, file.kind \in Containers, NEW n \in DOMAIN CaptureRows(file)
  PROVE  CaptureRows(file)[n].kind = "object"
<1> DEFINE rows == CaptureRows(file)
<1>0. DOMAIN <<>> = {}
  OBVIOUS
<1>1. CASE ~file.wellFormed
  <2>1. rows = <<>>
    BY <1>1 DEF CaptureRows
  <2> QED BY <1>0, <2>1
<1>2. CASE file.wellFormed /\ file.kind = "jsonl"
  <2>1. rows = CapturedJsonl(file)
    BY <1>2 DEF CaptureRows
  <2> QED BY <1>0, <2>1 DEF CapturedJsonl, AllObjects
<1>3. CASE file.wellFormed /\ file.kind = "json"
  <2>1. rows = CapturedJson(file)
    BY <1>3 DEF CaptureRows
  <2> QED BY <1>0, <2>1 DEF CapturedJson, AllObjects
<1>4. CASE file.wellFormed /\ file.kind = "csv"
  <2>1. rows = CapturedCsv(file)
    BY <1>4 DEF CaptureRows
  <2> DEFINE body == Tail(file.body)
             built(header) == [r \in DOMAIN body |-> Value("object", "", header, body[r].items)]
  <2>2. rows = <<>> \/ \E header : rows = built(header)
    BY <2>1 DEF CapturedCsv
  <2>3. \A header : \A r \in DOMAIN built(header) : built(header)[r].kind = "object"
    BY DEF Value
  <2> HIDE DEF built
  <2> QED BY <1>0, <2>2, <2>3
<1>5. CASE file.wellFormed /\ file.kind \in {"parquet", "arrow"}
  <2>1. rows = CapturedColumns(file)
    BY <1>5 DEF CaptureRows
  <2> QED BY <1>0, <2>1 DEF CapturedColumns, AllObjects
<1> QED BY <1>1, <1>2, <1>3, <1>4, <1>5 DEF Containers

LEMMA CapturedFacts ==
  ASSUME ImportTyped
  PROVE  /\ IsFiniteSet(Captured)
         /\ \A at \in Captured : /\ at = <<at[1], at[2]>> /\ at[1] \in Nat /\ at[2] \in Nat /\ at[1] \in DOMAIN rowFiles
                                /\ at[2] \in DOMAIN CaptureRows(rowFiles[at[1]]) /\ RowAt(at).kind = "object"
         /\ \A f \in DOMAIN rowFiles : \A n \in DOMAIN CaptureRows(rowFiles[f]) : <<f, n>> \in Captured
<1> DEFINE placesOf(f) == {<<f, n>> : n \in DOMAIN CaptureRows(rowFiles[f])}
           places == [f \in DOMAIN rowFiles |-> placesOf(f)]
<1>1. /\ Len(rowFiles) \in Nat /\ DOMAIN rowFiles = 1..Len(rowFiles)
      /\ \A f \in DOMAIN rowFiles :
           /\ Len(CaptureRows(rowFiles[f])) \in Nat /\ rowFiles[f].kind \in Containers
           /\ DOMAIN CaptureRows(rowFiles[f]) = 1..Len(CaptureRows(rowFiles[f]))
  BY ImportAssumption DEF ImportTyped, IsList
<1>2. ASSUME NEW f \in DOMAIN rowFiles PROVE IsFiniteSet(placesOf(f))
  <2> DEFINE D == DOMAIN CaptureRows(rowFiles[f])
             g == [n \in D |-> <<f, n>>]
  <2>1. IsFiniteSet(D)
    BY <1>1, FS_Interval
  <2>2. IsFiniteSet({g[n] : n \in D})
    <3> HIDE DEF D
    <3> QED BY <2>1, ImageFinite
  <2>3. {g[n] : n \in D} = placesOf(f)
    OBVIOUS
  <2> QED BY <2>2, <2>3
<1>3. IsFiniteSet({places[f] : f \in DOMAIN rowFiles})
  <2>1. DOMAIN places = DOMAIN rowFiles /\ IsFiniteSet(DOMAIN places)
    BY <1>1, FS_Interval
  <2> HIDE DEF places
  <2>2. IsFiniteSet({places[f] : f \in DOMAIN places})
    BY <2>1, ImageFinite
  <2> QED BY <2>1, <2>2
<1>4. Captured = UNION {places[f] : f \in DOMAIN rowFiles}
  BY DEF Captured
<1>5. IsFiniteSet(Captured)
  BY <1>2, <1>3, <1>4, FS_UNION
<1>6. ASSUME NEW f \in DOMAIN rowFiles, NEW n \in DOMAIN CaptureRows(rowFiles[f])
      PROVE  f \in Nat /\ n \in Nat /\ <<f, n>> \in Captured /\ CaptureRows(rowFiles[f])[n].kind = "object"
  BY <1>1, ObjectsOnly DEF Captured
<1>7. \A at \in Captured : \E f \in DOMAIN rowFiles : \E n \in DOMAIN CaptureRows(rowFiles[f]) : at = <<f, n>>
  BY DEF Captured
<1> QED BY <1>5, <1>6, <1>7 DEF RowAt

\* The records of a mapping are those of the rows it takes, one of each.
LEMMA MappedIs ==
  ASSUME ImportTyped
  PROVE  /\ Mapped(rowPlan, rowFiles) = {RecordAt(at) : at \in Taken}
         /\ \A at \in Taken : <<RecordAt(at).source, RecordAt(at).row>> = at
         /\ IsFiniteSet(Taken) /\ IsFiniteSet(Mapped(rowPlan, rowFiles))
         /\ Cardinality(Mapped(rowPlan, rowFiles)) = Cardinality(Taken)
         /\ RowsRejected(rowPlan, rowFiles) = Captured \ Taken
<1> DEFINE M == Mapped(rowPlan, rowFiles)
           g == [at \in Taken |-> RecordAt(at)]
<1>1. \A f \in DOMAIN rowFiles : AcceptedRows(rowPlan, CaptureRows(rowFiles[f]))
                                   = {n \in DOMAIN CaptureRows(rowFiles[f]) : <<f, n>> \in Taken}
  BY CapturedFacts DEF AcceptedRows, Taken, RowAt
<1>2. \A at \in Taken : at \in Captured /\ at = <<at[1], at[2]>> /\ at[1] \in DOMAIN rowFiles
                       /\ at[2] \in DOMAIN CaptureRows(rowFiles[at[1]])
  BY CapturedFacts DEF Taken
<1>3. M = {RecordAt(at) : at \in Taken}
  <2>1. ASSUME NEW r \in M PROVE \E at \in Taken : r = RecordAt(at)
    <3>1. PICK f \in DOMAIN rowFiles : \E n \in AcceptedRows(rowPlan, CaptureRows(rowFiles[f])) :
            r = RecordOf(rowPlan, f, CaptureRows(rowFiles[f]), n)
      BY DEF Mapped
    <3>2. PICK n \in DOMAIN CaptureRows(rowFiles[f]) :
            <<f, n>> \in Taken /\ r = RecordOf(rowPlan, f, CaptureRows(rowFiles[f]), n)
      BY <1>1, <3>1
    <3>3. r = RecordAt(<<f, n>>)
      BY <3>2 DEF RecordAt
    <3> QED BY <3>2, <3>3
  <2>2. ASSUME NEW at \in Taken PROVE RecordAt(at) \in M
    <3>1. at[2] \in AcceptedRows(rowPlan, CaptureRows(rowFiles[at[1]])) /\ at[1] \in DOMAIN rowFiles
      BY <1>1, <1>2
    <3> QED BY <3>1 DEF Mapped, RecordAt
  <2> QED BY <2>1, <2>2
<1>4. \A at \in Taken : <<RecordAt(at).source, RecordAt(at).row>> = at
  BY <1>2 DEF RecordAt, RecordOf
<1>5. IsFiniteSet(Taken)
  BY CapturedFacts, FS_Subset DEF Taken
<1>6. g \in Bijection(Taken, M)
  <2> HIDE DEF M
  <2>1. g \in [Taken -> M] /\ \A r \in M : \E at \in Taken : g[at] = r
    BY <1>3
  <2>2. \A at, other \in Taken : g[at] = g[other] => at = other
    BY <1>4
  <2> QED BY <2>1, <2>2 DEF Bijection, Injection, Surjection, IsInjective
<1>7. IsFiniteSet(M) /\ Cardinality(M) = Cardinality(Taken)
  <2> HIDE DEF M, g
  <2> QED BY <1>5, <1>6, FS_Bijection DEF ExistsBijection
<1>8. RowsRejected(rowPlan, rowFiles) = Captured \ Taken
  <2>1. ASSUME NEW at \in RowsRejected(rowPlan, rowFiles) PROVE at \in Captured \ Taken
    <3>1. PICK f \in DOMAIN rowFiles : \E n \in DOMAIN CaptureRows(rowFiles[f]) :
            n \notin AcceptedRows(rowPlan, CaptureRows(rowFiles[f])) /\ at = <<f, n>>
      BY DEF RowsRejected
    <3> QED BY <1>1, <3>1, CapturedFacts
  <2>2. ASSUME NEW at \in Captured \ Taken PROVE at \in RowsRejected(rowPlan, rowFiles)
    <3>1. /\ at = <<at[1], at[2]>> /\ at[1] \in DOMAIN rowFiles /\ at[2] \in DOMAIN CaptureRows(rowFiles[at[1]])
          /\ at[2] \notin AcceptedRows(rowPlan, CaptureRows(rowFiles[at[1]]))
      BY <1>1, CapturedFacts
    <3> QED BY <3>1 DEF RowsRejected
  <2> QED BY <2>1, <2>2
<1> QED BY <1>3, <1>4, <1>5, <1>7, <1>8

\* The report names the rows that were not taken.
LEMMA RejectionsAre ==
  ASSUME ImportTyped
  PROVE  ToSet(Rejections(rowPlan, rowFiles)) = Captured \ Taken
<1> DEFINE R == RowsRejected(rowPlan, rowFiles)
           n == Cardinality(R)
           upTo == [at \in R |-> UpToRow(R, at)]
           list == Rejections(rowPlan, rowFiles)
<1>1. R = Captured \ Taken /\ IsFiniteSet(R)
  BY MappedIs, CapturedFacts, FS_Subset
<1>2. \A at \in R : at = <<at[1], at[2]>> /\ at[1] \in Nat /\ at[2] \in Nat
  BY <1>1, CapturedFacts
<1>3. list = [k \in 1..n |-> CHOOSE at \in R : Cardinality(UpToRow(R, at)) = k]
  BY DEF Rejections
<1> HIDE DEF R
<1>4. \A x \in R : upTo[x] \in SUBSET R /\ x \in upTo[x]
  BY <1>2 DEF UpToRow
<1>5. ASSUME NEW x \in R, NEW y \in R, x # y
      PROVE  \/ upTo[x] \subseteq upTo[y] /\ y \notin upTo[x]
             \/ upTo[y] \subseteq upTo[x] /\ x \notin upTo[y]
  <2>1. x[1] # y[1] \/ x[2] # y[2]
    BY <1>2, <1>5
  <2>2. /\ x[1] \in Nat /\ x[2] \in Nat /\ y[1] \in Nat /\ y[2] \in Nat
        /\ \A z \in R : z[1] \in Nat /\ z[2] \in Nat
    BY <1>2
  <2>3. CASE x[2] < y[2] \/ (x[2] = y[2] /\ x[1] < y[1])
    BY <2>2, <2>3 DEF UpToRow
  <2>4. CASE y[2] < x[2] \/ (x[2] = y[2] /\ y[1] < x[1])
    BY <2>2, <2>4 DEF UpToRow
  <2> QED BY <2>1, <2>2, <2>3, <2>4
<1>6. list = [k \in 1..n |-> CHOOSE at \in R : Cardinality(upTo[at]) = k]
  BY <1>3
<1> HIDE DEF upTo, list
<1>7. /\ n \in Nat /\ \A x \in R : Cardinality(upTo[x]) \in 1..n
      /\ \A k \in 1..n : \E x \in R : Cardinality(upTo[x]) = k
      /\ \A x, y \in R : Cardinality(upTo[x]) = Cardinality(upTo[y]) => x = y
  <2>1. IsFiniteSet(R)
    BY <1>1
  <2> QED BY <1>4, <1>5, <2>1, Ranked
<1> HIDE DEF n
<1>8. \A k \in 1..n : list[k] \in R /\ Cardinality(upTo[list[k]]) = k
  BY <1>6, <1>7
<1>9. ASSUME NEW x \in R PROVE \E k \in 1..n : list[k] = x
  <2>1. Cardinality(upTo[x]) \in 1..n
    BY <1>7
  <2>2. list[Cardinality(upTo[x])] \in R /\ Cardinality(upTo[list[Cardinality(upTo[x])]]) = Cardinality(upTo[x])
    BY <1>8, <2>1
  <2> QED BY <1>7, <2>1, <2>2
<1>10. DOMAIN list = 1..n
  BY <1>6
<1>11. ToSet(list) = R
  BY <1>8, <1>9, <1>10 DEF ToSet
<1> QED BY <1>1, <1>11 DEF list

\* A path of one token finds what the object has under it.
LEMMA OneToken ==
  ASSUME NEW row, row.kind = "object", NEW path, DOMAIN path = {1}
  PROVE  ResolvePointer(row, path) = Field(row, path[1])
<1> DEFINE F(f) == [s \in SUBSET {1} |-> IF s = {} THEN row ELSE StepInto(f[s \ {Max(s)}], path[Max(s)])]
           iter == CHOOSE f : f = F(f)
           it == [s \in SUBSET {1} |-> IF s = {} THEN row ELSE StepInto(row, path[1])]
<1>1. ResolvePointer(row, path) = iter[{1}]
  BY DEF ResolvePointer, FoldLeft, MapThenFoldSet
<1>2. Max({1}) = 1
  BY DEF Max
<1>3. \A s \in SUBSET {1} : s # {} => s = {1}
  OBVIOUS
<1>4. {1} \ {1} = {}
  OBVIOUS
<1>5. it = F(it)
  <2> SUFFICES ASSUME NEW s \in SUBSET {1}, s # {}
               PROVE  StepInto(row, path[1]) = StepInto(it[s \ {Max(s)}], path[Max(s)])
    OBVIOUS
  <2>1. Max(s) = 1 /\ s \ {Max(s)} = {}
    BY <1>2, <1>3, <1>4
  <2> QED BY <2>1
<1>6. iter = F(iter)
  BY <1>5
<1> HIDE DEF iter
<1>7. iter[{}] = row /\ iter[{1}] = StepInto(iter[{1} \ {Max({1})}], path[Max({1})])
  BY <1>6
<1>8. iter[{1}] = StepInto(row, path[1])
  BY <1>2, <1>4, <1>7
<1> QED BY <1>1, <1>8 DEF StepInto

-----------------------------------------------------------------------------
(* Every row is accounted for *)

\* What a record keeps of its row.
Whole(r, row) ==
  \A key \in ToSet(row.keys) :
    \/ key = "partition" /\ r.hint # ""
    \/ \E i \in DOMAIN rowPlan.paths : rowPlan.paths[i][1] = key /\
          (Len(rowPlan.paths[i]) > 1 \/ r.fields[i] = Field(row, key))

LEMMA TakenWhole ==
  ASSUME ImportTyped, NEW at \in Taken
  PROVE  Whole(RecordAt(at), RowAt(at))
<1> DEFINE row == RowAt(at)
           r == RecordAt(at)
<1>1. RowMapped(rowPlan, row) /\ row.kind = "object"
  BY CapturedFacts DEF Taken
<1>2. /\ r.fields = [i \in DOMAIN rowPlan.paths |-> ResolvePointer(row, rowPlan.paths[i])]
      /\ r.hint = IF rowPlan.membership = "replaced" THEN "" ELSE Field(row, "partition").text
  BY DEF RecordAt, RecordOf, Payload, RowAt
<1> HIDE DEF row, r
<1> SUFFICES ASSUME NEW key \in ToSet(row.keys)
             PROVE  \/ key = "partition" /\ r.hint # ""
                    \/ \E i \in DOMAIN rowPlan.paths : rowPlan.paths[i][1] = key /\
                          (Len(rowPlan.paths[i]) > 1 \/ r.fields[i] = Field(row, key))
  BY DEF Whole, row, r
<1>3. CASE key = "partition" /\ rowPlan.membership # "replaced"
  <2>1. r.hint \in Hints
    BY <1>1, <1>2, <1>3 DEF RowMapped
  <2> QED BY <1>3, <2>1 DEF Hints
<1>4. CASE \E i \in DOMAIN rowPlan.paths : rowPlan.paths[i][1] = key
  <2>1. PICK i \in DOMAIN rowPlan.paths : rowPlan.paths[i][1] = key
    BY <1>4
  <2> DEFINE path == rowPlan.paths[i]
  <2>2. Len(path) \in Nat /\ DOMAIN path = 1..Len(path) /\ path # <<>>
    BY DEF ImportTyped, IsList
  <2>3. Len(path) # 0
    BY <2>2
  <2>4. CASE Len(path) = 1
    <3>1. DOMAIN path = {1}
      BY <2>2, <2>4
    <3>2. r.fields[i] = Field(row, path[1])
      BY <1>1, <1>2, <3>1, OneToken
    <3> QED BY <2>1, <3>2
  <2>5. CASE Len(path) # 1
    <3>1. Len(path) > 1
      <4> HIDE DEF path
      <4> QED BY <2>2, <2>3, <2>5
    <3> QED BY <2>1, <3>1
  <2> QED BY <2>4, <2>5
<1> QED BY <1>1, <1>3, <1>4 DEF RowMapped

\* A plan proposed for the first file refuses of its rows those with other keys.
LEMMA ProposedTakes ==
  ASSUME ImportTyped, rowPlan \in Proposals(rowFiles[1]), NEW at \in Captured \ Taken, at[1] = 1
  PROVE  ~(ToSet(RowAt(at).keys) \subseteq ToSet(PayloadKeys(rowPlan.schema)))
<1> DEFINE rows == CaptureRows(rowFiles[1])
           keys == PayloadKeys(rowPlan.schema)
<1>1. PICK s : Detected(rows, s) /\ rowPlan = Proposal(rows, s, rowFiles[1].kind)
  BY DEF Proposals
<1>2. /\ rowPlan.schema = s /\ rowPlan.membership = "replaced"
      /\ rowPlan.paths = [i \in DOMAIN PayloadKeys(s) |-> <<PayloadKeys(s)[i]>>]
  BY <1>1 DEF Proposal
<1>3. at[2] \in DOMAIN rows /\ RowAt(at) = rows[at[2]] /\ ~RowMapped(rowPlan, RowAt(at))
  BY CapturedFacts DEF RowAt, Taken
<1>4. \A i \in DOMAIN keys : FieldAdmitted(rowPlan.schema, keys[i], ResolvePointer(RowAt(at), rowPlan.paths[i]))
  BY <1>1, <1>2, <1>3 DEF Detected
<1>5. DOMAIN rowPlan.paths = DOMAIN keys /\ \A i \in DOMAIN keys : rowPlan.paths[i][1] = keys[i]
  BY <1>2
<1> HIDE DEF keys, rows
<1>6. ToSet(keys) = {rowPlan.paths[i][1] : i \in DOMAIN rowPlan.paths}
  BY <1>5 DEF ToSet
<1>7. ~(ToSet(RowAt(at).keys) \subseteq ToSet(keys))
  BY <1>2, <1>3, <1>4, <1>5, <1>6 DEF RowMapped, keys
<1> QED BY <1>7 DEF keys

LEMMA AccountedFor == ImportTyped /\ MappedSoFar => RowsAccounted
<1> SUFFICES ASSUME ImportTyped, MappedSoFar, importing \in AfterMapping PROVE RowsAccounted
  BY DEF RowsAccounted, AfterMapping, AfterCuration, AfterSplit
<1> DEFINE M == Mapped(rowPlan, rowFiles)
           accepted == {<<r.source, r.row>> : r \in ToSet(imported)}
           rejected == ToSet(report.rejected)
<1>1. /\ imported \in SetToSeqs(M) /\ IsFiniteSet(M) /\ M = {RecordAt(at) : at \in Taken}
      /\ Cardinality(M) = Cardinality(Taken) /\ \A at \in Taken : <<RecordAt(at).source, RecordAt(at).row>> = at
  BY MappedIs DEF MappedSoFar
<1>2. /\ report.written /\ report.accepted = Cardinality(M) /\ report.rejected = Rejections(rowPlan, rowFiles)
  BY DEF MappedSoFar
<1>3. Len(imported) = Cardinality(M) /\ ToSet(imported) = M
  <2>0. imported \in SetToSeqs(M) /\ IsFiniteSet(M)
    BY <1>1
  <2> HIDE DEF M
  <2>1. /\ Len(imported) = Cardinality(M) /\ imported \in [1..Cardinality(M) -> M]
        /\ \A x \in M : \E i \in 1..Cardinality(M) : imported[i] = x
    BY <2>0, Enumerates
  <2> QED BY <2>1 DEF ToSet
<1>4. accepted = Taken
  BY <1>1, <1>3
<1>5. rejected = Captured \ Taken
  BY <1>2, RejectionsAre
<1>6. Captured = UNION {{<<f, n>> : n \in DOMAIN CaptureRows(rowFiles[f])} : f \in DOMAIN rowFiles}
  BY DEF Captured
<1>7. ASSUME NEW r \in ToSet(imported)
      PROVE  Whole(r, CaptureRows(rowFiles[<<r.source, r.row>>[1]])[<<r.source, r.row>>[2]])
  <2>1. PICK at \in Taken : r = RecordAt(at)
    BY <1>1, <1>3
  <2>2. <<r.source, r.row>> = at
    BY <1>1, <2>1
  <2> QED BY <2>1, <2>2, TakenWhole DEF RowAt
<1>8. ASSUME rowPlan \in Proposals(rowFiles[1]), NEW at \in rejected, at[1] = 1
      PROVE  ~(ToSet(CaptureRows(rowFiles[at[1]])[at[2]].keys) \subseteq ToSet(PayloadKeys(rowPlan.schema)))
  BY <1>5, <1>8, ProposedTakes DEF RowAt
<1>9. Taken \subseteq Captured
  BY DEF Taken
<1> HIDE DEF accepted, rejected, M
<1>10. /\ accepted \cap rejected = {} /\ Cardinality(accepted) = Len(imported) /\ accepted \cup rejected = Captured
  BY <1>1, <1>3, <1>4, <1>5, <1>9
<1> QED BY <1>2, <1>3, <1>6, <1>7, <1>8, <1>10 DEF RowsAccounted, Whole, accepted, rejected, M

-----------------------------------------------------------------------------
(* Steps that change neither the records nor the plan *)

LEMMA SameContents ==
  ASSUME UNCHANGED <<rowPlan, imported>>
  PROVE  /\ Ids' = Ids /\ \A i, key : FieldText(i, key)' = FieldText(i, key)
         /\ \A i : /\ ContextKey(i)' = ContextKey(i) /\ TargetToken(i)' = TargetToken(i)
                   /\ Fingerprint(i)' = Fingerprint(i) /\ SourceOf(i)' = SourceOf(i)
<1>1. rowPlan' = rowPlan /\ imported' = imported
  OBVIOUS
<1>2. Ids' = Ids /\ \A i : Fingerprint(i)' = Fingerprint(i) /\ SourceOf(i)' = SourceOf(i)
  BY <1>1 DEF Ids, Fingerprint, SourceOf
<1>3. \A i, key : FieldText(i, key)' = FieldText(i, key)
  BY <1>1 DEF FieldText
<1>4. \A i : ContextKey(i)' = ContextKey(i)
  BY <1>1, <1>3 DEF ContextKey
<1>5. \A i : TargetToken(i)' = TargetToken(i)
  BY <1>1, <1>3 DEF TargetToken
<1> QED BY <1>2, <1>3, <1>4, <1>5

LEMMA SameReasons ==
  ASSUME UNCHANGED <<rowPlan, imported>>, NEW pol
  PROVE  \A i : RowReason(i, pol)' = RowReason(i, pol)
<1>1. /\ imported' = imported /\ Ids' = Ids
      /\ \A i : /\ ContextKey(i)' = ContextKey(i) /\ TargetToken(i)' = TargetToken(i)
                /\ Fingerprint(i)' = Fingerprint(i)
  BY SameContents
<1>2. \A i : TargetLength(i)' = TargetLength(i)
  BY <1>1 DEF TargetLength
<1>3. LongRows(pol)' = LongRows(pol)
  BY <1>1, <1>2 DEF LongRows
<1>4. Contradicted(pol)' = Contradicted(pol)
  BY <1>1, <1>3 DEF Contradicted
<1>5. FirstRows(pol)' = FirstRows(pol)
  BY <1>1, <1>3, <1>4 DEF FirstRows
<1>6. OverCap(pol)' = OverCap(pol)
  BY <1>1, <1>5 DEF OverCap
<1> QED BY <1>1, <1>3, <1>4, <1>5, <1>6 DEF RowReason

\* What holds of records and verdicts goes on holding.
LEMMA Carried ==
  ASSUME ImportInv, importing \in AfterCuration, importing' \in AfterCuration,
         UNCHANGED <<rowFiles, rowPlan, imported, report, rowPolicy, verdict>>
  PROVE  /\ ImportTyped' /\ MappedSoFar' /\ CuratedSoFar' /\ Kept' = Kept /\ Ids' = Ids
         /\ \A i : SourceOf(i)' = SourceOf(i)
         /\ \A i, j : Alike(i, j)' <=> Alike(i, j)
<1>1. /\ rowFiles' = rowFiles /\ rowPlan' = rowPlan /\ imported' = imported /\ report' = report
      /\ rowPolicy' = rowPolicy /\ verdict' = verdict
  OBVIOUS
<1>2. /\ Ids' = Ids /\ \A i, key : FieldText(i, key)' = FieldText(i, key)
      /\ \A i : SourceOf(i)' = SourceOf(i)
  BY <1>1, SameContents
<1>3. ImportTyped'
  BY <1>1 DEF ImportInv, ImportTyped, AfterCuration, AfterSplit
<1>4. MappedSoFar'
  BY <1>1 DEF ImportInv, MappedSoFar, AfterMapping
<1>5. \A i : RowReason(i, rowPolicy)' = RowReason(i, rowPolicy)
  BY <1>1, SameReasons
<1>6. CuratedSoFar'
  BY <1>1, <1>2, <1>5 DEF ImportInv, CuratedSoFar
<1>7. Kept' = Kept
  BY <1>1, <1>2 DEF Kept
<1>8. \A i : DigestOfRows(i)' = DigestOfRows(i)
  BY <1>1, <1>2 DEF DigestOfRows
<1>9. \A i, j : Alike(i, j)' <=> Alike(i, j)
  BY <1>1, <1>2, <1>8 DEF Alike
<1> QED BY <1>2, <1>3, <1>4, <1>6, <1>7, <1>9

LEMMA CarriedParts ==
  ASSUME ImportInv, importing \in AfterSplit, importing' \in AfterSplit,
         UNCHANGED <<rowFiles, rowPlan, imported, report, rowPolicy, verdict, grouping, parts>>
  PROVE  ImportTyped' /\ MappedSoFar' /\ CuratedSoFar' /\ PartsSound' /\ (Lacking' <=> Lacking)
<1>1. /\ rowPlan' = rowPlan /\ imported' = imported /\ rowFiles' = rowFiles
      /\ rowPolicy' = rowPolicy /\ parts' = parts /\ grouping' = grouping
  OBVIOUS
<1>2. /\ ImportTyped' /\ MappedSoFar' /\ CuratedSoFar' /\ Kept' = Kept /\ Ids' = Ids
      /\ \A i : SourceOf(i)' = SourceOf(i)
      /\ \A i, j : Alike(i, j)' <=> Alike(i, j)
  BY Carried DEF AfterCuration
<1>3. PartsSound' <=> PartsSound
  BY <1>1, <1>2 DEF PartsSound
<1>4. Lacking' <=> Lacking
  BY <1>1, <1>2 DEF Lacking
<1> QED BY <1>2, <1>3, <1>4 DEF ImportInv

\* The steps before curation.
LEMMA EarlyStep ==
  ASSUME ImportInv, ParseRows \/ Detect \/ MapRefused \/ MapRows \/ CommitMap \/ MapLost \/ SplitRefused
  PROVE  ImportInv'
<1> USE DEF ImportInv, AfterMapping, AfterCuration, AfterSplit
<1>1. CASE ParseRows \/ MapRefused \/ SplitRefused \/ MapLost
  <2>1. importing' \in {"captured", "refused"} /\ rowFiles' = rowFiles /\ rowPlan' = rowPlan
    BY <1>1 DEF ParseRows, MapRefused, SplitRefused, MapLost
  <2>2. ImportTyped'
    BY <2>1 DEF ImportTyped
  <2> QED BY <2>1, <2>2 DEF MappedSoFar, CuratedSoFar
<1>2. CASE Detect
  <2>1. /\ importing' = "captured" /\ rowFiles' = rowFiles
        /\ \E proposal \in Proposals(rowFiles[1]) : rowPlan' = [proposal EXCEPT !.confirmed = Len(rowFiles) = 1]
    BY <1>2 DEF Detect
  <2>2. PICK proposal \in Proposals(rowFiles[1]) : rowPlan' = [proposal EXCEPT !.confirmed = Len(rowFiles) = 1]
    BY <2>1
  <2>3. PICK s : proposal = Proposal(CaptureRows(rowFiles[1]), s, rowFiles[1].kind)
    BY DEF Proposals
  <2>4. rowPlan'.paths = [i \in DOMAIN PayloadKeys(s) |-> <<PayloadKeys(s)[i]>>]
    BY <2>2, <2>3 DEF Proposal
  <2>5. \A i \in DOMAIN rowPlan'.paths : IsList(rowPlan'.paths[i]) /\ rowPlan'.paths[i] # <<>>
    <3> SUFFICES ASSUME NEW key PROVE IsList(<<key>>) /\ <<key>> # <<>>
      BY <2>4
    <3> QED BY DEF IsList
  <2>6. ImportTyped'
    BY <2>1, <2>5 DEF ImportTyped
  <2> QED BY <2>1, <2>6 DEF MappedSoFar, CuratedSoFar
<1>3. CASE MapRows
  <2>1. importing' = "reported" /\ rowFiles' = rowFiles /\ rowPlan' = rowPlan
    BY <1>3 DEF MapRows
  <2>2. ImportTyped'
    BY <2>1 DEF ImportTyped
  <2>3. MappedSoFar'
    BY <1>3, <2>1 DEF MapRows, MappedSoFar
  <2> QED BY <2>1, <2>2, <2>3 DEF CuratedSoFar
<1>4. CASE CommitMap
  <2>1. /\ importing = "reported" /\ importing' = "mapped" /\ rowFiles' = rowFiles /\ rowPlan' = rowPlan
        /\ imported' = imported /\ report' = report
    BY <1>4 DEF CommitMap
  <2>2. ImportTyped'
    BY <2>1 DEF ImportTyped
  <2>3. MappedSoFar'
    BY <2>1 DEF MappedSoFar
  <2> QED BY <2>1, <2>2, <2>3 DEF CuratedSoFar
<1> QED BY <1>1, <1>2, <1>3, <1>4

LEMMA CurateImportedStep == ImportInv /\ CurateImported => ImportInv'
<1> SUFFICES ASSUME ImportInv, CurateImported PROVE ImportInv'
  OBVIOUS
<1> USE DEF ImportInv, AfterMapping, AfterCuration, AfterSplit
<1>1. /\ importing = "mapped" /\ importing' = "curated" /\ rowFiles' = rowFiles /\ rowPlan' = rowPlan
      /\ imported' = imported /\ report' = report /\ rowPolicy' \in Policies
      /\ verdict' = [i \in Ids |-> RowReason(i, rowPolicy')]
  BY DEF CurateImported
<1>2. ImportTyped'
  BY <1>1 DEF ImportTyped
<1>3. MappedSoFar'
  BY <1>1 DEF MappedSoFar
<1>4. Ids' = Ids /\ \A i : RowReason(i, rowPolicy)' = RowReason(i, rowPolicy')
  BY <1>1, SameContents, SameReasons
<1>5. CuratedSoFar'
  BY <1>1, <1>4 DEF CuratedSoFar
<1> QED BY <1>1, <1>2, <1>3, <1>5

-----------------------------------------------------------------------------
(* The records and what is kept of them *)

LEMMA RecordFacts ==
  ASSUME ImportTyped, MappedSoFar, importing \in AfterMapping
  PROVE  /\ ToSet(imported) = Mapped(rowPlan, rowFiles) /\ Len(imported) \in Nat /\ Ids = 1..Len(imported)
         /\ Ids \subseteq Nat /\ IsFiniteSet(Ids)
         /\ \A i \in Ids : /\ SourceOf(i) \in DOMAIN rowFiles
                           /\ rowPlan.membership # "replaced" => imported[i].hint \in Hints
<1> DEFINE M == Mapped(rowPlan, rowFiles)
           n == Cardinality(M)
<1>1. imported \in SetToSeqs(M) /\ IsFiniteSet(M)
  BY MappedIs DEF MappedSoFar
<1>2. ASSUME NEW r \in M
      PROVE  r.source \in DOMAIN rowFiles /\ (rowPlan.membership # "replaced" => r.hint \in Hints)
  <2>1. PICK at \in Taken : r = RecordAt(at)
    BY MappedIs
  <2>2. at[1] \in DOMAIN rowFiles /\ RowMapped(rowPlan, RowAt(at))
    BY CapturedFacts DEF Taken
  <2>3. /\ r.source = at[1]
        /\ r.hint = IF rowPlan.membership = "replaced" THEN "" ELSE Field(RowAt(at), "partition").text
    BY <2>1 DEF RecordAt, RecordOf, RowAt
  <2> QED BY <2>2, <2>3 DEF RowMapped
<1> HIDE DEF M
<1>3. Len(imported) = n /\ imported \in [1..n -> M] /\ n \in Nat /\ \A x \in M : \E i \in 1..n : imported[i] = x
  BY <1>1, Enumerates, FS_CardinalityType
<1>4. ToSet(imported) = M /\ Ids = 1..n /\ Ids \subseteq Nat
  BY <1>3 DEF ToSet, Ids
<1>5. IsFiniteSet(Ids)
  BY <1>3, <1>4, FS_Interval
<1>6. \A i \in Ids : imported[i] \in M
  BY <1>3, <1>4
<1> QED BY <1>2, <1>3, <1>4, <1>5, <1>6 DEF M, SourceOf

LEMMA KeptFacts ==
  ASSUME ImportTyped, MappedSoFar, CuratedSoFar, importing \in AfterCuration
  PROVE  /\ Kept = FirstRows(rowPolicy) \ OverCap(rowPolicy) /\ Kept \subseteq Ids /\ IsFiniteSet(Kept)
         /\ Kept \subseteq LongRows(rowPolicy) /\ \A i \in Kept : i \notin Contradicted(rowPolicy)
         /\ \A i \in Ids : verdict[i] \in {"target-too-short", "exact-duplicate", "primary-source-cap",
                                           "conflicting-target", "quality-passed"}
<1> DEFINE long == LongRows(rowPolicy)
           contradicted == Contradicted(rowPolicy)
           first == FirstRows(rowPolicy)
           over == OverCap(rowPolicy)
<1>1. IsFiniteSet(Ids) /\ \A i \in Ids : verdict[i] = RowReason(i, rowPolicy)
  BY RecordFacts DEF AfterMapping, CuratedSoFar
<1>2. long \subseteq Ids /\ contradicted \subseteq long /\ first \subseteq long \ contradicted /\ over \subseteq first
  BY DEF LongRows, Contradicted, FirstRows, OverCap
<1> HIDE DEF long, contradicted, first, over
<1>3. ASSUME NEW i \in Ids
      PROVE  /\ verdict[i] = "quality-passed" <=> i \in first \ over
             /\ verdict[i] \in {"target-too-short", "exact-duplicate", "primary-source-cap", "conflicting-target",
                                "quality-passed"}
  <2>1. verdict[i] = CASE i \notin long -> "target-too-short"
                       [] i \in contradicted -> "conflicting-target"
                       [] i \in long \ (contradicted \cup first) -> "exact-duplicate"
                       [] i \in over -> "primary-source-cap"
                       [] i \in first \ over -> "quality-passed"
    BY <1>1 DEF RowReason, long, contradicted, first, over
  <2> QED BY <1>2, <2>1
<1>4. Kept = first \ over
  BY <1>2, <1>3 DEF Kept
<1>5. IsFiniteSet(Kept)
  BY <1>1, FS_Subset DEF Kept
<1> QED BY <1>2, <1>3, <1>4, <1>5 DEF long, contradicted, first, over

\* Kept records of the same context have the same target.
LEMMA KeptAgree ==
  ASSUME ImportTyped, MappedSoFar, CuratedSoFar, importing \in AfterCuration, NEW i \in Kept, NEW j \in Kept
  PROVE  /\ ContextKey(i) = ContextKey(j) => TargetToken(i) = TargetToken(j)
         /\ Fingerprint(i) = Fingerprint(j) => i = j
<1>1. /\ i \in LongRows(rowPolicy) /\ j \in LongRows(rowPolicy)
      /\ i \notin Contradicted(rowPolicy) /\ i \in FirstRows(rowPolicy) /\ j \in FirstRows(rowPolicy)
      /\ i \in Ids /\ j \in Ids
  BY KeptFacts
<1>2. ContextKey(i) = ContextKey(j) => TargetToken(i) = TargetToken(j)
  BY <1>1 DEF Contradicted
<1>3. i \in Nat /\ j \in Nat
  BY <1>1, RecordFacts DEF AfterMapping
<1>4. Fingerprint(i) = Fingerprint(j) => i <= j /\ j <= i
  BY <1>1 DEF FirstRows
<1> QED BY <1>2, <1>3, <1>4

-----------------------------------------------------------------------------
(* Declared parts *)

LEMMA MembershipStep == ImportInv /\ SplitByMembership => ImportInv'
<1> SUFFICES ASSUME ImportInv, SplitByMembership PROVE ImportInv'
  OBVIOUS
<1> USE DEF AfterMapping, AfterCuration, AfterSplit
<1>1. /\ importing = "curated" /\ importing' = "split" /\ Kept # {} /\ rowPlan.membership = "authoritative"
      /\ UNCHANGED <<rowFiles, rowPlan, imported, report, rowPolicy, verdict>> /\ MembershipSplits
      /\ grouping' = {{i} : i \in Kept}
      /\ parts'.train = Hinted("train") /\ parts'.evaluation = Hinted("evaluation")
  BY DEF SplitByMembership
<1>2. /\ ImportTyped' /\ MappedSoFar' /\ CuratedSoFar' /\ Kept' = Kept
      /\ \A i : SourceOf(i)' = SourceOf(i)
  BY <1>1, Carried
<1>3. \A i \in Kept : i \in Hinted("train") \/ i \in Hinted("evaluation")
  BY <1>1, RecordFacts, KeptFacts DEF ImportInv, Hints, Hinted
<1>4. /\ Hinted("train") \subseteq Kept /\ Hinted("evaluation") \subseteq Kept
      /\ \A i \in Hinted("train") : imported[i].hint = "train"
      /\ \A i \in Hinted("evaluation") : imported[i].hint = "evaluation"
  BY DEF Hinted
<1>5. /\ Hinted("train") # {}
      /\ \A i \in Hinted("train"), j \in Hinted("evaluation") : SourceOf(i) # SourceOf(j)
  BY <1>1 DEF MembershipSplits
<1>6. imported' = imported /\ rowPlan' = rowPlan
  BY <1>1
<1>7. PartsSound'
  BY <1>1, <1>2, <1>3, <1>4, <1>5, <1>6 DEF PartsSound
<1> QED BY <1>1, <1>2, <1>7 DEF ImportInv

-----------------------------------------------------------------------------
(* Leakage groups *)

\* The sets of those that bear one name.
Named(S, name) == {{j \in S : name[j] = name[i]} : i \in S}

LEMMA NamedPartition ==
  ASSUME NEW S, IsFiniteSet(S), NEW name
  PROVE  /\ Partitioned(Named(S, name)) /\ UNION Named(S, name) = S
         /\ \A g \in Named(S, name) : \A i \in g, j \in S : name[i] = name[j] => j \in g
<1> DEFINE G == Named(S, name)
<1>1. \A g \in G : \E i \in S : g = {j \in S : name[j] = name[i]}
  BY DEF Named
<1>2. ASSUME NEW i \in S PROVE \E g \in G : i \in g
  <2>1. {j \in S : name[j] = name[i]} \in G /\ i \in {j \in S : name[j] = name[i]}
    BY DEF Named
  <2> QED BY <2>1
<1>3. \A g \in G : g \in SUBSET S /\ g # {}
  BY <1>1
<1>4. IsFiniteSet(G) /\ \A g \in G : IsFiniteSet(g)
  <2>1. G \in SUBSET (SUBSET S)
    BY <1>3
  <2>2. IsFiniteSet(SUBSET S)
    BY FS_SUBSET
  <2> QED BY <1>3, <2>1, <2>2, FS_Subset
<1>5. \A g, h \in G : g # h => g \cap h = {}
  BY <1>1
<1>6. \A g \in G : \A i \in g, j \in S : name[i] = name[j] => j \in g
  BY <1>1
<1> HIDE DEF G
<1>7. UNION G = S
  BY <1>2, <1>3
<1> QED BY <1>3, <1>4, <1>5, <1>6, <1>7 DEF Partitioned, G

\* Each record on its own, before any token is looked at.
LEMMA AloneLinked ==
  ASSUME NEW D \in SUBSET Nat
  PROVE  Linked(D, [a \in D |-> {}], [i \in D |-> i], Nobody)
<1> DEFINE p == [i \in D |-> i]
           got == [a \in D |-> {}]
<1>1. Forest(p, D)
  BY DEF Forest
<1>2. \A i \in D : Root(p, i) = i
  <2> SUFFICES ASSUME NEW i \in D PROVE Root(p, i) = i
    OBVIOUS
  <2>1. p[i] = i
    OBVIOUS
  <2> HIDE DEF p
  <2> QED BY <1>1, <2>1, Roots
<1>3. DOMAIN Nobody = {} /\ \A a \in D : got[a] = {}
  BY DEF Nobody
<1> HIDE DEF p, got
<1> QED BY <1>1, <1>2, <1>3 DEF Linked, p, got

LEMMA ShownFacts ==
  ASSUME Kept \in SUBSET Nat, IsFiniteSet(Kept), NEW kind, NEW keys
  PROVE  /\ IsFiniteSet(Shown(kind, keys))
         /\ \A x \in Shown(kind, keys) : x[1] \in Kept /\ x[2] \in SharedTokens(x[1], kind, keys[x[1]])
         /\ \A i \in Kept : \A t \in SharedTokens(i, kind, keys[i]) : <<i, t>> \in Shown(kind, keys)
         /\ \A T \in SUBSET Shown(kind, keys) : T # {} => LastShown(T) \in T
<1> DEFINE S == Shown(kind, keys)
           of(i) == {i} \X SharedTokens(i, kind, keys[i])
           ofAll == [i \in Kept |-> of(i)]
<1>1. S = UNION {ofAll[i] : i \in Kept}
  BY DEF Shown
<1>2. ASSUME NEW i \in Kept PROVE IsFiniteSet(ofAll[i])
  <2> DEFINE tokens == SharedTokens(i, kind, keys[i])
             some == {<<1, Fingerprint(i)>>} \cup {<<2, DigestOfRows(i)>>}
             others == {<<3, SourceOf(i)>>} \cup {<<kind, keys[i]>>}
  <2>1. tokens = some \cup others
    BY DEF SharedTokens
  <2>2. IsFiniteSet(some) /\ IsFiniteSet(others)
    BY FS_Singleton, FS_Union
  <2> HIDE DEF some, others
  <2>3. IsFiniteSet(tokens)
    BY <2>1, <2>2, FS_Union
  <2> HIDE DEF tokens
  <2>4. IsFiniteSet({i} \X tokens)
    BY <2>3, FS_Singleton, FS_Product
  <2> QED BY <2>4 DEF tokens
<1>3. IsFiniteSet({ofAll[i] : i \in Kept})
  <2>1. DOMAIN ofAll = Kept
    OBVIOUS
  <2> HIDE DEF ofAll
  <2> QED BY <2>1, ImageFinite
<1>4. IsFiniteSet(S)
  <2> HIDE DEF ofAll, S
  <2> QED BY <1>1, <1>2, <1>3, FS_UNION
<1>5. \A x \in S : x[1] \in Kept /\ x[2] \in SharedTokens(x[1], kind, keys[x[1]])
  BY DEF Shown
<1>6. \A i \in Kept : \A t \in SharedTokens(i, kind, keys[i]) : <<i, t>> \in S
  BY DEF Shown
<1> HIDE DEF S
<1>7. ASSUME NEW T \in SUBSET S, T # {} PROVE LastShown(T) \in T
  <2> DEFINE f == [x \in T |-> x[1]]
             firsts == {f[x] : x \in T}
  <2>1. IsFiniteSet(firsts)
    <3>1. IsFiniteSet(T) /\ DOMAIN f = T
      BY <1>4, FS_Subset
    <3> HIDE DEF f
    <3> QED BY <3>1, ImageFinite
  <2>2. firsts \in SUBSET Nat /\ firsts # {}
    BY <1>5, <1>7
  <2>3. \A x \in T : x[1] \in firsts
    OBVIOUS
  <2>4. \A n \in firsts : \E x \in T : x[1] = n
    OBVIOUS
  <2> HIDE DEF firsts
  <2>5. Max(firsts) \in firsts /\ \A y \in firsts : y <= Max(firsts)
    BY <2>1, <2>2, Most
  <2>6. \E x \in T : \A y \in T : y[1] <= x[1]
    BY <2>3, <2>4, <2>5
  <2> QED BY <2>6 DEF LastShown
<1> QED BY <1>4, <1>5, <1>6, <1>7 DEF S

\* The records that share a token bear one name.
SharesNames(kind, keys) ==
  \E name : /\ KeyedGroups(kind, keys) = Named(Kept, name)
            /\ \A i, j \in Kept : SharedTokens(i, kind, keys[i]) \cap SharedTokens(j, kind, keys[j]) # {}
                                    => name[i] = name[j]

\* After the loop the records that share a token have one root.
LEMMA KeyedLink ==
  ASSUME Kept \in SUBSET Nat, IsFiniteSet(Kept), NEW kind, NEW keys
  PROVE  SharesNames(kind, keys)
<1> DEFINE S == Shown(kind, keys)
           start == [owner |-> Nobody, parents |-> [i \in Kept |-> i]]
           pick == [T \in SUBSET S |-> LastShown(T)]
           shows == [x \in S |-> x]
           got == [a \in Kept |-> {}]
           F(f) == [s \in SUBSET S |-> IF s = {} THEN start
                                       ELSE Join(LastShown(s)[1], f[s \ {LastShown(s)}], LastShown(s)[2])]
           iter == CHOOSE f : f = F(f)
           it == CHOOSE f : Turns(shows, pick, start, S, f)
           done == MapThenFoldSet(LAMBDA x, state : Join(x[1], state, x[2]), start, LAMBDA x : x, LastShown, S)
<1>1. /\ IsFiniteSet(S) /\ Picks(pick, S)
      /\ \A s \in SUBSET S : s # {} => pick[s] = LastShown(s) /\ LastShown(s) \in S
  BY ShownFacts DEF Picks
<1>2. done = iter[S]
  BY DEF MapThenFoldSet
<1> HIDE DEF S, done, pick
<1>3. Turns(shows, pick, start, S, it)
  <2> HIDE DEF shows, start
  <2> QED BY <1>1, TurnsExist
<1> HIDE DEF it, start
<1>4. \A f : F(f) = [s \in SUBSET S |-> IF s = {} THEN start
                                       ELSE Join(shows[pick[s]][1], f[s \ {pick[s]}], shows[pick[s]][2])]
  <2> SUFFICES ASSUME NEW f, NEW s \in SUBSET S, s # {}
               PROVE  Join(LastShown(s)[1], f[s \ {LastShown(s)}], LastShown(s)[2])
                        = Join(shows[pick[s]][1], f[s \ {pick[s]}], shows[pick[s]][2])
    OBVIOUS
  <2>1. pick[s] = LastShown(s) /\ shows[LastShown(s)] = LastShown(s)
    BY <1>1
  <2> QED BY <2>1
<1>5. it = F(it)
  BY <1>3, <1>4 DEF Turns
<1>6. iter = F(iter)
  BY <1>5
<1> HIDE DEF iter
<1>7. Turns(shows, pick, start, S, iter)
  BY <1>4, <1>6 DEF Turns
<1>8. Linked(Kept, Known(got, shows, S), iter[S].parents, iter[S].owner)
  <2>1. Linked(Kept, got, start.parents, start.owner)
    BY AloneLinked DEF start
  <2>2. DOMAIN got = Kept /\ \A x \in S : shows[x][1] \in Kept
    BY ShownFacts DEF S
  <2> HIDE DEF got, shows
  <2> QED BY <1>1, <1>7, <2>1, <2>2, FoldLinks
<1> DEFINE known == Known(got, shows, S)
<1>9. ASSUME NEW i \in Kept, NEW t \in SharedTokens(i, kind, keys[i]) PROVE t \in known[i]
  <2>1. <<i, t>> \in S
    BY ShownFacts DEF S
  <2>2. shows[<<i, t>>][1] = i /\ shows[<<i, t>>][2] = t
    BY <2>1
  <2> HIDE DEF shows
  <2>3. known[i] = got[i] \cup {shows[x][2] : x \in {y \in S : shows[y][1] = i}}
    BY DEF Known
  <2> HIDE DEF known
  <2> QED BY <2>1, <2>2, <2>3
<1> HIDE DEF known, shows, got
<1> DEFINE name == [i \in Kept |-> Root(iter[S].parents, i)]
<1>10. \A i, j \in Kept : known[i] \cap known[j] # {} => Root(iter[S].parents, i) = Root(iter[S].parents, j)
  BY <1>8 DEF Linked, known
<1>11. KeyedGroups(kind, keys) = Named(Kept, name)
  <2>1. KeyedGroups(kind, keys) = {{j \in Kept : Root(done.parents, j) = Root(done.parents, i)} : i \in Kept}
    BY DEF KeyedGroups, done, start, S
  <2>2. \A i, j \in Kept : name[j] = name[i] <=> Root(done.parents, j) = Root(done.parents, i)
    BY <1>2
  <2> HIDE DEF name
  <2>3. \A i \in Kept : {j \in Kept : Root(done.parents, j) = Root(done.parents, i)} = {j \in Kept : name[j] = name[i]}
    BY <2>2
  <2> QED BY <2>1, <2>3 DEF Named
<1>12. \A i, j \in Kept : SharedTokens(i, kind, keys[i]) \cap SharedTokens(j, kind, keys[j]) # {} => name[i] = name[j]
  BY <1>9, <1>10
<1> QED BY <1>11, <1>12 DEF SharesNames

\* A family's key is one of the tokens, so that records alike in it are grouped.
LEMMA FamilyLink ==
  ASSUME Kept \in SUBSET Nat, IsFiniteSet(Kept), NEW kind,
         FamilyKey(rowPlan.schema) # "",
         ImportedGroups = KeyedGroups(kind, [i \in Kept |-> FieldText(i, FamilyKey(rowPlan.schema))])
  PROVE  \E name : /\ ImportedGroups = Named(Kept, name)
                   /\ \A i, j \in Kept : Alike(i, j) => name[i] = name[j]
<1> DEFINE keys == [i \in Kept |-> FieldText(i, FamilyKey(rowPlan.schema))]
<1>1. /\ \A i \in Kept : keys[i] = FieldText(i, FamilyKey(rowPlan.schema))
      /\ ImportedGroups = KeyedGroups(kind, keys)
  OBVIOUS
<1> HIDE DEF keys
<1>2. PICK name : /\ KeyedGroups(kind, keys) = Named(Kept, name)
                  /\ \A i, j \in Kept : SharedTokens(i, kind, keys[i]) \cap SharedTokens(j, kind, keys[j]) # {}
                                          => name[i] = name[j]
  <2>1. SharesNames(kind, keys)
    BY KeyedLink
  <2> QED BY <2>1 DEF SharesNames
<1>3. ASSUME NEW i \in Kept, NEW j \in Kept, Alike(i, j)
      PROVE  SharedTokens(i, kind, keys[i]) \cap SharedTokens(j, kind, keys[j]) # {}
  <2>1. DigestOfRows(i) = DigestOfRows(j) \/ keys[i] = keys[j]
    BY <1>1, <1>3 DEF Alike
  <2>2. CASE DigestOfRows(i) = DigestOfRows(j)
    <3>1. <<2, DigestOfRows(i)>> \in SharedTokens(i, kind, keys[i]) \cap SharedTokens(j, kind, keys[j])
      BY <2>2 DEF SharedTokens
    <3> QED BY <3>1
  <2>3. CASE keys[i] = keys[j]
    <3>1. <<kind, keys[i]>> \in SharedTokens(i, kind, keys[i]) \cap SharedTokens(j, kind, keys[j])
      BY <2>3 DEF SharedTokens
    <3> QED BY <3>1
  <2> QED BY <2>1, <2>2, <2>3
<1> QED BY <1>1, <1>2, <1>3

LEMMA GroupsName ==
  ASSUME Kept \in SUBSET Nat, IsFiniteSet(Kept)
  PROVE  \E name : /\ ImportedGroups = Named(Kept, name)
                   /\ \A i, j \in Kept : Alike(i, j) => name[i] = name[j]
<1>1. CASE rowPlan.schema = "label-classification"
  <2>1. FamilyKey(rowPlan.schema) = "annotator" /\ ImportedGroups = KeyedGroups(4, [i \in Kept |-> FieldText(i, "annotator")])
    BY <1>1 DEF FamilyKey, ImportedGroups, ClassificationGroups
  <2> QED BY <2>1, FamilyLink
<1>2. CASE rowPlan.schema = "preference-pair"
  <2>1. FamilyKey(rowPlan.schema) = "prompt" /\ ImportedGroups = KeyedGroups(5, [i \in Kept |-> FieldText(i, "prompt")])
    BY <1>2 DEF FamilyKey, ImportedGroups, PreferenceGroups
  <2> QED BY <2>1, FamilyLink
<1>3. CASE rowPlan.schema = "stepwise-trace"
  <2>1. FamilyKey(rowPlan.schema) = "prompt" /\ ImportedGroups = KeyedGroups(6, [i \in Kept |-> FieldText(i, "prompt")])
    BY <1>3 DEF FamilyKey, ImportedGroups, StepwiseGroups
  <2> QED BY <2>1, FamilyLink
<1>4. CASE rowPlan.schema = "tool-call-conversation"
  <2>1. /\ FamilyKey(rowPlan.schema) = "conversation_id"
        /\ ImportedGroups = KeyedGroups(7, [i \in Kept |-> FieldText(i, "conversation_id")])
    BY <1>4 DEF FamilyKey, ImportedGroups, ToolCallGroups
  <2> QED BY <2>1, FamilyLink
<1>5. CASE rowPlan.schema \notin {"label-classification", "preference-pair", "stepwise-trace", "tool-call-conversation"}
  <2> DEFINE name == [i \in Kept |-> i]
  <2>1. FamilyKey(rowPlan.schema) = "" /\ ImportedGroups = {{i} : i \in Kept}
    BY <1>5 DEF FamilyKey, ImportedGroups
  <2>2. \A i \in Kept : {j \in Kept : name[j] = name[i]} = {i}
    OBVIOUS
  <2>3. ImportedGroups = Named(Kept, name)
    <3> HIDE DEF name
    <3> QED BY <2>1, <2>2 DEF Named
  <2>4. \A i, j \in Kept : Alike(i, j) => name[i] = name[j]
    BY <2>1 DEF Alike
  <2> QED BY <2>3, <2>4
<1> QED BY <1>1, <1>2, <1>3, <1>4, <1>5

LEMMA ImportTargetInside ==
  ASSUME rowPolicy \in Policies, Cardinality(Kept) \in Nat, Cardinality(Kept) >= 2
  PROVE  ImportTarget \in Nat /\ 1 <= ImportTarget /\ ImportTarget < Cardinality(Kept)
<1> DEFINE total == Cardinality(Kept)
           share == (total * rowPolicy.ppm + 500000) \div 1000000
<1>1. rowPolicy.ppm \in Nat
  BY PolicyAssumption
<1>2. ImportTarget = Max({1, Min({total - 1, share})}) /\ total \in Nat /\ total >= 2
  BY DEF ImportTarget
<1> HIDE DEF total
<1>3. share \in Nat
  BY <1>1, <1>2
<1> HIDE DEF share
<1>4. total - 1 \in Nat /\ total - 1 >= 1
  BY <1>2
<1>5. Min({total - 1, share}) \in Nat /\ Min({total - 1, share}) <= total - 1
  BY <1>3, <1>4, LessOfTwo
<1>6. Max({1, Min({total - 1, share})}) \in {1, Min({total - 1, share})} /\ 1 <= Max({1, Min({total - 1, share})})
  BY <1>5, LessOfTwo
<1> QED BY <1>4, <1>5, <1>6, <1>2 DEF total

\* Two groups hold at least two elements.
LEMMA TwoGroups ==
  ASSUME NEW S, Partitioned(S), Cardinality(S) >= 2
  PROVE  IsFiniteSet(UNION S) /\ Size(S) \in Nat /\ Size(S) >= 2
<1>1. IsFiniteSet(UNION S)
  BY FS_UNION DEF Partitioned
<1>2. PICK g \in S, h \in S : g # h
  <2>1. Cardinality(S) \in Nat /\ IsFiniteSet(S)
    BY FS_CardinalityType DEF Partitioned
  <2>2. S # {}
    BY <2>1, FS_EmptySet
  <2>3. PICK g \in S : TRUE
    BY <2>2
  <2>4. S # {g}
    BY <2>1, FS_Singleton
  <2> QED BY <2>3, <2>4
<1>3. PICK x, y : x \in g /\ y \in h
  BY <1>2 DEF Partitioned
<1>4. x # y /\ x \in UNION S /\ y \in UNION S
  BY <1>2, <1>3 DEF Partitioned
<1>5. ~(Cardinality(UNION S) < 2)
  BY <1>1, <1>4, TwoInASet
<1>6. Cardinality(UNION S) \in Nat
  BY <1>1, FS_CardinalityType
<1> QED BY <1>1, <1>5, <1>6 DEF Size

LEMMA GroupsSplitStep == ImportInv /\ SplitByGroups => ImportInv'
<1> SUFFICES ASSUME ImportInv, SplitByGroups PROVE ImportInv'
  OBVIOUS
<1> USE DEF AfterMapping, AfterCuration, AfterSplit
<1> DEFINE G == ImportedGroups
           k == Cardinality(G)
<1>1. /\ importing = "curated" /\ importing' = "split" /\ Kept # {} /\ rowPlan.membership # "authoritative"
      /\ UNCHANGED <<rowFiles, rowPlan, imported, report, rowPolicy, verdict>>
      /\ k >= 2 \/ ~rowPolicy.required
      /\ grouping' = G
  BY DEF SplitByGroups
<1>2. PICK order \in SetToSeqs(G) :
        LET evaluation == IF Len(order) < 2 THEN {} ELSE UNION FirstOf(order, Nearest(order, ImportTarget))
        IN  parts' = [train |-> Kept \ evaluation, evaluation |-> evaluation,
                      target |-> IF Len(order) < 2 THEN 0 ELSE ImportTarget]
  BY DEF SplitByGroups
<1>3. /\ ImportTyped' /\ MappedSoFar' /\ CuratedSoFar' /\ Kept' = Kept
      /\ \A i, j : Alike(i, j)' <=> Alike(i, j)
  BY <1>1, Carried
<1>4. Kept \in SUBSET Nat /\ IsFiniteSet(Kept) /\ rowPolicy \in Policies
  BY <1>1, RecordFacts, KeptFacts DEF ImportInv, CuratedSoFar
<1>5. PICK name : G = Named(Kept, name) /\ \A i, j \in Kept : Alike(i, j) => name[i] = name[j]
  BY <1>4, GroupsName
<1>6. /\ Partitioned(G) /\ UNION G = Kept
      /\ \A g \in G : \A i \in g, j \in Kept : name[i] = name[j] => j \in g
  BY <1>4, <1>5, NamedPartition
<1> HIDE DEF G
<1>7. /\ parts'.evaluation = IF Len(order) < 2 THEN {} ELSE UNION FirstOf(order, Nearest(order, ImportTarget))
      /\ parts'.train = Kept \ parts'.evaluation
  BY <1>2
<1>8. Len(order) = k /\ order \in [1..k -> G] /\ k \in Nat /\ \A i, j \in 1..k : order[i] = order[j] => i = j
  BY <1>6, Enumerates, FS_CardinalityType DEF Partitioned
<1>9. \E chosen \in SUBSET G : /\ parts'.evaluation = UNION chosen /\ chosen # G
                               /\ k >= 2 => chosen # {}
  <2>1. CASE k < 2
    <3>1. G # {} /\ parts'.evaluation = UNION {}
      BY <1>1, <1>6, <1>7, <1>8, <2>1
    <3> QED BY <1>8, <2>1, <3>1
  <2>2. CASE k >= 2
    <3> DEFINE near == Nearest(order, ImportTarget)
               chosen == FirstOf(order, near)
    <3>1. Size(G) = Cardinality(Kept) /\ Cardinality(Kept) \in Nat /\ Cardinality(Kept) >= 2
      BY <1>6, <2>2, TwoGroups DEF Size
    <3>2. ImportTarget \in Nat /\ 1 <= ImportTarget /\ ImportTarget < Size(G)
      BY <1>4, <3>1, ImportTargetInside
    <3>3. near \in 1..(k - 1)
      BY <1>6, <2>2, <3>2, NearestIsNear
    <3>4. parts'.evaluation = UNION chosen
      BY <1>7, <1>8, <2>2
    <3> HIDE DEF near
    <3>5. chosen \subseteq G /\ order[1] \in chosen /\ order[k] \in G /\ order[k] \notin chosen
      BY <1>8, <2>2, <3>3 DEF FirstOf
    <3> QED BY <3>4, <3>5
  <2> QED BY <1>8, <2>1, <2>2
<1>10. PICK chosen \in SUBSET G : parts'.evaluation = UNION chosen /\ chosen # G /\ (k >= 2 => chosen # {})
  BY <1>9
<1> DEFINE evaluation == UNION chosen
           train == Kept \ evaluation
<1>11. parts'.evaluation = evaluation /\ parts'.train = train
  BY <1>7, <1>10
<1>12. evaluation \subseteq Kept
  BY <1>6
<1>13. \A g \in G : g \subseteq evaluation \/ g \subseteq train
  <2> SUFFICES ASSUME NEW g \in G, g \notin chosen PROVE g \subseteq train
    OBVIOUS
  <2>1. \A h \in chosen : g \cap h = {}
    BY <1>6 DEF Partitioned
  <2> QED BY <1>6, <2>1
<1>14. train # {}
  <2>1. PICK g \in G : g \notin chosen
    BY <1>10
  <2>2. \A h \in chosen : g \cap h = {}
    BY <1>6, <2>1 DEF Partitioned
  <2>3. g # {} /\ g \subseteq Kept
    BY <1>6 DEF Partitioned
  <2> QED BY <2>2, <2>3
<1>15. rowPolicy.required => evaluation # {}
  <2>1. k >= 2 => \E g \in chosen : g # {}
    BY <1>6, <1>10 DEF Partitioned
  <2> QED BY <1>1, <2>1
<1>16. ASSUME NEW i \in train, NEW j \in evaluation PROVE ~Alike(i, j)
  <2>1. PICK g \in chosen : j \in g
    OBVIOUS
  <2>2. Alike(i, j) => name[j] = name[i]
    BY <1>5, <1>12
  <2>3. name[j] = name[i] => i \in g
    BY <1>6, <2>1
  <2> QED BY <2>1, <2>2, <2>3
<1>17. rowPlan' = rowPlan /\ rowPolicy' = rowPolicy
  BY <1>1
<1> HIDE DEF evaluation, train, k
<1>18. PartsSound'
  <2>1. \A g \in grouping' : g \subseteq parts'.train \/ g \subseteq parts'.evaluation
    BY <1>1, <1>11, <1>13
  <2>2. parts'.train \cup parts'.evaluation = Kept /\ parts'.train \cap parts'.evaluation = {} /\ parts'.train # {}
    BY <1>11, <1>12, <1>14 DEF train
  <2> QED BY <1>1, <1>3, <1>11, <1>15, <1>16, <1>17, <2>1, <2>2 DEF PartsSound
<1> QED BY <1>1, <1>3, <1>18 DEF ImportInv

-----------------------------------------------------------------------------
(* The gates *)

LEMMA CapOfFiles ==
  ASSUME ImportTyped, MappedSoFar, CuratedSoFar, importing \in AfterCuration, rowPolicy.cap # 0, NEW f
  PROVE  Cardinality({i \in Kept : SourceOf(i) = f}) <= rowPolicy.cap
<1> DEFINE X == {i \in Kept : SourceOf(i) = f}
<1>1. /\ Kept = FirstRows(rowPolicy) \ OverCap(rowPolicy) /\ Kept \subseteq Ids /\ IsFiniteSet(Kept)
      /\ Ids \subseteq Nat /\ IsFiniteSet(Ids)
  BY KeptFacts, RecordFacts DEF AfterMapping
<1>2. rowPolicy.cap \in Nat
  BY PolicyAssumption DEF CuratedSoFar
<1>3. X \in SUBSET Kept /\ X \in SUBSET Nat
  BY <1>1
<1>4. IsFiniteSet(X)
  BY <1>1, <1>3, FS_Subset
<1>5. CASE X = {}
  BY <1>2, <1>5, FS_EmptySet
<1>6. CASE X # {}
  <2> DEFINE m == Max(X)
             upTo == {j \in FirstRows(rowPolicy) : j <= m /\ imported[j].source = imported[m].source}
  <2>1. m \in X /\ \A i \in X : i <= m
    BY <1>3, <1>4, <1>6, Most
  <2> HIDE DEF m
  <2>2. m \in FirstRows(rowPolicy) /\ m \notin OverCap(rowPolicy) /\ imported[m].source = f
    BY <1>1, <2>1 DEF SourceOf
  <2>3. X \in SUBSET upTo /\ upTo \in SUBSET Ids
    <3>1. FirstRows(rowPolicy) \subseteq Ids
      BY DEF FirstRows, LongRows
    <3> QED BY <1>1, <2>1, <2>2, <3>1 DEF SourceOf
  <2>4. ~(Cardinality(upTo) > rowPolicy.cap)
    BY <2>2 DEF OverCap
  <2> HIDE DEF X, upTo
  <2>5. IsFiniteSet(upTo) /\ Cardinality(X) <= Cardinality(upTo) /\ Cardinality(X) \in Nat /\ Cardinality(upTo) \in Nat
    BY <1>1, <1>4, <2>3, FS_Subset, FS_CardinalityType
  <2>6. Cardinality(X) <= rowPolicy.cap
    BY <1>2, <2>4, <2>5
  <2> QED BY <2>6 DEF X
<1> QED BY <1>5, <1>6

\* The ledger of a file closes, and blocks only a file of which nothing is kept.
LEMMA LedgerCloses ==
  ASSUME ImportTyped, MappedSoFar, CuratedSoFar, importing \in AfterCuration, NEW f
  PROVE  /\ EntryCloses(LedgerEntry(f))
         /\ (\E i \in Ids : SourceOf(i) = f /\ i \in Kept) => ~Blocked(LedgerEntry(f))
<1> DEFINE rows == {i \in Ids : SourceOf(i) = f}
           kept == rows \cap Kept
           out == {i \in rows : verdict[i] \in {"target-too-short", "exact-duplicate", "primary-source-cap"}}
           odd == {i \in rows : verdict[i] = "conflicting-target"}
           entry == LedgerEntry(f)
<1>1. IsFiniteSet(Ids) /\ \A i \in Ids : verdict[i] \in {"target-too-short", "exact-duplicate", "primary-source-cap",
                                                         "conflicting-target", "quality-passed"}
  BY KeptFacts, RecordFacts DEF AfterMapping
<1>2. entry = [records |-> Cardinality(rows), included |-> Cardinality(kept), excluded |-> Cardinality(out),
               quarantined |-> Cardinality(odd)]
  BY DEF LedgerEntry
<1>3. \A i \in Ids : i \in Kept <=> verdict[i] = "quality-passed"
  BY DEF Kept
<1>4. /\ rows = (kept \cup out) \cup odd
      /\ kept \cap out = {} /\ (kept \cup out) \cap odd = {}
  BY <1>1, <1>3
<1>5. rows \in SUBSET Ids /\ kept \in SUBSET Ids /\ out \in SUBSET Ids /\ odd \in SUBSET Ids
  OBVIOUS
<1> HIDE DEF rows, kept, out, odd, entry
<1>6. IsFiniteSet(rows) /\ IsFiniteSet(kept) /\ IsFiniteSet(out) /\ IsFiniteSet(odd)
  BY <1>1, <1>5, FS_Subset
<1>7. /\ Cardinality(rows) \in Nat /\ Cardinality(kept) \in Nat /\ Cardinality(out) \in Nat /\ Cardinality(odd) \in Nat
      /\ Cardinality({}) = 0
  BY <1>6, FS_CardinalityType, FS_EmptySet
<1>8. Cardinality(rows) = Cardinality(kept) + Cardinality(out) + Cardinality(odd)
  <2>1. rows = kept \cup out \cup odd /\ kept \cap out = {} /\ kept \cap odd = {} /\ out \cap odd = {}
    BY <1>4
  <2> QED BY <1>6, <2>1, ThreeParts
<1>9. EntryCloses(entry)
  BY <1>2, <1>7, <1>8 DEF EntryCloses
<1>10. ASSUME NEW i \in Ids, SourceOf(i) = f, i \in Kept PROVE ~Blocked(entry)
  <2>1. i \in rows /\ i \in kept
    BY <1>10 DEF rows, kept
  <2>2. Cardinality(rows) # 0 /\ Cardinality(kept) # 0
    BY <1>6, <2>1, FS_EmptySet
  <2> QED BY <1>2, <2>2 DEF Blocked
<1> QED BY <1>9, <1>10 DEF entry

\* The two files of rows, in order.
LEMMA FilesOfRows ==
  ASSUME ImportTyped, MappedSoFar, CuratedSoFar, PartsSound, RowsInOrder, importing \in AfterCuration
  PROVE  RowsBound /\ RowSetAligned
<1> DEFINE train == parts.train
           evaluation == parts.evaluation
           m == Cardinality(train)
           k == Cardinality(evaluation)
           first == InOrder(train)
           second == InOrder(evaluation)
           entries == ProvenanceOf(first, second)
<1>1. /\ train \cup evaluation = Kept /\ train \cap evaluation = {} /\ train # {}
      /\ IsFiniteSet(Kept) /\ Kept \subseteq Nat
  BY KeptFacts, RecordFacts DEF PartsSound, AfterMapping
<1>2. /\ train \in SUBSET Nat /\ IsFiniteSet(train) /\ evaluation \in SUBSET Nat /\ IsFiniteSet(evaluation)
  <2>1. train \in SUBSET Kept /\ evaluation \in SUBSET Kept
    BY <1>1
  <2> QED BY <1>1, <2>1, FS_Subset
<1> HIDE DEF train, evaluation
<1>3. /\ m \in Nat /\ first \in [1..m -> train] /\ Len(first) = m /\ \A x \in train : \E i \in 1..m : first[i] = x
      /\ k \in Nat /\ second \in [1..k -> evaluation] /\ Len(second) = k /\ \A x \in evaluation : \E i \in 1..k : second[i] = x
  BY <1>2, SortedBy
<1>4. formatted.train = first /\ formatted.evaluation = second /\ formatted.provenance = entries
  BY DEF RowsInOrder, train, evaluation
<1>5. entries = [n \in 1..(m + k) |-> IF n <= m THEN [part |-> "train", ordinal |-> n, record |-> first[n]]
                                     ELSE [part |-> "evaluation", ordinal |-> n - m, record |-> second[n - m]]]
  BY <1>3 DEF ProvenanceOf
<1> HIDE DEF first, second, entries
<1>6. m # 0
  BY <1>1, <1>2, FS_EmptySet
<1>7. m + k = Cardinality(Kept)
  <2>1. Cardinality(train \cup evaluation) = m + k - Cardinality(train \cap evaluation)
    BY <1>2, FS_Union
  <2>2. Cardinality(train \cap evaluation) = 0 /\ Cardinality(train \cup evaluation) = Cardinality(Kept)
    BY <1>1, FS_EmptySet
  <2> HIDE DEF m, k
  <2> QED BY <1>3, <2>1, <2>2
<1> HIDE DEF m, k
<1>8. ToSet(first) = train /\ ToSet(second) = evaluation
  BY <1>3 DEF ToSet
<1>9. RowsBound
  BY <1>3, <1>4, <1>7, <1>8 DEF RowsBound, train, evaluation
<1>10. Len(entries) = m + k /\ ToSet(entries) = {entries[n] : n \in 1..(m + k)}
  <2> DEFINE E == {entries[n] : n \in 1..(m + k)}
  <2>1. m + k \in Nat
    BY <1>3
  <2>2. DOMAIN entries = 1..(m + k) /\ entries \in [1..(m + k) -> E]
    BY <1>5
  <2> HIDE DEF E
  <2>3. Len(entries) = m + k
    BY <2>1, <2>2, LenIs
  <2> QED BY <2>2, <2>3 DEF ToSet
<1>11. ASSUME NEW entry \in ToSet(entries)
       PROVE  LET rows == IF entry.part = "train" THEN first ELSE second
              IN  entry.ordinal \in DOMAIN rows /\ rows[entry.ordinal] = entry.record
  <2>1. PICK n \in 1..(m + k) : entry = entries[n]
    BY <1>10
  <2>2. CASE n <= m
    <3>1. n \in 1..m /\ entry.part = "train" /\ entry.ordinal = n /\ entry.record = first[n]
      BY <1>3, <1>5, <2>1, <2>2
    <3> QED BY <1>3, <3>1
  <2>3. CASE ~(n <= m)
    <3>1. n - m \in 1..k /\ entry.part = "evaluation" /\ entry.ordinal = n - m /\ entry.record = second[n - m]
      BY <1>3, <1>5, <2>1, <2>3
    <3> QED BY <1>3, <3>1
  <2> QED BY <2>2, <2>3
<1>12. first # <<>>
  BY <1>3, <1>6
<1>13. RowSetAligned
  BY <1>3, <1>4, <1>10, <1>11, <1>12 DEF RowSetAligned
<1> QED BY <1>9, <1>13

LEMMA GatesOfImport ==
  ASSUME ImportTyped, MappedSoFar, CuratedSoFar, PartsSound, RowsInOrder, importing \in AfterCuration, ~Lacking
  PROVE  RowSetAligned /\ ImportGates
<1>1. MappingReplays
  BY RecordFacts DEF MappingReplays, AfterMapping
<1>2. ImportDeduplicated
  BY KeptAgree DEF ImportDeduplicated
<1>3. ImportQuality
  <2>1. \A i \in Kept : TargetLength(i) >= rowPolicy.minimum
    BY KeptFacts DEF LongRows
  <2> QED BY <2>1, CapOfFiles DEF ImportQuality
<1>4. ImportCovered
  BY LedgerCloses DEF ImportCovered, Lacking
<1>5. /\ parts.train \cup parts.evaluation = Kept /\ parts.train \cap parts.evaluation = {} /\ parts.train # {}
      /\ \A g \in grouping : g \subseteq parts.train \/ g \subseteq parts.evaluation
      /\ (rowPlan.membership # "authoritative" /\ rowPolicy.required) => parts.evaluation # {}
  BY DEF PartsSound
<1>6. ImportAssigned
  BY <1>5 DEF ImportAssigned
<1>7. ImportUnleaked
  <2>1. \A i \in parts.train, j \in parts.evaluation : i \in Kept /\ j \in Kept /\ i # j
    BY <1>5
  <2>2. \A i \in parts.train, j \in parts.evaluation : Fingerprint(i) # Fingerprint(j)
    BY <1>2, <2>1 DEF ImportDeduplicated
  <2> QED BY <1>5, <2>2 DEF ImportUnleaked
<1>8. PartitionsNonempty
  BY <1>5 DEF PartitionsNonempty, Lacking
<1> QED BY <1>1, <1>2, <1>3, <1>4, <1>6, <1>7, <1>8, FilesOfRows DEF ImportGates

\* And they refuse all of that.
LEMMA GatesAskForAll ==
  ASSUME ImportGates
  PROVE  ~Lacking
<1>1. ASSUME NEW f \in DOMAIN rowFiles, \A i \in Ids : SourceOf(i) = f => i \notin Kept
      PROVE  FALSE
  <2> DEFINE rows == {i \in Ids : SourceOf(i) = f}
  <2>1. rows \cap Kept = {}
    BY <1>1
  <2>2. LedgerEntry(f).included = Cardinality(rows \cap Kept)
    BY DEF LedgerEntry
  <2>3. LedgerEntry(f).included = 0
    BY <2>1, <2>2, FS_EmptySet
  <2> QED BY <2>3 DEF ImportGates, ImportCovered, Blocked
<1> QED BY <1>1 DEF Lacking, ImportGates, PartitionsNonempty

-----------------------------------------------------------------------------
(* The results *)

LEMMA FormatImportedStep == ImportInv /\ FormatImported => ImportInv'
<1> SUFFICES ASSUME ImportInv, FormatImported PROVE ImportInv'
  OBVIOUS
<1>1. /\ importing = "split" /\ importing' = "formatted"
      /\ UNCHANGED <<rowFiles, rowPlan, imported, report, rowPolicy, verdict, grouping, parts>>
      /\ RowsInOrder'
  BY DEF FormatImported, RowsInOrder
<1>2. ImportTyped' /\ MappedSoFar' /\ CuratedSoFar' /\ PartsSound'
  BY <1>1, CarriedParts DEF AfterSplit
<1> QED BY <1>1, <1>2 DEF ImportInv

LEMMA ValidateImportedStep == ImportInv /\ ValidateImported => ImportInv'
<1> SUFFICES ASSUME ImportInv, ValidateImported PROVE ImportInv'
  OBVIOUS
<1>1. /\ importing = "formatted" /\ importing' \in {"validated", "failed"} /\ formatted' = formatted
      /\ importing' = "failed" <=> ~(RowSetAligned /\ ImportGates)
      /\ UNCHANGED <<rowFiles, rowPlan, imported, report, rowPolicy, verdict, grouping, parts>>
  BY DEF ValidateImported
<1>2. /\ ImportTyped' /\ MappedSoFar' /\ CuratedSoFar' /\ PartsSound' /\ (Lacking' <=> Lacking)
  BY <1>1, CarriedParts DEF AfterSplit
<1>3. ImportTyped /\ MappedSoFar /\ CuratedSoFar /\ PartsSound /\ RowsInOrder /\ importing \in AfterCuration
  BY <1>1 DEF ImportInv, AfterCuration, AfterSplit
<1>4. importing' = "failed" <=> Lacking
  BY <1>1, <1>3, GatesOfImport, GatesAskForAll
<1>5. RowsInOrder'
  BY <1>1, <1>3 DEF RowsInOrder
<1> QED BY <1>1, <1>2, <1>4, <1>5 DEF ImportInv

LEMMA StutterImport == ImportInv /\ UNCHANGED importVars => ImportInv'
<1> SUFFICES ASSUME ImportInv, UNCHANGED importVars PROVE ImportInv'
  OBVIOUS
<1>1. /\ importing' = importing /\ formatted' = formatted
      /\ UNCHANGED <<rowFiles, rowPlan, imported, report, rowPolicy, verdict, grouping, parts>>
  BY DEF importVars
<1> USE DEF AfterMapping, AfterCuration, AfterSplit
<1>2. CASE importing \in AfterSplit
  <2>1. /\ ImportTyped' /\ MappedSoFar' /\ CuratedSoFar' /\ PartsSound' /\ (Lacking' <=> Lacking)
    BY <1>1, <1>2, CarriedParts
  <2>2. RowsInOrder' <=> RowsInOrder
    BY <1>1 DEF RowsInOrder
  <2> QED BY <1>1, <1>2, <2>1, <2>2 DEF ImportInv
<1>3. CASE importing = "curated"
  <2>1. ImportTyped' /\ MappedSoFar' /\ CuratedSoFar'
    BY <1>1, <1>3, Carried
  <2> QED BY <1>1, <1>3, <2>1 DEF ImportInv
<1>4. CASE importing \notin AfterCuration
  <2>1. ImportTyped'
    BY <1>1 DEF ImportInv, ImportTyped
  <2>2. MappedSoFar'
    BY <1>1 DEF ImportInv, MappedSoFar
  <2> QED BY <1>1, <1>4, <2>1, <2>2 DEF ImportInv, CuratedSoFar
<1> QED BY <1>2, <1>3, <1>4

LEMMA InitImport == ImportInit => ImportInv
<1> SUFFICES ASSUME ImportInit PROVE ImportInv
  OBVIOUS
<1>1. importing = "files" /\ rowFiles \in RowFiles /\ rowPlan \in RowPlans /\ PlanClosed(rowPlan)
  BY DEF ImportInit
<1>2. ImportTyped
  BY <1>1, ImportAssumption DEF ImportTyped, PlanClosed
<1> QED BY <1>1, <1>2 DEF ImportInv, MappedSoFar, CuratedSoFar, AfterMapping, AfterCuration, AfterSplit

LEMMA ImportStep == ImportInv /\ [ImportNext]_importVars => ImportInv'
BY EarlyStep, CurateImportedStep, MembershipStep, GroupsSplitStep, FormatImportedStep, ValidateImportedStep,
   StutterImport DEF ImportNext

LEMMA ImportInvariance == ImportSpec => []ImportInv
BY InitImport, ImportStep, PTL DEF ImportSpec

\* map_rows: every captured row is in a record or in the report, once, and a
\* record keeps every value of its row that the plan does not read as the part.
THEOREM EveryRowAnswered == ImportSpec => []RowsAccounted
<1>1. ImportInv => RowsAccounted
  BY AccountedFor DEF ImportInv
<1> QED BY <1>1, ImportInvariance, PTL

\* validate_imported_dataset: what was mapped, curated and split passes but for
\* a file or a part that lacks rows, and the two parts have in common nothing
\* that the declared parts or the family of the rows forbid.
THEOREM ImportsHold == ImportSpec => []ImportSound
<1>1. ASSUME ImportInv PROVE ImportSound
  <2>1. RowsAccounted
    BY <1>1, AccountedFor DEF ImportInv
  <2>2. ASSUME importing \in {"validated", "failed"}
        PROVE  /\ PartsSound /\ importing \in AfterCuration /\ ImportTyped /\ MappedSoFar /\ CuratedSoFar
               /\ importing = "failed" <=> Lacking
    BY <1>1, <2>2 DEF ImportInv, AfterCuration, AfterSplit
  <2>3. ASSUME importing \in {"validated", "failed"}, NEW i \in parts.train, NEW j \in parts.evaluation
        PROVE  /\ ContextKey(i) = ContextKey(j) => TargetToken(i) = TargetToken(j)
               /\ rowPlan.membership = "authoritative" =>
                    imported[i].hint = "train" /\ imported[j].hint = "evaluation" /\ SourceOf(i) # SourceOf(j)
               /\ rowPlan.membership # "authoritative" => ~Alike(i, j)
    <3>1. i \in Kept /\ j \in Kept
      BY <2>2, <2>3 DEF PartsSound
    <3> QED BY <2>2, <2>3, <3>1, KeptAgree DEF PartsSound
  <2> QED BY <2>1, <2>2, <2>3 DEF ImportSound, Lacking
<1> QED BY <1>1, ImportInvariance, PTL

-----------------------------------------------------------------------------
(* The bundle of an import *)

ImportedLine(records) == [n \in DOMAIN InOrder(records) |-> ImportedRow(InOrder(records)[n])]

LEMMA ImportedLines ==
  ASSUME NEW S \in SUBSET Nat, IsFiniteSet(S), NEW n, n = Cardinality(S)
  PROVE  LET line == ImportedLine(S)
         IN  /\ n \in Nat /\ Len(line) = n /\ DOMAIN line = 1..n /\ line \in [1..n -> ToSet(line)]
             /\ \A i \in 1..n : line[i].record \in S /\ line[i] = ImportedRow(line[i].record)
             /\ {row.record : row \in ToSet(line)} = S
             /\ \A i, j \in 1..n : i < j => line[i].record < line[j].record
<1> DEFINE s == InOrder(S)
           line == ImportedLine(S)
<1>1. /\ n \in Nat /\ s \in [1..n -> S] /\ Len(s) = n /\ DOMAIN s = 1..n
      /\ \A x \in S : \E i \in 1..n : s[i] = x
      /\ \A i, j \in 1..n : i < j => s[i] < s[j]
  BY SortedBy
<1>2. line = [i \in 1..n |-> ImportedRow(s[i])]
  BY <1>1 DEF ImportedLine
<1> HIDE DEF s, line
<1>3. \A i \in 1..n : line[i].record = s[i] /\ line[i] = ImportedRow(s[i])
  BY <1>2 DEF ImportedRow
<1>4. DOMAIN line = 1..n /\ ToSet(line) = {line[i] : i \in 1..n}
  BY <1>2 DEF ToSet
<1>5. line \in [1..n -> ToSet(line)]
  BY <1>2, <1>4
<1>6. Len(line) = n
  BY <1>1, <1>5, LenIs
<1>7. {row.record : row \in ToSet(line)} = S
  <2>1. \A row \in ToSet(line) : row.record \in S
    BY <1>1, <1>3, <1>4
  <2>2. \A x \in S : \E i \in 1..n : line[i].record = x
    BY <1>1, <1>3
  <2>3. \A i \in 1..n : line[i] \in ToSet(line)
    BY <1>4
  <2> QED BY <2>1, <2>2, <2>3
<1>8. \A i, j \in 1..n : i < j => line[i].record < line[j].record
  BY <1>1, <1>3
<1>9. \A i \in 1..n : line[i].record \in S /\ line[i] = ImportedRow(line[i].record)
  BY <1>1, <1>3
<1> QED BY <1>1, <1>4, <1>5, <1>6, <1>7, <1>8, <1>9 DEF line

\* Of m training and k evaluation rows, every one stands for one kept row and
\* beside it stands where it is.
ImportedHold(m, k, all) ==
  /\ m \in Nat /\ k \in Nat /\ m > 0 /\ m + k = Cardinality(Kept)
  /\ Len(rowSet.train) = m /\ Len(rowSet.evaluation) = k
  /\ Len(all) = m + k /\ DOMAIN all = 1..(m + k)
  /\ Len(rowSet.provenance) = m + k /\ DOMAIN rowSet.provenance = 1..(m + k)
  /\ rowSet.train # <<>> /\ Ascending(rowSet.train) /\ Ascending(rowSet.evaluation)
  /\ {row.record : row \in ToSet(all)} = Kept
  /\ \A n \in 1..(m + k) :
       /\ all[n] = ImportedRow(all[n].record)
       /\ IF n <= m THEN all[n].record \in parts.train ELSE all[n].record \in parts.evaluation
       /\ rowSet.provenance[n] =
            ImportedEntry([part |-> IF n <= m THEN "train" ELSE "evaluation",
                           ordinal |-> IF n <= m THEN n ELSE n - m, row |-> all[n]])

LEMMA ImportedLinesHold ==
  ASSUME ImportTyped, MappedSoFar, CuratedSoFar, PartsSound, RowsInOrder, importing \in AfterCuration,
         rowSet = SerializedImport
  PROVE  ImportedHold(Cardinality(parts.train), Cardinality(parts.evaluation), rowSet.train \o rowSet.evaluation)
<1> DEFINE m == Cardinality(parts.train)
           k == Cardinality(parts.evaluation)
           all == rowSet.train \o rowSet.evaluation
           train == ImportedLine(parts.train)
           evaluation == ImportedLine(parts.evaluation)
           first == PlacedAt("train", train)
           second == PlacedAt("evaluation", evaluation)
           lines == first \o second
<1>1. /\ parts.train \cup parts.evaluation = Kept /\ parts.train \cap parts.evaluation = {} /\ parts.train # {}
      /\ IsFiniteSet(Kept) /\ Kept \subseteq Nat
  BY KeptFacts, RecordFacts DEF PartsSound, AfterMapping
<1>2. /\ parts.train \in SUBSET Nat /\ IsFiniteSet(parts.train)
      /\ parts.evaluation \in SUBSET Nat /\ IsFiniteSet(parts.evaluation)
  <2>1. parts.train \in SUBSET Kept /\ parts.evaluation \in SUBSET Kept
    BY <1>1
  <2> QED BY <1>1, <2>1, FS_Subset
<1>3. /\ rowSet.train = train /\ rowSet.evaluation = evaluation
      /\ rowSet.provenance = [n \in DOMAIN lines |-> ImportedEntry(lines[n])]
  <2>1. formatted.train = InOrder(parts.train) /\ formatted.evaluation = InOrder(parts.evaluation)
    BY DEF RowsInOrder
  <2>2. SerializedImport =
          RowSet("imported", "", rowPlan.schema, <<>>, train, evaluation, [n \in DOMAIN lines |-> ImportedEntry(lines[n])])
    BY <2>1, Zenon DEF SerializedImport, ImportedLine, Placed, PlacedAt
  <2> HIDE DEF train, evaluation, lines
  <2> QED BY <2>2 DEF RowSet
<1>4. /\ m \in Nat /\ Len(train) = m /\ DOMAIN train = 1..m /\ train \in [1..m -> ToSet(train)]
      /\ \A i \in 1..m : train[i].record \in parts.train /\ train[i] = ImportedRow(train[i].record)
      /\ {row.record : row \in ToSet(train)} = parts.train
      /\ \A i, j \in 1..m : i < j => train[i].record < train[j].record
  BY <1>2, ImportedLines
<1>5. /\ k \in Nat /\ Len(evaluation) = k /\ DOMAIN evaluation = 1..k /\ evaluation \in [1..k -> ToSet(evaluation)]
      /\ \A i \in 1..k : evaluation[i].record \in parts.evaluation /\ evaluation[i] = ImportedRow(evaluation[i].record)
      /\ {row.record : row \in ToSet(evaluation)} = parts.evaluation
      /\ \A i, j \in 1..k : i < j => evaluation[i].record < evaluation[j].record
  BY <1>2, ImportedLines
<1>6. m # 0
  BY <1>1, <1>2, FS_EmptySet
<1>7. m + k = Cardinality(Kept)
  <2>1. Cardinality(parts.train \cup parts.evaluation) = m + k - Cardinality(parts.train \cap parts.evaluation)
    BY <1>2, FS_Union
  <2>2. /\ Cardinality(parts.train \cap parts.evaluation) = 0
        /\ Cardinality(parts.train \cup parts.evaluation) = Cardinality(Kept)
    BY <1>1, FS_EmptySet
  <2> HIDE DEF m, k
  <2> QED BY <1>4, <1>5, <2>1, <2>2
<1> HIDE DEF m, k, train, evaluation
<1>8. /\ Len(all) = m + k /\ DOMAIN all = 1..(m + k)
      /\ \A n \in 1..(m + k) : all[n] = IF n <= m THEN train[n] ELSE evaluation[n - m]
      /\ ToSet(all) = ToSet(train) \cup ToSet(evaluation)
  <2>1. all = train \o evaluation
    BY <1>3
  <2>2. JoinOf(train \o evaluation, train, evaluation, m, k)
    BY <1>4, <1>5, Joined
  <2> HIDE DEF all
  <2> QED BY <2>1, <2>2 DEF JoinOf
<1> HIDE DEF all
<1>9. /\ DOMAIN lines = 1..(m + k)
      /\ \A n \in 1..(m + k) : lines[n] = IF n <= m THEN first[n] ELSE second[n - m]
  <2>1. first \in [1..m -> {first[n] : n \in 1..m}]
    BY <1>4 DEF PlacedAt
  <2>2. second \in [1..k -> {second[n] : n \in 1..k}]
    BY <1>5 DEF PlacedAt
  <2> HIDE DEF first, second
  <2>3. JoinOf(first \o second, first, second, m, k)
    BY <1>4, <1>5, <2>1, <2>2, Joined
  <2> QED BY <2>3 DEF JoinOf
<1>10. \A n \in 1..m : first[n] = [part |-> "train", ordinal |-> n, row |-> train[n]]
  BY <1>4 DEF PlacedAt
<1>11. \A n \in 1..k : second[n] = [part |-> "evaluation", ordinal |-> n, row |-> evaluation[n]]
  BY <1>5 DEF PlacedAt
<1> HIDE DEF first, second, lines
<1>12. ASSUME NEW n \in 1..(m + k)
       PROVE  /\ all[n] = ImportedRow(all[n].record)
              /\ IF n <= m THEN all[n].record \in parts.train ELSE all[n].record \in parts.evaluation
              /\ rowSet.provenance[n] =
                   ImportedEntry([part |-> IF n <= m THEN "train" ELSE "evaluation",
                                  ordinal |-> IF n <= m THEN n ELSE n - m, row |-> all[n]])
  <2>1. rowSet.provenance[n] = ImportedEntry(lines[n])
    BY <1>3, <1>9
  <2>2. CASE n <= m
    <3>1. n \in 1..m
      BY <1>4, <2>2
    <3>2. all[n] = train[n] /\ lines[n] = [part |-> "train", ordinal |-> n, row |-> all[n]]
      BY <1>8, <1>9, <1>10, <2>2, <3>1
    <3> QED BY <1>4, <2>1, <2>2, <3>1, <3>2
  <2>3. CASE ~(n <= m)
    <3>1. n - m \in 1..k
      BY <1>4, <1>5, <2>3
    <3>2. all[n] = evaluation[n - m] /\ lines[n] = [part |-> "evaluation", ordinal |-> n - m, row |-> all[n]]
      BY <1>8, <1>9, <1>11, <2>3, <3>1
    <3> QED BY <1>5, <2>1, <2>3, <3>1, <3>2
  <2> QED BY <2>2, <2>3
<1>13. DOMAIN rowSet.provenance = 1..(m + k) /\ Len(rowSet.provenance) = m + k
  <2> DEFINE X == {ImportedEntry(lines[n]) : n \in 1..(m + k)}
  <2>1. rowSet.provenance \in [1..(m + k) -> X]
    BY <1>3, <1>9
  <2>2. m + k \in Nat
    BY <1>4, <1>5
  <2> HIDE DEF X
  <2> QED BY <2>1, <2>2, LenIs
<1>14. Ascending(rowSet.train) /\ Ascending(rowSet.evaluation)
  <2>1. \A n \in 1..(m - 1) : n \in 1..m /\ n + 1 \in 1..m /\ n < n + 1
    BY <1>4
  <2>2. \A n \in 1..(k - 1) : n \in 1..k /\ n + 1 \in 1..k /\ n < n + 1
    BY <1>5
  <2> QED BY <1>3, <1>4, <1>5, <2>1, <2>2 DEF Ascending
<1>15. rowSet.train # <<>>
  BY <1>3, <1>4, <1>6
<1>16. {row.record : row \in ToSet(all)} = Kept
  <2>1. {row.record : row \in ToSet(all)} =
          {row.record : row \in ToSet(train)} \cup {row.record : row \in ToSet(evaluation)}
    BY <1>8
  <2> QED BY <1>1, <1>4, <1>5, <2>1
<1>17. m > 0 /\ Len(rowSet.train) = m /\ Len(rowSet.evaluation) = k
  BY <1>3, <1>4, <1>5, <1>6
<1> QED BY <1>4, <1>5, <1>7, <1>8, <1>12, <1>13, <1>14, <1>15, <1>16, <1>17 DEF ImportedHold, m, k, all

\* What the verifier recomputes of imported rows is as it hopes.
LEMMA ImportedRowsAlign ==
  ASSUME ImportTyped, MappedSoFar, CuratedSoFar, PartsSound, RowsInOrder, importing \in AfterCuration,
         rowSet = SerializedImport
  PROVE  ImportedRowsHold /\ rowSet.origin = "imported"
<1> DEFINE m == Cardinality(parts.train)
           k == Cardinality(parts.evaluation)
           all == rowSet.train \o rowSet.evaluation
<1>1. rowSet.origin = "imported" /\ rowSet.schema = rowPlan.schema
  BY Zenon DEF SerializedImport, RowSet
<1>2. ImportedHold(m, k, all)
  BY ImportedLinesHold
<1>3. \A i \in Kept : SourceOf(i) \in DOMAIN rowFiles
  BY RecordFacts, KeptFacts DEF AfterMapping
<1> HIDE DEF m, k, all
<1> DEFINE line(n) == [part |-> IF n <= m THEN "train" ELSE "evaluation",
                       ordinal |-> IF n <= m THEN n ELSE n - m, row |-> all[n]]
<1>4. ASSUME NEW n \in 1..(m + k)
      PROVE  /\ rowSet.provenance[n].record = all[n].record /\ rowSet.provenance[n].payload = all[n].payload
             /\ IF n <= m THEN rowSet.provenance[n].part = "train" /\ rowSet.provenance[n].ordinal = n
                ELSE rowSet.provenance[n].part = "evaluation" /\ rowSet.provenance[n].ordinal = n - m
             /\ rowSet.provenance[n].sources = {SourceOf(all[n].record)}
             /\ all[n].payload.keys = PayloadKeys(rowPlan.schema) /\ all[n].record \in Kept
  <2>1. rowSet.provenance[n] = ImportedEntry(line(n))
    BY <1>2 DEF ImportedHold
  <2>2. line(n).row = all[n] /\ line(n).part = (IF n <= m THEN "train" ELSE "evaluation")
        /\ line(n).ordinal = (IF n <= m THEN n ELSE n - m)
    OBVIOUS
  <2> HIDE DEF line
  <2>3. /\ rowSet.provenance[n].record = line(n).row.record /\ rowSet.provenance[n].payload = line(n).row.payload
        /\ rowSet.provenance[n].part = line(n).part /\ rowSet.provenance[n].ordinal = line(n).ordinal
        /\ rowSet.provenance[n].sources = {SourceOf(line(n).row.record)}
    BY <2>1 DEF ImportedEntry
  <2>4. all[n] = ImportedRow(all[n].record)
    BY <1>2 DEF ImportedHold
  <2>5. all[n].payload.keys = PayloadKeys(rowPlan.schema)
    BY <2>4 DEF ImportedRow
  <2>6. all[n].record \in Kept
    BY <1>2 DEF ImportedHold, ToSet
  <2> QED BY <2>2, <2>3, <2>5, <2>6
<1>5. RowSetCloses(rowSet)
  <2>1. Cardinality({row.record : row \in ToSet(all)}) = Len(all) /\ Len(rowSet.provenance) = Len(all)
    BY <1>2 DEF ImportedHold
  <2>2. /\ Len(rowSet.train) = m /\ DOMAIN all = 1..(m + k)
        /\ rowSet.train # <<>> /\ Ascending(rowSet.train) /\ Ascending(rowSet.evaluation)
    BY <1>2 DEF ImportedHold
  <2>3. all = rowSet.train \o rowSet.evaluation
    BY DEF all
  <2> QED BY <1>4, <2>1, <2>2, <2>3, Zenon DEF RowSetCloses
<1>6. \A row \in ToSet(all) : row.payload.keys = PayloadKeys(rowSet.schema)
  BY <1>1, <1>2, <1>4 DEF ImportedHold, ToSet
<1>7. \A e \in ToSet(rowSet.provenance) : e.sources \subseteq DOMAIN rowFiles
  BY <1>2, <1>3, <1>4 DEF ImportedHold, ToSet
<1> QED BY <1>1, <1>5, <1>6, <1>7 DEF ImportedRowsHold, all

\* What is sealed was handed over by an import that passed, and stays.
HandedOver == sealing # "idle" => /\ importing = "validated" /\ rowSet = SerializedImport
                                  /\ sealing \notin {"formatted", "failed"}

ImportedInv == ImportInv /\ BundleInv /\ SealedSoFar /\ HandedOver

LEMMA ImportedAccepts ==
  ASSUME ImportedInv, sealing # "idle"
  PROVE  ReportPasses(handed) /\ RowsAsExpected
<1>1. importing = "validated" /\ rowSet = SerializedImport
  BY DEF ImportedInv, HandedOver
<1>2. /\ ImportTyped /\ MappedSoFar /\ CuratedSoFar /\ PartsSound /\ RowsInOrder /\ importing \in AfterCuration
      /\ ~Lacking
  BY <1>1 DEF ImportedInv, ImportInv, AfterCuration, AfterSplit
<1>3. ImportedRowsHold /\ rowSet.origin = "imported"
  BY <1>1, <1>2, ImportedRowsAlign
<1>4. RowSetAligned /\ ImportGates
  BY <1>2, GatesOfImport
<1> QED BY <1>3, <1>4 DEF ReportPasses, RowsAsExpected

\* A validated import has no step left.
LEMMA ValidatedStays ==
  ASSUME importing = "validated"
  PROVE  ~ImportNext
BY DEF ImportNext, ParseRows, Detect, MapRefused, MapRows, CommitMap, MapLost, CurateImported, SplitRefused,
       SplitByMembership, SplitByGroups, FormatImported, ValidateImported

LEMMA SameImport ==
  ASSUME UNCHANGED importVars
  PROVE  SerializedImport' = SerializedImport
<1>1. rowPlan' = rowPlan /\ imported' = imported /\ formatted' = formatted
  BY DEF importVars
<1>2. \A i : ImportedRow(i)' = ImportedRow(i)
  BY <1>1 DEF ImportedRow
<1>3. \A line : ImportedEntry(line)' = ImportedEntry(line)
  BY <1>1 DEF ImportedEntry, SourceOf
<1> QED BY <1>1, <1>2, <1>3 DEF SerializedImport

LEMMA ImportedStep == ImportedInv /\ [ImportedNext]_<<importVars, bundleVars>> => ImportedInv'
<1> SUFFICES ASSUME ImportedInv, [ImportedNext]_<<importVars, bundleVars>> PROVE ImportedInv'
  OBVIOUS
<1>1. [ImportNext]_importVars /\ [BundleNext \/ FormatOne]_bundleVars
  BY DEF ImportedNext
<1>2. ImportInv'
  BY <1>1, ImportStep DEF ImportedInv
<1>3. sealing \in Verifying \ {"collecting"} => ReportPasses(handed) /\ RowsAsExpected
  BY ImportedAccepts DEF Verifying
<1>4. BundleInv' /\ SealedSoFar'
  BY <1>1, <1>3, SealedStep DEF ImportedInv
<1>5. CASE UNCHANGED bundleVars
  <2>1. sealing' = sealing /\ rowSet' = rowSet
    BY <1>5 DEF bundleVars
  <2>2. ASSUME sealing = "idle" PROVE HandedOver'
    BY <2>1, <2>2 DEF HandedOver
  <2>3. ASSUME sealing # "idle" PROVE HandedOver'
    <3>1. importing = "validated" /\ rowSet = SerializedImport /\ sealing \notin {"formatted", "failed"}
      BY <2>3 DEF ImportedInv, HandedOver
    <3>2. UNCHANGED importVars
      BY <1>1, <3>1, ValidatedStays
    <3>3. importing' = importing /\ SerializedImport' = SerializedImport
      BY <3>2, SameImport DEF importVars
    <3> QED BY <2>1, <3>1, <3>3 DEF HandedOver
  <2>4. HandedOver'
    BY <2>2, <2>3
  <2> QED BY <1>2, <1>4, <2>4 DEF ImportedInv
<1>6. CASE BundleNext /\ UNCHANGED importVars
  <2>1. importing' = importing /\ SerializedImport' = SerializedImport
    BY <1>6, SameImport DEF importVars
  <2>2. ASSUME HandOverImported PROVE HandedOver'
    BY <2>1, <2>2 DEF HandOverImported, HandedOver
  <2>3. ASSUME ~HandOverImported PROVE HandedOver'
    <3>1. sealing # "idle" /\ rowSet' = rowSet /\ sealing' # "idle" /\ sealing' # "formatted"
          /\ (sealing' = "failed" => sealing = "formatted")
      BY <1>6, <2>3 DEF BundleNext, Validate, Seal, Disturb, StartVerify, Collect, ListFolder, StatEntry, Collected,
                        ReadManifest, ReadAttestation, VerifyPayload, ReadReport, OpenRows, AlignRows,
                        LookAgain, ReadManifestAgain, ReadAttestationAgain, VerifierStep, Verifying
    <3>2. importing = "validated" /\ rowSet = SerializedImport /\ sealing \notin {"formatted", "failed"}
      BY <3>1 DEF ImportedInv, HandedOver
    <3> QED BY <2>1, <3>1, <3>2 DEF HandedOver
  <2>4. HandedOver'
    BY <2>2, <2>3
  <2> QED BY <1>2, <1>4, <2>4 DEF ImportedInv
<1> QED BY <1>5, <1>6 DEF ImportedNext

\* The verifier accepts what the gates of an import passed unless a file of it
\* changes, and the two parts then hold every kept row once and, unless the rows
\* declared their parts themselves (authoritative membership), nothing that the
\* family of the rows keeps apart (PipelineService._seal_imported, verify_finished_bundle).
THEOREM ImportedBundlesVerify == ImportedSpec => []SealedVerifies
<1>1. ImportedInit => ImportedInv
  BY InitImport, InitBundle DEF ImportedInit, ImportedInv, HandedOver, BundleInit, SealedSoFar, Written, Verifying
<1>2. ASSUME ImportedInv PROVE SealedVerifies
  <2> DEFINE m == Cardinality(parts.train)
             k == Cardinality(parts.evaluation)
             all == rowSet.train \o rowSet.evaluation
  <2>1. sealing = "rejected" => Disturbed > 0 \/ look.asked = "other"
    BY <1>2, SomethingDisturbed DEF ImportedInv, SealedSoFar, BundleInv
  <2>2. ASSUME sealing = "verified"
        PROVE  /\ rowSet.origin = "imported"
               /\ {row.record : row \in ToSet(all)} = Kept /\ Len(rowSet.provenance) = Cardinality(Kept)
               /\ rowPlan.membership # "authoritative" =>
                    \A d, e \in ToSet(rowSet.provenance) :
                      d.part = "train" /\ e.part = "evaluation" => ~Alike(d.record, e.record)
    <3>1. importing = "validated" /\ rowSet = SerializedImport
      BY <1>2, <2>2 DEF ImportedInv, HandedOver
    <3>2. ImportTyped /\ MappedSoFar /\ CuratedSoFar /\ PartsSound /\ RowsInOrder /\ importing \in AfterCuration
      BY <1>2, <3>1 DEF ImportedInv, ImportInv, AfterCuration, AfterSplit
    <3>3. ImportedHold(m, k, all) /\ rowSet.origin = "imported"
      BY <3>1, <3>2, ImportedLinesHold, ImportedRowsAlign
    <3> HIDE DEF m, k, all
    <3>4. ASSUME NEW e \in ToSet(rowSet.provenance)
          PROVE  /\ e.part = "train" => e.record \in parts.train
                 /\ e.part = "evaluation" => e.record \in parts.evaluation
      <4>1. PICK n \in 1..(m + k) : e = rowSet.provenance[n]
        BY <3>3 DEF ImportedHold, ToSet
      <4> DEFINE line == [part |-> IF n <= m THEN "train" ELSE "evaluation",
                          ordinal |-> IF n <= m THEN n ELSE n - m, row |-> all[n]]
      <4>2. e = ImportedEntry(line) /\ IF n <= m THEN all[n].record \in parts.train ELSE all[n].record \in parts.evaluation
        BY <3>3, <4>1 DEF ImportedHold
      <4>3. line.row = all[n] /\ line.part = IF n <= m THEN "train" ELSE "evaluation"
        OBVIOUS
      <4> HIDE DEF line
      <4>4. e.part = line.part /\ e.record = line.row.record
        BY <4>2 DEF ImportedEntry
      <4> QED BY <4>2, <4>3, <4>4
    <3> QED BY <3>2, <3>3, <3>4 DEF ImportedHold, PartsSound
  <2> QED BY <2>1, <2>2 DEF SealedVerifies
<1> QED BY <1>1, <1>2, ImportedStep, PTL DEF ImportedSpec

=============================================================================
