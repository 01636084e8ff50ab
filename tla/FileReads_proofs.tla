---------------------------- MODULE FileReads_proofs ----------------------------
(***************************************************************************)
(* Machine-checked proof about FileReads: what a batch captured, and what  *)
(* an operation answers for, was on disk together, for any number of       *)
(* names, changes and reads.                                               *)
(*                                                                         *)
(* A file only grows, since every change adds an entry to what it held.    *)
(* Whoever observes the same file and length twice therefore knows that    *)
(* nothing was written between the two observations; the invariant says    *)
(* what a read in progress is worth as long as the length has not grown.   *)
(***************************************************************************)
EXTENDS FileReads, FiniteSetTheorems, SequenceTheorems, TLAPS

-----------------------------------------------------------------------------
(* Types                                                                   *)

Body == [1..2 -> Nat]
Half == Nat \cup {"missing", "changed"}
FileStates == [Identities -> [held : Seq(Body), kind : {"regular", "other"}]]
Observations == [file : {Nothing} \cup Identities, length : Nat]
Ats == {"pin", "locate", "before", "body", "after", "captured", "refused",
        "operate", "fetch", "fetched", "check", "checked", "failed"}

Last(fs, i) == fs[i].held[Len(fs[i].held)]

TypeInv ==
  /\ disk \in [Names -> {Nothing} \cup Identities]
  /\ files \in FileStates /\ \A i \in Identities : files[i].held # <<>>
  /\ moment \in FileStates /\ \A i \in Identities : moment[i].held # <<>>
  /\ reader \in [at : Ats, name : Names, file : {Nothing} \cup Identities,
                 half : {0, 1}, reads : Nat]
  /\ facts \in [Names -> Observations]
  /\ bytes \in [Names -> Seq(Half)]

-----------------------------------------------------------------------------
(* The inductive invariant                                                 *)

\* What a file held at an earlier time it still begins with.
Grew(before, now) ==
  \A i \in Identities :
    /\ Len(before[i].held) <= Len(now[i].held)
    /\ \A k \in 1..Len(before[i].held) : now[i].held[k] = before[i].held[k]

\* What was observed of a name was so once.
Observed(f, fs) == f.file \in Identities /\ f.length \in 1..Len(fs[f.file].held)
FactsHold == \A n \in Names : facts[n] = NoFacts \/ Observed(facts[n], files)

\* Nothing was written to the file since it was observed.
Still(f) == Len(files[f.file].held) = f.length

\* The name whose bytes are being read.
Capturing == {"locate", "before", "body", "after"}
Fetching == {"fetch", "fetched"}
UnderWay == IF reader.at \in Capturing \cup Fetching THEN {reader.name} ELSE {}

\* The halves that were read of the file, if nothing was written to it.
ReadInPart ==
  LET f == facts[reader.name]
  IN  /\ reader.at = "operate" => reader.half = 0
      /\ reader.at = "body" /\ reader.half = 1 /\ Still(f) =>
           bytes[reader.name] = <<Last(files, f.file)[1]>>
      /\ reader.at = "after" /\ Still(f) => bytes[reader.name] = Last(files, f.file)
      /\ reader.at = "fetch" /\ reader.half = 1 =>
           reader.file \in Identities
      /\ reader.at = "fetch" /\ reader.half = 1 /\ disk[reader.name] = f.file /\ Still(f) =>
           reader.file = f.file /\ bytes[reader.name] = <<Last(files, f.file)[1]>>
      /\ reader.at = "fetched" /\ disk[reader.name] = f.file /\ Still(f) =>
           bytes[reader.name] = Last(files, f.file)

\* A batch: every pinned name leads to another file, pinned before the moment,
\* and what was read of it is what it held then.
BatchHolds ==
  reader.at \in {"pin", "captured"} \cup Capturing =>
    /\ \A m, n \in Names : m # n /\ facts[m] # NoFacts => facts[m].file # facts[n].file
    /\ \A n \in Names : facts[n] # NoFacts => Observed(facts[n], moment)
    /\ reader.at = "pin" => Used = {}
    /\ reader.at \in Capturing => facts[reader.name] # NoFacts
    /\ \A n \in Used \ UnderWay :
         facts[n] # NoFacts /\ bytes[n] = Last(moment, facts[n].file)

\* An operation: what was read of a name is what its file held when it was
\* observed; a check that has passed the name found it still so.
OperationHolds ==
  reader.at \in {"operate", "check", "checked"} \cup Fetching =>
    /\ \A n \in Names \ UnderWay : bytes[n] # Unread =>
         /\ facts[n] # NoFacts
         /\ bytes[n] = files[facts[n].file].held[facts[n].length]
    /\ reader.at \in Fetching => facts[reader.name] # NoFacts

CheckHolds ==
  reader.at \in {"check", "checked"} =>
    \A n \in Names : bytes[n] # Unread =>
      /\ Observed(facts[n], moment)
      /\ n < reader.name \/ reader.at = "checked" =>
           Len(moment[facts[n].file].held) = facts[n].length

Inv ==
  /\ TypeInv
  /\ Grew(moment, files)
  /\ FactsHold
  /\ ReadInPart
  /\ BatchHolds
  /\ OperationHolds
  /\ CheckHolds

-----------------------------------------------------------------------------
(* Lemmas                                                                  *)

\* Names are numbers from 1.
LEMMA NamesType ==
  /\ Cardinality(Names) \in Nat /\ Names \subseteq Nat
  /\ 1 \in Names /\ Cardinality(Names) \in Names
  /\ Nothing \notin Identities
  /\ \A n \in Names : n \in Identities /\ n <= Cardinality(Names)
  /\ \A n \in Names : ~Beyond(n) => n + 1 \in Names
<1>1. Cardinality(Names) \in Nat
  BY FS_CardinalityType, ReadsAssumption
<1>2. Names = 1..Cardinality(Names) /\ Names # {}
  BY ReadsAssumption
<1>3. Cardinality(Names) >= 1
  BY <1>1, <1>2
<1>4. MaxChanges \in Nat
  BY ReadsAssumption
<1>5. QED
  BY <1>1, <1>2, <1>3, <1>4 DEF Beyond, Nothing, Identities

\* Two halves read one after the other make a body.
LEMMA WholeBody ==
  ASSUME NEW h \in Body
  PROVE  /\ Append(<<>>, h[1]) = <<h[1]>>
         /\ Append(<<h[1]>>, h[2]) = h
         /\ <<h[1]>> \in Seq(Half) /\ h \in Seq(Half)
<1>1. h[1] \in Nat /\ h[2] \in Nat
  BY DEF Body
<1>2. <<h[1], h[2]>> = h
  BY <1>1 DEF Body
<1>3. <<h[1]>> \in Seq(Half) /\ <<h[1], h[2]>> \in Seq(Half)
  BY <1>1 DEF Half
<1>4. Append(<<>>, h[1]) = <<h[1]>>
  BY <1>1
<1>5. Append(<<h[1]>>, h[2]) = <<h[1], h[2]>>
  <2> DEFINE two == Append(<<h[1]>>, h[2])
             body == <<h[1], h[2]>>
  <2>1. <<h[1]>> \in Seq(Nat) /\ Len(<<h[1]>>) = 1 /\ <<h[1]>>[1] = h[1]
    BY <1>1
  <2>2. two \in Seq(Nat) /\ Len(two) = 2 /\ two[1] = h[1] /\ two[2] = h[2]
    BY <1>1, <2>1, AppendProperties
  <2>3. body \in Seq(Nat) /\ Len(body) = 2 /\ body[1] = h[1] /\ body[2] = h[2]
    BY <1>1
  <2>4. two = body
    <3> HIDE DEF two, body
    <3>1. \A k \in 1..2 : two[k] = body[k]
      BY <2>2, <2>3
    <3>2. QED
      BY <2>2, <2>3, <3>1, SeqEqual
  <2>5. QED
    BY <2>4
<1>6. QED
  BY <1>2, <1>3, <1>4, <1>5

LEMMA LastType ==
  ASSUME TypeInv, NEW i \in Identities
  PROVE  /\ Len(files[i].held) \in Nat \ {0} /\ Len(moment[i].held) \in Nat \ {0}
         /\ files[i].held \in Seq(Body) /\ moment[i].held \in Seq(Body)
         /\ Last(files, i) \in Body
<1>1. files[i].held \in Seq(Body) /\ moment[i].held \in Seq(Body)
  BY DEF TypeInv, FileStates
<1>2. files[i].held # <<>> /\ moment[i].held # <<>>
  BY DEF TypeInv
<1>3. QED
  BY <1>1, <1>2 DEF Last

\* What Facts answers is NoFacts or an observation of the files as they are.
LEMMA FactsType ==
  ASSUME TypeInv, NEW n \in Names
  PROVE  /\ Facts(n) \in Observations
         /\ disk[n] = Nothing => Facts(n) = NoFacts
         /\ disk[n] # Nothing => /\ Facts(n).file = disk[n] /\ Observed(Facts(n), files)
                                 /\ Still(Facts(n))
         /\ facts[n] # NoFacts /\ FactsHold => facts[n].file # Nothing
<1>1. disk[n] \in {Nothing} \cup Identities
  BY DEF TypeInv
<1>2. CASE disk[n] = Nothing
  BY <1>2 DEF Facts, NoFacts, Observations, FactsHold, Observed, Nothing, Identities
<1>3. CASE disk[n] \in Identities
  <2>1. Len(files[disk[n]].held) \in Nat \ {0} /\ disk[n] # Nothing
    BY <1>3, LastType, NamesType
  <2>2. Facts(n) = [file |-> disk[n], length |-> Len(files[disk[n]].held)]
    BY <2>1 DEF Facts
  <2>3. QED
    BY <1>3, <2>1, <2>2, NamesType DEF Observations, Observed, Still, FactsHold
<1>4. QED
  BY <1>1, <1>2, <1>3

\* Whoever writes to a file makes it longer, and leaves what it held.
LEMMA TouchedGrows ==
  ASSUME TypeInv, NEW i \in Identities, NEW body \in Body, Touched(i, body)
  PROVE  /\ files' \in FileStates /\ \A j \in Identities : files'[j].held # <<>>
         /\ \A j \in Identities : j # i => files'[j] = files[j]
         /\ Len(files'[i].held) = Len(files[i].held) + 1
         /\ Grew(files, files')
<1>1. files \in FileStates /\ files[i].held \in Seq(Body)
  BY LastType DEF TypeInv
<1>2. files' = [files EXCEPT ![i] = [files[i] EXCEPT !.held = Append(@, body)]]
  BY Zenon DEF Touched
<1>3. Append(files[i].held, body) \in Seq(Body) /\ files[i].kind \in {"regular", "other"}
  BY <1>1 DEF FileStates
<1>4. files' \in FileStates
  BY <1>1, <1>2, <1>3 DEF FileStates
<1>5. \A j \in Identities : j # i => files'[j] = files[j]
  BY <1>1, <1>2 DEF FileStates
<1>6. files'[i].held = Append(files[i].held, body)
  BY <1>1, <1>2 DEF FileStates
<1>7. Len(files'[i].held) = Len(files[i].held) + 1
  BY <1>1, <1>6
<1>8. \A k \in 1..Len(files[i].held) : files'[i].held[k] = files[i].held[k]
  BY <1>1, <1>6
<1>9. \A j \in Identities : Len(files[j].held) \in Nat /\ files[j].held # <<>>
  BY LastType DEF TypeInv
<1>10. files'[i].held # <<>>
  BY <1>4, <1>7, <1>9 DEF FileStates
<1>11. Grew(files, files')
  BY <1>5, <1>7, <1>8, <1>9 DEF Grew
<1>12. QED
  BY <1>4, <1>5, <1>7, <1>9, <1>10, <1>11

-----------------------------------------------------------------------------
(* What other processes do                                                 *)

\* A file observed and still as it was has not been written to.
LEMMA StillUntouched ==
  ASSUME TypeInv, NEW i \in Identities, NEW body \in Body, Touched(i, body),
         NEW f, Observed(f, files)
  PROVE  /\ Observed(f, files')
         /\ files'[f.file].held[f.length] = files[f.file].held[f.length]
         /\ Len(files'[f.file].held) = f.length =>
              /\ f.file # i /\ Still(f)
              /\ Last(files', f.file) = Last(files, f.file)
<1>1. /\ f.file \in Identities /\ f.length \in 1..Len(files[f.file].held)
  BY DEF Observed
<1>2. Len(files[f.file].held) \in Nat /\ Len(files[i].held) \in Nat
  BY <1>1, LastType
<1>3. /\ \A j \in Identities : j # i => files'[j] = files[j]
      /\ Len(files'[i].held) = Len(files[i].held) + 1
      /\ Grew(files, files')
  BY TouchedGrows
<1>4. files' \in FileStates
  BY TouchedGrows
<1>5. Len(files'[f.file].held) \in Nat
  BY <1>1, <1>4 DEF FileStates
<1>6. Observed(f, files')
  BY <1>1, <1>2, <1>3, <1>5 DEF Observed, Grew
<1>7. files'[f.file].held[f.length] = files[f.file].held[f.length]
  BY <1>1, <1>3 DEF Grew
<1>8. ASSUME Len(files'[f.file].held) = f.length
      PROVE  f.file # i
  BY <1>1, <1>2, <1>3, <1>8
<1>9. ASSUME Len(files'[f.file].held) = f.length
      PROVE  Still(f) /\ Last(files', f.file) = Last(files, f.file)
  BY <1>1, <1>3, <1>8, <1>9 DEF Still, Last
<1>10. QED
  BY <1>6, <1>7, <1>8, <1>9

\* Whatever was written and linked meanwhile, the reader is not deceived.
LEMMA ChangeInv ==
  ASSUME Inv, NEW i \in Identities, NEW body \in Body, Touched(i, body),
         disk' \in [Names -> {Nothing} \cup Identities],
         \A n \in Names : disk'[n] = disk[n] \/ disk'[n] \in {Nothing, i},
         UNCHANGED <<reader, facts, bytes, moment>>
  PROVE  Inv'
<1>1. TypeInv'
  <2>1. files' \in FileStates /\ \A j \in Identities : files'[j].held # <<>>
    BY TouchedGrows DEF Inv
  <2>2. QED
    BY <2>1 DEF Inv, TypeInv
<1>2. Grew(moment, files)'
  <2>1. Grew(files, files') /\ Grew(moment, files)
    BY TouchedGrows DEF Inv
  <2>2. \A j \in Identities : /\ Len(moment[j].held) \in Nat /\ Len(files[j].held) \in Nat
                              /\ Len(files'[j].held) \in Nat
    BY <1>1, LastType DEF Inv, TypeInv, FileStates
  <2>3. Grew(moment, files')
    BY <2>1, <2>2 DEF Grew
  <2>4. QED
    BY <2>3
<1>3. FactsHold'
  <2>1. \A n \in Names : facts[n] = NoFacts \/ Observed(facts[n], files')
    BY StillUntouched DEF Inv, FactsHold
  <2>2. QED
    BY <2>1 DEF FactsHold
<1>4. ReadInPart'
  <2> DEFINE f == facts[reader.name]
  <2>1. reader.name \in Names
    BY DEF Inv, TypeInv
  <2>2. CASE f = NoFacts
    <3>1. reader.at \notin {"body", "after", "fetch", "fetched"}
      BY <2>2 DEF Inv, BatchHolds, OperationHolds, Capturing, Fetching
    <3>2. QED
      BY <3>1 DEF Inv, ReadInPart
  <2>3. CASE f # NoFacts
    <3>1. Observed(f, files)
      BY <2>1, <2>3 DEF Inv, FactsHold
    <3>2. f.file \in Identities /\ f.file # Nothing
      BY <3>1, NamesType DEF Observed
    <3>3. Still(f)' => f.file # i /\ Still(f) /\ Last(files', f.file) = Last(files, f.file)
      <4>1. TypeInv
        BY DEF Inv
      <4>2. Len(files'[f.file].held) = f.length =>
              f.file # i /\ Still(f) /\ Last(files', f.file) = Last(files, f.file)
        <5> HIDE DEF f
        <5> QED
          BY <3>1, <4>1, StillUntouched
      <4>3. QED
        BY <4>2 DEF Still
    <3>4. Still(f)' /\ disk'[reader.name] = f.file => disk[reader.name] = f.file
      BY <2>1, <3>2, <3>3
    <3>5. QED
      BY <3>3, <3>4 DEF Inv, ReadInPart
  <2>4. QED
    BY <2>2, <2>3
<1>5. BatchHolds'
  BY DEF Inv, BatchHolds, Used, UnderWay, Capturing, Observed, Last
<1>6. OperationHolds'
  <2>1. ASSUME NEW n \in Names, facts[n] # NoFacts
        PROVE  files'[facts[n].file].held[facts[n].length] = files[facts[n].file].held[facts[n].length]
    BY <2>1, StillUntouched DEF Inv, FactsHold
  <2>2. QED
    BY <2>1 DEF Inv, OperationHolds, UnderWay, Fetching, Capturing
<1>7. CheckHolds'
  BY DEF Inv, CheckHolds, Observed
<1>8. QED
  BY <1>1, <1>2, <1>3, <1>4, <1>5, <1>6, <1>7 DEF Inv

LEMMA WriteInv == Inv /\ Write => Inv'
<1>1. SUFFICES ASSUME Inv, NEW i \in Identities, NEW half \in 1..2,
                      Touched(i, [Last(files, i) EXCEPT ![half] = Len(files[i].held)]),
                      UNCHANGED <<disk, reader, facts, bytes, moment>>
               PROVE  Inv'
  BY DEF Write, Last
<1>2. Last(files, i) \in Body /\ Len(files[i].held) \in Nat
  BY <1>1, LastType DEF Inv
<1>3. [Last(files, i) EXCEPT ![half] = Len(files[i].held)] \in Body
  BY <1>2 DEF Body
<1>4. disk' \in [Names -> {Nothing} \cup Identities]
  BY <1>1 DEF Inv, TypeInv
<1>5. QED
  BY <1>1, <1>3, <1>4, ChangeInv

LEMMA RelinkInv == Inv /\ Relink => Inv'
<1> DEFINE touched(n, i) == IF i = Nothing THEN disk[n] ELSE i
<1>1. SUFFICES ASSUME Inv,
                      NEW n \in Names, NEW i \in {Nothing} \cup Identities, disk[n] # i,
                      disk' = [disk EXCEPT ![n] = i],
                      Touched(touched(n, i), Last(files, touched(n, i))),
                      UNCHANGED <<reader, facts, bytes, moment>>
               PROVE  Inv'
  BY DEF Relink, Last
<1>2. disk \in [Names -> {Nothing} \cup Identities]
  BY <1>1 DEF Inv, TypeInv
<1>3. touched(n, i) \in Identities
  BY <1>1, <1>2
<1>4. Last(files, touched(n, i)) \in Body
  BY <1>1, <1>3, LastType DEF Inv
<1>5. /\ disk' \in [Names -> {Nothing} \cup Identities]
      /\ \A m \in Names : disk'[m] = disk[m] \/ disk'[m] \in {Nothing, touched(n, i)}
  BY <1>1, <1>2
<1>6. QED
  <2> HIDE DEF touched
  <2> QED
    BY <1>1, <1>3, <1>4, <1>5, ChangeInv

-----------------------------------------------------------------------------
(* Capture of a batch                                                      *)

\* A file that is still as long as it was at the moment is as it was then.
LEMMA StillAtTheMoment ==
  ASSUME Inv, NEW f, Observed(f, moment)
  PROVE  /\ Observed(f, files)
         /\ moment[f.file].held[f.length] = files[f.file].held[f.length]
         /\ Still(f) => /\ Len(moment[f.file].held) = f.length
                        /\ Last(moment, f.file) = Last(files, f.file)
<1>1. f.file \in Identities /\ f.length \in 1..Len(moment[f.file].held)
  BY DEF Observed
<1>2. Len(files[f.file].held) \in Nat /\ Len(moment[f.file].held) \in Nat
  BY <1>1, LastType DEF Inv
<1>3. /\ Len(moment[f.file].held) <= Len(files[f.file].held)
      /\ \A k \in 1..Len(moment[f.file].held) :
           files[f.file].held[k] = moment[f.file].held[k]
  BY <1>1 DEF Inv, Grew
<1>4. Still(f) => Len(moment[f.file].held) = f.length
  BY <1>1, <1>2, <1>3 DEF Still
<1>5. QED
  BY <1>1, <1>2, <1>3, <1>4 DEF Observed, Last, Still

\* A step of the reader to a place and a name.
LEMMA StepType ==
  ASSUME TypeInv, NEW at \in Ats, NEW n \in Names, Step(at, n)
  PROVE  /\ reader' \in [at : Ats, name : Names, file : {Nothing} \cup Identities,
                         half : {0, 1}, reads : Nat]
         /\ reader'.at = at /\ reader'.name = n /\ reader'.half = 0
BY DEF TypeInv, Step

\* On to the next name of the batch, with the verdict on this one.
LEMMA NextCaptureInv ==
  ASSUME Inv, reader.at \in Capturing, NextCapture(reader.name),
         UNCHANGED <<disk, files, facts, moment>>,
         bytes' \in [Names -> Seq(Half)],
         \A n \in Names \ {reader.name} : bytes'[n] = bytes[n],
         reader.name \in Used' =>
           bytes'[reader.name] = Last(moment, facts[reader.name].file)
  PROVE  Inv'
<1>1. reader.name \in Names /\ facts[reader.name] # NoFacts
  BY DEF Inv, TypeInv, BatchHolds
<1>2. PICK n \in Names : \/ Step("captured", n)
                         \/ facts[n] # NoFacts /\ Step("locate", n)
  BY <1>1 DEF NextCapture
<1>3. /\ reader'.at \in {"captured", "locate"} /\ reader'.name = n
      /\ reader'.at = "locate" => facts[n] # NoFacts
      /\ reader' \in [at : Ats, name : Names, file : {Nothing} \cup Identities,
                      half : {0, 1}, reads : Nat]
  BY <1>2, StepType DEF Inv, Ats
<1>4. TypeInv'
  BY <1>3 DEF Inv, TypeInv
<1>5. BatchHolds'
  <2>1. /\ \A m, k \in Names : m # k /\ facts[m] # NoFacts => facts[m].file # facts[k].file
        /\ \A k \in Names : facts[k] # NoFacts => Observed(facts[k], moment)
    BY DEF Inv, BatchHolds
  <2>2. ASSUME NEW k \in Used'
        PROVE  facts[k] # NoFacts /\ bytes'[k] = Last(moment, facts[k].file)
    <3>1. CASE k = reader.name
      BY <1>1, <2>2, <3>1
    <3>2. CASE k # reader.name
      <4>1. k \in Names /\ bytes'[k] = bytes[k]
        BY <2>2, <3>2 DEF Used
      <4>2. k \in Used \ UnderWay
        BY <2>2, <3>2, <4>1 DEF Used, UnderWay
      <4>3. QED
        BY <4>1, <4>2 DEF Inv, BatchHolds
    <3>3. QED
      BY <3>1, <3>2
  <2>3. \A k \in Used' : bytes'[k] = Last(moment', facts'[k].file)
    BY <2>2
  <2>4. QED
    BY <1>3, <2>1, <2>2, <2>3 DEF BatchHolds, Capturing, Observed
<1>6. Grew(moment, files)' /\ FactsHold'
  BY DEF Inv, Grew, FactsHold, Observed
<1>7. ReadInPart' /\ OperationHolds' /\ CheckHolds'
  BY <1>3 DEF ReadInPart, OperationHolds, CheckHolds, Fetching
<1>8. QED
  BY <1>4, <1>5, <1>6, <1>7 DEF Inv

LEMMA RefuseInv ==
  ASSUME Inv, reader.at \in Capturing, Refuse(reader.name),
         UNCHANGED <<disk, files, facts, moment>>
  PROVE  Inv'
<1>1. reader.name \in Names /\ bytes \in [Names -> Seq(Half)]
  BY DEF Inv, TypeInv
<1>2. Changed \in Seq(Half)
  BY DEF Changed, Half
<1>3. bytes' = [bytes EXCEPT ![reader.name] = Changed] /\ NextCapture(reader.name)
  BY DEF Refuse, Verdict
<1>4. bytes' \in [Names -> Seq(Half)]
  BY <1>1, <1>2, <1>3
<1>5. reader.name \notin Used'
  BY <1>1, <1>3 DEF Used
<1>6. \A n \in Names \ {reader.name} : bytes'[n] = bytes[n]
  BY <1>1, <1>3
<1>7. QED
  BY <1>3, <1>4, <1>5, <1>6, NextCaptureInv

\* A step within the capture of one name.
LEMMA WithinCaptureInv ==
  ASSUME Inv, reader.at \in Capturing,
         reader'.at \in Capturing, reader'.name = reader.name,
         reader' \in [at : Ats, name : Names, file : {Nothing} \cup Identities,
                     half : {0, 1}, reads : Nat],
         UNCHANGED <<disk, files, facts, moment>>,
         bytes' \in [Names -> Seq(Half)],
         \A n \in Names \ {reader.name} : bytes'[n] = bytes[n],
         ReadInPart'
  PROVE  Inv'
<1>1. TypeInv'
  BY DEF Inv, TypeInv
<1>2. BatchHolds'
  <2>1. UnderWay = {reader.name} /\ UnderWay' = {reader.name}
    BY DEF UnderWay
  <2>2. Used' \ UnderWay' \subseteq Used \ UnderWay
    BY <2>1 DEF Used
  <2>3. \A n \in Used' \ UnderWay' : bytes'[n] = bytes[n]
    BY <2>1 DEF Used
  <2>4. QED
    BY <2>2, <2>3 DEF Inv, BatchHolds, Capturing, Last, Observed
<1>3. Grew(moment, files)' /\ FactsHold'
  BY DEF Inv, Grew, FactsHold, Observed
<1>4. OperationHolds' /\ CheckHolds'
  BY DEF OperationHolds, CheckHolds, Fetching, Capturing
<1>5. QED
  BY <1>1, <1>2, <1>3, <1>4 DEF Inv

LEMMA LocateInv == Inv /\ Locate => Inv'
<1>1. SUFFICES ASSUME Inv, Locate PROVE Inv'
  OBVIOUS
<1>2. reader.at \in Capturing /\ reader.name \in Names
  BY <1>1 DEF Locate, Capturing, Inv, TypeInv
<1>3. CASE Refuse(reader.name)
  BY <1>1, <1>2, <1>3, RefuseInv DEF Locate
<1>4. CASE Step("before", reader.name) /\ UNCHANGED bytes
  <2>1. reader'.at = "before" /\ reader'.name = reader.name
        /\ reader' \in [at : Ats, name : Names, file : {Nothing} \cup Identities,
                       half : {0, 1}, reads : Nat]
    BY <1>1, <1>2, <1>4, StepType DEF Inv, Ats
  <2>2. ReadInPart'
    BY <2>1 DEF ReadInPart
  <2>3. bytes' \in [Names -> Seq(Half)]
    BY <1>1, <1>4 DEF Inv, TypeInv
  <2>4. QED
    BY <1>1, <1>2, <1>4, <2>1, <2>2, <2>3, WithinCaptureInv DEF Locate, Capturing
<1>5. QED
  BY <1>1, <1>3, <1>4 DEF Locate

LEMMA BeforeReadInv == Inv /\ BeforeRead => Inv'
<1>1. SUFFICES ASSUME Inv, BeforeRead PROVE Inv'
  OBVIOUS
<1>2. reader.at \in Capturing /\ reader.name \in Names
  BY <1>1 DEF BeforeRead, Capturing, Inv, TypeInv
<1>3. CASE Refuse(reader.name)
  BY <1>1, <1>2, <1>3, RefuseInv DEF BeforeRead
<1>4. CASE Step("body", reader.name) /\ UNCHANGED bytes
  <2>1. reader'.at = "body" /\ reader'.name = reader.name /\ reader'.half = 0
        /\ reader' \in [at : Ats, name : Names, file : {Nothing} \cup Identities,
                       half : {0, 1}, reads : Nat]
    BY <1>1, <1>2, <1>4, StepType DEF Inv, Ats
  <2>2. ReadInPart'
    BY <2>1 DEF ReadInPart
  <2>3. bytes' \in [Names -> Seq(Half)]
    BY <1>1, <1>4 DEF Inv, TypeInv
  <2>4. QED
    BY <1>1, <1>2, <1>4, <2>1, <2>2, <2>3, WithinCaptureInv DEF BeforeRead, Capturing
<1>5. QED
  BY <1>1, <1>3, <1>4 DEF BeforeRead

\* One half of a file, read as it is now.
LEMMA ReadType ==
  ASSUME TypeInv, NEW n \in Names, NEW i \in Identities, Read(n, i)
  PROVE  /\ bytes' \in [Names -> Seq(Half)]
         /\ \A m \in Names \ {n} : bytes'[m] = bytes[m]
         /\ reader.half = 0 => bytes'[n] = <<Last(files, i)[1]>>
         /\ reader.half = 1 /\ bytes[n] = <<Last(files, i)[1]>> => bytes'[n] = Last(files, i)
<1> DEFINE h == Last(files, i)
           before == IF reader.half = 0 THEN <<>> ELSE bytes[n]
<1>1. h \in Body /\ reader.half \in {0, 1} /\ bytes \in [Names -> Seq(Half)]
  BY LastType DEF TypeInv
<1>2. bytes' = [bytes EXCEPT ![n] = Append(before, h[reader.half + 1])]
  <2>1. (reader.half + 1 = 1) <=> reader.half = 0
    BY <1>1
  <2>2. bytes' = [bytes EXCEPT ![n] = Append(IF reader.half + 1 = 1 THEN <<>> ELSE bytes[n],
                                             h[reader.half + 1])]
    BY Zenon DEF Read, Verdict, Last
  <2>3. QED
    <3> HIDE DEF h
    <3> QED
      BY <2>1, <2>2, Zenon
<1>3. h[reader.half + 1] \in Half
  BY <1>1 DEF Body, Half
<1>4. before \in Seq(Half)
  BY <1>1
<1>5. Append(before, h[reader.half + 1]) \in Seq(Half)
  <2> HIDE DEF before, h
  <2> QED
    BY <1>3, <1>4, AppendProperties
<1>6. /\ Append(<<>>, h[1]) = <<h[1]>>
      /\ Append(<<h[1]>>, h[2]) = h
  <2> HIDE DEF h
  <2> QED
    BY <1>1, WholeBody
<1>7. /\ bytes' \in [Names -> Seq(Half)]
      /\ \A m \in Names \ {n} : bytes'[m] = bytes[m]
      /\ bytes'[n] = Append(before, h[reader.half + 1])
  <2> HIDE DEF before, h
  <2> QED
    BY <1>1, <1>2, <1>5
<1>8. CASE reader.half = 0
  <2>1. bytes'[n] = Append(<<>>, h[1])
    <3> HIDE DEF h
    <3> QED
      BY <1>7, <1>8
  <2>2. QED
    BY <1>6, <1>7, <1>8, <2>1
<1>9. CASE reader.half = 1
  <2>1. bytes'[n] = Append(bytes[n], h[2])
    <3> HIDE DEF h
    <3> QED
      BY <1>7, <1>9
  <2>2. bytes[n] = <<h[1]>> => bytes'[n] = h
    <3> HIDE DEF h
    <3> QED
      BY <1>6, <2>1
  <2>3. QED
    BY <1>7, <1>9, <2>2
<1>10. QED
  BY <1>1, <1>8, <1>9

LEMMA ReadBodyInv == Inv /\ ReadBody => Inv'
<1>1. SUFFICES ASSUME Inv, ReadBody PROVE Inv'
  OBVIOUS
<1> DEFINE n == reader.name
           f == facts[n]
<1>2. n \in Names /\ reader.at = "body" /\ reader.half \in {0, 1} /\ f # NoFacts
  BY <1>1 DEF ReadBody, Inv, TypeInv, BatchHolds, Capturing
<1>3. Observed(f, files) /\ f.file \in Identities
  BY <1>1, <1>2 DEF Inv, FactsHold, Observed
<1>4. Read(n, f.file)
  BY <1>1 DEF ReadBody
<1>5. /\ bytes' \in [Names -> Seq(Half)]
      /\ \A m \in Names \ {n} : bytes'[m] = bytes[m]
      /\ reader.half = 0 => bytes'[n] = <<Last(files, f.file)[1]>>
      /\ reader.half = 1 /\ bytes[n] = <<Last(files, f.file)[1]>> =>
           bytes'[n] = Last(files, f.file)
  <2> HIDE DEF n, f
  <2> QED
    BY <1>1, <1>2, <1>3, <1>4, ReadType DEF Inv
<1>6. /\ reader.half = 0 => reader'.at = "body" /\ reader'.half = 1
      /\ reader.half = 1 => reader'.at = "after" /\ reader'.half = 0
      /\ reader'.name = n
      /\ reader' \in [at : Ats, name : Names, file : {Nothing} \cup Identities,
                      half : {0, 1}, reads : Nat]
  <2>1. reader \in [at : Ats, name : Names, file : {Nothing} \cup Identities,
                   half : {0, 1}, reads : Nat]
    BY <1>1 DEF Inv, TypeInv
  <2>2. CASE reader.half = 0
    <3>1. reader' = [reader EXCEPT !.half = 1]
      BY <1>1, <2>2 DEF ReadBody
    <3>2. QED
      BY <1>2, <2>1, <2>2, <3>1
  <2>3. CASE reader.half = 1
    <3>1. reader' = [reader EXCEPT !.at = "after", !.half = 0]
      BY <1>1, <2>3 DEF ReadBody
    <3>2. "after" \in Ats /\ 0 \in {0, 1}
      BY DEF Ats
    <3>3. reader' = [at |-> "after", name |-> reader.name, file |-> reader.file,
                     half |-> 0, reads |-> reader.reads]
      BY <2>1, <3>1
    <3>4. QED
      BY <1>2, <2>1, <2>3, <3>2, <3>3
  <2>4. QED
    BY <1>2, <2>2, <2>3
<1>7. UNCHANGED <<disk, files, facts, moment>>
  BY <1>1 DEF ReadBody
<1>8. ReadInPart'
  <2>1. reader.half = 1 /\ Still(f) => bytes[n] = <<Last(files, f.file)[1]>>
    BY <1>1, <1>2 DEF Inv, ReadInPart
  <2>2. reader.half = 1 /\ Still(f) => bytes'[n] = Last(files, f.file)
    BY <1>5, <2>1
  <2>3. QED
    BY <1>2, <1>5, <1>6, <1>7, <2>2 DEF ReadInPart, Still, Last
<1>9. reader.at \in Capturing /\ reader'.at \in Capturing
  BY <1>2, <1>6 DEF Capturing
<1>10. QED
  BY <1>1, <1>5, <1>6, <1>7, <1>8, <1>9, WithinCaptureInv

LEMMA AfterReadInv == Inv /\ AfterRead => Inv'
<1>1. SUFFICES ASSUME Inv, AfterRead PROVE Inv'
  OBVIOUS
<1> DEFINE n == reader.name
           f == facts[n]
<1>2. /\ n \in Names /\ reader.at = "after" /\ reader.at \in Capturing
      /\ bytes \in [Names -> Seq(Half)]
  BY <1>1 DEF AfterRead, Capturing, Inv, TypeInv
<1>3. CASE Refuse(n)
  BY <1>1, <1>2, <1>3, RefuseInv DEF AfterRead
<1>4. CASE Same(Opened(n), f) /\ NextCapture(n) /\ UNCHANGED bytes
  <2>1. Observed(f, moment)
    BY <1>1, <1>2 DEF Inv, BatchHolds
  <2>2. Still(f)
    <3>1. Opened(n).length = Len(files[f.file].held)
      BY DEF Opened
    <3>2. QED
      BY <1>4, <3>1 DEF Same, Still
  <2>3. bytes[n] = Last(files, f.file)
    BY <1>1, <1>2, <2>2 DEF Inv, ReadInPart
  <2>4. Last(moment, f.file) = Last(files, f.file)
    <3> HIDE DEF f
    <3> QED
      BY <1>1, <2>1, <2>2, StillAtTheMoment
  <2>5. bytes' = bytes /\ bytes'[n] = Last(moment, f.file)
    BY <1>4, <2>3, <2>4
  <2>6. QED
    BY <1>1, <1>2, <1>4, <2>5, NextCaptureInv DEF AfterRead
<1>5. QED
  BY <1>1, <1>3, <1>4 DEF AfterRead

LEMMA PinSourceInv == Inv /\ PinSource => Inv'
<1>1. SUFFICES ASSUME Inv, PinSource PROVE Inv'
  OBVIOUS
<1> DEFINE n == reader.name
           regular == disk[n] # Nothing /\ files[disk[n]].kind = "regular"
           alias == regular /\ Alias(n)
<1>2. /\ n \in Names /\ reader.at = "pin" /\ TypeInv
      /\ bytes \in [Names -> Seq(Half)] /\ facts \in [Names -> Observations]
      /\ Used = {}
      /\ \A m, k \in Names : m # k /\ facts[m] # NoFacts => facts[m].file # facts[k].file
  BY <1>1 DEF PinSource, Inv, TypeInv, BatchHolds
<1>3. /\ facts' = IF regular THEN [facts EXCEPT ![n] = Facts(n)] ELSE facts
      /\ bytes' = IF regular THEN bytes ELSE [bytes EXCEPT ![n] = Missing]
      /\ moment' = files
      /\ UNCHANGED <<disk, files>>
  BY <1>1 DEF PinSource
<1>4. PICK at \in {"refused", "pin", "captured", "locate"}, k \in Names :
        /\ Step(at, k)
        /\ at # "refused" => ~alias
        /\ at = "locate" => facts'[k] # NoFacts
  BY <1>1, <1>2, NamesType DEF PinSource
<1>5. /\ Facts(n) \in Observations
      /\ regular => Observed(Facts(n), files) /\ Facts(n).file = disk[n]
  BY <1>2, FactsType
<1>6. Missing \in Seq(Half)
  BY DEF Missing, Half
<1>7. facts' \in [Names -> Observations] /\ bytes' \in [Names -> Seq(Half)]
  BY <1>2, <1>3, <1>5, <1>6
<1>8. /\ reader'.at = at /\ reader'.name = k
      /\ reader' \in [at : Ats, name : Names, file : {Nothing} \cup Identities,
                      half : {0, 1}, reads : Nat]
  BY <1>2, <1>4, StepType DEF Ats
<1>9. TypeInv'
  BY <1>2, <1>3, <1>7, <1>8 DEF TypeInv
<1>10. Grew(moment, files)'
  <2>1. \A i \in Identities : Len(files[i].held) \in Nat
    BY <1>2, LastType
  <2>2. QED
    BY <1>3, <2>1 DEF Grew
<1>11. \A m \in Names : facts'[m] = NoFacts \/ Observed(facts'[m], files)
  BY <1>1, <1>2, <1>3, <1>5 DEF Inv, FactsHold
<1>12. FactsHold'
  BY <1>3, <1>11 DEF FactsHold, Observed
<1>13. Used' = {}
  BY <1>2, <1>3 DEF Used
<1>14. ASSUME ~alias
       PROVE  \A m, j \in Names : m # j /\ facts'[m] # NoFacts => facts'[m].file # facts'[j].file
  <2>1. CASE ~regular
    BY <1>2, <1>3, <2>1
  <2>2. CASE regular
    <3>1. \A m \in Names : facts[m].file # disk[n]
      BY <1>14, <2>2 DEF Alias
    <3>2. /\ facts'[n].file = disk[n]
          /\ \A m \in Names \ {n} : facts'[m] = facts[m]
      BY <1>2, <1>3, <1>5, <2>2
    <3>3. ASSUME NEW m \in Names, NEW j \in Names, m # j, facts'[m] # NoFacts
          PROVE  facts'[m].file # facts'[j].file
      <4> HIDE DEF n, regular, alias
      <4>1. CASE m = n
        BY <3>1, <3>2, <3>3, <4>1
      <4>2. CASE j = n
        BY <3>1, <3>2, <3>3, <4>2
      <4>3. CASE m # n /\ j # n
        BY <1>2, <3>2, <3>3, <4>3
      <4>4. QED
        BY <4>1, <4>2, <4>3
    <3>4. QED
      BY <3>3
  <2>3. QED
    BY <2>1, <2>2
<1>15. BatchHolds'
  <2>1. CASE at = "refused"
    BY <1>8, <2>1 DEF BatchHolds, Capturing
  <2>2. CASE at # "refused"
    <3>1. \A m, j \in Names : m # j /\ facts'[m] # NoFacts => facts'[m].file # facts'[j].file
      BY <1>4, <1>14, <2>2
    <3>2. \A m \in Names : facts'[m] # NoFacts => Observed(facts'[m], moment')
      BY <1>3, <1>11
    <3>3. at \in Capturing => facts'[k] # NoFacts
      BY <1>4 DEF Capturing
    <3> HIDE DEF alias
    <3>4. QED
      BY <1>8, <1>13, <3>1, <3>2, <3>3 DEF BatchHolds, Observed
  <2>3. QED
    BY <2>1, <2>2
<1>16. ReadInPart' /\ OperationHolds' /\ CheckHolds'
  BY <1>4, <1>8 DEF ReadInPart, OperationHolds, CheckHolds, Fetching
<1>17. QED
  BY <1>9, <1>10, <1>12, <1>15, <1>16 DEF Inv

-----------------------------------------------------------------------------
(* Reads of one operation                                                  *)

\* A reader that gives up promises nothing.
LEMMA FailInv ==
  ASSUME Inv, Fail, UNCHANGED <<files, moment>>,
         disk' \in [Names -> {Nothing} \cup Identities]
  PROVE  Inv'
<1>1. /\ reader'.at = "failed"
      /\ reader' \in [at : Ats, name : Names, file : {Nothing} \cup Identities,
                      half : {0, 1}, reads : Nat]
  <2>1. reader.name \in Names /\ "failed" \in Ats
    BY DEF Inv, TypeInv, Ats
  <2>2. QED
    BY <2>1, StepType DEF Fail, Inv
<1>2. UNCHANGED <<facts, bytes>>
  BY DEF Fail
<1>3. TypeInv'
  BY <1>1, <1>2 DEF Inv, TypeInv
<1>4. Grew(moment, files)' /\ FactsHold'
  BY <1>2 DEF Inv, Grew, FactsHold, Observed
<1>5. ReadInPart' /\ BatchHolds' /\ OperationHolds' /\ CheckHolds'
  BY <1>1 DEF ReadInPart, BatchHolds, OperationHolds, CheckHolds, Fetching, Capturing
<1>6. QED
  BY <1>3, <1>4, <1>5 DEF Inv

\* Steps of an operation that leave the files and the moment alone.
LEMMA OperationInv ==
  ASSUME Inv, UNCHANGED <<files, moment>>,
         disk' \in [Names -> {Nothing} \cup Identities],
         reader' \in [at : Ats, name : Names, file : {Nothing} \cup Identities,
                     half : {0, 1}, reads : Nat],
         reader'.at \in {"operate"} \cup Fetching,
         facts' \in [Names -> Observations], bytes' \in [Names -> Seq(Half)],
         FactsHold', ReadInPart', OperationHolds'
  PROVE  Inv'
<1>1. TypeInv'
  BY DEF Inv, TypeInv
<1>2. Grew(moment, files)'
  BY DEF Inv, Grew
<1>3. BatchHolds' /\ CheckHolds'
  BY DEF BatchHolds, CheckHolds, Capturing, Fetching
<1>4. QED
  BY <1>1, <1>2, <1>3 DEF Inv

LEMMA RequestInv == Inv /\ Request => Inv'
<1>1. SUFFICES ASSUME Inv, Request PROVE Inv'
  OBVIOUS
<1>2. /\ reader \in [at : Ats, name : Names, file : {Nothing} \cup Identities,
                     half : {0, 1}, reads : Nat]
      /\ disk \in [Names -> {Nothing} \cup Identities] /\ facts \in [Names -> Observations]
      /\ bytes \in [Names -> Seq(Half)] /\ TypeInv
  BY <1>1 DEF Inv, TypeInv
<1>3. reader.at = "operate" /\ reader.half = 0 /\ UNCHANGED <<disk, files, moment>>
  BY <1>1 DEF Request, Inv, ReadInPart
<1>4. CASE Fail
  BY <1>1, <1>2, <1>3, <1>4, FailInv
<1>5. CASE reader' = [reader EXCEPT !.reads = @ + 1] /\ UNCHANGED <<facts, bytes>>
  <2>1. /\ reader' \in [at : Ats, name : Names, file : {Nothing} \cup Identities,
                        half : {0, 1}, reads : Nat]
        /\ reader'.at = "operate" /\ reader'.half = 0
    <3>1. reader' = [at |-> "operate", name |-> reader.name, file |-> reader.file,
                     half |-> 0, reads |-> reader.reads + 1]
      BY <1>2, <1>3, <1>5
    <3>2. "operate" \in Ats
      BY DEF Ats
    <3>3. QED
      BY <1>2, <3>1, <3>2
  <2>2. FactsHold'
    BY <1>1, <1>3, <1>5 DEF Inv, FactsHold, Observed
  <2>3. ReadInPart'
    BY <2>1 DEF ReadInPart
  <2>4. OperationHolds'
    BY <1>1, <1>3, <1>5, <2>1 DEF Inv, OperationHolds, UnderWay, Capturing, Fetching
  <2>5. QED
    BY <1>1, <1>2, <1>3, <1>5, <2>1, <2>2, <2>3, <2>4, OperationInv
<1>6. ASSUME NEW n \in Names, bytes[n] = Unread, disk[n] # Nothing,
             facts' = [facts EXCEPT ![n] = Facts(n)],
             reader' = [reader EXCEPT !.at = "fetch", !.name = n, !.reads = @ + 1],
             UNCHANGED bytes
      PROVE  Inv'
  <2>1. "fetch" \in Ats
    BY DEF Ats
  <2>2. reader' = [at |-> "fetch", name |-> n, file |-> reader.file, half |-> reader.half,
                   reads |-> reader.reads + 1]
    BY <1>2, <1>6
  <2>3. /\ reader' \in [at : Ats, name : Names, file : {Nothing} \cup Identities,
                        half : {0, 1}, reads : Nat]
        /\ reader'.at = "fetch" /\ reader'.half = 0 /\ reader'.name = n
    BY <1>2, <1>3, <2>1, <2>2
  <2>4. Facts(n) \in Observations /\ Observed(Facts(n), files)
    BY <1>2, <1>6, FactsType
  <2>5. facts' \in [Names -> Observations]
    BY <1>2, <1>6, <2>4
  <2>6. FactsHold'
    BY <1>1, <1>2, <1>3, <1>6, <2>4 DEF Inv, FactsHold, Observed
  <2>7. ReadInPart'
    BY <2>3 DEF ReadInPart
  <2>8. facts'[n] # NoFacts
    BY <1>2, <1>6, <2>4, NamesType DEF Observed, NoFacts
  <2>9. OperationHolds'
    BY <1>1, <1>2, <1>3, <1>6, <2>3, <2>8 DEF Inv, OperationHolds, UnderWay, Capturing, Fetching
  <2>10. QED
    BY <1>1, <1>2, <1>3, <1>6, <2>3, <2>5, <2>6, <2>7, <2>9, OperationInv DEF Fetching
<1>7. QED
  BY <1>1, <1>4, <1>5, <1>6 DEF Request

LEMMA FetchInv == Inv /\ Fetch => Inv'
<1>1. SUFFICES ASSUME Inv, Fetch PROVE Inv'
  OBVIOUS
<1> DEFINE n == reader.name
           f == facts[n]
           file == IF reader.half = 0 THEN disk[n] ELSE reader.file
<1>2. /\ reader \in [at : Ats, name : Names, file : {Nothing} \cup Identities,
                     half : {0, 1}, reads : Nat]
      /\ disk \in [Names -> {Nothing} \cup Identities] /\ facts \in [Names -> Observations]
      /\ n \in Names /\ TypeInv
  BY <1>1 DEF Inv, TypeInv
<1>3. reader.at = "fetch" /\ UNCHANGED <<disk, files, moment>>
  BY <1>1 DEF Fetch
<1>4. CASE file = Nothing
  BY <1>1, <1>2, <1>3, <1>4, FailInv DEF Fetch
<1>5. CASE file # Nothing
  <2>1. file \in Identities
    BY <1>2, <1>5
  <2>2. Read(n, file) /\ UNCHANGED facts
    BY <1>1, <1>5 DEF Fetch
  <2>3. /\ bytes' \in [Names -> Seq(Half)]
        /\ \A m \in Names \ {n} : bytes'[m] = bytes[m]
        /\ reader.half = 0 => bytes'[n] = <<Last(files, file)[1]>>
        /\ reader.half = 1 /\ bytes[n] = <<Last(files, file)[1]>> => bytes'[n] = Last(files, file)
    <3> HIDE DEF n, file
    <3> QED
      BY <1>2, <2>1, <2>2, ReadType
  <2>4. "fetch" \in Ats /\ "fetched" \in Ats
    BY DEF Ats
  <2>8. /\ FactsHold'
        /\ reader'.at \in Fetching /\ reader'.name = n => OperationHolds'
    <3>1. FactsHold'
      BY <1>1, <1>3, <2>2 DEF Inv, FactsHold, Observed
    <3>2. ASSUME reader'.at \in Fetching, reader'.name = n
          PROVE  OperationHolds'
      <4>1. UnderWay = {n} /\ UnderWay' = {n}
        BY <1>3, <3>2 DEF UnderWay, Fetching, Capturing
      <4>2. \A m \in Names \ {n} : bytes[m] # Unread =>
              facts[m] # NoFacts /\ bytes[m] = files[facts[m].file].held[facts[m].length]
        BY <1>1, <1>3, <4>1 DEF Inv, OperationHolds, Fetching
      <4>3. f # NoFacts
        BY <1>1, <1>3 DEF Inv, OperationHolds, Fetching
      <4>4. \A m \in Names \ {n} : bytes'[m] # Unread =>
              facts'[m] # NoFacts /\ bytes'[m] = files'[facts'[m].file].held[facts'[m].length]
        BY <1>3, <2>2, <2>3, <4>2
      <4>5. facts'[reader'.name] # NoFacts
        BY <2>2, <3>2, <4>3
      <4>6. QED
        BY <4>1, <4>4, <4>5 DEF OperationHolds
    <3>3. QED
      BY <3>1, <3>2
  <2>5. CASE reader.half = 0
    <3>1. reader' = [reader EXCEPT !.half = 1, !.file = file]
      BY <1>1, <1>5, <2>5 DEF Fetch
    <3>2. reader' = [at |-> "fetch", name |-> n, file |-> file, half |-> 1,
                     reads |-> reader.reads]
      BY <1>2, <1>3, <3>1
    <3>3. /\ reader' \in [at : Ats, name : Names, file : {Nothing} \cup Identities,
                          half : {0, 1}, reads : Nat]
          /\ reader'.at = "fetch" /\ reader'.name = n /\ reader'.file = file
      BY <1>2, <2>1, <2>4, <3>2
    <3>4. ReadInPart'
      BY <1>3, <2>1, <2>2, <2>3, <2>5, <3>3 DEF ReadInPart, Still, Last
    <3>5. QED
      BY <1>1, <1>2, <1>3, <2>2, <2>3, <2>8, <3>3, <3>4, OperationInv DEF Fetching
  <2>6. CASE reader.half = 1
    <3>1. reader' = [reader EXCEPT !.at = "fetched", !.half = 0, !.file = Nothing]
      BY <1>1, <1>5, <2>6 DEF Fetch
    <3>2. reader' = [at |-> "fetched", name |-> n, file |-> Nothing, half |-> 0,
                     reads |-> reader.reads]
      BY <1>2, <3>1
    <3>3. /\ reader' \in [at : Ats, name : Names, file : {Nothing} \cup Identities,
                          half : {0, 1}, reads : Nat]
          /\ reader'.at = "fetched" /\ reader'.name = n
      BY <1>2, <2>4, <3>2
    <3>4. disk[n] = f.file /\ Still(f) =>
            reader.file = f.file /\ bytes[n] = <<Last(files, f.file)[1]>>
      BY <1>1, <1>3, <2>6 DEF Inv, ReadInPart
    <3>5. disk[n] = f.file /\ Still(f) => bytes'[n] = Last(files, f.file)
      BY <2>3, <2>6, <3>4
    <3>6. ReadInPart'
      BY <1>3, <2>2, <3>3, <3>5 DEF ReadInPart, Still, Last
    <3>7. QED
      BY <1>1, <1>2, <1>3, <2>2, <2>3, <2>8, <3>3, <3>6, OperationInv DEF Fetching
  <2>7. QED
    BY <1>2, <2>5, <2>6
<1>6. QED
  BY <1>4, <1>5

LEMMA FetchedInv == Inv /\ Fetched => Inv'
<1>1. SUFFICES ASSUME Inv, Fetched PROVE Inv'
  OBVIOUS
<1> DEFINE n == reader.name
           f == facts[n]
<1>2. /\ disk \in [Names -> {Nothing} \cup Identities] /\ facts \in [Names -> Observations]
      /\ bytes \in [Names -> Seq(Half)] /\ n \in Names /\ TypeInv
  BY <1>1 DEF Inv, TypeInv
<1>3. reader.at = "fetched" /\ UNCHANGED <<disk, files, moment>>
  BY <1>1 DEF Fetched
<1>4. CASE Fail
  BY <1>1, <1>2, <1>3, <1>4, FailInv
<1>5. CASE Same(Facts(n), f) /\ Step("operate", 1) /\ UNCHANGED <<facts, bytes>>
  <2>1. f # NoFacts
    BY <1>1, <1>3 DEF Inv, OperationHolds, Fetching
  <2>2. disk[n] # Nothing /\ Facts(n) = f
    BY <1>2, <1>5, <2>1, FactsType DEF Same
  <2>3. f.file = disk[n] /\ Still(f)
    BY <1>2, <2>2, FactsType
  <2>4. bytes[n] = Last(files, f.file)
    BY <1>1, <1>3, <2>3 DEF Inv, ReadInPart
  <2>5. bytes[n] = files[f.file].held[f.length]
    BY <2>3, <2>4 DEF Still, Last
  <2>6. /\ reader'.at = "operate" /\ reader'.half = 0
        /\ reader' \in [at : Ats, name : Names, file : {Nothing} \cup Identities,
                        half : {0, 1}, reads : Nat]
    BY <1>2, <1>5, NamesType, StepType DEF Ats
  <2>7. FactsHold' /\ ReadInPart'
    BY <1>1, <1>3, <1>5, <2>6 DEF Inv, FactsHold, Observed, ReadInPart
  <2>8. OperationHolds'
    <3>1. UnderWay = {n} /\ UnderWay' = {}
      BY <1>3, <2>6 DEF UnderWay, Fetching, Capturing
    <3>2. \A m \in Names \ {n} : bytes[m] # Unread =>
            facts[m] # NoFacts /\ bytes[m] = files[facts[m].file].held[facts[m].length]
      BY <1>1, <1>3, <3>1 DEF Inv, OperationHolds, Fetching
    <3>3. \A m \in Names : bytes[m] # Unread =>
            facts[m] # NoFacts /\ bytes[m] = files[facts[m].file].held[facts[m].length]
      BY <2>1, <2>5, <3>2
    <3>4. QED
      BY <1>3, <1>5, <2>6, <3>3 DEF OperationHolds, Fetching
  <2>9. QED
    BY <1>1, <1>2, <1>3, <1>5, <2>6, <2>7, <2>8, OperationInv
<1>6. QED
  BY <1>1, <1>4, <1>5 DEF Fetched

LEMMA MoveInv == Inv /\ Move => Inv'
<1>1. SUFFICES ASSUME Inv, Move PROVE Inv'
  OBVIOUS
<1>2. /\ reader \in [at : Ats, name : Names, file : {Nothing} \cup Identities,
                     half : {0, 1}, reads : Nat]
      /\ disk \in [Names -> {Nothing} \cup Identities] /\ facts \in [Names -> Observations]
      /\ bytes \in [Names -> Seq(Half)]
  BY <1>1 DEF Inv, TypeInv
<1>3. PICK n \in Names, m \in Names :
        /\ bytes[n] # Unread /\ bytes[m] = Unread
        /\ disk' = [disk EXCEPT ![m] = disk[n], ![n] = Nothing]
        /\ \/ /\ facts' = [facts EXCEPT ![m] = facts[n], ![n] = NoFacts]
              /\ bytes' = [bytes EXCEPT ![m] = bytes[n], ![n] = Unread]
              /\ reader' = [reader EXCEPT !.reads = @ + 1]
           \/ Fail
  BY <1>1 DEF Move
<1>4. reader.at = "operate" /\ reader.half = 0 /\ UNCHANGED <<files, moment>>
  BY <1>1 DEF Move, Inv, ReadInPart
<1>5. disk' \in [Names -> {Nothing} \cup Identities] /\ n # m
  BY <1>2, <1>3
<1>6. CASE Fail
  BY <1>1, <1>4, <1>5, <1>6, FailInv
<1>7. CASE /\ facts' = [facts EXCEPT ![m] = facts[n], ![n] = NoFacts]
           /\ bytes' = [bytes EXCEPT ![m] = bytes[n], ![n] = Unread]
           /\ reader' = [reader EXCEPT !.reads = @ + 1]
  <2>1. NoFacts \in Observations /\ Unread \in Seq(Half)
    BY DEF NoFacts, Observations, Unread
  <2>2. /\ facts' \in [Names -> Observations] /\ bytes' \in [Names -> Seq(Half)]
        /\ facts'[m] = facts[n] /\ facts'[n] = NoFacts
        /\ bytes'[m] = bytes[n] /\ bytes'[n] = Unread
        /\ \A k \in Names \ {n, m} : facts'[k] = facts[k] /\ bytes'[k] = bytes[k]
    BY <1>2, <1>5, <1>7, <2>1
  <2>3. /\ reader' \in [at : Ats, name : Names, file : {Nothing} \cup Identities,
                        half : {0, 1}, reads : Nat]
        /\ reader'.at = "operate" /\ reader'.half = 0
    <3>1. reader' = [at |-> "operate", name |-> reader.name, file |-> reader.file,
                     half |-> 0, reads |-> reader.reads + 1]
      BY <1>2, <1>4, <1>7
    <3>2. "operate" \in Ats
      BY DEF Ats
    <3>3. QED
      BY <1>2, <3>1, <3>2
  <2>4. FactsHold'
    <3>1. \A k \in Names : facts'[k] = NoFacts \/ Observed(facts'[k], files)
      BY <1>1, <1>3, <2>2 DEF Inv, FactsHold
    <3>2. QED
      BY <1>4, <3>1 DEF FactsHold, Observed
  <2>5. ReadInPart'
    BY <2>3 DEF ReadInPart
  <2>6. OperationHolds'
    <3>1. UnderWay = {}
      BY <1>4 DEF UnderWay, Fetching, Capturing
    <3>2. \A k \in Names : bytes[k] # Unread =>
            facts[k] # NoFacts /\ bytes[k] = files[facts[k].file].held[facts[k].length]
      BY <1>1, <1>4, <3>1 DEF Inv, OperationHolds
    <3>3. \A k \in Names : bytes'[k] # Unread =>
            facts'[k] # NoFacts /\ bytes'[k] = files[facts'[k].file].held[facts'[k].length]
      BY <1>3, <2>2, <3>2
    <3>4. QED
      BY <1>4, <2>3, <3>3 DEF OperationHolds, Fetching
  <2>7. QED
    BY <1>1, <1>4, <1>5, <2>2, <2>3, <2>4, <2>5, <2>6, OperationInv
<1>8. QED
  BY <1>3, <1>6, <1>7

-----------------------------------------------------------------------------
(* The check of every entry                                                *)

\* Every entry stands for what its file held when it was read.
LEMMA EntriesHold ==
  ASSUME Inv, reader.at \in {"operate", "check", "checked"}, NEW n \in Names, bytes[n] # Unread
  PROVE  /\ facts[n] # NoFacts /\ Observed(facts[n], files)
         /\ bytes[n] = files[facts[n].file].held[facts[n].length]
<1>1. n \notin UnderWay
  BY DEF UnderWay, Fetching, Capturing
<1>2. QED
  BY <1>1 DEF Inv, OperationHolds, FactsHold

LEMMA CheckAllInv == Inv /\ CheckAll => Inv'
<1>1. SUFFICES ASSUME Inv, CheckAll PROVE Inv'
  OBVIOUS
<1>2. /\ reader.at = "operate" /\ Step("check", 1) /\ moment' = files
      /\ UNCHANGED <<disk, files, facts, bytes>>
  BY <1>1 DEF CheckAll
<1>3. /\ reader'.at = "check" /\ reader'.name = 1
      /\ reader' \in [at : Ats, name : Names, file : {Nothing} \cup Identities,
                      half : {0, 1}, reads : Nat]
  BY <1>1, <1>2, NamesType, StepType DEF Inv, Ats
<1>4. TypeInv'
  BY <1>1, <1>2, <1>3 DEF Inv, TypeInv
<1>5. Grew(moment, files)'
  <2>1. \A i \in Identities : Len(files[i].held) \in Nat
    BY <1>1, LastType DEF Inv
  <2>2. QED
    BY <1>2, <2>1 DEF Grew
<1>6. FactsHold'
  BY <1>1, <1>2 DEF Inv, FactsHold, Observed
<1>7. ReadInPart' /\ BatchHolds'
  BY <1>3 DEF ReadInPart, BatchHolds, Capturing
<1>8. \A n \in Names : bytes[n] # Unread =>
        /\ facts[n] # NoFacts /\ Observed(facts[n], files)
        /\ bytes[n] = files[facts[n].file].held[facts[n].length]
  BY <1>1, <1>2, EntriesHold
<1>9. OperationHolds'
  BY <1>2, <1>3, <1>8 DEF OperationHolds, Fetching
<1>10. CheckHolds'
  <2>1. \A n \in Names : ~(n < 1)
    BY ReadsAssumption, NamesType
  <2>2. \A n \in Names : bytes[n] # Unread => Observed(facts[n], files)
    BY <1>8
  <2>3. QED
    BY <1>2, <1>3, <2>1, <2>2 DEF CheckHolds, Observed
<1>11. QED
  BY <1>4, <1>5, <1>6, <1>7, <1>9, <1>10 DEF Inv

LEMMA CheckEntryInv == Inv /\ CheckEntry => Inv'
<1>1. SUFFICES ASSUME Inv, CheckEntry PROVE Inv'
  OBVIOUS
<1> DEFINE n == reader.name
           f == facts[n]
<1>2. reader.at = "check" /\ UNCHANGED <<disk, files, moment>> /\ n \in Names /\ TypeInv
  BY <1>1 DEF CheckEntry, Inv, TypeInv
<1>3. CASE Fail
  <2>1. disk' \in [Names -> {Nothing} \cup Identities]
    BY <1>2 DEF TypeInv
  <2>2. QED
    BY <1>1, <1>2, <1>3, <2>1, FailInv
<1>4. CASE /\ bytes[n] # Unread => Same(Facts(n), f)
           /\ IF Beyond(n) THEN Step("checked", n) ELSE Step("check", n + 1)
           /\ UNCHANGED <<facts, bytes>>
  <2>1. PICK at \in {"check", "checked"}, k \in Names :
          /\ Step(at, k)
          /\ at = "check" => k = n + 1
          /\ at = "checked" => Beyond(n)
    BY <1>2, <1>4, NamesType
  <2>2. /\ reader'.at = at /\ reader'.name = k
        /\ reader' \in [at : Ats, name : Names, file : {Nothing} \cup Identities,
                        half : {0, 1}, reads : Nat]
    BY <1>2, <2>1, StepType DEF Ats
  <2>3. \A m \in Names : bytes[m] # Unread =>
          /\ facts[m] # NoFacts /\ Observed(facts[m], files)
          /\ bytes[m] = files[facts[m].file].held[facts[m].length]
    BY <1>1, <1>2, EntriesHold
  <2>4. \A m \in Names : bytes[m] # Unread =>
          /\ Observed(facts[m], moment)
          /\ m < n => Len(moment[facts[m].file].held) = facts[m].length
    BY <1>1, <1>2 DEF Inv, CheckHolds
  <2>5. ASSUME bytes[n] # Unread
        PROVE  Len(moment[f.file].held) = f.length
    <3>1. f # NoFacts /\ Observed(f, moment)
      BY <1>2, <2>3, <2>4, <2>5
    <3>2. disk[n] # Nothing /\ Facts(n) = f
      BY <1>2, <1>4, <2>5, <3>1, FactsType DEF Same
    <3>3. Still(f)
      BY <1>2, <3>2, FactsType
    <3>4. QED
      <4> HIDE DEF f
      <4> QED
        BY <1>1, <3>1, <3>3, StillAtTheMoment
  <2>6. \A m \in Names : m < k \/ at = "checked" => m <= n
    <3>1. \A m \in Names : m \in Nat /\ m <= Cardinality(Names)
      BY NamesType
    <3>2. CASE at = "check"
      BY <1>2, <2>1, <3>1, <3>2
    <3>3. CASE at = "checked"
      BY <1>2, <2>1, <3>1, <3>3 DEF Beyond
    <3>4. QED
      BY <3>2, <3>3
  <2>7. \A m \in Names : m <= n => m = n \/ m < n
    <3>1. n \in Nat /\ \A m \in Names : m \in Nat
      BY <1>2, NamesType
    <3>2. QED
      <4> HIDE DEF n
      <4> QED
        BY <3>1
  <2>8. CheckHolds'
    <3>1. \A m \in Names : bytes[m] # Unread =>
            /\ Observed(facts[m], moment)
            /\ m < k \/ at = "checked" => Len(moment[facts[m].file].held) = facts[m].length
      BY <2>4, <2>5, <2>6, <2>7
    <3>2. QED
      BY <1>2, <1>4, <2>2, <3>1 DEF CheckHolds, Observed
  <2>9. OperationHolds'
    BY <1>2, <1>4, <2>2, <2>3 DEF OperationHolds, Fetching
  <2>10. TypeInv'
    BY <1>2, <1>4, <2>2 DEF TypeInv
  <2>11. Grew(moment, files)' /\ FactsHold'
    BY <1>1, <1>2, <1>4 DEF Inv, Grew, FactsHold, Observed
  <2>12. ReadInPart' /\ BatchHolds'
    BY <2>2 DEF ReadInPart, BatchHolds, Capturing
  <2>13. QED
    BY <2>8, <2>9, <2>10, <2>11, <2>12 DEF Inv
<1>5. QED
  BY <1>1, <1>3, <1>4 DEF CheckEntry

-----------------------------------------------------------------------------
(* The theorem                                                             *)

LEMMA InitInv == ReadsInit => Inv
<1>1. SUFFICES ASSUME ReadsInit PROVE Inv
  OBVIOUS
<1>2. /\ \A n \in Names : n \in Identities
      /\ 1 \in Names
  BY NamesType
<1>3. disk \in [Names -> {Nothing} \cup Identities]
  BY <1>1, <1>2 DEF ReadsInit
<1>4. PICK kind \in {"regular", "other"} :
        files = [i \in Identities |->
                   [held |-> <<<<0, 0>>>>, kind |-> IF i = 2 THEN kind ELSE "regular"]]
  BY <1>1 DEF ReadsInit
<1>5. <<0, 0>> \in Body
  BY DEF Body
<1>6. <<<<0, 0>>>> \in Seq(Body) /\ Len(<<<<0, 0>>>>) = 1 /\ <<<<0, 0>>>> # <<>>
  BY <1>5
<1>7. files \in FileStates /\ \A i \in Identities : files[i].held # <<>> /\ Len(files[i].held) = 1
  BY <1>4, <1>6 DEF FileStates
<1>8. /\ moment = files /\ facts = [n \in Names |-> NoFacts] /\ bytes = [n \in Names |-> Unread]
      /\ reader \in [at : {"pin", "operate"}, name : {1}, file : {Nothing}, half : {0}, reads : {0}]
  BY <1>1 DEF ReadsInit
<1>9. NoFacts \in Observations /\ Unread \in Seq(Half)
  BY DEF NoFacts, Observations, Unread
<1>10. reader \in [at : Ats, name : Names, file : {Nothing} \cup Identities,
                   half : {0, 1}, reads : Nat]
  BY <1>2, <1>8 DEF Ats
<1>11. TypeInv
  BY <1>3, <1>7, <1>8, <1>9, <1>10 DEF TypeInv
<1>12. Grew(moment, files) /\ FactsHold
  BY <1>7, <1>8 DEF Grew, FactsHold
<1>13. Used = {}
  BY <1>8 DEF Used
<1>14. ReadInPart /\ BatchHolds /\ OperationHolds /\ CheckHolds
  BY <1>8, <1>13 DEF ReadInPart, BatchHolds, OperationHolds, CheckHolds, Fetching, Capturing
<1>15. QED
  BY <1>11, <1>12, <1>14 DEF Inv

THEOREM Invariance == ReadsSpec => []Inv
<1>1. Inv /\ [ReadsNext]_readVars => Inv'
  <2>1. ASSUME Inv, UNCHANGED readVars PROVE Inv'
    BY <2>1 DEF readVars, Inv, TypeInv, Grew, FactsHold, ReadInPart, BatchHolds, OperationHolds,
                CheckHolds, Used, UnderWay, Observed, Last, Still
  <2>2. QED
    BY <2>1, WriteInv, RelinkInv, PinSourceInv, LocateInv, BeforeReadInv, ReadBodyInv,
       AfterReadInv, RequestInv, FetchInv, FetchedInv, MoveInv, CheckAllInv, CheckEntryInv
       DEF ReadsNext
<1>2. QED
  BY <1>1, InitInv, PTL DEF ReadsSpec

(* No read is torn: what one batch captured (sources.py), and what one     *)
(* operation answers for when its check is over (_operation.py), was on    *)
(* disk together at one moment, whatever other processes wrote, renamed or *)
(* put back meanwhile; and no batch has one file under two names.          *)
THEOREM NothingTorn == ReadsSpec => []UsedTogether
<1>1. Inv => UsedTogether
  <2>1. SUFFICES ASSUME Inv PROVE UsedTogether
    OBVIOUS
  <2>2. ASSUME reader.at = "captured"
        PROVE  /\ \A n \in Used : bytes[n] = Last(moment, facts[n].file)
               /\ \A m, n \in Used : m # n => facts[m].file # facts[n].file
    <3>1. UnderWay = {}
      BY <2>2 DEF UnderWay, Capturing, Fetching
    <3>2. Used \subseteq Names
      BY DEF Used
    <3>3. QED
      BY <2>1, <2>2, <3>1, <3>2 DEF Inv, BatchHolds
  <2>3. ASSUME reader.at = "checked", NEW n \in Used
        PROVE  bytes[n] = Last(moment, facts[n].file)
    <3>1. n \in Names /\ bytes[n] # Unread
      BY <2>3 DEF Used
    <3>2. /\ Observed(facts[n], moment)
          /\ Len(moment[facts[n].file].held) = facts[n].length
      BY <2>1, <2>3, <3>1 DEF Inv, CheckHolds
    <3>3. bytes[n] = files[facts[n].file].held[facts[n].length]
      BY <2>1, <2>3, <3>1, EntriesHold
    <3>4. moment[facts[n].file].held[facts[n].length] = files[facts[n].file].held[facts[n].length]
      BY <2>1, <3>2, StillAtTheMoment
    <3>5. QED
      BY <3>2, <3>3, <3>4 DEF Last
  <2>4. QED
    BY <2>2, <2>3 DEF UsedTogether, Last
<1>2. QED
  BY <1>1, Invariance, PTL
=============================================================================
