------------------------------ MODULE FileReads ------------------------------
(***************************************************************************)
(* How bytes enter the program while other processes may change them: the  *)
(* batch capture of source files (sources.py), and the reads of stored     *)
(* files that one service operation shares (_operation.py).                *)
(*                                                                         *)
(* A name leads to a file or to nothing.  A file is the sequence of what   *)
(* it held, one entry for every write: its length stands for the facts     *)
(* (size, times) that every write changes.  Contents have two halves that  *)
(* are read one after the other.                                           *)
(***************************************************************************)
EXTENDS Integers, Sequences, FiniteSets

CONSTANTS
  Names,        \* the locators of a batch, in its order, as 1..n
  MaxChanges,   \* bound: changes made by other processes
  MaxReads      \* bound: reads of one operation

ASSUME ReadsAssumption ==
  /\ IsFiniteSet(Names) /\ Names = 1..Cardinality(Names) /\ Names # {}
  /\ {MaxChanges, MaxReads} \subseteq Nat

VARIABLES
  disk,      \* the file that every name leads to
  files,     \* [held, kind] of every file
  reader,    \* [at, name, file, half, reads]: the step, the file open for it
  facts,     \* what it observed first of a name: the file and its length
  bytes,     \* what it has read or was refused, by name
  moment     \* the files when the last name was pinned, or the check began

readVars == <<disk, files, reader, facts, bytes, moment>>

Nothing == 0
Identities == 1..(Cardinality(Names) + MaxChanges)
NoFacts == [file |-> Nothing, length |-> 0]
Missing == <<"missing">>
Changed == <<"changed">>
Unread == <<>>

Facts(name) ==
  IF disk[name] = Nothing THEN NoFacts
  ELSE [file |-> disk[name], length |-> Len(files[disk[name]].held)]

\* The facts of a descriptor that is already open.
Opened(name) == [file |-> facts[name].file, length |-> Len(files[facts[name].file].held)]

Was(files_, f) == files_[f.file].held[f.length]

ReadsInit ==
  /\ \E linked \in BOOLEAN, kind \in {"regular", "other"} :
       /\ disk = [n \in Names |-> IF linked THEN 1 ELSE n]
       /\ files = [i \in Identities |->
            [held |-> <<<<0, 0>>>>, kind |-> IF i = 2 THEN kind ELSE "regular"]]
  /\ reader \in [at : {"pin", "operate"}, name : {1}, file : {Nothing}, half : {0}, reads : {0}]
  /\ facts = [n \in Names |-> NoFacts]
  /\ bytes = [n \in Names |-> Unread]
  /\ moment = files

-----------------------------------------------------------------------------
(* Other processes *)

Changes == Cardinality({c \in Identities \X (2..(MaxChanges + 1)) :
                          c[2] <= Len(files[c[1]].held)})

Touched(i, body) == files' = [files EXCEPT ![i].held = Append(@, body)]

Write ==
  \E i \in Identities, half \in 1..2 :
    /\ Changes < MaxChanges
    /\ LET held == files[i].held
       IN  Touched(i, [held[Len(held)] EXCEPT ![half] = Len(held)])
    /\ UNCHANGED <<disk, reader, facts, bytes, moment>>

\* A name is taken away, or given to a file that no name leads to; either
\* changes the times of the file.
Relink ==
  \E n \in Names, i \in {Nothing} \cup (Identities \ {disk[m] : m \in Names}) :
    /\ Changes < MaxChanges /\ disk[n] # i
    /\ disk' = [disk EXCEPT ![n] = i]
    /\ LET touched == IF i = Nothing THEN disk[n] ELSE i
       IN  Touched(touched, files[touched].held[Len(files[touched].held)])
    /\ UNCHANGED <<reader, facts, bytes, moment>>

-----------------------------------------------------------------------------
(* Capture of a batch *)

Step(at, name) == reader' = [reader EXCEPT !.at = at, !.name = name, !.half = 0]
Beyond(name) == name = Cardinality(Names)

Verdict(name, verdict) == bytes' = [bytes EXCEPT ![name] = verdict]

\* The next name to be read, if it was pinned; the others have their verdict.
NextCapture(name) ==
  LET rest == {n \in Names : n > name /\ facts[n] # NoFacts}
  IN  IF rest = {} THEN Step("captured", name)
      ELSE \E n \in rest : (\A m \in rest : n <= m) /\ Step("locate", n)

Alias(name) == \E m \in Names : facts[m].file = disk[name]

\* _pin_source_at: the descriptor is opened and its facts are kept.
PinSource ==
  /\ reader.at = "pin"
  /\ LET n == reader.name
         regular == disk[n] # Nothing /\ files[disk[n]].kind = "regular"
         alias == regular /\ Alias(n)
     IN  /\ facts' = IF regular THEN [facts EXCEPT ![n] = Facts(n)] ELSE facts
         /\ bytes' = IF regular THEN bytes ELSE [bytes EXCEPT ![n] = Missing]
         /\ moment' = files
         /\ IF alias THEN Step("refused", n)
            ELSE IF ~Beyond(n) THEN Step("pin", n + 1)
            ELSE LET found == {m \in Names : facts'[m] # NoFacts}
                 IN  IF found = {} THEN Step("captured", n)
                     ELSE \E m \in found : (\A k \in found : m <= k) /\ Step("locate", m)
  /\ UNCHANGED <<disk, files>>

Refuse(n) == Verdict(n, Changed) /\ NextCapture(n)

\* Mutant of Same: the file is the same, whatever was written to it.
SameFile(observed, before) == observed.file = before.file

\* _same_source_snapshot
Same(observed, before) == observed = before

\* _capture_at: the locator is opened once more ...
Locate ==
  /\ reader.at = "locate"
  /\ IF Same(Facts(reader.name), facts[reader.name])
       THEN Step("before", reader.name) /\ UNCHANGED bytes
       ELSE Refuse(reader.name)
  /\ UNCHANGED <<disk, files, facts, moment>>

\* ... the descriptor is compared before the read ...
BeforeRead ==
  /\ reader.at = "before"
  /\ IF Same(Opened(reader.name), facts[reader.name])
       THEN Step("body", reader.name) /\ UNCHANGED bytes
       ELSE Refuse(reader.name)
  /\ UNCHANGED <<disk, files, facts, moment>>

Read(name, file) ==
  LET held == files[file].held
      half == reader.half + 1
  IN  Verdict(name, Append(IF half = 1 THEN <<>> ELSE bytes[name], held[Len(held)][half]))

\* ... its body is read from beginning to end ...
ReadBody ==
  /\ reader.at = "body"
  /\ Read(reader.name, facts[reader.name].file)
  /\ reader' = IF reader.half = 0 THEN [reader EXCEPT !.half = 1]
                                  ELSE [reader EXCEPT !.at = "after", !.half = 0]
  /\ UNCHANGED <<disk, files, facts, moment>>

\* ... and once more after it.
AfterRead ==
  /\ reader.at = "after"
  /\ IF Same(Opened(reader.name), facts[reader.name])
       THEN NextCapture(reader.name) /\ UNCHANGED bytes
       ELSE Refuse(reader.name)
  /\ UNCHANGED <<disk, files, facts, moment>>

-----------------------------------------------------------------------------
(* Reads of one operation *)

Fail == Step("failed", reader.name) /\ UNCHANGED <<facts, bytes>>

\* Operation.entry: a name read before is compared and answered from the
\* spool; another is observed, read, and observed again.
Request ==
  /\ reader.at = "operate" /\ reader.reads < MaxReads
  /\ \E n \in Names :
       IF bytes[n] # Unread
         THEN IF Same(Facts(n), facts[n])
                THEN reader' = [reader EXCEPT !.reads = @ + 1] /\ UNCHANGED <<facts, bytes>>
                ELSE Fail
         ELSE IF disk[n] = Nothing THEN Fail
         ELSE /\ facts' = [facts EXCEPT ![n] = Facts(n)]
              /\ reader' = [reader EXCEPT !.at = "fetch", !.name = n, !.reads = @ + 1]
              /\ UNCHANGED bytes
  /\ UNCHANGED <<disk, files, moment>>

\* The path is opened, and the open file is read.
Fetch ==
  /\ reader.at = "fetch"
  /\ LET file == IF reader.half = 0 THEN disk[reader.name] ELSE reader.file
     IN  IF file = Nothing THEN Fail
         ELSE /\ Read(reader.name, file)
              /\ reader' = IF reader.half = 0
                   THEN [reader EXCEPT !.half = 1, !.file = file]
                   ELSE [reader EXCEPT !.at = "fetched", !.half = 0, !.file = Nothing]
              /\ UNCHANGED facts
  /\ UNCHANGED <<disk, files, moment>>

Fetched ==
  /\ reader.at = "fetched"
  /\ IF Same(Facts(reader.name), facts[reader.name])
       THEN Step("operate", 1) /\ UNCHANGED <<facts, bytes>>
       ELSE Fail
  /\ UNCHANGED <<disk, files, moment>>

\* Operation.move: a staged file is renamed, observed under its new name and
\* keeps its entry if it is the same file.  Here it moves to a free name.
Move ==
  /\ reader.at = "operate" /\ reader.reads < MaxReads
  /\ \E n, m \in Names :
       /\ bytes[n] # Unread /\ bytes[m] = Unread
       /\ disk[n] # Nothing /\ disk[m] = Nothing
       /\ disk' = [disk EXCEPT ![m] = disk[n], ![n] = Nothing]
       /\ IF facts[n] = [file |-> disk[n], length |-> Len(files[disk[n]].held)]
            THEN /\ facts' = [facts EXCEPT ![m] = facts[n], ![n] = NoFacts]
                 /\ bytes' = [bytes EXCEPT ![m] = bytes[n], ![n] = Unread]
                 /\ reader' = [reader EXCEPT !.reads = @ + 1]
            ELSE Fail
  /\ UNCHANGED <<files, moment>>

\* Operation.check_all, before a memoized result is reused and before the
\* operation publishes: every entry in turn.
CheckAll ==
  /\ reader.at = "operate"
  /\ Step("check", 1) /\ moment' = files
  /\ UNCHANGED <<disk, files, facts, bytes>>

CheckEntry ==
  /\ reader.at = "check"
  /\ LET n == reader.name
     IN  IF bytes[n] # Unread /\ ~Same(Facts(n), facts[n]) THEN Fail
         ELSE /\ IF Beyond(n) THEN Step("checked", n) ELSE Step("check", n + 1)
              /\ UNCHANGED <<facts, bytes>>
  /\ UNCHANGED <<disk, files, moment>>

ReadsDone == reader.at \in {"captured", "refused", "failed", "checked"}

ReadsNext ==
  \/ Write \/ Relink
  \/ PinSource \/ Locate \/ BeforeRead \/ ReadBody \/ AfterRead
  \/ Request \/ Fetch \/ Fetched \/ Move \/ CheckAll \/ CheckEntry

ReadsSpec == ReadsInit /\ [][ReadsNext]_readVars

-----------------------------------------------------------------------------
(* Properties *)

Used == {n \in Names : bytes[n] \notin {Unread, Missing, Changed}}

\* What one batch captured, and what one operation answers for when its check
\* is over, was on disk together: at one moment every file held the bytes that
\* were read of it, in two halves and at another time than the other files.
\* Nor does a batch hold one file under two names (capture_source_batch).
UsedTogether ==
  /\ reader.at \in {"captured", "checked"} =>
       \A n \in Used : bytes[n] = moment[facts[n].file].held[Len(moment[facts[n].file].held)]
  /\ reader.at = "captured" =>
       \A m, n \in Used : m # n => facts[m].file # facts[n].file
=============================================================================
