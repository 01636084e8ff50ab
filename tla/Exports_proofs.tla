---------------------------- MODULE Exports_proofs ----------------------------
(***************************************************************************)
(* Machine-checked proofs at both grains.  Publication: for any            *)
(* workspaces, exporters, packagers, destination names and datasets, and   *)
(* every fault.  ExportTree: for every plan, every number of intrusions    *)
(* and every order of reading, from an inductive invariant over what was   *)
(* noted of every entry, at present and at the moment when the latest walk *)
(* began; then CleansUpItsOwn, over what an export made and recorded.      *)
(***************************************************************************)
EXTENDS Exports, TLAPS

-----------------------------------------------------------------------------
(* Types                                                                   *)

\* Where a process can be: each kind stays in its own program.
Program(p) ==
  {"idle", "clean", "sync", "write", "publish"} \cup
    (IF p \in Workspaces THEN SealPcs
     ELSE IF p \in Exporters THEN ExportPcs \cup {"check"} ELSE PackagePcs)
Placed == \A p \in Processes : pc[p] \in Program(p)

\* A process that is running, or has finished something, was asked for it.
Asked ==
  \A p \in Processes :
    pc[p] # "idle" \/ told[p].kind = "done" \/ made[p] # Nothing => job[p] \in Job

\* A report is only there between two operations, or when a cleanup is all
\* that is left of one; only a seal cleans up before it knows its report.
Silent ==
  \A p \in Processes : pc[p] # "idle" =>
    /\ pc[p] # "clean" => told[p].kind = "none"
    /\ told[p].kind \notin {"done", "killed"}
    /\ pc[p] = "clean" /\ told[p].kind = "none" => p \in Workspaces

\* What is about to be published is what was asked for.
Staged ==
  \A p \in Processes : pc[p] \in StagingPcs => staged[p] = job[p].makes

TypeInv == TypeOK /\ Placed /\ Asked /\ Silent /\ Staged

AllPcs == {"idle", "clean", "sync"} \cup SealPcs \cup ExportPcs \cup PackagePcs \cup StagingPcs

LEMMA Roles ==
  /\ \A w \in Workspaces : w \in Processes /\ w \notin Exporters /\ w \notin Packagers
  /\ \A e \in Exporters : e \in Processes /\ e \notin Workspaces /\ e \notin Packagers
  /\ \A a \in Packagers : a \in Processes /\ a \notin Workspaces /\ a \notin Exporters
BY PublicationAssumption DEF Processes

LEMMA ProgramPcs == \A p \in Processes : Program(p) \subseteq AllPcs
BY DEF Program, AllPcs, SealPcs, ExportPcs, PackagePcs, StagingPcs

\* A fault is counted, within the bound.
LEMMA FaultType ==
  ASSUME TypeOK, NEW k, Fault(k)
  PROVE  faults' \in 0..MaxFaults /\ faults' = faults + 1
BY PublicationAssumption DEF TypeOK, Fault

LEMMA HitType ==
  ASSUME TypeOK, NEW p \in Processes, NEW k, Hit(p, k)
  PROVE  /\ faults' \in 0..MaxFaults /\ faults' = faults + 1
         /\ hit \subseteq hit' /\ hit' \subseteq Processes
         /\ pc[p] \in Handling => p \in hit'
BY FaultType DEF TypeOK, Hit

LEMMA JobType ==
  ASSUME NEW n \in Paths, NEW src \in Paths, NEW x \in Artifact, NEW r \in Nat
  PROVE  [path |-> n, source |-> src, makes |-> x, rev |-> r] \in Job
BY DEF Job

LEMMA ArchiveKinds ==
  /\ DOMAIN ArchiveOf = {"bundle", "export"}
  /\ ArchiveOf["bundle"] = "bundle archive" /\ ArchiveOf["export"] = "export archive"
BY DEF ArchiveOf

LEMMA ArtifactType ==
  /\ \A k \in {"bundle", "export"}, d \in Datasets :
       [kind |-> k, data |-> d] \in Artifact /\ [kind |-> k, data |-> d] # Nothing
  /\ \A d \in Datasets : Bundle(d) \in Artifact /\ Bundle(d) # Nothing
  /\ \A x \in Artifact : x.data \in Datasets
<1>1. \A k \in {"bundle", "export"}, d \in Datasets : [kind |-> k, data |-> d] \in Artifact
  BY DEF Artifact
<1>2. \A x \in Artifact : x.data \in Datasets /\ x # Nothing
  BY NothingAssumption DEF Artifact
<1>3. QED
  BY <1>1, <1>2 DEF Bundle

LEMMA HeadType ==
  ASSUME NEW r \in Nat, NEW d \in Datasets, NEW b \in BOOLEAN
  PROVE  [rev |-> r, data |-> d, sealed |-> b] \in [rev : Nat, data : Datasets, sealed : BOOLEAN]
OBVIOUS

LEMMA InitTypeInv == Init => TypeInv
<1> SUFFICES ASSUME Init PROVE TypeInv
  OBVIOUS
<1>1. TypeOK
  <2>1. head \in [Workspaces -> [rev : Nat, data : Datasets, sealed : BOOLEAN]]
    <3>1. head \in [Workspaces -> [rev : {0}, data : Datasets, sealed : {FALSE}]]
      BY DEF Init
    <3>2. ASSUME NEW h \in [rev : {0}, data : Datasets, sealed : {FALSE}]
          PROVE  h \in [rev : Nat, data : Datasets, sealed : BOOLEAN]
      <4>1. h = [rev |-> 0, data |-> h.data, sealed |-> FALSE] /\ h.data \in Datasets
        BY Zenon
      <4>2. QED
        BY <4>1, HeadType, Zenon
    <3>3. QED
      BY <3>1, <3>2
  <2>2. hit \subseteq Processes /\ 0 \in 0..MaxFaults /\ 0 \in 0..MaxChanges
    BY PublicationAssumption DEF Init
  <2>3. QED
    BY <2>1, <2>2 DEF Init, TypeOK, Kinds
<1>2. Placed /\ Asked /\ Silent /\ Staged
  BY DEF Init, Placed, Program, Asked, Silent, Staged, StagingPcs
<1>3. QED
  BY <1>1, <1>2 DEF TypeInv

\* The shapes that most actions have.
LEMMA StartTypeInv ==
  ASSUME TypeInv, NEW p \in Processes, NEW n \in Paths, NEW src \in Paths, NEW x \in Artifact,
         NEW r \in Nat, NEW l \in Program(p) \ (StagingPcs \cup {"clean"}),
         Start(p, n, src, x, r, l)
  PROVE  TypeInv'
<1> USE DEF TypeInv, Start, Goto, Tell, Unstage
<1>1. TypeOK'
  BY ProgramPcs, JobType DEF TypeOK, AllPcs, Kinds
<1>2. Placed'
  BY DEF Placed, TypeOK
<1>3. Asked'
  BY JobType DEF Asked, TypeOK
<1>4. Silent'
  BY DEF Silent, TypeOK
<1>5. Staged'
  BY DEF Staged, StagingPcs, TypeOK
<1>6. QED
  BY <1>1, <1>2, <1>3, <1>4, <1>5

\* The faults that an operation may count while it goes on.
Counted == faults' \in 0..MaxFaults /\ hit' \subseteq Processes

\* A seal may go without a report, on to what it finds at its destination.
LEMMA AbandonTypeInv ==
  ASSUME TypeInv, NEW p \in Processes, NEW k \in Kinds \ {"done", "killed"}, Counted,
         pc[p] # "idle", k = "none" => p \in Workspaces, Abandon(p, k),
         staged' \in [Processes -> Artifact \cup {Nothing}], \A q \in Processes \ {p} : staged'[q] = staged[q]
  PROVE  TypeInv'
<1> USE DEF TypeInv, Abandon, Goto, Tell, After
<1>1. TypeOK'
  <2>1. pc' \in [Processes -> AllPcs]
    BY DEF TypeOK, AllPcs, SealPcs
  <2>2. told' \in [Processes -> [kind : Kinds, warned : BOOLEAN]]
    BY DEF TypeOK
  <2>3. QED
    BY <2>1, <2>2 DEF TypeOK, AllPcs, Counted
<1>2. Placed'
  BY DEF Placed, Program, TypeOK, SealPcs
<1>3. Asked'
  BY DEF Asked, TypeOK
<1>4. Silent'
  BY DEF Silent, TypeOK
<1>5. Staged'
  BY DEF Staged, StagingPcs, TypeOK
<1>6. QED
  BY <1>1, <1>2, <1>3, <1>4, <1>5

LEMMA FailTypeInv ==
  ASSUME TypeInv, NEW p \in Processes, NEW k \in Kinds \ {"done", "killed"}, Counted,
         pc[p] # "idle", k = "none" => p \in Workspaces, Fail(p, k)
  PROVE  TypeInv'
BY AbandonTypeInv DEF Fail, TypeInv, TypeOK

LEMMA BrokenTypeInv ==
  ASSUME TypeInv, NEW p \in Processes, NEW k \in Kinds \ {"done", "killed"}, Counted,
         pc[p] # "idle", k = "none" => p \in Workspaces, Broken(p, k)
  PROVE  TypeInv'
<1>1. job[p].makes \in Artifact
  BY DEF TypeInv, Asked, Job
<1>2. QED
  BY <1>1, AbandonTypeInv DEF Broken, TypeInv, TypeOK

LEMMA CleanTypeInv ==
  ASSUME TypeInv, NEW p \in Processes, Clean(p) \/ CleanFails(p)
  PROVE  TypeInv'
<1>1. pc[p] = "clean" /\ told[p].kind \in Kinds \ {"done", "killed"} /\ (told[p].kind = "none" => p \in Workspaces)
  BY DEF TypeInv, TypeOK, Silent, Clean, CleanFails
<1>2. CASE Clean(p)
  <2> USE <1>1, <1>2 DEF TypeInv, Clean, Goto, Unstage, After, fault
  <2>1. TypeOK'
    BY DEF TypeOK, SealPcs
  <2>2. Placed' /\ Asked'
    BY DEF TypeOK, Placed, Program, SealPcs, Asked
  <2>3. Silent' /\ Staged'
    BY DEF TypeOK, Silent, Staged, StagingPcs
  <2>4. QED
    BY <2>1, <2>2, <2>3
<1>3. CASE CleanFails(p)
  <2>1. PICK kind \in {"oserror", "interrupt"} :
          /\ Hit(p, kind) /\ (UNCHANGED staged \/ Unstage(p))
          /\ Goto(p, After(Outcome(p, kind))) /\ Tell(p, Outcome(p, kind), FALSE)
    BY <1>3 DEF CleanFails
  <2> DEFINE k == Outcome(p, kind)
  <2>2. k \in Kinds \ {"done", "killed"} /\ (k = "none" => p \in Workspaces)
    BY <1>1, Roles DEF Outcome, Kinds, Processes
  <2> HIDE DEF k
  <2> USE <1>1, <1>3, <2>1, <2>2 DEF TypeInv, CleanFails, Goto, Unstage, Tell, After
  <2>3. pc' = [pc EXCEPT ![p] = After(k)] /\ told' = [told EXCEPT ![p] = [kind |-> k, warned |-> FALSE]]
    BY DEF k
  <2>4. TypeOK'
    <3>1. told' \in [Processes -> [kind : Kinds, warned : BOOLEAN]]
      BY <2>3 DEF TypeOK
    <3>2. QED
      BY <2>3, <3>1, HitType DEF TypeOK, SealPcs
  <2>5. Placed' /\ Asked'
    BY <2>3 DEF TypeOK, Placed, Program, SealPcs, Asked
  <2>6. Silent' /\ Staged'
    BY <2>3 DEF TypeOK, Silent, Staged, StagingPcs
  <2>7. QED
    BY <2>4, <2>5, <2>6
<1>4. QED
  BY <1>2, <1>3

LEMMA MoveTypeInv ==
  ASSUME TypeInv, NEW p \in Processes, NEW l \in Program(p) \ {"clean"}, pc[p] \notin {"idle", "clean"}, Move(p, l),
         l \in StagingPcs => pc[p] \in StagingPcs
  PROVE  TypeInv'
<1> USE DEF TypeInv, Move, Goto, fault
<1>1. TypeOK'
  BY ProgramPcs DEF TypeOK, AllPcs
<1>2. Placed'
  BY DEF Placed, TypeOK
<1>3. Asked'
  BY DEF Asked, TypeOK
<1>4. Silent'
  BY DEF Silent, TypeOK
<1>5. Staged'
  BY DEF Staged, StagingPcs, TypeOK
<1>6. QED
  BY <1>1, <1>2, <1>3, <1>4, <1>5

LEMMA StageTypeInv ==
  ASSUME TypeInv, NEW p \in Processes, NEW l \in Program(p) \ {"clean"}, pc[p] \notin {"idle", "clean"}, Stage(p, l)
  PROVE  TypeInv'
<1> USE DEF TypeInv, Stage, Goto, fault
<1>0. job[p] \in Job
  BY DEF Asked
<1>1. TypeOK'
  BY <1>0, ProgramPcs DEF TypeOK, AllPcs, Job
<1>2. Placed'
  BY DEF Placed, TypeOK
<1>3. Asked'
  BY DEF Asked, TypeOK
<1>4. Silent'
  BY DEF Silent, TypeOK
<1>5. Staged'
  BY DEF Staged, StagingPcs, TypeOK
<1>6. QED
  BY <1>1, <1>2, <1>3, <1>4, <1>5
\* The entry becomes visible, whatever its process does next.
LEMMA VisibleTypes ==
  ASSUME TypeInv, NEW p \in Processes, pc[p] = "publish", Visible(p)
  PROVE  /\ target' \in [Paths -> Artifact \cup {Nothing}]
         /\ unsynced' \subseteq Paths /\ moved' \subseteq Exporters
         /\ made' \in [Processes -> Paths \cup {Nothing}]
         /\ shown' \subseteq Paths \X Artifact
         /\ job[p] \in Job /\ staged[p] = job[p].makes /\ Dest(p) \in Paths /\ staged[p] \in Artifact
<1>1. job[p] \in Job /\ staged[p] = job[p].makes
  BY DEF TypeInv, Asked, Staged, StagingPcs
<1>2. Dest(p) \in Paths /\ staged[p] \in Artifact
  BY <1>1 DEF Dest, Job
<1>3. QED
  BY <1>1, <1>2 DEF TypeInv, TypeOK, Visible, Changed

LEMMA PublishTypeInv ==
  ASSUME TypeInv, NEW p \in Processes, pc[p] = "publish", NEW l \in Program(p) \ StagingPcs,
         l \notin {"idle", "clean"}, Publish(p, l)
  PROVE  TypeInv'
<1> USE DEF TypeInv, Publish, Goto, Unstage, fault
<1>0. Visible(p)
  OBVIOUS
<1>1. TypeOK'
  BY <1>0, VisibleTypes, ProgramPcs DEF TypeOK, AllPcs, Visible
<1>2. Placed'
  BY DEF Placed, TypeOK
<1>3. Asked'
  BY <1>0, VisibleTypes DEF Asked, TypeOK, Visible
<1>4. Silent'
  BY DEF Silent, TypeOK
<1>5. Staged'
  BY <1>0 DEF Staged, StagingPcs, TypeOK, Visible
<1>6. QED
  BY <1>1, <1>2, <1>3, <1>4, <1>5

\* The same for what publishes and reports at once, or is interrupted there.
LEMMA InterruptedPublishTypeInv ==
  ASSUME TypeInv, NEW p \in Processes, pc[p] = "publish", NEW l \in Program(p) \ StagingPcs,
         Visible(p), Unstage(p), Goto(p, l), Counted,
         \/ l \notin {"idle", "clean"} /\ UNCHANGED told
         \/ l = "idle" /\ told' = [told EXCEPT ![p] = [kind |-> "partial", warned |-> FALSE]]
  PROVE  TypeInv'
<1> USE DEF TypeInv, Goto, Unstage
<1>1. TypeOK'
  <2>1. told' \in [Processes -> [kind : Kinds, warned : BOOLEAN]]
    <3>1. CASE UNCHANGED told
      BY <3>1 DEF TypeOK
    <3>2. CASE told' = [told EXCEPT ![p] = [kind |-> "partial", warned |-> FALSE]]
      BY <3>2 DEF TypeOK, Kinds
    <3>3. QED
      BY <3>1, <3>2
  <2>2. pc' \in [Processes -> AllPcs]
    BY ProgramPcs DEF TypeOK, AllPcs
  <2>3. QED
    BY <2>1, <2>2, VisibleTypes DEF TypeOK, AllPcs, Visible, Counted
<1>2. Placed'
  BY DEF Placed, TypeOK
<1>3. Asked'
  BY VisibleTypes DEF Asked, TypeOK, Visible
<1>4. Silent'
  BY DEF Silent, TypeOK
<1>5. Staged'
  BY DEF Staged, StagingPcs, TypeOK, Visible
<1>6. QED
  BY <1>1, <1>2, <1>3, <1>4, <1>5
LEMMA SyncAndReportTypeInv ==
  ASSUME TypeInv, NEW p \in Processes, SyncAndReport(p)
  PROVE  TypeInv'
<1> USE DEF TypeInv, SyncAndReport, SyncedOrWarned, Goto, Tell, fault
<1>1. unsynced' \subseteq Paths /\ warned' \in [Processes -> BOOLEAN] /\ Counted
  BY HitType DEF TypeOK, Counted
<1>2. told' \in [Processes -> [kind : Kinds, warned : BOOLEAN]]
  <2>1. warned'[p] \in BOOLEAN
    BY <1>1
  <2>2. QED
    BY <2>1 DEF TypeOK, Kinds
<1>3. TypeOK'
  BY <1>1, <1>2 DEF TypeOK, Counted
<1>4. Placed' /\ Asked' /\ Silent' /\ Staged'
  BY DEF TypeOK, Placed, Program, Asked, Silent, Staged, StagingPcs
<1>5. QED
  BY <1>3, <1>4

LEMMA SealTypeInv ==
  ASSUME TypeInv, NEW w \in Workspaces,
         SealStep(w) \/ SealFault(w) \/ Rebuild(w) \/ \E n \in Paths : SealStart(w, n)
  PROVE  TypeInv'
<1> USE Roles
<1>1. /\ {"idle", "sync", "publish", "write"} \cup SealPcs \subseteq Program(w) \ {"clean"}
      /\ Kinds \ {"done", "killed"} = {"none", "conflict", "failed", "partial", "cancelled", "interrupted"}
  BY DEF Program, Kinds, SealPcs
<1>2. UNCHANGED fault => Counted
  BY DEF TypeInv, TypeOK, Counted, fault
<1>20. \A k : Hit(w, k) => Counted
  BY HitType DEF TypeInv, Counted
<1>3. CASE SealLock(w)
  BY <1>1, <1>2, <1>3, MoveTypeInv, FailTypeInv DEF SealLock, SealPcs, StagingPcs
<1>4. CASE SealLook(w)
  BY <1>1, <1>4, MoveTypeInv DEF SealLook, SealPcs, StagingPcs
<1>5. CASE SealStage(w)
  BY <1>1, <1>5, MoveTypeInv, StageTypeInv DEF SealStage, SealPcs, StagingPcs
<1>6. CASE SealWrite(w)
  BY <1>1, <1>6, MoveTypeInv DEF SealWrite, SealPcs, StagingPcs
<1>8. CASE SealPublish(w)
  <2>1. "sync" \in Program(w) \ StagingPcs /\ "recover" \in Program(w) \ StagingPcs
    BY <1>1 DEF StagingPcs, SealPcs
  <2>2. CASE Publish(w, "sync")
    BY <1>8, <2>1, <2>2, PublishTypeInv DEF SealPublish
  <2>3. CASE Fail(w, "none") /\ UNCHANGED fault
    BY <1>1, <1>2, <1>8, <2>3, FailTypeInv DEF SealPublish
  <2>4. CASE Visible(w) /\ Hit(w, "oserror") /\ Unstage(w) /\ Goto(w, "recover") /\ UNCHANGED told
    BY <1>8, <1>20, <2>1, <2>4, InterruptedPublishTypeInv DEF SealPublish
  <2>5. QED
    BY <1>8, <2>2, <2>3, <2>4 DEF SealPublish
<1>9. CASE SealSync(w)
  <2> USE <1>9 DEF TypeInv, SealSync, Goto
  <2>1. TypeOK'
    BY HitType DEF TypeOK, SealPcs, SyncedOrWarned, fault
  <2>2. Placed' /\ Asked' /\ Silent' /\ Staged'
    BY <1>1 DEF TypeOK, Placed, Asked, Silent, Staged, SealPcs, StagingPcs
  <2>3. QED
    BY <2>1, <2>2
<1>10. CASE Recover(w)
  BY <1>1, <1>2, <1>10, MoveTypeInv, FailTypeInv DEF Recover, SealPcs, StagingPcs
<1>11. CASE Adopt(w)
  BY <1>1, <1>2, <1>11, MoveTypeInv, FailTypeInv DEF Adopt, SealPcs, StagingPcs
<1>12. CASE Promote(w)
  <2> USE <1>12 DEF TypeInv, Promote, Goto, Tell, fault
  <2>1. TypeOK'
    <3>1. head' \in [Workspaces -> [rev : Nat, data : Datasets, sealed : BOOLEAN]]
      <4>1. head[w].rev + 1 \in Nat /\ head[w].data \in Datasets
        BY DEF TypeOK
      <4>2. [rev |-> head[w].rev + 1, data |-> head[w].data, sealed |-> TRUE]
              \in [rev : Nat, data : Datasets, sealed : BOOLEAN]
        BY <4>1
      <4>3. QED
        BY <4>2 DEF TypeOK
    <3>2. told' \in [Processes -> [kind : Kinds, warned : BOOLEAN]]
      BY DEF TypeOK, Kinds
    <3>3. QED
      BY <3>1, <3>2 DEF TypeOK
  <2>2. Placed' /\ Asked' /\ Silent' /\ Staged'
    BY <1>1 DEF TypeOK, Placed, Asked, Silent, Staged, SealPcs, StagingPcs
  <2>3. QED
    BY <2>1, <2>2
<1>13. CASE SealFault(w)
  <2>1. CASE SealStagingFails(w)
    BY <1>1, <1>20, <2>1, BrokenTypeInv DEF SealStagingFails, StagingPcs
  <2>2. CASE SealInterrupted(w)
    BY <1>1, <1>20, <2>2, BrokenTypeInv DEF SealInterrupted
  <2>3. CASE PromoteFails(w) \/ SealFails(w)
    BY <1>1, <1>20, <2>3, FailTypeInv DEF PromoteFails, SealFails
  <2>4. QED
    BY <1>13, <2>1, <2>2, <2>3 DEF SealFault
<1>14. CASE Rebuild(w)
  <2> USE <1>14 DEF TypeInv, Rebuild, work, fault
  <2>1. TypeOK'
    BY PublicationAssumption DEF TypeOK
  <2>2. Placed' /\ Asked' /\ Silent' /\ Staged'
    BY DEF Placed, Asked, Silent, Staged
  <2>3. QED
    BY <2>1, <2>2
<1>15. ASSUME NEW n \in Paths, SealStart(w, n)
       PROVE  TypeInv'
  <2>1. Bundle(head[w].data) \in Artifact /\ head[w].rev \in Nat
    BY DEF TypeInv, TypeOK, Bundle, Artifact
  <2>2. QED
    BY <1>1, <1>15, <2>1, StartTypeInv DEF SealStart, SealPcs, StagingPcs
<1>16. CASE Clean(w)
  BY <1>16, CleanTypeInv
<1>17. QED
  BY <1>3, <1>4, <1>5, <1>6, <1>8, <1>9, <1>10, <1>11, <1>12, <1>13, <1>14, <1>15, <1>16 DEF SealStep

LEMMA ExportTypeInv ==
  ASSUME TypeInv, NEW e \in Exporters,
         \/ ExportStep(e) \/ ExportFault(e)
         \/ \E n, src \in Paths, d \in Datasets : n # src /\ ExportStart(e, n, src, d)
  PROVE  TypeInv'
<1> USE Roles
<1>1. /\ {"idle", "sync", "write", "check", "publish"} \cup ExportPcs \subseteq Program(e) \ {"clean"}
      /\ Kinds \ {"done", "killed"} = {"none", "conflict", "failed", "partial", "cancelled", "interrupted"}
  BY DEF Program, Kinds, ExportPcs
<1>2. UNCHANGED fault => Counted
  BY DEF TypeInv, TypeOK, Counted, fault
<1>20. \A k : Hit(e, k) => Counted
  BY HitType DEF TypeInv, Counted
<1>3. CASE Capture(e)
  <2>1. CASE Fail(e, "failed") /\ UNCHANGED fault
    BY <1>1, <1>2, <1>3, <2>1, FailTypeInv DEF Capture
  <2>2. CASE ~Fail(e, "failed")
    <3> USE <1>3, <2>2 DEF TypeInv, Capture, Goto, fault
    <3>1. TypeOK'
      BY DEF TypeOK, ExportPcs
    <3>2. Placed'
      BY <1>1 DEF TypeOK, Placed, ExportPcs
    <3>3. Asked'
      BY <1>1 DEF TypeOK, Asked, ExportPcs
    <3>4. Silent'
      BY <1>1 DEF TypeOK, Silent, ExportPcs
    <3>5. Staged'
      BY <1>1 DEF TypeOK, Staged, ExportPcs, StagingPcs
    <3>6. QED
      BY <3>1, <3>2, <3>3, <3>4, <3>5
  <2>3. QED
    BY <1>3, <2>1, <2>2 DEF Capture
<1>4. CASE Prepare(e)
  BY <1>1, <1>2, <1>4, StageTypeInv, FailTypeInv DEF Prepare
<1>5. CASE ExportWrite(e)
  BY <1>1, <1>5, MoveTypeInv DEF ExportWrite, ExportPcs, StagingPcs
<1>6. CASE Check(e)
  BY <1>1, <1>2, <1>6, MoveTypeInv, FailTypeInv DEF Check, StagingPcs
<1>7. CASE ExportPublish(e)
  <2>1. "sync" \in Program(e) \ StagingPcs
    BY <1>1 DEF StagingPcs
  <2>2. QED
    BY <1>1, <1>2, <1>7, <2>1, PublishTypeInv, FailTypeInv DEF ExportPublish
<1>8. CASE ExportFault(e)
  <2>1. CASE InterruptedAfterRename(e)
    <3>1. "idle" \in Program(e) \ StagingPcs
      BY <1>1 DEF StagingPcs
    <3>2. QED
      BY <1>20, <2>1, <3>1, InterruptedPublishTypeInv DEF InterruptedAfterRename, Tell
  <2>2. CASE ~InterruptedAfterRename(e)
    BY <1>1, <1>2, <1>8, <1>20, <2>2, FailTypeInv, BrokenTypeInv
       DEF ExportFault, Cancelled, ExportFails, ExportInterrupted, ExportPcs, StagingPcs
  <2>3. QED
    BY <2>1, <2>2
<1>9. ASSUME NEW n \in Paths, NEW src \in Paths, NEW d \in Datasets, ExportStart(e, n, src, d)
      PROVE  TypeInv'
  <2>1. [kind |-> "export", data |-> d] \in Artifact
    BY DEF Artifact
  <2>2. "capture" \in Program(e) \ StagingPcs
    BY <1>1 DEF StagingPcs, ExportPcs
  <2>3. QED
    BY <1>9, <2>1, <2>2, StartTypeInv DEF ExportStart
<1>10. CASE SyncAndReport(e)
  BY <1>10, SyncAndReportTypeInv
<1>11. CASE Clean(e)
  BY <1>11, CleanTypeInv
<1>12. QED
  BY <1>3, <1>4, <1>5, <1>6, <1>7, <1>8, <1>9, <1>10, <1>11 DEF ExportStep

LEMMA PackageTypeInv ==
  ASSUME TypeInv, NEW a \in Packagers,
         \/ PackageStep(a) \/ PackageFails(a) \/ PackageInterrupted(a)
         \/ \E n, src \in Paths, k \in DOMAIN ArchiveOf, d \in Datasets :
              n # src /\ PackageStart(a, n, src, k, d)
  PROVE  TypeInv'
<1> USE Roles
<1>1. /\ {"idle", "sync", "write", "publish"} \cup PackagePcs \subseteq Program(a) \ {"clean"}
      /\ Kinds \ {"done", "killed"} = {"none", "conflict", "failed", "partial", "cancelled", "interrupted"}
  BY DEF Program, Kinds, PackagePcs
<1>2. UNCHANGED fault => Counted
  BY DEF TypeInv, TypeOK, Counted, fault
<1>20. \A k : Hit(a, k) => Counted
  BY HitType DEF TypeInv, Counted
<1>3. CASE VerifySource(a)
  BY <1>1, <1>2, <1>3, MoveTypeInv, FailTypeInv DEF VerifySource, PackagePcs, StagingPcs
<1>4. CASE PackageStage(a) \/ Pack(a)
  BY <1>1, <1>2, <1>4, StageTypeInv, MoveTypeInv, FailTypeInv DEF PackageStage, Pack, StagingPcs
<1>5. CASE PackagePublish(a)
  <2>1. "unlink" \in Program(a) \ StagingPcs
    BY <1>1 DEF StagingPcs, PackagePcs
  <2>2. QED
    BY <1>1, <1>2, <1>5, <2>1, PublishTypeInv, FailTypeInv DEF PackagePublish
<1>6. CASE Unlink(a)
  <2> USE <1>6 DEF TypeInv, Unlink, Goto, Unstage
  <2>1. TypeOK'
    BY HitType DEF TypeOK, fault
  <2>2. Placed' /\ Asked' /\ Silent' /\ Staged'
    BY <1>1 DEF TypeOK, Placed, Asked, Silent, Staged, StagingPcs
  <2>3. QED
    BY <2>1, <2>2
<1>7. CASE PackageFails(a) \/ PackageInterrupted(a)
  <2>1. CASE InterruptedAfterLink(a)
    <3> USE <2>1 DEF TypeInv, InterruptedAfterLink, Goto, Tell
    <3>1. TypeOK'
      BY HitType DEF TypeOK, Kinds
    <3>2. Placed' /\ Asked' /\ Silent' /\ Staged'
      BY DEF TypeOK, Placed, Program, Asked, Silent, Staged, StagingPcs
    <3>3. QED
      BY <3>1, <3>2
  <2>2. CASE ~InterruptedAfterLink(a)
    BY <1>1, <1>7, <1>20, <2>2, BrokenTypeInv DEF PackageFails, PackageInterrupted, StagingPcs
  <2>3. QED
    BY <2>1, <2>2
<1>8. ASSUME NEW n \in Paths, NEW src \in Paths, NEW k \in DOMAIN ArchiveOf, NEW d \in Datasets,
             PackageStart(a, n, src, k, d)
      PROVE  TypeInv'
  <2>1. [kind |-> ArchiveOf[k], data |-> d] \in Artifact
    BY ArchiveKinds DEF Artifact
  <2>2. "verify" \in Program(a) \ StagingPcs
    BY <1>1 DEF StagingPcs, PackagePcs
  <2>3. QED
    BY <1>8, <2>1, <2>2, StartTypeInv DEF PackageStart
<1>9. CASE SyncAndReport(a)
  BY <1>9, SyncAndReportTypeInv
<1>10. CASE Clean(a)
  BY <1>10, CleanTypeInv
<1>11. QED
  BY <1>3, <1>4, <1>5, <1>6, <1>7, <1>8, <1>9, <1>10 DEF PackageStep

\* Deaths, and what happens around the processes.
LEMMA EnvironmentTypeInv ==
  ASSUME TypeInv, (\E p \in Processes : Kill(p) \/ CleanFails(p)) \/ PowerLoss \/ \E n \in Paths : Remove(n)
  PROVE  TypeInv'
<1> USE DEF TypeInv
<1>1. ASSUME NEW p \in Processes, Kill(p)
      PROVE  TypeInv'
  <2> USE <1>1 DEF Kill, Dies, Goto, Tell
  <2>1. TypeOK'
    BY FaultType DEF TypeOK, Kinds
  <2>2. Placed' /\ Asked' /\ Silent' /\ Staged'
    BY DEF TypeOK, Placed, Program, Asked, Silent, Staged, StagingPcs
  <2>3. QED
    BY <2>1, <2>2
<1>2. CASE PowerLoss
  <2>1. PICK lost \in SUBSET unsynced :
          /\ target' = [n \in Paths |-> IF n \in lost THEN Nothing ELSE target[n]]
          /\ Gone(lost)
    BY <1>2 DEF PowerLoss
  <2> USE <1>2, <2>1 DEF PowerLoss, Gone
  <2>2. TypeOK'
    <3>1. told' \in [Processes -> [kind : Kinds, warned : BOOLEAN]]
      BY DEF TypeOK, Kinds
    <3>2. target' \in [Paths -> Artifact \cup {Nothing}] /\ made' \in [Processes -> Paths \cup {Nothing}]
      BY DEF TypeOK
    <3>3. QED
      BY <3>1, <3>2, FaultType DEF TypeOK
  <2>3. Placed' /\ Asked' /\ Silent' /\ Staged'
    BY DEF TypeOK, Placed, Program, Asked, Silent, Staged, StagingPcs
  <2>4. QED
    BY <2>2, <2>3
<1>3. ASSUME NEW n \in Paths, Remove(n)
      PROVE  TypeInv'
  <2> USE <1>3 DEF Remove, Changed, Gone, fault
  <2>1. TypeOK'
    BY PublicationAssumption DEF TypeOK
  <2>2. Placed' /\ Asked' /\ Silent' /\ Staged'
    BY DEF TypeOK, Placed, Asked, Silent, Staged
  <2>3. QED
    BY <2>1, <2>2
<1>4. QED
  BY <1>1, <1>2, <1>3, CleanTypeInv

LEMMA NextTypeInv == TypeInv /\ [Next]_vars => TypeInv'
<1>1. CASE UNCHANGED vars
  BY <1>1 DEF TypeInv, TypeOK, Placed, Asked, Silent, Staged, vars, work, fault
<1>2. CASE Next
  BY <1>2, SealTypeInv, ExportTypeInv, PackageTypeInv, EnvironmentTypeInv DEF Next
<1>3. QED
  BY <1>1, <1>2

(* Every variable keeps its type, whoever runs beside whom and whatever    *)
(* fails: the files, what each process was asked, and what it reports.     *)
THEOREM TypeCorrect == Spec => []TypeOK
<1>1. TypeInv => TypeOK
  BY DEF TypeInv
<1>2. QED
  BY InitTypeInv, NextTypeInv, <1>1, PTL DEF Spec

-----------------------------------------------------------------------------
(* What the safety properties rest on                                      *)

\* What is visible, or was reported, became visible at some time.
OnRecord ==
  /\ \A n \in Paths : target[n] # Nothing => <<n, target[n]>> \in shown
  /\ \A p \in Processes :
       pc[p] \in {"sync", "unlink", "promote"} \/ told[p].kind = "done"
       => <<Dest(p), job[p].makes>> \in shown

\* From the check of HEAD under the lock on, a seal works on HEAD's dataset.
Current ==
  \A w \in Workspaces :
    /\ pc[w] = "lock" =>
         /\ job[w].rev <= head[w].rev
         /\ job[w].rev = head[w].rev => job[w].makes = Bundle(head[w].data)
    /\ pc[w] \notin {"idle", "lock"} => job[w].makes = Bundle(head[w].data)

HasBundle(d) == \E m \in Paths : <<m, Bundle(d)>> \in shown

\* What is derived from a source was verified to come from a bundle.
Derived ==
  /\ \A s \in shown : HasBundle(s[2].data)
  /\ \A p \in Exporters \cup Packagers :
       pc[p] \in {"prepare", "write", "check", "package_stage", "publish"}
       => HasBundle(job[p].makes.data)
  /\ \A w \in Workspaces : head[w].sealed => HasBundle(head[w].data)

\* An operation that made something visible is past its publication, and
\* only a fault makes a seal look back from there.
Owned ==
  \A p \in Processes : made[p] # Nothing =>
    /\ made[p] = Dest(p) /\ target[Dest(p)] = job[p].makes
    /\ pc[p] \in {"idle", "clean", "sync", "unlink", "recover", "adopt", "promote"}
    /\ pc[p] \in {"recover", "adopt", "clean"} => faults >= 1

\* An entry that its operation cannot remove any more.
Orphaned(p) ==
  /\ p \in hit /\ pc[p] \in {"idle", "sync", "recover", "adopt", "promote"}
  /\ pc[p] = "sync" => p \in Packagers /\ warned[p]
  /\ told[p].kind = "done" => p \notin Exporters /\ (p \in Packagers => told[p].warned)

\* A staging entry is in use, or is about to be removed, or was orphaned.
Accounted ==
  \A p \in Processes : staged[p] # Nothing =>
    \/ pc[p] \in StagingPcs \cup {"unlink", "clean"}
    \/ pc[p] = "idle" /\ told[p].kind = "killed"
    \/ Orphaned(p)

Inv == TypeInv /\ OnRecord /\ Current /\ Derived /\ Owned /\ Truthful /\ Accounted

LEMMA InitInv == Init => Inv
<1> SUFFICES ASSUME Init PROVE Inv
  OBVIOUS
<1>1. \A w \in Workspaces : head[w].sealed = FALSE
  BY DEF Init
<1>2. OnRecord /\ Current /\ Derived
  BY <1>1, Roles DEF Init, OnRecord, Current, Derived, Processes
<1>3. Owned /\ Truthful /\ Accounted
  BY DEF Init, Owned, Truthful, Accounted
<1>4. QED
  BY <1>2, <1>3, InitTypeInv DEF Inv

\* An operation starts in a state of its own and makes nothing visible yet.
LEMMA StartInv ==
  ASSUME Inv, TypeInv', NEW p \in Processes, NEW n \in Paths, NEW src \in Paths,
         NEW x \in Artifact, NEW r \in Nat, NEW l \in {"lock", "capture", "verify"},
         Start(p, n, src, x, r, l),
         p \in Workspaces => l = "lock" /\ x = Bundle(head[p].data) /\ r = head[p].rev
  PROVE  Inv'
<1> USE DEF Inv, TypeInv, TypeOK, Start, Goto, Dest, Tell, Unstage
<1>1. OnRecord'
  BY DEF OnRecord
<1>2. Current'
  BY Roles DEF Current
<1>3. Derived'
  BY Roles DEF Derived, HasBundle
<1>4. Owned' /\ Truthful'
  BY NothingAssumption DEF Owned, Truthful
<1>5. Accounted'
  BY DEF Accounted, Orphaned
<1>6. QED
  BY <1>1, <1>2, <1>3, <1>4, <1>5

\* An operation that ends without success tells the truth, and what it
\* staged is either cleaned up next or was met by a fault.
LEMMA AbandonInv ==
  ASSUME Inv, TypeInv', NEW p \in Processes, NEW k \in Kinds \ {"done", "killed"}, Abandon(p, k),
         pc[p] \notin {"idle", "clean"}, faults' >= faults, hit \subseteq hit',
         k = "none" => p \in Workspaces /\ pc[p] \in StagingPcs \cup Making,
         pc[p] = "unlink" => p \in hit',
         UNCHANGED staged \/ (p \in hit' /\ \A q \in Processes \ {p} : staged'[q] = staged[q]),
         made[p] # Nothing /\ faults' <= 1 =>
           k \notin {"failed", "conflict", "cancelled"} /\ (k = "interrupted" => p \notin Exporters)
  PROVE  Inv'
<1> USE DEF Inv, TypeInv, TypeOK, Abandon, Goto, Tell, After, Dest
<1>1. OnRecord'
  BY DEF OnRecord
<1>2. Current'
  BY Roles DEF Current, StagingPcs, Making
<1>3. Derived'
  BY Roles DEF Derived, HasBundle
<1>4. Owned'
  BY DEF Owned, StagingPcs, Making
<1>5. Truthful'
  BY DEF Truthful
<1>6. Accounted'
  <2>1. ASSUME NEW q \in Processes, q # p, staged'[q] # Nothing
        PROVE  \/ pc'[q] \in StagingPcs \cup {"unlink", "clean"}
               \/ pc'[q] = "idle" /\ told'[q].kind = "killed"
               \/ Orphaned(q)'
    BY <2>1 DEF Accounted, Orphaned
  <2>2. ASSUME staged'[p] # Nothing, pc'[p] # "clean"
        PROVE  p \in hit' /\ pc'[p] \in {"idle", "recover"} /\ told'[p].kind # "done"
    BY <2>2 DEF Accounted, Orphaned
  <2>3. QED
    BY <2>1, <2>2 DEF Accounted, Orphaned
<1>7. QED
  BY <1>1, <1>2, <1>3, <1>4, <1>5, <1>6

\* Without a fault, or by one.
LEMMA FailInv ==
  ASSUME Inv, TypeInv', NEW p \in Processes, NEW k \in Kinds \ {"done", "killed"}, Fail(p, k),
         pc[p] \notin {"idle", "clean", "unlink"}, UNCHANGED fault \/ \E f : Hit(p, f),
         k = "none" => p \in Workspaces /\ pc[p] \in StagingPcs \cup Making,
         made[p] # Nothing /\ faults' <= 1 =>
           k \notin {"failed", "conflict", "cancelled"} /\ (k = "interrupted" => p \notin Exporters)
  PROVE  Inv'
<1>1. faults \in Nat
  BY PublicationAssumption DEF Inv, TypeInv, TypeOK
<1>2. faults' >= faults /\ hit \subseteq hit'
  BY <1>1 DEF fault, Hit, Fault
<1>3. QED
  BY <1>2, AbandonInv DEF Fail

LEMMA BrokenInv ==
  ASSUME Inv, TypeInv', NEW p \in Processes, NEW k \in Kinds \ {"done", "killed"}, Broken(p, k),
         pc[p] \notin {"idle", "clean"}, NEW f, Hit(p, f),
         k = "none" => p \in Workspaces /\ pc[p] \in StagingPcs \cup Making,
         made[p] # Nothing /\ faults' <= 1 =>
           k \notin {"failed", "conflict", "cancelled"} /\ (k = "interrupted" => p \notin Exporters)
  PROVE  Inv'
<1>1. faults \in Nat /\ staged \in [Processes -> Artifact \cup {Nothing}]
  BY PublicationAssumption DEF Inv, TypeInv, TypeOK
<1>2. faults' >= faults /\ hit \subseteq hit' /\ (pc[p] \in Handling => p \in hit')
  BY <1>1 DEF Hit, Fault
<1>3. UNCHANGED staged \/ (p \in hit' /\ \A q \in Processes \ {p} : staged'[q] = staged[q])
  BY <1>1, <1>2 DEF Broken, Handling
<1>4. QED
  BY <1>2, <1>3, AbandonInv DEF Broken, Handling

LEMMA CleanInv ==
  ASSUME Inv, TypeInv', NEW p \in Processes, Clean(p) \/ CleanFails(p)
  PROVE  Inv'
<1>1. /\ pc[p] = "clean" /\ told[p].kind \in Kinds \ {"done", "killed"} /\ (told[p].kind = "none" => p \in Workspaces)
      /\ faults \in Nat
  <2>1. pc[p] = "clean"
    BY DEF Clean, CleanFails
  <2>2. faults \in Nat
    BY PublicationAssumption DEF Inv, TypeInv, TypeOK
  <2>3. told[p].kind \in Kinds
    BY DEF Inv, TypeInv, TypeOK
  <2>4. QED
    BY <2>1, <2>2, <2>3 DEF Inv, TypeInv, Silent
<1>2. CASE Clean(p)
  <2> USE <1>1, <1>2 DEF Inv, TypeInv, TypeOK, Clean, Goto, Unstage, After, Dest, fault
  <2>1. OnRecord' /\ Current'
    BY Roles DEF OnRecord, Current
  <2>2. Derived'
    BY Roles DEF Derived, HasBundle
  <2>3. Owned' /\ Truthful'
    BY DEF Owned, Truthful
  <2>4. Accounted'
    BY DEF Accounted, Orphaned
  <2>5. QED
    BY <2>1, <2>2, <2>3, <2>4
<1>3. CASE CleanFails(p)
  <2>1. PICK kind \in {"oserror", "interrupt"} :
          /\ Hit(p, kind) /\ (UNCHANGED staged \/ Unstage(p))
          /\ Goto(p, After(Outcome(p, kind))) /\ Tell(p, Outcome(p, kind), FALSE)
    BY <1>3 DEF CleanFails
  <2> DEFINE k == Outcome(p, kind)
  <2>2. k \in Kinds \ {"done", "killed"} /\ (k = "none" => p \in Workspaces)
    BY <1>1, Roles DEF Outcome, Kinds, Processes
  <2>3. faults' = faults + 1 /\ hit' = hit \cup {p}
    BY <1>1, <2>1 DEF Hit, Fault, Handling
  <2>4. pc' = [pc EXCEPT ![p] = After(k)] /\ told' = [told EXCEPT ![p] = [kind |-> k, warned |-> FALSE]]
    BY <2>1 DEF Goto, Tell
  <2> HIDE DEF k
  <2> USE <1>1, <1>3, <2>1, <2>2, <2>3, <2>4 DEF Inv, TypeInv, TypeOK, CleanFails, Unstage, After, Dest
  <2>5. OnRecord' /\ Current'
    BY Roles DEF OnRecord, Current
  <2>6. Derived'
    BY Roles DEF Derived, HasBundle
  <2>7. Owned' /\ Truthful'
    BY DEF Owned, Truthful
  <2>8. Accounted'
    BY DEF Accounted, Orphaned
  <2>9. QED
    BY <2>5, <2>6, <2>7, <2>8
<1>4. QED
  BY <1>2, <1>3

\* An operation goes on to a state whose conditions hold.
LEMMA MoveInv ==
  ASSUME Inv, TypeInv', NEW p \in Processes, NEW l, pc[p] \notin {"idle", "clean"}, l \notin {"idle", "clean"}, Move(p, l),
         l \in {"sync", "unlink", "promote"} => <<Dest(p), job[p].makes>> \in shown,
         p \in Workspaces => l # "lock" /\ job[p].makes = Bundle(head[p].data),
         p \notin Workspaces /\ l \in {"prepare", "write", "check", "package_stage", "publish"}
           => HasBundle(job[p].makes.data),
         made[p] # Nothing =>
           l \in {"sync", "unlink", "recover", "adopt", "promote"}
           /\ (l \in {"recover", "adopt"} => faults >= 1),
         pc[p] \notin {"unlink", "sync"}, pc[p] \in StagingPcs => l \in StagingPcs,
         pc[p] \in {"recover", "adopt", "promote"} => l \in {"adopt", "promote"}
  PROVE  Inv'
<1> USE DEF Inv, TypeInv, TypeOK, Move, Goto, Dest, fault
<1>1. OnRecord'
  BY DEF OnRecord
<1>2. Current'
  BY Roles DEF Current
<1>3. Derived'
  BY Roles DEF Derived, HasBundle
<1>4. Owned'
  BY DEF Owned
<1>5. Truthful'
  BY DEF Truthful
<1>6. Accounted'
  BY DEF Accounted, Orphaned, Silent
<1>7. QED
  BY <1>1, <1>2, <1>3, <1>4, <1>5, <1>6

LEMMA StageInv ==
  ASSUME Inv, TypeInv', NEW p \in Processes, NEW l \in {"write", "publish"}, Stage(p, l),
         pc[p] \in {"seal_stage", "prepare", "package_stage"},
         p \notin Workspaces => HasBundle(job[p].makes.data)
  PROVE  Inv'
<1> USE DEF Inv, TypeInv, TypeOK, Stage, Goto, Dest, fault
<1>1. OnRecord'
  BY DEF OnRecord
<1>2. Current'
  BY Roles DEF Current
<1>3. Derived'
  BY Roles DEF Derived, HasBundle
<1>4. Owned'
  BY DEF Owned
<1>5. Truthful'
  BY DEF Truthful
<1>6. Accounted'
  BY DEF Accounted, Orphaned, StagingPcs
<1>7. QED
  BY <1>1, <1>2, <1>3, <1>4, <1>5, <1>6

\* Whatever the process does at once with the entry it made visible.
LEMMA PublishInv ==
  ASSUME Inv, TypeInv', NEW p \in Processes, pc[p] = "publish", Visible(p),
         NEW l \in {"sync", "unlink", "recover", "idle"}, Goto(p, l),
         Unstage(p) \/ (UNCHANGED staged /\ l = "unlink"), hit \subseteq hit',
         \/ UNCHANGED <<told, faults>> /\ l \in {"sync", "unlink"}
         \/ UNCHANGED told /\ l = "recover" /\ faults' = faults + 1
         \/ told' = [told EXCEPT ![p] = [kind |-> "partial", warned |-> FALSE]]
             /\ faults' = faults + 1 /\ l = "idle"
  PROVE  Inv'
<1> USE DEF Inv, TypeInv, TypeOK, Visible, Goto, Unstage, Free
<1>1. /\ job[p] \in Job /\ staged[p] = job[p].makes
      /\ Dest(p) \in Paths /\ staged[p] \in Artifact
  BY VisibleTypes DEF Unstage
<1>2. shown \subseteq shown' /\ <<Dest(p), staged[p]>> \in shown'
  OBVIOUS
<1>3. OnRecord'
  BY <1>1, <1>2 DEF OnRecord, Dest
<1>4. Current'
  BY Roles DEF Current
<1>5. Derived'
  <2> DEFINE HadBundle(d) == \E m \in Paths : <<m, Bundle(d)>> \in shown'
  <2>1. \A d : HasBundle(d) => HadBundle(d)
    BY <1>2 DEF HasBundle
  <2>2. HadBundle(staged[p].data)
    <3>1. CASE p \in Workspaces
      <4>1. staged[p] = Bundle(head[p].data)
        BY <1>1, <3>1 DEF Current
      <4>2. staged[p] = Bundle(staged[p].data)
        BY <4>1 DEF Bundle
      <4>3. QED
        BY <1>1, <1>2, <4>2
    <3>2. CASE p \in Exporters \cup Packagers
      BY <1>1, <2>1, <3>2 DEF Derived
    <3>3. QED
      BY <3>1, <3>2 DEF Processes
  <2> HIDE DEF HadBundle
  <2>3. \A s \in shown' : HadBundle(s[2].data)
    BY <1>1, <2>1, <2>2 DEF Derived
  <2>4. ASSUME NEW q \in Exporters \cup Packagers,
               pc'[q] \in {"prepare", "write", "check", "package_stage", "publish"}
        PROVE  HadBundle(job'[q].makes.data)
    BY <2>1, <2>4, Roles DEF Derived
  <2>5. \A w \in Workspaces : head'[w].sealed => HadBundle(head'[w].data)
    BY <2>1 DEF Derived
  <2>6. QED
    BY <2>3, <2>4, <2>5 DEF Derived, HasBundle, HadBundle
<1>6. ASSUME NEW q \in Processes, q # p, made'[q] # Nothing
      PROVE  /\ made[q] # Nothing /\ Dest(q) \in Paths /\ Dest(q) # Dest(p)
             /\ made[q] = Dest(q) /\ target[Dest(q)] = job[q].makes /\ UNCHANGED <<pc[q], told[q]>>
  <2>1. made[q] # Nothing /\ UNCHANGED <<pc[q], told[q]>>
    BY <1>6
  <2>2. job[q] \in Job /\ made[q] = Dest(q) /\ target[Dest(q)] = job[q].makes
    BY <2>1 DEF Asked, Owned
  <2>3. Dest(q) \in Paths /\ job[q].makes \in Artifact
    BY <2>2 DEF Job, Dest
  <2>4. QED
    BY <2>1, <2>2, <2>3, NothingAssumption
<1>7. made'[p] = Dest(p) /\ target'[Dest(p)] = job[p].makes /\ pc'[p] = l /\ Dest(p)' = Dest(p)
  BY <1>1 DEF Dest
<1>8. Owned'
  <2>1. l = "recover" => faults' >= 1
    OBVIOUS
  <2>2. ASSUME NEW q \in Processes, made'[q] # Nothing
        PROVE  /\ made'[q] = Dest(q)' /\ target'[Dest(q)'] = job'[q].makes
               /\ pc'[q] \in {"idle", "clean", "sync", "unlink", "recover", "adopt", "promote"}
               /\ pc'[q] \in {"recover", "adopt", "clean"} => faults' >= 1
    <3>1. CASE q = p
      BY <1>7, <2>1, <3>1
    <3>2. CASE q # p
      BY <1>6, <2>2, <3>2 DEF Owned, Dest
    <3>3. QED
      BY <3>1, <3>2
  <2>3. QED
    BY <2>2 DEF Owned
<1>9. Truthful'
  <2>1. told'[p].kind \in {"none", "partial"}
    BY DEF Silent
  <2>2. ASSUME NEW q \in Processes, q # p, made'[q] # Nothing
        PROVE  /\ faults' <= 1 =>
                    /\ told'[q].kind \notin {"failed", "conflict", "cancelled"}
                    /\ told'[q].kind = "interrupted" => q \notin Exporters
               /\ told'[q].kind = "done" /\ q \notin Workspaces /\ Dest(q)' \in unsynced' => told'[q].warned
    BY <1>6, <2>2 DEF Truthful, Dest
  <2>3. QED
    BY <2>1, <2>2 DEF Truthful
<1>10. Accounted'
  BY DEF Accounted, Orphaned
<1>11. QED
  BY <1>3, <1>4, <1>5, <1>8, <1>9, <1>10

\* Facts about a running operation that the conditions of the shapes ask for.
LEMMA Running ==
  ASSUME Inv, NEW p \in Processes, pc[p] # "idle"
  PROVE  /\ job[p] \in Job /\ Dest(p) \in Paths /\ job[p].makes \in Artifact
         /\ faults \in Nat
         /\ p \in Workspaces /\ pc[p] # "lock" => job[p].makes = Bundle(head[p].data)
         /\ made[p] # Nothing =>
              /\ pc[p] \in {"clean", "sync", "unlink", "recover", "adopt", "promote"} /\ ~Free(p)
              /\ target[Dest(p)] = job[p].makes /\ (pc[p] \in {"recover", "adopt"} => faults >= 1)
<1>1. job[p] \in Job
  BY DEF Inv, TypeInv, Asked
<1>2. Dest(p) \in Paths /\ job[p].makes \in Artifact
  BY <1>1 DEF Dest, Job
<1>3. faults \in Nat
  BY PublicationAssumption DEF Inv, TypeInv, TypeOK
<1>4. QED
  BY <1>1, <1>2, <1>3, NothingAssumption DEF Inv, Current, Owned, Free

\* The durability of the name is decided, and the process goes on.
LEMMA SyncInv ==
  ASSUME Inv, TypeInv', NEW p \in Processes, pc[p] = "sync", SyncedOrWarned(p),
         NEW l, Goto(p, l), UNCHANGED <<target, head, job, staged, moved, made, shown, changes>>,
         \/ l = "promote" /\ p \in Workspaces /\ UNCHANGED told
         \/ l = "idle" /\ told' = [told EXCEPT ![p] = [kind |-> "done", warned |-> warned'[p]]]
  PROVE  Inv'
<1> USE DEF Inv, TypeInv, TypeOK, Goto, Dest, SyncedOrWarned, fault
<1>1. faults' >= faults /\ faults \in Nat /\ hit \subseteq hit'
  BY PublicationAssumption DEF Fault, Hit
<1>2. OnRecord'
  BY DEF OnRecord
<1>3. Current'
  BY Running DEF Current
<1>4. Derived'
  BY Roles DEF Derived, HasBundle
<1>5. Owned'
  BY <1>1 DEF Owned
<1>6. Truthful'
  <2>1. Dest(p) \in unsynced' => warned'[p]
    OBVIOUS
  <2>2. unsynced' \subseteq unsynced
    OBVIOUS
  <2>3. QED
    BY <1>1, <2>1, <2>2 DEF Truthful, Silent
<1>7. Accounted'
  <2>1. staged[p] # Nothing => Orphaned(p) /\ p \in Packagers /\ warned[p]
    BY DEF Accounted, Orphaned, StagingPcs
  <2>2. warned[p] => warned'[p]
    OBVIOUS
  <2>3. ASSUME staged[p] # Nothing
        PROVE  Orphaned(p)'
    <3>1. p \in hit' /\ p \in Packagers /\ p \notin Exporters /\ l = "idle" /\ warned'[p]
      BY <1>1, <2>1, <2>2, <2>3, Roles DEF Orphaned
    <3>2. told'[p].warned = warned'[p]
      <4>1. told' = [told EXCEPT ![p] = [kind |-> "done", warned |-> warned'[p]]]
        BY <3>1
      <4>2. p \in DOMAIN told
        BY DEF TypeOK
      <4>3. QED
        BY <4>1, <4>2
    <3>3. QED
      BY <3>1, <3>2, Roles DEF Orphaned
  <2>4. QED
    BY <1>1, <2>3 DEF Accounted, Orphaned
<1>8. QED
  BY <1>2, <1>3, <1>4, <1>5, <1>6, <1>7

LEMMA SealInv ==
  ASSUME Inv, TypeInv', NEW w \in Workspaces,
         SealStep(w) \/ SealFault(w) \/ Rebuild(w) \/ \E n \in Paths : SealStart(w, n)
  PROVE  Inv'
<1> USE Roles
<1>1. Kinds \ {"done", "killed"} = {"none", "conflict", "failed", "partial", "cancelled", "interrupted"}
  BY DEF Kinds
<1>2. ASSUME NEW k \in {"failed", "conflict"}, Fail(w, k), UNCHANGED fault, pc[w] \in SealPcs, made[w] = Nothing
      PROVE  Inv'
  BY <1>1, <1>2, FailInv DEF SealPcs
<1>3. CASE SealLock(w)
  <2>1. CASE head[w].rev = job[w].rev
    BY <1>3, <2>1, Running, MoveInv DEF SealLock, Inv, Current, StagingPcs
  <2>2. CASE head[w].rev # job[w].rev
    BY <1>2, <1>3, <2>2, Running DEF SealLock, SealPcs
  <2>3. QED
    BY <2>1, <2>2
<1>4. CASE SealLook(w)
  BY <1>4, Running, MoveInv DEF SealLook, Inv, StagingPcs
<1>5. CASE SealStage(w)
  BY <1>5, Running, MoveInv, StageInv DEF SealStage, Inv, StagingPcs
<1>6. CASE SealWrite(w)
  BY <1>6, Running, MoveInv DEF SealWrite, StagingPcs
<1>8. CASE SealPublish(w)
  <2>1. CASE Publish(w, "sync")
    BY <1>8, <2>1, PublishInv DEF SealPublish, Publish, fault
  <2>2. CASE Fail(w, "none") /\ UNCHANGED fault
    BY <1>1, <1>8, <2>2, Running, FailInv DEF SealPublish, StagingPcs
  <2>3. CASE Visible(w) /\ Hit(w, "oserror") /\ Unstage(w) /\ Goto(w, "recover") /\ UNCHANGED told
    BY <1>8, <2>3, PublishInv DEF SealPublish, Hit, Fault
  <2>4. QED
    BY <1>8, <2>1, <2>2, <2>3 DEF SealPublish
<1>9. CASE SealSync(w)
  BY <1>9, SyncInv DEF SealSync
<1>10. CASE Recover(w)
  BY <1>2, <1>10, Running, MoveInv DEF Recover, SealPcs, StagingPcs
<1>11. CASE Adopt(w)
  <2>1. Adopted(w) => <<Dest(w), job[w].makes>> \in shown
    BY <1>11, Running, NothingAssumption DEF Adopt, Adopted, Inv, OnRecord
  <2>2. QED
    BY <1>2, <1>11, <2>1, Running, MoveInv DEF Adopt, Adopted, SealPcs, StagingPcs
<1>12. CASE Promote(w)
  <2> USE <1>12 DEF Inv, TypeInv, TypeOK, Promote, Goto, Tell, Dest, fault
  <2>1. job[w].makes = Bundle(head[w].data) /\ <<Dest(w), job[w].makes>> \in shown
    BY Running DEF OnRecord
  <2>2. \A v \in Workspaces : v # w => UNCHANGED head[v]
    OBVIOUS
  <2>3. head'[w].data = head[w].data
    OBVIOUS
  <2>4. OnRecord'
    BY <2>1 DEF OnRecord
  <2>5. Current'
    BY <2>2 DEF Current
  <2>6. Derived'
    <3>1. HasBundle(head[w].data)
      BY <2>1, Running DEF HasBundle
    <3>2. QED
      BY <2>2, <2>3, <3>1 DEF Derived, HasBundle
  <2>7. Owned' /\ Truthful'
    BY DEF Owned, Truthful
  <2>8. Accounted'
    BY DEF Accounted, Orphaned, StagingPcs
  <2>9. QED
    BY <2>4, <2>5, <2>6, <2>7, <2>8
<1>13. CASE SealFault(w)
  <2>1. CASE SealStagingFails(w)
    BY <1>1, <2>1, Running, BrokenInv DEF SealStagingFails, StagingPcs, Making
  <2>2. CASE PromoteFails(w)
    BY <1>1, <2>2, Running, FailInv DEF PromoteFails
  <2>3. CASE SealFails(w)
    <3>1. made[w] # Nothing => faults >= 1
      BY <2>3, Running DEF SealFails
    <3>2. made[w] # Nothing => ~(faults' <= 1)
      BY <2>3, <3>1, Running DEF SealFails, Hit, Fault
    <3>3. QED
      BY <1>1, <2>3, <3>2, FailInv DEF SealFails
  <2>4. CASE SealInterrupted(w)
    BY <1>1, <2>4, Running, BrokenInv DEF SealInterrupted
  <2>5. QED
    BY <1>13, <2>1, <2>2, <2>3, <2>4 DEF SealFault
<1>14. CASE Rebuild(w)
  <2> USE <1>14 DEF Inv, TypeInv, TypeOK, Rebuild, work, Dest, fault
  <2>1. PICK d \in Datasets : head' = [head EXCEPT ![w] = [rev |-> head[w].rev + 1, data |-> d, sealed |-> FALSE]]
    OBVIOUS
  <2>2. /\ head'[w].rev = head[w].rev + 1 /\ ~head'[w].sealed /\ head[w].rev \in Nat
        /\ \A v \in Workspaces : v # w => UNCHANGED head[v]
    BY <2>1
  <2>3. OnRecord'
    BY DEF OnRecord
  <2>4. Current'
    <3>1. pc[w] = "lock" => job[w].rev \in Nat
      BY Running DEF Job
    <3>2. QED
      BY <2>2, <3>1 DEF Current
  <2>5. Derived'
    BY <2>2 DEF Derived, HasBundle
  <2>6. Owned' /\ Truthful' /\ Accounted'
    BY DEF Owned, Truthful, Accounted, Orphaned
  <2>7. QED
    BY <2>3, <2>4, <2>5, <2>6
<1>15. ASSUME NEW n \in Paths, SealStart(w, n)
       PROVE  Inv'
  <2>1. Bundle(head[w].data) \in Artifact /\ head[w].rev \in Nat
    BY DEF Inv, TypeInv, TypeOK, Bundle, Artifact
  <2>2. QED
    BY <1>15, <2>1, StartInv DEF SealStart
<1>16. CASE Clean(w)
  BY <1>16, CleanInv
<1>17. QED
  BY <1>3, <1>4, <1>5, <1>6, <1>8, <1>9, <1>10, <1>11, <1>12, <1>13, <1>14, <1>15, <1>16 DEF SealStep

LEMMA ExportInv ==
  ASSUME Inv, TypeInv', NEW e \in Exporters,
         \/ ExportStep(e) \/ ExportFault(e)
         \/ \E n, src \in Paths, d \in Datasets : n # src /\ ExportStart(e, n, src, d)
  PROVE  Inv'
<1> USE Roles
<1>1. Kinds \ {"done", "killed"} = {"none", "conflict", "failed", "partial", "cancelled", "interrupted"}
  BY DEF Kinds
<1>2. ASSUME NEW k \in {"failed", "cancelled", "interrupted"}, pc[e] \in ExportPcs \cup StagingPcs,
             (Fail(e, k) /\ UNCHANGED fault) \/ (\E f : Hit(e, f) /\ Broken(e, k))
      PROVE  Inv'
  <2>1. made[e] = Nothing /\ pc[e] \notin {"idle", "clean", "unlink"}
    BY <1>2, Running DEF ExportPcs, StagingPcs
  <2>2. QED
    BY <1>1, <1>2, <2>1, FailInv, BrokenInv
<1>3. faults \in Nat
  BY PublicationAssumption DEF Inv, TypeInv, TypeOK
<1>4. CASE Capture(e)
  <2>1. CASE Fail(e, "failed") /\ UNCHANGED fault
    BY <1>2, <1>3, <1>4, <2>1 DEF Capture, ExportPcs
  <2>2. CASE ~Fail(e, "failed")
    <3> USE <1>4, <2>2 DEF Inv, TypeInv, TypeOK, Capture, Goto, Dest, fault
    <3>1. HasBundle(job[e].makes.data)
      <4>1. job[e].source \in Paths /\ target[job[e].source] = Bundle(job[e].makes.data)
        BY Running DEF Job
      <4>2. target[job[e].source] # Nothing
        BY <4>1, Running, ArtifactType
      <4>3. QED
        BY <4>1, <4>2 DEF OnRecord, HasBundle
    <3>2. OnRecord'
      BY DEF OnRecord
    <3>3. Current'
      BY DEF Current
    <3>4. Derived'
      BY <3>1 DEF Derived, HasBundle
    <3>5. Owned' /\ Truthful'
      BY DEF Owned, Truthful
    <3>6. Accounted'
      BY DEF Accounted, Orphaned, StagingPcs
    <3>7. QED
      BY <3>2, <3>3, <3>4, <3>5, <3>6
  <2>3. QED
    BY <1>4, <2>1, <2>2 DEF Capture
<1>5. CASE Prepare(e)
  <2>1. CASE Free(e)
    BY <1>5, <2>1, StageInv DEF Prepare, Inv, Derived
  <2>2. CASE ~Free(e)
    BY <1>2, <1>3, <1>5, <2>2 DEF Prepare, ExportPcs
  <2>3. QED
    BY <2>1, <2>2
<1>6. CASE ExportWrite(e)
  BY <1>6, Running, MoveInv DEF ExportWrite, Inv, Derived, StagingPcs
<1>7. CASE Check(e)
  <2>1. CASE e \in moved
    BY <1>2, <1>3, <1>7, <2>1 DEF Check, StagingPcs
  <2>2. CASE e \notin moved
    BY <1>7, <2>2, Running, MoveInv DEF Check, Inv, Derived, StagingPcs
  <2>3. QED
    BY <2>1, <2>2
<1>8. CASE ExportPublish(e)
  <2>1. CASE Publish(e, "sync")
    BY <1>8, <2>1, PublishInv DEF ExportPublish, Publish, fault
  <2>2. CASE Fail(e, "failed") /\ UNCHANGED fault
    BY <1>2, <1>3, <1>8, <2>2 DEF ExportPublish, StagingPcs
  <2>3. QED
    BY <1>8, <2>1, <2>2 DEF ExportPublish
<1>9. CASE SyncAndReport(e)
  BY <1>9, SyncInv DEF SyncAndReport, Tell
<1>10. CASE ExportFault(e)
  <2>1. CASE InterruptedAfterRename(e)
    BY <2>1, PublishInv DEF InterruptedAfterRename, Hit, Fault, Tell
  <2>2. CASE Cancelled(e) \/ ExportFails(e)
    BY <1>2, <1>3, <2>2 DEF Cancelled, ExportFails, ExportPcs, StagingPcs
  <2>3. CASE pc[e] \in ExportPcs \cup StagingPcs /\ Hit(e, "interrupt") /\ Broken(e, "interrupted")
    BY <1>2, <2>3
  <2>4. CASE pc[e] = "sync" /\ Hit(e, "interrupt") /\ Fail(e, "partial")
    BY <1>1, <2>4, FailInv
  <2>5. QED
    BY <1>10, <2>1, <2>2, <2>3, <2>4 DEF ExportFault, ExportInterrupted
<1>11. ASSUME NEW n \in Paths, NEW src \in Paths, NEW d \in Datasets, ExportStart(e, n, src, d)
       PROVE  Inv'
  <2>1. [kind |-> "export", data |-> d] \in Artifact
    BY DEF Artifact
  <2>2. QED
    BY <1>11, <2>1, StartInv DEF ExportStart
<1>12. CASE Clean(e)
  BY <1>12, CleanInv
<1>13. QED
  BY <1>4, <1>5, <1>6, <1>7, <1>8, <1>9, <1>10, <1>11, <1>12 DEF ExportStep

\* An anchored source is a bundle, or an export that was made from one.
LEMMA AnchoredSource ==
  ASSUME Inv, NEW a \in Packagers, pc[a] # "idle", Anchored(a)
  PROVE  HasBundle(job[a].makes.data)
<1>1. PICK k \in DOMAIN ArchiveOf : target[job[a].source] = [kind |-> k, data |-> job[a].makes.data]
  BY DEF Anchored
<1>2. job[a].source \in Paths /\ job[a].makes.data \in Datasets
  BY Roles, Running, ArtifactType DEF Job
<1>3. target[job[a].source] # Nothing
  BY <1>1, <1>2, ArchiveKinds, ArtifactType
<1>4. <<job[a].source, target[job[a].source]>> \in shown
  BY <1>2, <1>3 DEF Inv, OnRecord
<1>5. QED
  BY <1>1, <1>4 DEF Inv, Derived

LEMMA PackageInv ==
  ASSUME Inv, TypeInv', NEW a \in Packagers,
         \/ PackageStep(a) \/ PackageFails(a) \/ PackageInterrupted(a)
         \/ \E n, src \in Paths, k \in DOMAIN ArchiveOf, d \in Datasets :
              n # src /\ PackageStart(a, n, src, k, d)
  PROVE  Inv'
<1> USE Roles
<1>1. Kinds \ {"done", "killed"} = {"none", "conflict", "failed", "partial", "cancelled", "interrupted"}
  BY DEF Kinds
<1>2. ASSUME pc[a] \in {"verify", "package_stage"} \cup StagingPcs,
             (Fail(a, "failed") /\ UNCHANGED fault) \/ (\E f : Hit(a, f) /\ Broken(a, "failed"))
      PROVE  Inv'
  <2>1. made[a] = Nothing /\ pc[a] \notin {"idle", "clean", "unlink"}
    BY <1>2, Running DEF StagingPcs
  <2>2. QED
    BY <1>1, <1>2, <2>1, FailInv, BrokenInv
<1>3. faults \in Nat
  BY PublicationAssumption DEF Inv, TypeInv, TypeOK
<1>4. CASE VerifySource(a)
  <2>1. CASE Anchored(a) /\ Free(a)
    BY <1>4, <2>1, AnchoredSource, Running, MoveInv DEF VerifySource, Inv, StagingPcs
  <2>2. CASE ~(Anchored(a) /\ Free(a))
    BY <1>2, <1>3, <1>4, <2>2 DEF VerifySource
  <2>3. QED
    BY <2>1, <2>2
<1>5. CASE PackageStage(a) \/ Pack(a)
  <2>1. CASE PackageStage(a)
    BY <2>1, StageInv DEF PackageStage, Inv, Derived
  <2>2. CASE Pack(a) /\ Anchored(a)
    BY <2>2, AnchoredSource, Running, MoveInv DEF Pack, StagingPcs
  <2>3. CASE Pack(a) /\ ~Anchored(a)
    BY <1>2, <2>3 DEF Pack, StagingPcs
  <2>4. QED
    BY <1>5, <2>1, <2>2, <2>3
<1>6. CASE PackagePublish(a)
  <2>1. CASE Publish(a, "unlink")
    BY <1>6, <2>1, PublishInv DEF PackagePublish, Publish, fault
  <2>2. CASE Fail(a, "failed") /\ UNCHANGED fault
    BY <1>2, <1>6, <2>2 DEF PackagePublish, StagingPcs
  <2>3. QED
    BY <1>6, <2>1, <2>2 DEF PackagePublish
<1>7. CASE Unlink(a)
  <2> USE <1>3, <1>7 DEF Inv, TypeInv, TypeOK, Unlink, Goto, Unstage, Dest, fault
  <2>1. faults' >= faults /\ hit \subseteq hit' /\ (a \in hit' \/ Unstage(a))
    BY DEF Fault, Hit, Handling
  <2>2. OnRecord'
    BY DEF OnRecord
  <2>3. Current'
    BY DEF Current
  <2>4. Derived'
    BY DEF Derived, HasBundle
  <2>5. Owned'
    BY <2>1 DEF Owned
  <2>6. Truthful'
    BY <2>1 DEF Truthful, Silent
  <2>7. Accounted'
    <3>1. staged'[a] # Nothing => Orphaned(a)'
      BY <2>1 DEF Orphaned, Silent
    <3>2. QED
      BY <2>1, <3>1 DEF Accounted, Orphaned
  <2>8. QED
    BY <2>2, <2>3, <2>4, <2>5, <2>6, <2>7
<1>8. CASE SyncAndReport(a)
  BY <1>8, SyncInv DEF SyncAndReport, Tell
<1>9. CASE PackageFails(a)
  BY <1>2, <1>9 DEF PackageFails
<1>10. CASE PackageInterrupted(a)
  <2>1. CASE InterruptedAfterLink(a)
    <3> USE <1>3, <2>1 DEF Inv, TypeInv, TypeOK, InterruptedAfterLink, Goto, Tell, Dest
    <3>1. faults' >= 1 /\ faults' >= faults /\ hit \subseteq hit'
      BY DEF Hit, Fault
    <3>2. OnRecord'
      BY DEF OnRecord
    <3>3. Current'
      BY DEF Current
    <3>4. Derived'
      BY DEF Derived, HasBundle
    <3>5. Owned'
      BY <3>1 DEF Owned
    <3>6. Truthful'
      BY <3>1 DEF Truthful
    <3>7. Accounted'
      BY <3>1 DEF Accounted, Orphaned
    <3>8. QED
      BY <3>2, <3>3, <3>4, <3>5, <3>6, <3>7
  <2>2. CASE ~InterruptedAfterLink(a)
    BY <1>1, <1>10, <2>2, BrokenInv DEF PackageInterrupted
  <2>3. QED
    BY <2>1, <2>2
<1>11. ASSUME NEW n \in Paths, NEW src \in Paths, NEW k \in DOMAIN ArchiveOf, NEW d \in Datasets,
              PackageStart(a, n, src, k, d)
       PROVE  Inv'
  <2>1. [kind |-> ArchiveOf[k], data |-> d] \in Artifact
    BY ArchiveKinds DEF Artifact
  <2>2. QED
    BY <1>11, <2>1, StartInv DEF PackageStart
<1>12. CASE Clean(a)
  BY <1>12, CleanInv
<1>13. QED
  BY <1>4, <1>5, <1>6, <1>7, <1>8, <1>9, <1>10, <1>11, <1>12 DEF PackageStep

LEMMA EnvironmentInv ==
  ASSUME Inv, TypeInv', (\E p \in Processes : Kill(p) \/ CleanFails(p)) \/ PowerLoss \/ \E n \in Paths : Remove(n)
  PROVE  Inv'
<1> USE DEF Inv, TypeInv, TypeOK, Dest
<1>1. faults \in Nat
  BY PublicationAssumption
<1>2. ASSUME NEW p \in Processes, Kill(p)
      PROVE  Inv'
  <2> USE <1>1, <1>2 DEF Kill, Dies, Goto, Tell
  <2>1. faults' >= faults
    BY DEF Fault
  <2>2. OnRecord' /\ Current'
    BY Roles DEF OnRecord, Current
  <2>3. Derived'
    BY Roles DEF Derived, HasBundle
  <2>4. Owned' /\ Truthful'
    BY <2>1 DEF Owned, Truthful
  <2>5. Accounted'
    BY DEF Accounted, Orphaned
  <2>6. QED
    BY <2>2, <2>3, <2>4, <2>5
<1>3. CASE PowerLoss
  <2>1. PICK lost \in SUBSET unsynced :
          /\ target' = [n \in Paths |-> IF n \in lost THEN Nothing ELSE target[n]]
          /\ Gone(lost)
    BY <1>3 DEF PowerLoss
  <2> USE <1>1, <1>3, <2>1 DEF PowerLoss, Gone
  <2>2. \A n \in Paths : target'[n] # Nothing => target'[n] = target[n]
    OBVIOUS
  <2>3. /\ \A q \in Processes : made'[q] # Nothing => made'[q] = made[q] /\ made[q] \in Paths \ lost
        /\ \A q \in Processes : pc'[q] = "idle" /\ told'[q].kind \in {told[q].kind, "killed"}
    OBVIOUS
  <2>4. OnRecord'
    BY <2>2, <2>3 DEF OnRecord
  <2>5. Current'
    BY <2>3, Roles DEF Current
  <2>6. Derived'
    BY <2>3, Roles DEF Derived, HasBundle
  <2>7. Owned'
    <3>1. ASSUME NEW q \in Processes, made'[q] # Nothing
          PROVE  made'[q] = job'[q].path /\ target'[job'[q].path] = job'[q].makes /\ pc'[q] = "idle"
      BY <2>3, <3>1 DEF Owned
    <3>2. QED
      BY <3>1 DEF Owned
  <2>8. Truthful'
    <3>1. faults' >= faults /\ unsynced' = {}
      BY DEF Fault
    <3>2. QED
      BY <2>3, <3>1 DEF Truthful
  <2>9. Accounted'
    BY <2>3 DEF Accounted, Orphaned
  <2>10. QED
    BY <2>4, <2>5, <2>6, <2>7, <2>8, <2>9
<1>4. ASSUME NEW n \in Paths, Remove(n)
      PROVE  Inv'
  <2> USE <1>4 DEF Remove, Gone, fault
  <2>1. \A q \in Processes : made'[q] # Nothing => made'[q] = made[q] /\ made[q] # n /\ made[q] \in Paths
    OBVIOUS
  <2>2. OnRecord' /\ Current'
    BY DEF OnRecord, Current
  <2>3. Derived'
    BY DEF Derived, HasBundle
  <2>4. Owned' /\ Truthful'
    BY <2>1 DEF Owned, Truthful
  <2>5. Accounted'
    BY DEF Accounted, Orphaned
  <2>6. QED
    BY <2>2, <2>3, <2>4, <2>5
<1>5. QED
  BY <1>2, <1>3, <1>4, CleanInv

LEMMA NextInv == Inv /\ [Next]_vars => Inv'
<1>1. SUFFICES ASSUME Inv, [Next]_vars PROVE Inv'
  OBVIOUS
<1>2. TypeInv'
  BY <1>1, NextTypeInv DEF Inv
<1>3. CASE UNCHANGED vars
  <2> USE <1>3 DEF vars, work, Dest, fault
  <2>1. OnRecord' /\ Current' /\ Owned' /\ Truthful' /\ Accounted'
    BY <1>1 DEF Inv, OnRecord, Current, Owned, Truthful, Accounted, Orphaned
  <2>2. Derived'
    BY <1>1 DEF Inv, Derived, HasBundle
  <2>3. QED
    BY <1>2, <2>1, <2>2 DEF Inv
<1>4. CASE Next
  BY <1>1, <1>2, <1>4, SealInv, ExportInv, PackageInv, EnvironmentInv DEF Next
<1>5. QED
  BY <1>1, <1>3, <1>4

LEMMA Invariant == Spec => []Inv
BY InitInv, NextInv, PTL DEF Spec

-----------------------------------------------------------------------------
(* What a reader should know of                                            *)

(* Whoever was told that an operation failed or was cancelled left nothing *)
(* visible, after at most one fault; and an export or archive (a seal may  *)
(* adopt a bundle unsynced) that could be lost with the power was reported *)
(* with a warning.                                                         *)
THEOREM ReportsAreTrue == Spec => []Truthful
BY Invariant, PTL DEF Inv

(* When an operation is over, whatever ended it, what it staged is gone:   *)
(* unless it was killed, or a fault met the calls that make or remove the  *)
(* entry; then no export is reported done, and an archive with a warning.  *)
THEOREM NothingIsLeftStaged == Spec => []NoLitter
<1>1. Inv => NoLitter
  BY DEF Inv, Accounted, Orphaned, NoLitter, StagingPcs
<1>2. QED
  BY <1>1, Invariant, PTL

(* Only what a bundle was visible for is ever visible, however sources are *)
(* moved, removed and replaced while they are read.                        *)
THEOREM EverythingComesFromABundle == Spec => []FromABundle
<1>1. Inv => FromABundle
  BY DEF Inv, OnRecord, Derived, HasBundle, FromABundle
<1>2. QED
  BY <1>1, Invariant, PTL

(* HEAD is sealed, and success reported, only for what had become visible. *)
THEOREM ReceiptsFollowBundles == Spec => []ReceiptAfterBundle
<1>1. Inv => ReceiptAfterBundle
  BY DEF Inv, OnRecord, Derived, HasBundle, ReceiptAfterBundle
<1>2. QED
  BY <1>1, Invariant, PTL

(* No destination that holds an artifact ever holds another one next: two  *)
(* publishers of whatever kind never overwrite each other.                 *)
THEOREM NoArtifactIsReplaced == Spec => NeverReplaced
<1> DEFINE Stays == \A n \in Paths : target[n] # Nothing => target'[n] \in {target[n], Nothing}
<1>1. ASSUME TypeInv, NEW p \in Processes, Visible(p)
      PROVE  Stays
  BY <1>1 DEF TypeInv, TypeOK, Visible, Free
<1>2. ASSUME TypeInv, Next, ~UNCHANGED target
      PROVE  Stays
  <2> USE <1>2 DEF Start, Fail, Move, Stage, Broken, Abandon, Publish
  <2>1. ASSUME NEW w \in Workspaces,
               SealStep(w) \/ SealFault(w) \/ Rebuild(w) \/ \E n \in Paths : SealStart(w, n)
        PROVE  Stays
    <3>1. Visible(w)
      BY <2>1 DEF SealStep, SealFault, Rebuild, SealStart, SealLock, SealLook, SealStage, SealWrite,
           SealPublish, SealSync, Recover, Adopt, Promote, SealStagingFails, PromoteFails, SealFails,
           SealInterrupted, Clean
    <3>2. QED
      BY <1>1, <3>1, Roles
  <2>2. ASSUME NEW e \in Exporters,
               \/ ExportStep(e) \/ ExportFault(e)
               \/ \E n, src \in Paths, d \in Datasets : n # src /\ ExportStart(e, n, src, d)
        PROVE  Stays
    <3>1. Visible(e)
      BY <2>2 DEF ExportStep, ExportFault, ExportStart, Capture, Prepare, ExportWrite, Check,
           ExportPublish, SyncAndReport, Cancelled, ExportFails, ExportInterrupted, InterruptedAfterRename, Clean
    <3>2. QED
      BY <1>1, <3>1, Roles
  <2>3. ASSUME NEW a \in Packagers,
               \/ PackageStep(a) \/ PackageFails(a) \/ PackageInterrupted(a)
               \/ \E n, src \in Paths, k \in DOMAIN ArchiveOf, d \in Datasets :
                    n # src /\ PackageStart(a, n, src, k, d)
        PROVE  Stays
    <3>1. Visible(a)
      BY <2>3 DEF PackageStep, PackageStart, VerifySource, Pack, PackagePublish, Unlink,
           SyncAndReport, PackageFails, PackageInterrupted, InterruptedAfterLink, PackageStage, Clean
    <3>2. QED
      BY <1>1, <3>1, Roles
  <2>4. CASE PowerLoss
    BY <2>4 DEF PowerLoss
  <2>5. ASSUME NEW n \in Paths, Remove(n)
        PROVE  Stays
    BY <2>5 DEF Remove, TypeInv, TypeOK
  <2>6. ~\E p \in Processes : Kill(p) \/ CleanFails(p)
    BY DEF Kill, CleanFails
  <2>7. QED
    BY <2>1, <2>2, <2>3, <2>4, <2>5, <2>6 DEF Next
<1>3. TypeInv /\ [Next]_vars => [Stays]_target
  BY <1>2 DEF vars
<1>4. QED
  BY InitTypeInv, NextTypeInv, <1>3, PTL DEF Spec, NeverReplaced

(* A bundle becomes visible only while its workspace's HEAD has the        *)
(* dataset it was made from.                                               *)
THEOREM LateSealsPublishNothing == Spec => PublishesCurrent
<1> DEFINE OfHead ==
      \A w \in Workspaces :
        made[w] = Nothing /\ made'[w] # Nothing => job[w].makes.data = head[w].data
<1>1. ASSUME Inv, Next, NEW w \in Workspaces, made[w] = Nothing, made'[w] # Nothing
      PROVE  job[w].makes.data = head[w].data
  <2> USE <1>1, Roles DEF Start, Fail, Move, Stage, Broken, Abandon, Publish, Visible, Inv, TypeInv, TypeOK
  <2>1. CASE SealStep(w) \/ SealFault(w) \/ Rebuild(w) \/ \E n \in Paths : SealStart(w, n)
    <3>1. SealPublish(w)
      BY <2>1 DEF SealStep, SealFault, Rebuild, SealStart, SealLock, SealLook, SealStage, SealWrite,
           SealSync, Recover, Adopt, Promote, SealStagingFails, PromoteFails, SealFails,
           SealInterrupted, Clean, work
    <3>2. job[w].makes = Bundle(head[w].data)
      BY <3>1 DEF SealPublish, Current
    <3>3. QED
      BY <3>2 DEF Bundle
  <2>2. ASSUME NEW v \in Workspaces, v # w,
               SealStep(v) \/ SealFault(v) \/ Rebuild(v) \/ \E n \in Paths : SealStart(v, n)
        PROVE  made'[w] = made[w]
    BY <2>2 DEF SealStep, SealFault, Rebuild, SealStart, SealLock, SealLook, SealStage, SealWrite,
         SealPublish, SealSync, Recover, Adopt, Promote, SealStagingFails, PromoteFails, SealFails,
         SealInterrupted, Clean, work
  <2>3. ASSUME NEW e \in Exporters,
               \/ ExportStep(e) \/ ExportFault(e)
               \/ \E n, src \in Paths, d \in Datasets : n # src /\ ExportStart(e, n, src, d)
        PROVE  made'[w] = made[w]
    BY <2>3 DEF ExportStep, ExportFault, ExportStart, Capture, Prepare, ExportWrite, Check,
         ExportPublish, SyncAndReport, Cancelled, ExportFails, ExportInterrupted, InterruptedAfterRename, Clean
  <2>4. ASSUME NEW a \in Packagers,
               \/ PackageStep(a) \/ PackageFails(a) \/ PackageInterrupted(a)
               \/ \E n, src \in Paths, k \in DOMAIN ArchiveOf, d \in Datasets :
                    n # src /\ PackageStart(a, n, src, k, d)
        PROVE  made'[w] = made[w]
    BY <2>4 DEF PackageStep, PackageStart, VerifySource, Pack, PackagePublish, Unlink,
         SyncAndReport, PackageFails, PackageInterrupted, InterruptedAfterLink, PackageStage, Clean
  <2>5. ASSUME (\E p \in Processes : Kill(p) \/ CleanFails(p)) \/ PowerLoss \/ \E n \in Paths : Remove(n)
        PROVE  made'[w] = Nothing
    BY <2>5 DEF Kill, CleanFails, PowerLoss, Remove, Gone
  <2>6. QED
    BY <2>1, <2>2, <2>3, <2>4, <2>5 DEF Next
<1>2. Inv /\ [Next]_vars => [OfHead]_made
  BY <1>1 DEF vars, work
<1>3. QED
  BY InitInv, NextInv, <1>2, PTL DEF Spec, PublishesCurrent

-----------------------------------------------------------------------------
(* The files of one export                                                 *)

LEMMA Distinct ==
  /\ Absent \notin Identities /\ Rival # Absent
  /\ Planned \subseteq Identities /\ Files \subseteq Identities /\ Root \in Identities
  /\ Planned \subseteq EntryNames /\ Files \subseteq EntryNames /\ Folder \in EntryNames
  /\ Folder \notin Files /\ Receipt \notin Payloads /\ Files \subseteq Planned
  /\ Top \subseteq Planned /\ Nested \subseteq Planned /\ Top \cap Nested = {}
  /\ Nested \subseteq Payloads /\ (Nested # {} => Folder \in Top) /\ (Folder \in Planned => Nested # {})
BY TreeAssumption DEF Identities, Files, Planned, Top, EntryNames, Reserved, Folder, Receipt, Stray, Root, Rival, Absent

-----------------------------------------------------------------------------
(* The inductive invariant                                                  *)

\* The export has not failed, and nothing is cleaned up.
Live == at \notin Cleaning \cup {"failed", "partial"}

Noted(n) == noted[n].file # Absent
Before == {"render", "prepare", "mkdir", "created", "opening", "folder", "own", "owned", "create", "write", "find", "anchor"}
Rootless == {"render", "prepare", "mkdir", "created", "opening", "find", "anchor"}
ReadingSteps == {"open", "before", "after"}
WalkingSteps == {"stat", "enter", "inside"}
Walked == Kept \cup {"walked", "checkpoint"}

\* The variables have the shapes that the steps rely on.
Shapes ==
  /\ op.does \in {"publish", "verify", "inspect"}
  /\ at \in Before \cup {"list"} \cup ReadingSteps \cup WalkingSteps \cup Walked
  /\ pass \in Nat \ {0} /\ todo \subseteq Planned /\ path \in Planned
  /\ noted \in [Planned -> [file : Identities \cup {Absent}, version : Nat]]
  /\ root \in Identities \cup {Absent}
  /\ owned = [n \in Planned \cup {Root} |-> owned[n]] /\ owned[Root] \in Identities \cup {Absent}
  /\ read = [n \in Files |-> read[n]] /\ rendered = [n \in Files |-> rendered[n]]
  /\ spot = [staging |-> spot.staging, target |-> spot.target]
  /\ spot.staging \in Identities \cup {Absent} /\ spot.target \in Identities \cup {Absent, Rival}
  /\ ~Does("publish") => spot.target # Rival

\* A disk: every identity has a version, every folder has its entries.
Disk(nodes, entries) ==
  /\ nodes = [i \in Identities |-> nodes[i]]
  /\ \A i \in Identities : nodes[i].version \in Nat
  /\ entries = [d \in Identities |-> entries[d]]
  /\ \A d \in Identities, n \in EntryNames : entries[d][n] \in Identities \cup {Absent}

\* The first walk has listed the folder; these files were read.
Listed == pass > 1 \/ at \in ReadingSteps \/ (at = "stat" /\ Folder \notin todo)
ReadSoFar == IF pass > 1 THEN Files ELSE IF at \in ReadingSteps THEN Files \ todo ELSE {}

\* The entries that the walk that is under way has looked at.
LookedAt ==
  IF at \in {"enter", "inside"} \/ (at = "stat" /\ Folder \in todo) THEN Top \ todo
  ELSE IF at = "stat" THEN Planned \ todo ELSE Planned

\* An entry whose version is the noted one is where it was and what it was;
\* what was read of it is what it holds.
FactsHold(nodes, entries, listed, done) ==
  \A n \in Planned : Noted(n) =>
    /\ noted[n].version <= nodes[noted[n].file].version
    /\ noted[n].version = nodes[noted[n].file].version =>
         /\ nodes[noted[n].file].kind = Kind(n)
         /\ entries[FolderOf(n)][n] = noted[n].file
         /\ n = Folder /\ listed => {m \in EntryNames : entries[noted[n].file][m] # Absent} = Nested
         /\ n \in done => nodes[noted[n].file].body = read[n]

\* What is noted when ...
NotedWhen ==
  /\ at \in Before \cup {"list"} /\ pass = 1 => \A n \in Planned : ~Noted(n)
  /\ at = "stat" /\ pass = 1 /\ Folder \in todo => \A n \in Nested : ~Noted(n)
  /\ at \in WalkingSteps /\ pass = 1 => \A n \in LookedAt : Noted(n)
  /\ at \in ReadingSteps \/ pass > 1 => \A n \in Planned : Noted(n)
  /\ \A n \in Nested : Noted(n) => Noted(Folder)

\* ... and in which order the steps come.
Order ==
  /\ at \in Before \cup ReadingSteps => pass = 1
  /\ at \notin Rootless => root # Absent
  /\ at = "anchor" => owned[Root] # Absent
  /\ at \in {"find", "anchor"} => ~Does("publish")
  /\ at \in {"enter", "inside"} \/ (at = "stat" /\ Folder \in todo) => todo \subseteq Top
  /\ at \in {"enter", "inside"} => Folder \in Top \ todo
  /\ at \in ReadingSteps => todo \subseteq Files /\ todo # {}
  /\ at \in ReadingSteps /\ ~Does("inspect") => Receipt \in todo
  /\ at \in ReadingSteps /\ Does("inspect") /\ Receipt \in todo => todo = Files
  /\ at \in {"before", "after"} => path \in todo /\ InTurn(path)
  /\ at \in Walked => pass > 1
  /\ at \in {"checkpoint", "rename", "renamed", "placed", "sync", "done"} => pass > 2
  /\ at \in {"answer", "answered"} => ~Does("publish")

\* The moment of the latest walk lies between what was noted and what is.
MomentHolds ==
  pass > 1 /\ at \in WalkingSteps \cup Walked =>
    /\ Disk(moment.node, moment.holds)
    /\ \A i \in Identities : moment.node[i].version <= node[i].version
    /\ FactsHold(moment.node, moment.holds, TRUE, Files)
    /\ {n \in EntryNames : moment.holds[root][n] # Absent} = Top
    /\ \A n \in LookedAt : moment.node[noted[n].file].version = noted[n].version

Allowed == IF op.exact THEN {Bytes("planned")} ELSE {Bytes("planned"), Bytes("variant")}
ReceiptRead == read[Receipt] = ReceiptOf([p \in Payloads |-> read[p]])

\* What was read is what it has to be.
Contents ==
  /\ at # "render" /\ Does("publish") => rendered[Receipt] = ReceiptOf([p \in Payloads |-> rendered[p]])
  /\ ~Does("inspect") => \A p \in Payloads \cap ReadSoFar : read[p] \in Allowed
  /\ Does("inspect") /\ Receipt \in ReadSoFar =>
       \E bodies \in [Payloads -> {Bytes(w) : w \in Words}] :
         read[Receipt] = ReceiptOf(bodies) /\ \A p \in Payloads \cap ReadSoFar : read[p] = bodies[p]
  /\ pass > 1 => ReceiptRead
  /\ pass > 2 /\ Does("publish") => \A n \in Files : read[n] = rendered[n]

Fit ==
  /\ Shapes /\ Disk(node, holds) /\ NotedWhen /\ Order
  /\ FactsHold(node, holds, Listed, ReadSoFar) /\ MomentHolds /\ Contents

TreeInv == Live => Fit

-----------------------------------------------------------------------------
(* What is kept is one tree                                                 *)

LEMMA TreeInvIsOneTree == TreeInv => TakenAsOneTree
<1> SUFFICES ASSUME TreeInv, at \in Kept PROVE TakenAsOneTree
  BY DEF TakenAsOneTree
<1>1. Live
  BY DEF Live, Kept, Cleaning
<1>2. Fit /\ at \in Walked
  BY <1>1 DEF TreeInv, Walked
<1>3. pass > 1 /\ pass \in Nat /\ root \in Identities
  BY <1>2 DEF Fit, Shapes, Order, Rootless, Kept
<1>4. \A n \in Planned : Noted(n)
  BY <1>2, <1>3 DEF Fit, NotedWhen
<1>5. LookedAt = Planned
  BY DEF LookedAt, Kept
<1>6. \A n \in Planned : moment.node[noted[n].file].version = noted[n].version
  BY <1>2, <1>3, <1>5 DEF Fit, MomentHolds
<1>7. \A n \in Planned :
        /\ moment.node[noted[n].file].kind = Kind(n)
        /\ moment.holds[FolderOf(n)][n] = noted[n].file
        /\ n = Folder => {m \in EntryNames : moment.holds[noted[n].file][m] # Absent} = Nested
        /\ n \in Files => moment.node[noted[n].file].body = read[n]
  BY <1>2, <1>3, <1>4, <1>6 DEF Fit, MomentHolds, FactsHold
<1>8. Nested # {} => moment.holds[root][Folder] = noted[Folder].file
  <2> HAVE Nested # {}
  <2>1. Folder \in Planned /\ Folder \notin Nested
    BY Distinct DEF Planned
  <2> QED BY <1>7, <2>1 DEF FolderOf
<1>9. \A n \in Files : moment.holds[IF n \in Nested THEN moment.holds[root][Folder] ELSE root][n] = noted[n].file
  BY <1>7, <1>8, Distinct DEF FolderOf
<1>10. WasThere
  <2>1. {n \in EntryNames : moment.holds[root][n] # Absent} = Top
    BY <1>2, <1>3 DEF Fit, MomentHolds
  <2>2. Nested # {} => /\ moment.node[moment.holds[root][Folder]].kind = "folder"
                       /\ {n \in EntryNames : moment.holds[moment.holds[root][Folder]][n] # Absent} = Nested
    BY <1>7, <1>8, Distinct DEF Kind
  <2>3. \A n \in Files : /\ moment.node[noted[n].file].kind = "file"
                         /\ moment.node[noted[n].file].body = read[n]
    BY <1>7, Distinct DEF Kind
  <2> QED BY <1>9, <2>1, <2>2, <2>3 DEF WasThere
<1>11. ReceiptRead
  BY <1>2, <1>3 DEF Fit, Contents
<1>12. Does("publish") => \A n \in Files : read[n] = rendered[n]
  BY <1>2 DEF Fit, Contents, Order, Kept
<1>13. Does("verify") => \A n \in Payloads : read[n] \in Allowed
  BY <1>2, <1>3 DEF Fit, Contents, Does, ReadSoFar, Files
<1> QED BY <1>10, <1>11, <1>12, <1>13 DEF TakenAsOneTree, ReceiptRead, Allowed

-----------------------------------------------------------------------------
(* What a change of the disk leaves of the facts                            *)

\* Versions only grow, and tell when a node, the entries of a folder or the
\* way to what an entry led to is another.
Changes ==
  \A i \in Identities :
    /\ node[i].version <= node'[i].version
    /\ node'[i].version = node[i].version =>
         /\ node'[i] = node[i] /\ holds'[i] = holds[i]
         /\ \A d \in Identities, n \in EntryNames : holds[d][n] = i => holds'[d][n] = i

LEMMA NothingChanges == ASSUME Disk(node, holds), UNCHANGED <<node, holds>> PROVE Disk(node, holds)' /\ Changes
BY DEF Disk, Changes

LEMMA EnterChanges ==
  ASSUME Disk(node, holds), NEW d, NEW n \in EntryNames, NEW i \in Identities \cup {Absent}, NEW kind, NEW body,
         Enter(d, n, i, kind, body)
  PROVE  Disk(node, holds)' /\ Changes
<1>1. \A j \in Identities :
        /\ node[j].version \in Nat
        /\ node'[j].version \in {node[j].version, node[j].version + 1}
        /\ node'[j].version = node[j].version => node'[j] = node[j] /\ j # d /\ j # holds[d][n]
  BY DEF Enter, Disk
<1>2. holds' = [e \in Identities |-> IF e = d THEN [m \in EntryNames |-> IF m = n THEN i ELSE holds[d][m]] ELSE holds[e]]
  BY DEF Enter, Disk
<1>3. \A e \in Identities : e # d => holds'[e] = holds[e]
  BY <1>2
<1>4. \A e \in Identities, m \in EntryNames : holds'[e][m] = IF e = d /\ m = n THEN i ELSE holds[e][m]
  BY <1>2
<1>5. Disk(node, holds)'
  <2>1. node' = [j \in Identities |-> node'[j]]
    BY DEF Enter
  <2>2. holds' = [e \in Identities |-> holds'[e]]
    BY <1>2
  <2>3. \A e \in Identities, m \in EntryNames : holds'[e][m] \in Identities \cup {Absent}
    BY <1>4 DEF Disk
  <2>4. \A j \in Identities : node'[j].version \in Nat
    BY <1>1
  <2> QED BY <2>1, <2>2, <2>3, <2>4 DEF Disk
<1>6. Changes
  <2> SUFFICES ASSUME NEW j \in Identities PROVE
        /\ node[j].version <= node'[j].version
        /\ node'[j].version = node[j].version =>
             /\ node'[j] = node[j] /\ holds'[j] = holds[j]
             /\ \A e \in Identities, m \in EntryNames : holds[e][m] = j => holds'[e][m] = j
    BY DEF Changes
  <2>1. node[j].version <= node'[j].version
    BY <1>1
  <2>2. ASSUME node'[j].version = node[j].version PROVE node'[j] = node[j] /\ holds'[j] = holds[j]
    BY <1>1, <1>3, <2>2
  <2>3. ASSUME node'[j].version = node[j].version, NEW e \in Identities, NEW m \in EntryNames, holds[e][m] = j
        PROVE  holds'[e][m] = j
    BY <1>1, <1>4, <2>3
  <2> QED BY <2>1, <2>2, <2>3
<1> QED BY <1>5, <1>6

LEMMA BecomeChanges ==
  ASSUME Disk(node, holds), NEW i \in Identities, NEW kind, NEW body, Become(i, kind, body), UNCHANGED holds
  PROVE  Disk(node, holds)' /\ Changes
<1>1. \A j \in Identities :
        /\ node[j].version \in Nat
        /\ node'[j] = IF j = i THEN [kind |-> kind, body |-> body, version |-> node[i].version + 1] ELSE node[j]
  BY DEF Become, Disk
<1>2. node' = [j \in Identities |-> node'[j]]
  BY DEF Become, Disk
<1>3. \A j \in Identities :
        /\ node'[j].version \in {node[j].version, node[j].version + 1}
        /\ node'[j].version = node[j].version => node'[j] = node[j]
  BY <1>1
<1> QED BY <1>1, <1>2, <1>3 DEF Disk, Changes

LEMMA IntruderChanges ==
  ASSUME Disk(node, holds), Intrude
  PROVE  Disk(node, holds)' /\ Changes
<1>1. CASE AlterFile
  <2>1. PICK i \in Files, word \in Words, kind \in {"file", "shared"} :
          Become(i, kind, IF kind = "shared" THEN node[i].body ELSE Bytes(word)) /\ UNCHANGED holds
    BY <1>1 DEF AlterFile
  <2> DEFINE Body == IF kind = "shared" THEN node[i].body ELSE Bytes(word)
  <2>2. i \in Identities /\ Become(i, kind, Body)
    BY <2>1 DEF Identities
  <2> HIDE DEF Body
  <2> QED BY <2>1, <2>2, BecomeChanges
<1>2. CASE AlterEntry
  <2>1. PICK d \in {Root, Folder} \cup Spares, n \in EntryNames, i \in {Absent} \cup Spares, kind \in {"file", "folder", "link"} :
          \/ Enter(d, n, i, kind, Bytes("alien"))
          \/ Enter(d, n, i, kind, node[holds[d][n]].body)
    BY <1>2 DEF AlterEntry
  <2>2. i \in Identities \cup {Absent}
    BY DEF Identities
  <2>3. CASE Enter(d, n, i, kind, Bytes("alien"))
    BY <2>2, <2>3, EnterChanges
  <2>4. CASE Enter(d, n, i, kind, node[holds[d][n]].body)
    <3> DEFINE Body == node[holds[d][n]].body
    <3>1. Enter(d, n, i, kind, Body)
      BY <2>4
    <3> HIDE DEF Body
    <3> QED BY <2>2, <3>1, EnterChanges
  <2> QED BY <2>1, <2>3, <2>4
<1>3. CASE AlterSpot
  <2>1. PICK i \in {Absent} \cup Spares, kind \in {"folder", "link"} :
          /\ node' = [j \in Identities |-> IF j = i THEN [kind |-> kind, body |-> <<>>, version |-> node[j].version + 1] ELSE node[j]]
          /\ UNCHANGED holds
    BY <1>3 DEF AlterSpot
  <2>2. \A j \in Identities :
          /\ node[j].version \in Nat
          /\ node'[j].version \in {node[j].version, node[j].version + 1}
          /\ node'[j].version = node[j].version => node'[j] = node[j]
    BY <2>1 DEF Disk
  <2>3. node' = [j \in Identities |-> node'[j]]
    BY <2>1
  <2> QED BY <2>1, <2>2, <2>3 DEF Disk, Changes
<1>4. CASE AlterParent \/ TakeDestination
  BY <1>4, NothingChanges DEF AlterParent, TakeDestination
<1> QED BY <1>1, <1>2, <1>3, <1>4 DEF Intrude

\* What was noted of an entry holds after a change that moves its version,
\* and after one that does not.
LEMMA ChangesKeepFacts ==
  ASSUME Fit, Disk(node, holds)', Changes, UNCHANGED <<noted, root, read>>,
         NEW listed, NEW done, FactsHold(node, holds, listed, done)
  PROVE  FactsHold(node', holds', listed, done)
<1> SUFFICES ASSUME NEW n \in Planned, Noted(n)
             PROVE  /\ noted[n].version <= node'[noted[n].file].version
                    /\ noted[n].version = node'[noted[n].file].version =>
                         /\ node'[noted[n].file].kind = Kind(n)
                         /\ holds'[FolderOf(n)][n] = noted[n].file
                         /\ n = Folder /\ listed => {m \in EntryNames : holds'[noted[n].file][m] # Absent} = Nested
                         /\ n \in done => node'[noted[n].file].body = read[n]
  BY DEF FactsHold
<1> DEFINE i == noted[n].file
<1>1. i \in Identities /\ noted[n].version \in Nat /\ n \in EntryNames /\ FolderOf(n) \in Identities
  <2>1. noted[n] \in [file : Identities \cup {Absent}, version : Nat]
    BY DEF Fit, Shapes
  <2>2. root \in Identities
    BY DEF Fit, Shapes, Order, NotedWhen, Rootless, Before
  <2>3. n \in Nested => noted[Folder].file \in Identities
    BY Distinct DEF Fit, Shapes, NotedWhen, Noted
  <2> QED BY <2>1, <2>2, <2>3, Distinct DEF Noted, FolderOf
<1>2. /\ node[i].version \in Nat /\ node'[i].version \in Nat
      /\ node[i].version <= node'[i].version
      /\ node'[i].version = node[i].version =>
           /\ node'[i] = node[i] /\ holds'[i] = holds[i]
           /\ holds[FolderOf(n)][n] = i => holds'[FolderOf(n)][n] = i
  BY <1>1 DEF Changes, Disk, Fit
<1>3. /\ noted[n].version <= node[i].version
      /\ noted[n].version = node[i].version =>
           /\ node[i].kind = Kind(n)
           /\ holds[FolderOf(n)][n] = i
           /\ n = Folder /\ listed => {m \in EntryNames : holds[i][m] # Absent} = Nested
           /\ n \in done => node[i].body = read[n]
  BY DEF FactsHold
<1>4. noted[n].version <= node'[i].version
  BY <1>1, <1>2, <1>3
<1>5. noted[n].version = node'[i].version => node'[i].version = node[i].version /\ noted[n].version = node[i].version
  BY <1>1, <1>2, <1>3
<1> QED BY <1>2, <1>3, <1>4, <1>5

-----------------------------------------------------------------------------
(* One step per action                                                      *)

LEMMA InitFits == TreeInit => Fit
<1> SUFFICES ASSUME TreeInit PROVE Fit
  OBVIOUS
<1>1. at \in {"render", "find"} /\ pass = 1 /\ todo = {} /\ path = Receipt /\ root = Absent
      /\ (at = "render" <=> Does("publish")) /\ (Does("publish") \/ op.does \in {"verify", "inspect"})
  BY DEF TreeInit, ExportInit, ReaderInit, Does
<1>2. spot = [staging |-> spot.staging, target |-> spot.target] /\ spot.staging = Absent
      /\ (Does("publish") => spot.target \in {Absent, Rival}) /\ (~Does("publish") => spot.target = Root)
  BY DEF TreeInit, ExportInit, ReaderInit, Does
<1>3. /\ noted = [n \in Planned |-> NoFacts] /\ read = [n \in Files |-> <<>>] /\ rendered = [n \in Files |-> <<>>]
      /\ owned = [n \in Planned \cup {Root} |-> Absent]
  BY DEF TreeInit
<1>4. Shapes
  <2>1. noted \in [Planned -> [file : Identities \cup {Absent}, version : Nat]]
    BY <1>3 DEF NoFacts
  <2>2. Receipt \in Planned /\ Root # Rival /\ Root \in Identities
    BY Distinct DEF Files, Root, Rival
  <2>3. op.does \in {"publish", "verify", "inspect"}
    BY <1>1 DEF Does
  <2> QED BY <1>1, <1>2, <1>3, <2>1, <2>2, <2>3 DEF Shapes, Before
<1>5. Disk(node, holds)
  <2>1. CASE ExportInit
    BY <2>1 DEF ExportInit, Disk, Unborn, Empty
  <2>2. CASE ReaderInit
    <3>1. /\ node = [i \in Identities |-> node[i]]
          /\ \A i \in Identities : node[i].version \in {0, 1}
      BY <2>2 DEF ReaderInit, Unborn
    <3>2. holds = [i \in Identities |-> [n \in EntryNames |->
            IF (i = Root /\ n \in Top) \/ (i = Folder /\ n \in Nested) THEN n ELSE Absent]]
      BY <2>2 DEF ReaderInit
    <3>3. \A d \in Identities, n \in EntryNames : holds[d][n] \in Identities \cup {Absent}
      BY <3>2, Distinct
    <3> QED BY <3>1, <3>2, <3>3 DEF Disk
  <2> QED BY <2>1, <2>2 DEF TreeInit
<1>6. \A n \in Planned : ~Noted(n)
  BY <1>3 DEF Noted, NoFacts
<1>7. NotedWhen
  BY <1>1, <1>6, Distinct DEF NotedWhen, WalkingSteps, ReadingSteps, Before
<1>8. Order
  BY <1>1 DEF Order, Rootless, ReadingSteps, Walked, Kept, Does
<1>9. FactsHold(node, holds, Listed, ReadSoFar) /\ MomentHolds
  BY <1>1, <1>6 DEF FactsHold, MomentHolds
<1>10. Contents
  BY <1>1 DEF Contents, ReadSoFar, ReadingSteps
<1> QED BY <1>4, <1>5, <1>7, <1>8, <1>9, <1>10 DEF Fit

\* What others do: only the disk changes, and what was noted shows where.
LEMMA IntruderFits == ASSUME Fit, Intrude PROVE Fit'
<1>1. /\ UNCHANGED <<op, at, pass, todo, path, noted, read, moment, root, rendered, owned>>
      /\ Disk(node, holds)' /\ Changes
  <2>1. UNCHANGED <<op, at, pass, todo, path, noted, read, moment, root, rendered, owned>>
    BY DEF Intrude, AlterFile, AlterEntry, AlterSpot, AlterParent, TakeDestination, IntrusionKeeps, treeWork, evidence
  <2> QED BY <2>1, IntruderChanges DEF Fit
<1>2. /\ spot' = [staging |-> spot'.staging, target |-> spot'.target]
      /\ spot'.staging \in Identities \cup {Absent} /\ spot'.target \in Identities \cup {Absent, Rival}
      /\ (~Does("publish") => spot'.target # Rival)
  <2>1. spot = [staging |-> spot.staging, target |-> spot.target]
        /\ spot.staging \in Identities \cup {Absent} /\ spot.target \in Identities \cup {Absent, Rival}
        /\ (~Does("publish") => spot.target # Rival)
    BY DEF Fit, Shapes
  <2>2. CASE AlterFile \/ AlterEntry \/ AlterParent
    BY <2>1, <2>2 DEF AlterFile, AlterEntry, AlterParent
  <2>3. CASE AlterSpot
    <3>1. PICK i \in {Absent} \cup Spares : spot' \in {[spot EXCEPT !.staging = i], [spot EXCEPT !.target = i]}
      BY <2>3 DEF AlterSpot
    <3>2. i \in Identities \cup {Absent} /\ i # Rival
      BY TreeAssumption DEF Identities, Reserved, Rival, Absent
    <3> QED BY <2>1, <3>1, <3>2
  <2>4. CASE TakeDestination
    BY <2>1, <2>4 DEF TakeDestination
  <2> QED BY <2>2, <2>3, <2>4 DEF Intrude
<1>3. Shapes'
  BY <1>1, <1>2 DEF Fit, Shapes, Does
<1>4. NotedWhen' /\ Order' /\ Contents' /\ Listed' = Listed /\ ReadSoFar' = ReadSoFar
  <2>1. Listed' = Listed /\ ReadSoFar' = ReadSoFar /\ LookedAt' = LookedAt
    BY <1>1 DEF Listed, ReadSoFar, LookedAt
  <2>2. NotedWhen'
    BY <1>1, <2>1 DEF Fit, NotedWhen, Noted
  <2>3. Order'
    BY <1>1 DEF Fit, Order, Does, InTurn
  <2>4. Contents'
    BY <1>1, <2>1 DEF Fit, Contents, Does, Allowed, ReceiptRead
  <2> QED BY <2>1, <2>2, <2>3, <2>4
<1>5. FactsHold(node, holds, Listed, ReadSoFar)'
  <2>1. FactsHold(node', holds', Listed, ReadSoFar)
    BY <1>1, ChangesKeepFacts DEF Fit
  <2> QED BY <1>1, <1>4, <2>1 DEF FactsHold, Noted, FolderOf
<1>6. MomentHolds'
  <2> SUFFICES ASSUME pass > 1, at \in WalkingSteps \cup Walked PROVE MomentHolds'
    BY <1>1 DEF MomentHolds
  <2>1. LookedAt' = LookedAt
    BY <1>1 DEF LookedAt
  <2>2. \A i \in Identities : moment.node[i].version <= node'[i].version
    <3>1. \A i \in Identities : moment.node[i].version \in Nat /\ moment.node[i].version <= node[i].version
      BY DEF Fit, MomentHolds, Disk
    <3>2. \A i \in Identities : node[i].version \in Nat /\ node'[i].version \in Nat
      BY <1>1 DEF Fit, Disk
    <3>3. \A i \in Identities : node[i].version <= node'[i].version
      BY <1>1 DEF Changes
    <3> QED BY <3>1, <3>2, <3>3
  <2>3. FactsHold(moment.node, moment.holds, TRUE, Files)'
    BY <1>1 DEF Fit, MomentHolds, FactsHold, Noted, FolderOf
  <2> QED BY <1>1, <2>1, <2>2, <2>3 DEF Fit, MomentHolds, Disk
<1> QED BY <1>1, <1>3, <1>4, <1>5, <1>6 DEF Fit

-----------------------------------------------------------------------------
(* Before the first walk: nothing is noted                                  *)

LEMMA BeforeTheWalk ==
  ASSUME Fit, at \in Before, at' \in Before \cup {"list"}, UNCHANGED <<op, pass, noted>>,
         Shapes', Disk(node, holds)',
         at' \notin Rootless => root' # Absent,
         at' = "anchor" => owned'[Root] # Absent,
         at' \in {"find", "anchor"} => ~Does("publish"),
         Does("publish") => rendered'[Receipt] = ReceiptOf([p \in Payloads |-> rendered'[p]]) \/ at' = "render"
  PROVE  Fit'
<1>1. pass = 1 /\ pass' = 1
  BY DEF Fit, Order
<1>2. \A n \in Planned : ~Noted(n)'
  BY <1>1 DEF Fit, NotedWhen, Noted
<1>3. NotedWhen'
  BY <1>1, <1>2, Distinct DEF NotedWhen, WalkingSteps, ReadingSteps, Before, Noted
<1>4. Order'
  BY <1>1 DEF Order, Rootless, ReadingSteps, Walked, Kept, Before, Does
<1>5. FactsHold(node, holds, Listed, ReadSoFar)'
  BY <1>2 DEF FactsHold, Noted
<1>6. MomentHolds'
  BY <1>1 DEF MomentHolds
<1>7. Contents'
  BY <1>1 DEF Contents, ReadSoFar, ReadingSteps, Before, Does
<1> QED BY <1>3, <1>4, <1>5, <1>6, <1>7 DEF Fit

LEMMA StagingFits == ASSUME Fit, Staging, Live' PROVE Fit'
<1> USE DEF Goes, Keeps, evidence, disk, treeWork
<1>0. /\ Shapes /\ Disk(node, holds)
      /\ at \in Before => pass = 1
      /\ at \notin Rootless => root \in Identities
      /\ at # "render" /\ Does("publish") => rendered[Receipt] = ReceiptOf([p \in Payloads |-> rendered[p]])
  BY DEF Fit, Shapes, Order, Contents
<1>r. \A why : ~Fails(why)
  BY DEF Fails, Live, Cleaning
<1>1. CASE Render
  <2>1. PICK first \in Renderings :
          rendered' = [n \in Files |-> IF n = Receipt THEN ReceiptOf(first) ELSE first[n]]
    BY <1>1 DEF Render
  <2>2. /\ at = "render" /\ at' = "prepare"
        /\ UNCHANGED <<op, pass, todo, path, root, owned, noted, read, node, holds, spot>>
    BY <1>1 DEF Render
  <2>3. first = [p \in Payloads |-> first[p]]
    BY DEF Renderings
  <2>4. rendered'[Receipt] = ReceiptOf(first) /\ \A p \in Payloads : rendered'[p] = first[p]
    BY <2>1, Distinct DEF Files
  <2>5. [p \in Payloads |-> rendered'[p]] = first
    BY <2>3, <2>4
  <2>6. Shapes'
    BY <1>0, <2>1, <2>2 DEF Shapes, Before, Does
  <2>7. Disk(node, holds)'
    BY <1>0, <2>2 DEF Disk
  <2> QED BY <1>0, <2>2, <2>4, <2>5, <2>6, <2>7, BeforeTheWalk DEF Before, Rootless
<1>2. CASE PrepareDestination \/ OpenFolder
  <2>1. /\ at \in {"prepare", "owned"} /\ at' = IF at = "prepare" THEN "mkdir" ELSE "create"
        /\ UNCHANGED <<op, pass, todo, path, root, owned, rendered, noted, read, node, holds, spot>>
    BY <1>2, <1>r DEF PrepareDestination, OpenFolder
  <2>2. Shapes' /\ Disk(node, holds)'
    BY <1>0, <2>1 DEF Shapes, Before, Does, Disk
  <2> QED BY <1>0, <2>1, <2>2, Distinct, BeforeTheWalk DEF Before, Rootless
<1>3. CASE MakeStaging
  <2>1. /\ at = "mkdir" /\ at' = "created" /\ Become(Root, "folder", <<>>)
        /\ spot' = [spot EXCEPT !.staging = Root]
        /\ UNCHANGED <<op, pass, todo, path, root, owned, rendered, noted, read, holds>>
    BY <1>3, <1>r DEF MakeStaging
  <2>2. Shapes'
    BY <1>0, <2>1, Distinct DEF Shapes, Before, Does
  <2>3. Disk(node, holds)'
    BY <1>0, <2>1, BecomeChanges, Distinct
  <2> QED BY <1>0, <2>1, <2>2, <2>3, BeforeTheWalk DEF Before, Rootless
<1>4. CASE OwnStaging
  <2>1. /\ at = "created" /\ at' = "opening" /\ owned' = [owned EXCEPT ![Root] = spot.staging]
        /\ UNCHANGED <<op, pass, todo, path, root, rendered, noted, read, node, holds, spot>>
    BY <1>4, <1>r DEF OwnStaging
  <2>2. Shapes' /\ Disk(node, holds)'
    BY <1>0, <2>1, Distinct DEF Shapes, Before, Does, Disk
  <2> QED BY <1>0, <2>1, <2>2, BeforeTheWalk DEF Before, Rootless
<1>5. CASE OpenStaging
  <2>1. /\ at = "opening" /\ at' \in {"create", "folder"} /\ root' = owned[Root] /\ owned[Root] # Absent /\ todo' = Files
        /\ UNCHANGED <<op, pass, path, owned, rendered, noted, read, node, holds, spot>>
    BY <1>5, <1>r DEF OpenStaging, IsFolder
  <2>2. Shapes' /\ Disk(node, holds)'
    BY <1>0, <2>1, Distinct DEF Shapes, Before, Does, Disk
  <2> QED BY <1>0, <2>1, <2>2, BeforeTheWalk DEF Before, Rootless
<1>6. CASE OpenStagingFails
  BY <1>6 DEF OpenStagingFails, Live
<1>7. CASE MakeFolder
  <2>1. /\ at = "folder" /\ at' = "own" /\ Enter(root, Folder, Folder, "folder", <<>>)
        /\ UNCHANGED <<op, pass, todo, path, root, owned, rendered, noted, read, spot>>
    BY <1>7, <1>r DEF MakeFolder
  <2>2. Folder \in EntryNames /\ Folder \in Identities
    BY DEF EntryNames, Identities
  <2>3. Disk(node, holds)'
    BY <1>0, <2>1, <2>2, EnterChanges
  <2>4. Shapes'
    BY <1>0, <2>1 DEF Shapes, Before, Does
  <2> QED BY <1>0, <2>1, <2>3, <2>4, Distinct, BeforeTheWalk DEF Before, Rootless
<1>8. CASE OwnFolder
  <2>1. /\ at = "own" /\ at' = "owned" /\ owned' = [owned EXCEPT ![Folder] = holds[root][Folder]]
        /\ UNCHANGED <<op, pass, todo, path, root, rendered, noted, read, node, holds, spot>>
    BY <1>8, <1>r DEF OwnFolder
  <2>2. Shapes' /\ Disk(node, holds)'
    BY <1>0, <2>1 DEF Shapes, Before, Does, Disk, Folder, Root
  <2> QED BY <1>0, <2>1, <2>2, Distinct, BeforeTheWalk DEF Before, Rootless
<1>9. CASE CreateFile
  <2>1. PICK n \in todo :
          /\ at = "create" /\ at' = "write" /\ path' = n /\ owned' = [owned EXCEPT ![n] = n]
          /\ Enter(OwnedFolderOf(n), n, n, "file", <<>>)
          /\ UNCHANGED <<op, pass, todo, root, rendered, noted, read, spot>>
    BY <1>9, <1>r DEF CreateFile
  <2>2. n \in Planned /\ n \in EntryNames /\ n \in Identities /\ n # Root
    BY <1>0, Distinct, TreeAssumption DEF Shapes, Planned, Top, Files, Reserved, Root, Folder, Receipt
  <2>3. Disk(node, holds)'
    BY <1>0, <2>1, <2>2, EnterChanges
  <2>4. Shapes'
    BY <1>0, <2>1, <2>2 DEF Shapes, Before, Does
  <2> QED BY <1>0, <2>1, <2>3, <2>4, Distinct, BeforeTheWalk DEF Before, Rootless
<1>10. CASE WriteFile
  <2> DEFINE Kept_ == node[path].kind
             Body == rendered[path]
  <2>1. /\ at = "write" /\ at' \in {"list", "create"} /\ todo' = todo \ {path}
        /\ Become(path, Kept_, Body)
        /\ UNCHANGED <<op, pass, path, root, owned, rendered, noted, read, holds, spot>>
    BY <1>10 DEF WriteFile
  <2>2. path \in Identities
    BY <1>0, Distinct DEF Shapes
  <2> HIDE DEF Kept_, Body
  <2>3. Disk(node, holds)'
    BY <1>0, <2>1, <2>2, BecomeChanges
  <2>4. Shapes'
    BY <1>0, <2>1 DEF Shapes, Before, Does
  <2> QED BY <1>0, <2>1, <2>3, <2>4, Distinct, BeforeTheWalk DEF Before, Rootless
<1>11. ~RenderingRefused
  BY <1>r DEF RenderingRefused
<1> QED BY <1>1, <1>2, <1>3, <1>4, <1>5, <1>6, <1>7, <1>8, <1>9, <1>10, <1>11 DEF Staging

-----------------------------------------------------------------------------
(* Walks and reads: the disk is looked at                                   *)

LEMMA FindFits == ASSUME Fit, FindRoot \/ AnchorRoot, Live' PROVE Fit'
<1> USE DEF Goes, Keeps, evidence, disk, treeWork
<1>0. /\ Shapes /\ Disk(node, holds)
      /\ at = "anchor" => owned[Root] # Absent
      /\ at \in {"find", "anchor"} => ~Does("publish")
      /\ at # "render" /\ Does("publish") => rendered[Receipt] = ReceiptOf([p \in Payloads |-> rendered[p]])
  BY DEF Fit, Order, Contents
<1>r. \A why : ~Fails(why)
  BY DEF Fails, Live, Cleaning
<1>1. CASE FindRoot
  <2>1. /\ at = "find" /\ at' = "anchor" /\ owned' = [owned EXCEPT ![Root] = spot.target] /\ spot.target # Absent
        /\ UNCHANGED <<op, pass, todo, path, root, rendered, noted, read, node, holds, spot>>
    BY <1>1, <1>r DEF FindRoot, IsFolder
  <2>2. Shapes' /\ Disk(node, holds)' /\ owned'[Root] # Absent
    BY <1>0, <2>1 DEF Shapes, Before, Does, Disk
  <2> QED BY <1>0, <2>1, <2>2, BeforeTheWalk DEF Before, Rootless
<1>2. CASE AnchorRoot
  <2>1. /\ at = "anchor" /\ at' = "list" /\ root' = owned[Root]
        /\ UNCHANGED <<op, pass, todo, path, owned, rendered, noted, read, node, holds, spot>>
    BY <1>2, <1>r DEF AnchorRoot
  <2>2. Shapes' /\ Disk(node, holds)'
    BY <1>0, <2>1 DEF Shapes, Before, Does, Disk
  <2> QED BY <1>0, <2>1, <2>2, BeforeTheWalk DEF Before, Rootless
<1> QED BY <1>1, <1>2

\* A walk begins: the names of the root are those of the plan at the moment.
LEMMA ListRootFits == ASSUME Fit, ListRoot, Live' PROVE Fit'
<1> USE DEF Goes, Keeps, evidence, disk, treeWork
<1>1. /\ at = "list" /\ at' = "stat" /\ todo' = Top /\ moment' = [node |-> node, holds |-> holds] /\ Held(root) = Top
      /\ UNCHANGED <<op, pass, path, root, owned, rendered, noted, read, node, holds, spot>>
  BY DEF ListRoot, Fails, Live, Cleaning
<1>2. Top \subseteq Planned /\ (Folder \notin Top => Planned \subseteq Top)
  BY Distinct DEF Planned
<1>3. Shapes'
  BY <1>1, <1>2 DEF Fit, Shapes, Does, WalkingSteps
<1>4. Disk(node, holds)'
  BY <1>1 DEF Fit, Disk
<1>5. LookedAt' = {} /\ Listed' = (pass > 1 \/ Folder \notin Top) /\ ReadSoFar' = ReadSoFar
  BY <1>1, <1>2 DEF LookedAt, Listed, ReadSoFar, ReadingSteps, Fit, Shapes
<1>6. pass \in Nat /\ (pass = 1 \/ pass > 1)
  BY DEF Fit, Shapes
<1>7. NotedWhen'
  BY <1>1, <1>5, Distinct DEF Fit, NotedWhen, Noted, WalkingSteps, ReadingSteps, Before
<1>8. Order'
  BY <1>1 DEF Fit, Order, Rootless, Before, ReadingSteps, Walked, Kept
<1>9. FactsHold(node, holds, Listed, ReadSoFar)'
  <2>1. CASE pass = 1
    <3>1. \A n \in Planned : ~Noted(n)'
      BY <1>1, <2>1 DEF Fit, NotedWhen, Noted
    <3> QED BY <3>1 DEF FactsHold, Noted
  <2>2. CASE pass > 1
    BY <1>1, <1>5, <2>2 DEF Fit, FactsHold, Noted, FolderOf, Listed
  <2> QED BY <1>6, <2>1, <2>2
<1>10. MomentHolds'
  <2> SUFFICES ASSUME pass > 1 PROVE MomentHolds'
    BY <1>1 DEF MomentHolds
  <2>1. FactsHold(node, holds, TRUE, Files)
    BY DEF Fit, Listed, ReadSoFar
  <2>2. moment'.node = node /\ moment'.holds = holds
    BY <1>1
  <2>3. FactsHold(moment.node, moment.holds, TRUE, Files)'
    BY <1>1, <2>1, <2>2 DEF FactsHold, Noted, FolderOf
  <2>4. Disk(node, holds)
    BY DEF Fit
  <2>5. Disk(moment.node, moment.holds)'
    BY <2>2, <2>4 DEF Disk
  <2>6. \A i \in Identities : moment'.node[i].version <= node'[i].version
    BY <1>1, <2>2, <2>4 DEF Disk
  <2>7. {n \in EntryNames : moment'.holds[root'][n] # Absent} = Top
    BY <1>1, <2>2 DEF Held
  <2> QED BY <1>5, <2>3, <2>5, <2>6, <2>7 DEF MomentHolds
<1>11. Contents'
  BY <1>1, <1>5 DEF Fit, Contents, Does, Allowed, ReceiptRead
<1> QED BY <1>3, <1>4, <1>7, <1>8, <1>9, <1>10, <1>11 DEF Fit

\* An entry is looked at: in the first walk it is noted as it is, later it is
\* as it was noted, and so it was at the moment in between.
LEMMA StatEntryFits == ASSUME Fit, StatEntry, Live' PROVE Fit'
<1> USE DEF Goes, Keeps, evidence, disk, treeWork
<1> DEFINE i(n) == holds[FolderOf(n)][n]
<1>1. PICK n \in todo :
        /\ i(n) # Absent /\ node[i(n)].kind = Kind(n) /\ (pass > 1 => Same(i(n), n))
        /\ at = "stat" /\ at' = (IF n = Folder THEN "enter" ELSE "stat") /\ todo' = todo \ {n}
        /\ noted' = IF pass = 1 THEN [noted EXCEPT ![n] = FactsOf(i(n))] ELSE noted
        /\ UNCHANGED <<op, pass, path, root, owned, rendered, read, moment, node, holds, spot>>
  BY DEF StatEntry, Fails, Live, Cleaning
<1>2. /\ n \in Planned /\ n \in EntryNames /\ pass \in Nat /\ (pass = 1 \/ pass > 1) /\ root \in Identities
      /\ noted \in [Planned -> [file : Identities \cup {Absent}, version : Nat]]
  <2>1. todo \subseteq Planned /\ pass \in Nat \ {0} /\ root \in Identities \cup {Absent}
        /\ noted \in [Planned -> [file : Identities \cup {Absent}, version : Nat]]
    BY DEF Fit, Shapes
  <2>2. root # Absent
    BY <1>1 DEF Fit, Order, Rootless
  <2> QED BY <1>1, <2>1, <2>2, Distinct
<1>3. n \in Nested => Noted(Folder) /\ Folder \in Planned /\ Folder # n /\ Folder \notin todo
  <2> HAVE n \in Nested
  <2>1. Folder \in Planned /\ Folder # n
    BY Distinct DEF Planned
  <2>2. Folder \notin todo
    BY <1>1, Distinct DEF Fit, Order
  <2>3. CASE pass = 1
    BY <1>1, <2>1, <2>2, <2>3 DEF Fit, NotedWhen, WalkingSteps, LookedAt
  <2>4. CASE pass > 1
    <3>1. NotedWhen
      BY DEF Fit
    <3> QED BY <2>1, <2>2, <2>4, <3>1 DEF NotedWhen, Noted
  <2> QED BY <1>2, <2>1, <2>2, <2>3, <2>4
<1>4. FolderOf(n) \in Identities /\ i(n) \in Identities
  <2>1. FolderOf(n) \in Identities
    BY <1>2, <1>3 DEF FolderOf, Noted
  <2> QED BY <1>1, <1>2, <2>1 DEF Fit, Disk
<1>5. LookedAt' = LookedAt \cup {n}
  <2>1. CASE n = Folder
    BY <1>1, <1>2, <2>1, Distinct DEF LookedAt, Planned, Fit, Order
  <2>2. CASE n # Folder /\ Folder \in todo
    BY <1>1, <1>2, <2>2, Distinct DEF LookedAt, Fit, Order
  <2>3. CASE n # Folder /\ Folder \notin todo
    BY <1>1, <1>2, <2>3, Distinct DEF LookedAt
  <2> QED BY <2>1, <2>2, <2>3
<1>6. Listed' = Listed /\ ReadSoFar' = ReadSoFar /\ (pass = 1 => ReadSoFar = {}) /\ (pass = 1 /\ n = Folder => ~Listed)
  BY <1>1 DEF Listed, ReadSoFar, ReadingSteps
<1>7. \A m \in Planned : m # n => noted'[m] = noted[m]
  BY <1>1, <1>2
<1>8. pass = 1 => noted'[n] = FactsOf(i(n))
  BY <1>1, <1>2
<1>9. pass > 1 => noted' = noted /\ noted[n] = FactsOf(i(n))
  BY <1>1 DEF Same
<1>10. noted'[n].file = i(n) /\ noted'[n].version = node[i(n)].version
  BY <1>2, <1>8, <1>9 DEF FactsOf
<1>11. Shapes'
  <2>1. FactsOf(i(n)) \in [file : Identities \cup {Absent}, version : Nat]
    BY <1>4 DEF FactsOf, Fit, Disk
  <2>2. noted' \in [Planned -> [file : Identities \cup {Absent}, version : Nat]]
    BY <1>1, <1>2, <2>1
  <2> QED BY <1>1, <2>2 DEF Fit, Shapes, Does, WalkingSteps
<1>12. Disk(node, holds)'
  BY <1>1 DEF Fit, Disk
<1>13. NotedWhen'
  <2>1. Noted(n)' /\ \A m \in Planned : Noted(m) => Noted(m)'
    BY <1>1, <1>7, <1>10 DEF Noted
  <2>2. \A m \in Planned : m # n => (Noted(m)' <=> Noted(m))
    BY <1>7 DEF Noted
  <2>3. at' = "stat" /\ pass' = 1 /\ Folder \in todo' => \A m \in Nested : ~Noted(m)'
    BY <1>1, <1>3, <2>2, Distinct DEF Fit, NotedWhen
  <2>4. at' \in WalkingSteps /\ pass' = 1 => \A m \in LookedAt' : Noted(m)'
    <3>1. LookedAt \subseteq Planned
      BY Distinct DEF LookedAt
    <3> QED BY <1>1, <1>5, <2>1, <3>1 DEF Fit, NotedWhen, WalkingSteps
  <2>5. pass' > 1 => \A m \in Planned : Noted(m)'
    BY <1>1, <2>1 DEF Fit, NotedWhen
  <2>6. \A m \in Nested : Noted(m)' => Noted(Folder)'
    BY <1>3, <2>1, <2>2, Distinct DEF Fit, NotedWhen, Planned
  <2> QED BY <1>1, <2>3, <2>4, <2>5, <2>6 DEF NotedWhen, Before, ReadingSteps
<1>14. Order'
  <2>1. Order /\ op' = op /\ root' = root /\ owned' = owned /\ pass' = pass
    BY <1>1 DEF Fit
  <2>2. /\ at' \in Before \cup ReadingSteps => pass' = 1
        /\ at' \notin Rootless => root' # Absent
        /\ at' \notin {"find", "anchor"}
    BY <1>1, <1>2, <2>1 DEF Order, Rootless, Before, ReadingSteps, Kept
  <2>3. /\ at' \in {"enter", "inside"} \/ (at' = "stat" /\ Folder \in todo') => todo' \subseteq Top
        /\ at' \in {"enter", "inside"} => Folder \in Top \ todo'
    BY <1>1, <1>2, <2>1, Distinct DEF Order, Planned
  <2>4. /\ at' \in ReadingSteps => todo' \subseteq Files /\ todo' # {} /\ Receipt \in todo' /\ todo' = Files
        /\ at' \notin {"before", "after"}
    BY <1>1, <1>2, Distinct DEF ReadingSteps
  <2>5. /\ at' \in Walked => pass' > 1
        /\ at' \in {"checkpoint", "rename", "renamed", "placed", "sync", "done"} => pass' > 2
        /\ at' \in {"answer", "answered"} => ~Does("publish")'
    BY <1>1, <1>2, <2>1 DEF Order, Walked, Kept, Does
  <2> QED BY <2>2, <2>3, <2>4, <2>5 DEF Order
<1>15. FactsHold(node, holds, Listed, ReadSoFar)'
  <2>1. CASE pass > 1
    <3>1. noted' = noted /\ node' = node /\ holds' = holds /\ read' = read /\ root' = root
      BY <1>1, <1>9, <2>1
    <3>2. FactsHold(node, holds, Listed, ReadSoFar)
      BY DEF Fit
    <3>3. \A m : (Noted(m)' <=> Noted(m)) /\ FolderOf(m)' = FolderOf(m)
      BY <3>1 DEF Noted, FolderOf
    <3> QED BY <1>6, <3>1, <3>2, <3>3 DEF FactsHold
  <2>2. CASE pass = 1
    <3> SUFFICES ASSUME NEW m \in Planned, Noted(m)'
                 PROVE  /\ noted'[m].version <= node[noted'[m].file].version
                        /\ noted'[m].version = node[noted'[m].file].version =>
                             /\ node[noted'[m].file].kind = Kind(m)
                             /\ holds[FolderOf(m)'][m] = noted'[m].file
                             /\ m = Folder /\ Listed => {k \in EntryNames : holds[noted'[m].file][k] # Absent} = Nested
      BY <1>1, <1>6, <2>2 DEF FactsHold
    <3>1. FolderOf(m)' = FolderOf(m)
      <4>1. CASE m \in Nested /\ n = Folder
        <5>1. m # n /\ Noted(m) /\ Folder \in todo
          BY <1>1, <1>7, <4>1, Distinct DEF Noted
        <5> QED BY <1>1, <2>2, <4>1, <5>1 DEF Fit, NotedWhen
      <4>2. CASE m \in Nested /\ n # Folder
        BY <1>1, <1>7, <4>2, Distinct DEF FolderOf, Planned
      <4>3. CASE m \notin Nested
        BY <1>1, <4>3 DEF FolderOf
      <4> QED BY <4>1, <4>2, <4>3
    <3>2. CASE m = n
      <4>1. node[i(n)].version <= node[i(n)].version
        BY <1>4 DEF Fit, Disk
      <4> QED BY <1>1, <1>6, <1>10, <2>2, <3>1, <3>2, <4>1
    <3>3. CASE m # n
      BY <1>7, <3>1, <3>3 DEF Fit, FactsHold, Noted
    <3> QED BY <3>2, <3>3
  <2> QED BY <1>2, <2>1, <2>2
<1>16. MomentHolds'
  <2> SUFFICES ASSUME pass > 1 PROVE MomentHolds'
    BY <1>1 DEF MomentHolds
  <2>1. MomentHolds /\ at \in WalkingSteps /\ Noted(n)
    BY <1>1, <1>2 DEF Fit, WalkingSteps, NotedWhen
  <2>2. moment.node[noted[n].file].version = noted[n].version
    <3>1. noted[n].file = i(n) /\ noted[n].version = node[i(n)].version
      BY <1>9, <1>10
    <3>2. moment.node[i(n)].version <= node[i(n)].version
      BY <1>4, <2>1 DEF MomentHolds
    <3>3. noted[n].version <= moment.node[i(n)].version
      BY <1>2, <2>1, <3>1 DEF MomentHolds, FactsHold
    <3>4. moment.node[i(n)].version \in Nat /\ node[i(n)].version \in Nat
      BY <1>4, <2>1 DEF MomentHolds, Fit, Disk
    <3> QED BY <3>1, <3>2, <3>3, <3>4
  <2>3. FactsHold(moment.node, moment.holds, TRUE, Files)'
    <3>1. FactsHold(moment.node, moment.holds, TRUE, Files)
      BY <2>1 DEF MomentHolds
    <3>2. noted' = noted /\ read' = read /\ root' = root /\ moment' = moment
      BY <1>1, <1>9
    <3> QED BY <3>1, <3>2 DEF FactsHold, Noted, FolderOf
  <2>4. \A m \in LookedAt' : moment.node[noted[m].file].version = noted[m].version
    BY <1>5, <2>1, <2>2 DEF MomentHolds
  <2>5. Disk(moment.node, moment.holds)' /\ \A j \in Identities : moment'.node[j].version <= node'[j].version
    BY <1>1, <2>1 DEF MomentHolds, Disk
  <2>6. {k \in EntryNames : moment'.holds[root'][k] # Absent} = Top
    BY <1>1, <2>1 DEF MomentHolds
  <2>7. \A m \in LookedAt' : moment'.node[noted'[m].file].version = noted'[m].version
    BY <1>1, <1>9, <2>4
  <2> QED BY <2>3, <2>5, <2>6, <2>7 DEF MomentHolds
<1>17. Contents'
  BY <1>1, <1>6 DEF Fit, Contents, Does, Allowed, ReceiptRead
<1> QED BY <1>11, <1>12, <1>13, <1>14, <1>15, <1>16, <1>17 DEF Fit

\* The folder is opened, and is listed when its own entry has not changed.
LEMMA InsideFits == ASSUME Fit, EnterFolder \/ ListFolder, Live' PROVE Fit'
<1> USE DEF Goes, Keeps, evidence, disk, treeWork
<1>1. /\ at \in {"enter", "inside"} /\ at' = IF at = "enter" THEN "inside" ELSE "stat"
      /\ todo' = IF at = "enter" THEN todo ELSE todo \cup Nested
      /\ at = "inside" => Held(noted[Folder].file) = Nested
      /\ UNCHANGED <<op, pass, path, root, owned, rendered, noted, read, moment, node, holds, spot>>
  BY DEF EnterFolder, ListFolder, Fails, Live, Cleaning
<1>2. todo \subseteq Top /\ Folder \in Top \ todo
  BY <1>1 DEF Fit, Order
<1>3. LookedAt' = LookedAt /\ LookedAt = Top \ todo
  <2>1. Planned \ (todo \cup Nested) = Top \ todo /\ Folder \notin todo \cup Nested
    BY <1>2, Distinct DEF Planned
  <2> QED BY <1>1, <2>1 DEF LookedAt
<1>4. ReadSoFar' = ReadSoFar /\ (pass > 1 => Listed /\ Listed') /\ (Listed' => pass > 1 \/ at = "inside")
  BY <1>1 DEF ReadSoFar, Listed, ReadingSteps
<1>5. pass \in Nat /\ (pass = 1 \/ pass > 1)
  BY DEF Fit, Shapes
<1>6. Shapes'
  <2>1. todo' \subseteq Planned
    BY <1>1, <1>2 DEF Planned
  <2> QED BY <1>1, <2>1 DEF Fit, Shapes, Does, WalkingSteps
<1>7. Disk(node, holds)'
  BY <1>1 DEF Fit, Disk
<1>8. NotedWhen'
  <2>1. NotedWhen
    BY DEF Fit
  <2>2. Folder \in todo' => FALSE
    BY <1>1, <1>2, Distinct
  <2> QED BY <1>1, <1>3, <2>1, <2>2 DEF NotedWhen, Noted, WalkingSteps, ReadingSteps, Before
<1>9. Order'
  BY <1>1, <1>2, Distinct DEF Fit, Order, Rootless, Before, ReadingSteps, Walked, Kept, Does
<1>10. FactsHold(node, holds, Listed, ReadSoFar)'
  <2>1. FactsHold(node, holds, Listed, ReadSoFar)
    BY DEF Fit
  <2>2. CASE pass > 1
    BY <1>1, <1>4, <2>1, <2>2 DEF FactsHold, Noted, FolderOf
  <2>3. CASE pass = 1
    <3>1. at = "inside" => {m \in EntryNames : holds[noted[Folder].file][m] # Absent} = Nested
      BY <1>1 DEF Held
    <3>2. \A n \in Planned : Noted(n) =>
            /\ noted[n].version <= node[noted[n].file].version
            /\ noted[n].version = node[noted[n].file].version =>
                 /\ node[noted[n].file].kind = Kind(n)
                 /\ holds[FolderOf(n)][n] = noted[n].file
                 /\ n = Folder /\ Listed' => {m \in EntryNames : holds[noted[n].file][m] # Absent} = Nested
                 /\ n \in ReadSoFar => node[noted[n].file].body = read[n]
      BY <1>4, <2>1, <2>3, <3>1 DEF FactsHold
    <3> QED BY <1>1, <1>4, <3>2 DEF FactsHold, Noted, FolderOf
  <2> QED BY <1>5, <2>2, <2>3
<1>11. MomentHolds'
  <2> SUFFICES ASSUME pass > 1 PROVE MomentHolds'
    BY <1>1 DEF MomentHolds
  <2>1. MomentHolds /\ at \in WalkingSteps
    BY <1>1 DEF Fit, WalkingSteps
  <2>2. FactsHold(moment.node, moment.holds, TRUE, Files)'
    <3>1. FactsHold(moment.node, moment.holds, TRUE, Files)
      BY <2>1 DEF MomentHolds
    <3> QED BY <1>1, <3>1 DEF FactsHold, Noted, FolderOf
  <2>3. Disk(moment.node, moment.holds)'
    BY <1>1, <2>1 DEF MomentHolds, Disk
  <2> QED BY <1>1, <1>3, <2>1, <2>2, <2>3 DEF MomentHolds
<1>12. Contents'
  BY <1>1, <1>4 DEF Fit, Contents, Does, Allowed, ReceiptRead
<1> QED BY <1>6, <1>7, <1>8, <1>9, <1>10, <1>11, <1>12 DEF Fit

\* A walk is over: it has looked at every entry.
LEMMA WalkEndsFits == ASSUME Fit, WalkEnds, Live' PROVE Fit'
<1> USE DEF Goes, Keeps, evidence, disk, treeWork
<1>1. /\ at = "stat" /\ todo = {} /\ todo' = (IF pass = 1 THEN Files ELSE {})
      /\ at' = IF pass = 1 THEN "open" ELSE IF ~Does("publish") THEN "answer"
               ELSE IF pass = 2 THEN "walked" ELSE IF pass = 3 THEN "checkpoint" ELSE "rename"
      /\ UNCHANGED <<op, pass, path, root, owned, rendered, noted, read, moment, node, holds, spot>>
  BY DEF WalkEnds
<1>2. pass \in Nat /\ (pass = 1 \/ pass > 1) /\ (pass \notin {1, 2} => pass > 2)
  BY DEF Fit, Shapes
<1>3. LookedAt = Planned /\ LookedAt' = Planned
  BY <1>1 DEF LookedAt
<1>4. Listed' = Listed /\ ReadSoFar' = ReadSoFar
  BY <1>1, <1>2 DEF Listed, ReadSoFar, ReadingSteps
<1>5. Shapes'
  BY <1>1, <1>2, Distinct DEF Fit, Shapes, Does, ReadingSteps, Walked, Kept
<1>6. Disk(node, holds)'
  BY <1>1 DEF Fit, Disk
<1>7. NotedWhen'
  <2>1. NotedWhen
    BY DEF Fit
  <2>2. \A n \in Planned : Noted(n)
    BY <1>1, <1>2, <1>3, <2>1 DEF NotedWhen, WalkingSteps, Noted
  <2> QED BY <1>1, <1>2, <2>1, <2>2 DEF NotedWhen, Noted, WalkingSteps, Before
<1>8. Order'
  <2>1. Receipt \in Files /\ Files # {}
    BY DEF Files
  <2> QED BY <1>1, <1>2, <2>1 DEF Fit, Order, Rootless, Before, ReadingSteps, Walked, Kept, Does
<1>9. FactsHold(node, holds, Listed, ReadSoFar)'
  <2>1. FactsHold(node, holds, Listed, ReadSoFar)
    BY DEF Fit
  <2> QED BY <1>1, <1>4, <2>1 DEF FactsHold, Noted, FolderOf
<1>10. MomentHolds'
  <2> SUFFICES ASSUME pass > 1 PROVE MomentHolds'
    BY <1>1 DEF MomentHolds
  <2>1. MomentHolds /\ at \in WalkingSteps
    BY <1>1 DEF Fit, WalkingSteps
  <2>2. FactsHold(moment.node, moment.holds, TRUE, Files)'
    <3>1. FactsHold(moment.node, moment.holds, TRUE, Files)
      BY <2>1 DEF MomentHolds
    <3> QED BY <1>1, <3>1 DEF FactsHold, Noted, FolderOf
  <2>3. Disk(moment.node, moment.holds)'
    BY <1>1, <2>1 DEF MomentHolds, Disk
  <2> QED BY <1>1, <1>3, <2>1, <2>2, <2>3 DEF MomentHolds
<1>11. Contents'
  BY <1>1, <1>4 DEF Fit, Contents, Does, Allowed, ReceiptRead
<1> QED BY <1>5, <1>6, <1>7, <1>8, <1>9, <1>10, <1>11 DEF Fit

\* A file is opened and about to be read.
LEMMA OpenFits == ASSUME Fit, OpenFile \/ BeginRead, Live' PROVE Fit'
<1> USE DEF Goes, Keeps, evidence, disk, treeWork
<1>1. /\ at \in {"open", "before"} /\ at' = IF at = "open" THEN "before" ELSE "after"
      /\ path' \in todo /\ (at = "before" => path' = path) /\ InTurn(path')
      /\ UNCHANGED <<op, pass, todo, root, owned, rendered, noted, read, moment, node, holds, spot>>
  <2>1. CASE OpenFile
    BY <2>1 DEF OpenFile, Fails, Live, Cleaning
  <2>2. CASE BeginRead
    BY <2>2 DEF BeginRead, Fit, Order
  <2> QED BY <2>1, <2>2
<1>2. pass = 1 /\ todo \subseteq Files
  BY <1>1 DEF Fit, Order, ReadingSteps
<1>3. Listed' = Listed /\ ReadSoFar' = ReadSoFar
  BY <1>1 DEF Listed, ReadSoFar, ReadingSteps
<1>4. Shapes'
  BY <1>1, <1>2, Distinct DEF Fit, Shapes, Does, ReadingSteps
<1>5. Disk(node, holds)'
  BY <1>1 DEF Fit, Disk
<1>6. NotedWhen'
  <2>1. NotedWhen
    BY DEF Fit
  <2> QED BY <1>1, <2>1 DEF NotedWhen, Noted, WalkingSteps, ReadingSteps, Before
<1>7. Order'
  BY <1>1, <1>2 DEF Fit, Order, InTurn, Rootless, Before, ReadingSteps, Walked, Kept, Does
<1>8. FactsHold(node, holds, Listed, ReadSoFar)'
  <2>1. FactsHold(node, holds, Listed, ReadSoFar)
    BY DEF Fit
  <2> QED BY <1>1, <1>3, <2>1 DEF FactsHold, Noted, FolderOf
<1>9. MomentHolds'
  BY <1>1, <1>2 DEF MomentHolds
<1>10. Contents'
  BY <1>1, <1>3 DEF Fit, Contents, Does, Allowed, ReceiptRead
<1> QED BY <1>4, <1>5, <1>6, <1>7, <1>8, <1>9, <1>10 DEF Fit

\* A file was read, and is what was noted if its version still is.
LEMMA EndReadFits == ASSUME Fit, EndRead, Live' PROVE Fit'
<1> USE DEF Goes, Keeps, evidence, disk, treeWork
<1> DEFINE body == node[noted[path].file].body
<1>1. /\ at = "after" /\ Expected(path, body) /\ read' = [read EXCEPT ![path] = body] /\ todo' = todo \ {path}
      /\ IF todo = {path} THEN pass' = pass + 1 /\ at' = "list" ELSE pass' = pass /\ at' = "open"
      /\ UNCHANGED <<op, path, root, owned, rendered, noted, moment, node, holds, spot>>
  BY DEF EndRead, Fails, Live, Cleaning
<1>2. /\ pass = 1 /\ todo \subseteq Files /\ path \in todo /\ InTurn(path) /\ root # Absent
      /\ ~Does("inspect") => Receipt \in todo
      /\ Does("inspect") /\ Receipt \in todo => todo = Files
  BY <1>1 DEF Fit, Order, ReadingSteps, Rootless
<1>3. /\ ReadSoFar = Files \ todo /\ ReadSoFar' = ReadSoFar \cup {path} /\ Listed /\ Listed'
  BY <1>1, <1>2 DEF ReadSoFar, Listed, ReadingSteps
<1>4. /\ read = [n \in Files |-> read[n]] /\ read' = [n \in Files |-> read'[n]]
      /\ read'[path] = body /\ \A n \in Files : n # path => read'[n] = read[n]
  BY <1>1, <1>2 DEF Fit, Shapes
<1>5. Shapes'
  BY <1>1, <1>2, <1>4 DEF Fit, Shapes, Does, ReadingSteps
<1>6. Disk(node, holds)'
  BY <1>1 DEF Fit, Disk
<1>7. NotedWhen'
  <2>1. NotedWhen
    BY DEF Fit
  <2> QED BY <1>1, <1>2, <2>1 DEF NotedWhen, Noted, WalkingSteps, ReadingSteps, Before
<1>8. Order'
  <2>1. at' \in ReadingSteps => todo' \subseteq Files /\ todo' # {} /\ (~Does("inspect") => Receipt \in todo')
    BY <1>1, <1>2 DEF InTurn, ReadingSteps
  <2>2. Does("inspect") => Receipt \notin todo'
    BY <1>1, <1>2 DEF InTurn, Files
  <2> QED BY <1>1, <1>2, <2>1, <2>2 DEF Order, Rootless, Before, ReadingSteps, Walked, Kept, Does
<1>9. FactsHold(node, holds, Listed, ReadSoFar)'
  <2>1. FactsHold(node, holds, Listed, ReadSoFar)
    BY DEF Fit
  <2> QED BY <1>1, <1>2, <1>3, <1>4, <2>1, Distinct DEF FactsHold, Noted, FolderOf
<1>10. MomentHolds'
  BY <1>1 DEF MomentHolds, WalkingSteps, Walked, Kept
<1>11. Contents'
  <2>0. Contents
    BY DEF Fit
  <2>1. at' # "render" /\ Does("publish")' => rendered'[Receipt] = ReceiptOf([p \in Payloads |-> rendered'[p]])
    BY <1>1, <2>0 DEF Contents, Does
  <2>2. ~Does("inspect")' => \A p \in Payloads \cap ReadSoFar' : read'[p] \in Allowed'
    <3> SUFFICES ASSUME ~Does("inspect"), NEW p \in Payloads \cap ReadSoFar' PROVE read'[p] \in Allowed
      BY <1>1 DEF Does, Allowed
    <3>1. CASE p = path
      BY <1>1, <1>4, <3>1, Distinct DEF Expected, AsPlanned, Allowed
    <3>2. CASE p # path
      BY <1>2, <1>3, <1>4, <2>0, <3>2, Distinct DEF Contents
    <3> QED BY <3>1, <3>2
  <2>3. Does("inspect") =>
          \E bodies \in [Payloads -> {Bytes(w) : w \in Words}] :
            read'[Receipt] = ReceiptOf(bodies) /\ \A p \in Payloads \cap ReadSoFar' : read'[p] = bodies[p]
    <3> HAVE Does("inspect")
    <3>1. CASE path = Receipt
      <4>1. todo = Files /\ ReadSoFar' = {Receipt}
        BY <1>2, <1>3, <3>1
      <4>2. PICK bodies \in [Payloads -> {Bytes(w) : w \in Words}] : body = ReceiptOf(bodies)
        BY <1>1, <3>1 DEF Expected, SelfDescribed
      <4> QED BY <1>4, <3>1, <4>1, <4>2, Distinct
    <3>2. CASE path # Receipt
      <4>1. Receipt \in ReadSoFar
        BY <1>2, <1>3, <3>2 DEF InTurn, Files
      <4>2. PICK bodies \in [Payloads -> {Bytes(w) : w \in Words}] :
              read[Receipt] = ReceiptOf(bodies) /\ \A p \in Payloads \cap ReadSoFar : read[p] = bodies[p]
        BY <2>0, <4>1 DEF Contents
      <4>3. read[Receipt][2][path] = body
        BY <1>1, <3>2 DEF Expected, AsListed
      <4>4. body = bodies[path]
        BY <4>2, <4>3 DEF ReceiptOf
      <4>5. read'[Receipt] = ReceiptOf(bodies)
        BY <1>4, <3>2, <4>2 DEF Files
      <4>6. \A p \in Payloads \cap ReadSoFar' : read'[p] = bodies[p]
        BY <1>2, <1>3, <1>4, <4>2, <4>4, Distinct
      <4> QED BY <4>5, <4>6
    <3> QED BY <3>1, <3>2
  <2>4. pass' > 1 => ReceiptRead'
    <3> SUFFICES ASSUME todo = {path} PROVE ReceiptRead'
      BY <1>1, <1>2
    <3>1. CASE Does("inspect")
      <4>1. PICK bodies \in [Payloads -> {Bytes(w) : w \in Words}] :
              read'[Receipt] = ReceiptOf(bodies) /\ \A p \in Payloads \cap ReadSoFar' : read'[p] = bodies[p]
        BY <2>3, <3>1
      <4>2. \A p \in Payloads : read'[p] = bodies[p]
        BY <1>3, <4>1 DEF Files
      <4>3. [p \in Payloads |-> read'[p]] = bodies
        BY <4>2
      <4> QED BY <4>1, <4>3 DEF ReceiptRead
    <3>2. CASE ~Does("inspect")
      <4>1. path = Receipt
        BY <1>2, <3>2
      <4>2. body = ReceiptOf([p \in Payloads |-> read[p]])
        BY <1>1, <3>2, <4>1 DEF Expected, Reconstructed
      <4>3. \A p \in Payloads : read'[p] = read[p]
        BY <1>4, <4>1, Distinct DEF Files
      <4>4. [p \in Payloads |-> read'[p]] = [p \in Payloads |-> read[p]]
        BY <4>3
      <4> QED BY <1>4, <4>1, <4>2, <4>4 DEF ReceiptRead
    <3> QED BY <3>1, <3>2
  <2>5. ~(pass' > 2)
    BY <1>1, <1>2
  <2> QED BY <1>1, <2>1, <2>2, <2>3, <2>4, <2>5 DEF Contents, Does
<1> QED BY <1>5, <1>6, <1>7, <1>8, <1>9, <1>10, <1>11 DEF Fit

-----------------------------------------------------------------------------
(* Behind the walks                                                         *)

\* One more walk of an export, that knows the bytes to be those it wrote.
LEMMA WalkAgainFits ==
  ASSUME Fit, WalkAgain, at \in Walked, UNCHANGED <<treeWork, evidence, disk>>,
         Does("publish") => \A n \in Files : read[n] = rendered[n]
  PROVE  Fit'
<1> USE DEF Goes, evidence, disk, treeWork
<1>1. /\ pass \in Nat /\ pass > 1 /\ pass' = pass + 1 /\ at' = "list"
      /\ UNCHANGED <<op, todo, path, root, owned, rendered, noted, read, moment, node, holds, spot>>
  BY DEF WalkAgain, Fit, Shapes, Order
<1>2. Listed /\ Listed' /\ ReadSoFar = Files /\ ReadSoFar' = Files
  BY <1>1 DEF Listed, ReadSoFar
<1>3. Shapes'
  BY <1>1 DEF Fit, Shapes, Does
<1>4. Disk(node, holds)'
  BY <1>1 DEF Fit, Disk
<1>5. NotedWhen'
  <2>1. NotedWhen
    BY DEF Fit
  <2> QED BY <1>1, <2>1 DEF NotedWhen, Noted, WalkingSteps, ReadingSteps, Before
<1>6. Order'
  <2>1. root # Absent
    BY DEF Fit, Order, Walked, Kept, Rootless
  <2> QED BY <1>1, <2>1 DEF Order, Rootless, Before, ReadingSteps, Walked, Kept
<1>7. FactsHold(node, holds, Listed, ReadSoFar)'
  <2>1. FactsHold(node, holds, Listed, ReadSoFar)
    BY DEF Fit
  <2> QED BY <1>1, <1>2, <2>1 DEF FactsHold, Noted, FolderOf
<1>8. MomentHolds'
  BY <1>1 DEF MomentHolds, WalkingSteps, Walked, Kept
<1>9. Contents'
  <2>1. Contents /\ at # "render"
    BY DEF Fit, Walked, Kept
  <2> QED BY <1>1, <1>2, <2>1 DEF Contents, Does, Allowed, ReceiptRead
<1> QED BY <1>3, <1>4, <1>5, <1>6, <1>7, <1>8, <1>9 DEF Fit

\* A step along the way from the last walk to the end.
LEMMA KeptFits ==
  ASSUME Fit, at \in Kept, at' \in Kept, UNCHANGED <<op, pass, todo, treeWork, evidence, node, holds>>,
         spot' = [staging |-> spot'.staging, target |-> spot'.target],
         spot'.staging \in Identities \cup {Absent}, spot'.target \in Identities \cup {Absent, Rival},
         ~Does("publish") => spot'.target # Rival,
         at' \in {"answer", "answered"} <=> at \in {"answer", "answered"}
  PROVE  Fit'
<1> USE DEF evidence, treeWork
<1>1. UNCHANGED <<op, pass, todo, path, root, owned, rendered, noted, read, moment, node, holds>>
  OBVIOUS
<1>2. pass \in Nat /\ pass > 1 /\ (at \notin {"answer", "answered"} => pass > 2)
  BY DEF Fit, Shapes, Order, Walked, Kept
<1>3. Listed' = Listed /\ ReadSoFar' = ReadSoFar /\ LookedAt = Planned /\ LookedAt' = Planned
  BY <1>1, <1>2 DEF Listed, ReadSoFar, LookedAt, Kept
<1>4. Shapes'
  BY <1>1 DEF Fit, Shapes, Does, Walked
<1>5. Disk(node, holds)'
  BY <1>1 DEF Fit, Disk
<1>6. NotedWhen'
  <2>1. NotedWhen
    BY DEF Fit
  <2> QED BY <1>1, <1>2, <2>1 DEF NotedWhen, Noted, WalkingSteps, ReadingSteps, Before, Kept
<1>7. Order'
  <2>1. root # Absent
    BY DEF Fit, Order, Kept, Rootless
  <2>2. at \in {"answer", "answered"} => ~Does("publish")
    BY DEF Fit, Order
  <2> QED BY <1>1, <1>2, <2>1, <2>2 DEF Order, Rootless, Before, ReadingSteps, Walked, Kept, Does
<1>8. FactsHold(node, holds, Listed, ReadSoFar)'
  <2>1. FactsHold(node, holds, Listed, ReadSoFar)
    BY DEF Fit
  <2> QED BY <1>1, <1>3, <2>1 DEF FactsHold, Noted, FolderOf
<1>9. MomentHolds'
  <2>1. MomentHolds
    BY DEF Fit
  <2>2. FactsHold(moment.node, moment.holds, TRUE, Files)'
    <3>1. FactsHold(moment.node, moment.holds, TRUE, Files)
      BY <1>2, <2>1 DEF MomentHolds, Walked
    <3> QED BY <1>1, <3>1 DEF FactsHold, Noted, FolderOf
  <2>3. Disk(moment.node, moment.holds)'
    BY <1>1, <1>2, <2>1 DEF MomentHolds, Disk, Walked
  <2> QED BY <1>1, <1>2, <1>3, <2>1, <2>2, <2>3 DEF MomentHolds, Walked
<1>10. Contents'
  <2>1. Contents /\ at # "render"
    BY DEF Fit, Kept
  <2> QED BY <1>1, <1>3, <2>1 DEF Contents, Does, Allowed, ReceiptRead
<1> QED BY <1>4, <1>5, <1>6, <1>7, <1>8, <1>9, <1>10 DEF Fit

LEMMA PublishingFits == ASSUME Fit, Publishing \/ Answer, Live' PROVE Fit'
<1> USE DEF Goes, Keeps, evidence, disk, treeWork
<1>r. (\A why : ~Fails(why)) /\ ~Partial
  BY DEF Fails, Partial, Live, Cleaning
<1>0. /\ spot = [staging |-> spot.staging, target |-> spot.target]
      /\ spot.staging \in Identities \cup {Absent} /\ spot.target \in Identities \cup {Absent, Rival}
      /\ ~Does("publish") => spot.target # Rival
      /\ Contents
  BY DEF Fit, Shapes
<1>1. CASE Verified
  <2>1. at = "walked" /\ read[Receipt] = rendered[Receipt] /\ WalkAgain /\ UNCHANGED <<treeWork, evidence, disk>>
    BY <1>1, <1>r DEF Verified, WalkAgain
  <2>2. ReceiptRead
    BY <1>0, <2>1 DEF Contents, Fit, Order, Walked
  <2>3. ASSUME Does("publish") PROVE \A n \in Files : read[n] = rendered[n]
    <3>1. [p \in Payloads |-> read[p]] = [p \in Payloads |-> rendered[p]]
      BY <1>0, <2>1, <2>2, <2>3 DEF Contents, ReceiptRead, ReceiptOf
    <3>2. \A p \in Payloads : [q \in Payloads |-> read[q]][p] = [q \in Payloads |-> rendered[q]][p]
      BY <3>1
    <3>3. \A p \in Payloads : read[p] = rendered[p]
      BY <3>2
    <3> QED BY <2>1, <3>3 DEF Files
  <2> QED BY <2>1, <2>3, WalkAgainFits DEF Walked
<1>2. CASE LastCheckpoint
  <2>1. at = "checkpoint" /\ WalkAgain /\ UNCHANGED <<treeWork, evidence, disk>>
    BY <1>2, <1>r DEF LastCheckpoint, WalkAgain
  <2>2. Does("publish") => \A n \in Files : read[n] = rendered[n]
    BY <1>0, <2>1 DEF Contents, Fit, Order
  <2> QED BY <2>1, <2>2, WalkAgainFits DEF Walked
<1>3. CASE Rename
  <2>1. /\ at = "rename" /\ at' = "renamed" /\ spot' = [staging |-> Absent, target |-> spot.staging]
        /\ UNCHANGED <<op, pass, todo, treeWork, evidence, node, holds>>
    BY <1>3, <1>r DEF Rename
  <2>2. spot.staging # Rival
    BY <1>0, TreeAssumption DEF Identities, Files, Reserved, Rival, Absent, Receipt, Folder, Root
  <2> QED BY <1>0, <2>1, <2>2, KeptFits DEF Kept
<1>4. CASE RecordPublished \/ LookThroughPath \/ SyncParent \/ Answer
  <2>1. /\ at \in {"renamed", "placed", "sync", "answer"}
        /\ at' = IF at = "renamed" THEN "placed" ELSE IF at = "placed" THEN "sync" ELSE IF at = "sync" THEN "done" ELSE "answered"
        /\ UNCHANGED <<op, pass, todo, treeWork, evidence, node, holds, spot>>
    BY <1>4, <1>r DEF RecordPublished, LookThroughPath, SyncParent, Answer
  <2> QED BY <1>0, <2>1, KeptFits DEF Kept
<1> QED BY <1>1, <1>2, <1>3, <1>4 DEF Publishing

-----------------------------------------------------------------------------
(* The theorem                                                              *)

\* An export that failed stays failed: it is cleaned up, or left as partial.
LEMMA DeadStays == ASSUME ~Live, TreeNext PROVE ~Live'
<1>1. at \in Cleaning \cup {"failed", "partial"}
  BY DEF Live
<1>2. CASE Intrude
  BY <1>1, <1>2 DEF Intrude, AlterFile, AlterEntry, AlterSpot, AlterParent, TakeDestination, IntrusionKeeps, Live
<1>3. CASE TreeCancelled \/ Raises
  BY <1>1, <1>3 DEF TreeCancelled, Cancellable, Raises, Over, Fails, Cleaning, Live
<1>4. CASE Staging
  BY <1>1, <1>4 DEF Staging, Render, RenderingRefused, PrepareDestination, MakeStaging, OwnStaging, OpenStaging,
       OpenStagingFails, MakeFolder, OwnFolder, OpenFolder, CreateFile, WriteFile, Cleaning
<1>5. CASE Reading
  BY <1>1, <1>5 DEF Reading, FindRoot, AnchorRoot, ListRoot, StatEntry, EnterFolder, ListFolder, WalkEnds, OpenFile,
       BeginRead, EndRead, Answer, Cleaning
<1>6. CASE Publishing
  BY <1>1, <1>6 DEF Publishing, Verified, LastCheckpoint, Rename, RecordPublished, LookThroughPath, SyncParent, Cleaning
<1>7. CASE Cleanup
  BY <1>7 DEF Cleanup, StartCleanup, LookAtOwn, TakeOwn, LookAtStaging, TakeStaging, CleanupFails, Ends, Goes, Cleaning, Live
<1> QED BY <1>2, <1>3, <1>4, <1>5, <1>6, <1>7 DEF TreeNext

LEMMA TreeStep == TreeInv /\ [TreeNext]_treeVars => TreeInv'
<1> SUFFICES ASSUME TreeInv, [TreeNext]_treeVars, Live' PROVE Fit'
  BY DEF TreeInv
<1>1. CASE TreeNext
  <2>1. Live /\ Fit
    BY <1>1, DeadStays DEF TreeInv
  <2>2. CASE Intrude
    BY <2>1, <2>2, IntruderFits
  <2>3. CASE TreeCancelled \/ Raises
    BY <2>3 DEF TreeCancelled, Raises, Fails, Live, Cleaning
  <2>4. CASE Staging
    BY <2>1, <2>4, StagingFits
  <2>5. CASE Reading
    BY <2>1, <2>5, FindFits, ListRootFits, StatEntryFits, InsideFits, WalkEndsFits, OpenFits, EndReadFits, PublishingFits
       DEF Reading
  <2>6. CASE Publishing
    BY <2>1, <2>6, PublishingFits
  <2>7. CASE Cleanup
    BY <2>1, <2>7 DEF Cleanup, StartCleanup, LookAtOwn, TakeOwn, LookAtStaging, TakeStaging, CleanupFails, Live, Cleaning
  <2> QED BY <1>1, <2>2, <2>3, <2>4, <2>5, <2>6, <2>7 DEF TreeNext
<1>2. CASE UNCHANGED treeVars
  <2>1. UNCHANGED <<op, at, pass, todo, path, before, rendered, noted, read, root, owned, node, holds, spot, moment>>
    BY <1>2 DEF treeVars, treeWork, evidence, disk
  <2>2. Fit
    BY <2>1 DEF TreeInv, Live
  <2>3. Listed' = Listed /\ ReadSoFar' = ReadSoFar /\ LookedAt' = LookedAt
    BY <2>1 DEF Listed, ReadSoFar, LookedAt
  <2>4. Shapes' /\ Disk(node, holds)' /\ NotedWhen' /\ Order' /\ Contents'
    <3>1. Shapes'
      BY <2>1, <2>2 DEF Fit, Shapes, Does
    <3>2. Disk(node, holds)'
      BY <2>1, <2>2 DEF Fit, Disk
    <3>3. NotedWhen'
      BY <2>1, <2>2, <2>3 DEF Fit, NotedWhen, Noted
    <3>4. Order'
      BY <2>1, <2>2 DEF Fit, Order, InTurn, Does
    <3>5. Contents'
      BY <2>1, <2>2, <2>3 DEF Fit, Contents, Does, Allowed, ReceiptRead
    <3> QED BY <3>1, <3>2, <3>3, <3>4, <3>5
  <2>5. FactsHold(node, holds, Listed, ReadSoFar)'
    BY <2>1, <2>2, <2>3 DEF Fit, FactsHold, Noted, FolderOf
  <2>6. MomentHolds'
    BY <2>1, <2>2, <2>3 DEF Fit, MomentHolds, Disk, FactsHold, Noted, FolderOf
  <2> QED BY <2>4, <2>5, <2>6 DEF Fit
<1> QED BY <1>1, <1>2

\* Whatever others do to the tree, and however often, what is published,
\* verified or inspected was one tree at one moment (_verify_staged_export,
\* _rename_no_replace, _verify_export_directory, _inspect_export_directory).
THEOREM ExportTakenAsOneTree == TreeSpec => []TakenAsOneTree
<1>1. TreeInit => TreeInv
  BY InitFits DEF TreeInv
<1>2. TreeInv /\ [TreeNext]_treeVars => TreeInv'
  BY TreeStep
<1>3. TreeInv => TakenAsOneTree
  BY TreeInvIsOneTree
<1> QED BY <1>1, <1>2, <1>3, PTL DEF TreeSpec

-----------------------------------------------------------------------------
(* The cleanup of an export that is not published                           *)

\* What a cleanup has looked at is as it was, unless someone interfered since.
Sight ==
  /\ at = "take" => path \in todo
  /\ at = "take" /\ seen = intrusions => holds[OwnedFolderOf(path)][path] = owned[path]
  /\ at = "leave" /\ seen = intrusions => spot.staging = root

\* A new export is put into its staging directory.
Filling == {"folder", "own", "owned", "create", "write"}

\* What is taken, and what may be taken yet, was recorded.
OwnInv ==
  /\ intrusions \in Nat /\ seen \in 0..intrusions
  /\ owned = [n \in Planned \cup {Root} |-> owned[n]]
  /\ at \in Rootless => root = Absent
  /\ root # Absent => root = owned[Root]
  /\ at \in Cleaning => root # Absent
  /\ at \in Filling => todo \subseteq Files
  /\ at \in {"look", "take"} => \A n \in todo : n \in Planned /\ owned[n] # Absent
  /\ at \notin Cleaning \cup {"failed"} => taken = {}
  /\ \A i \in taken : i \in Recorded
  /\ Sight

LEMMA InitOwn == TreeInit => OwnInv
BY TreeAssumption, Distinct DEF TreeInit, ExportInit, ReaderInit, OwnInv, Sight, Cleaning, Rootless, Root, Filling

\* It fails, and may have to be cleaned up.
LEMMA FailsOwn ==
  ASSUME OwnInv, NEW why, Fails(why), at \notin Cleaning \cup {"failed"}
  PROVE  OwnInv'
<1>1. /\ UNCHANGED <<root, owned, seen, taken, intrusions, node>>
      /\ at' \in {"failed", "partial", "clean"} /\ (at' = "clean" => root # Absent)
  BY DEF Fails, disk, treeWork
<1> QED BY <1>1 DEF OwnInv, Sight, Recorded, Rootless, Cleaning, Filling

\* A step before the cleanup that records nothing.
LEMMA QuietOwn ==
  ASSUME OwnInv, UNCHANGED <<root, owned, seen, taken, intrusions>>,
         at \notin Cleaning \cup {"failed"}, at' \notin Cleaning \cup {"failed"}, at' \in Rootless => root = Absent,
         at' \in Filling => todo' \subseteq Files
  PROVE  OwnInv'
BY DEF OwnInv, Sight, Recorded, Cleaning

LEMMA IntruderOwn == ASSUME OwnInv, Intrude PROVE OwnInv'
<1>1. UNCHANGED <<at, root, owned, seen, taken, todo, path>>
  BY DEF Intrude, AlterFile, AlterEntry, AlterSpot, AlterParent, TakeDestination, IntrusionKeeps, treeWork
<1>2. CASE intrusions' = intrusions + 1
  <2>1. intrusions' \in Nat /\ seen' # intrusions' /\ seen' \in 0..intrusions'
    BY <1>1, <1>2 DEF OwnInv
  <2> QED BY <1>1, <2>1 DEF OwnInv, Sight, Recorded
<1>3. CASE TakeDestination
  BY <1>1, <1>3 DEF TakeDestination, OwnInv, Sight, Recorded, Cleaning
<1> QED BY <1>2, <1>3 DEF Intrude, AlterFile, AlterEntry, AlterSpot, AlterParent, Intrusion

LEMMA StagingOwn == ASSUME OwnInv, Staging PROVE OwnInv'
<1> USE DEF Goes, Keeps, treeWork, disk, evidence, Cleaning, Rootless, Filling
<1>1. CASE Render \/ PrepareDestination \/ MakeStaging
  <2>1. Render => OwnInv'
    BY QuietOwn DEF Render, OwnInv
  <2>2. PrepareDestination => OwnInv'
    BY QuietOwn, FailsOwn DEF PrepareDestination, OwnInv
  <2>3. MakeStaging => OwnInv'
    BY QuietOwn, FailsOwn DEF MakeStaging, OwnInv
  <2> QED BY <1>1, <2>1, <2>2, <2>3
<1>2. CASE RenderingRefused
  BY <1>2, FailsOwn DEF RenderingRefused
<1>3. CASE OwnStaging
  <2>1. CASE spot.staging = Absent
    BY <1>3, <2>1, FailsOwn DEF OwnStaging
  <2>2. CASE spot.staging # Absent
    <3>1. /\ owned' = [owned EXCEPT ![Root] = spot.staging] /\ at = "created" /\ at' = "opening"
          /\ UNCHANGED <<root, seen, taken, intrusions>>
      BY <1>3, <2>2 DEF OwnStaging
    <3>2. owned' = [n \in Planned \cup {Root} |-> owned'[n]]
      BY <3>1 DEF OwnInv
    <3> QED BY <3>1, <3>2 DEF OwnInv, Sight, Recorded
  <2> QED BY <2>1, <2>2
<1>4. CASE OpenStaging
  <2>1. CASE spot.staging = owned[Root] /\ IsFolder(owned[Root])
    <3>1. /\ root' = owned[Root] /\ at = "opening" /\ at' \in {"create", "folder"} /\ todo' = Files
          /\ UNCHANGED <<owned, seen, taken, intrusions>>
      BY <1>4, <2>1 DEF OpenStaging
    <3> QED BY <3>1 DEF OwnInv, Sight, Recorded
  <2>2. CASE ~(spot.staging = owned[Root] /\ IsFolder(owned[Root]))
    BY <1>4, <2>2, FailsOwn DEF OpenStaging
  <2> QED BY <2>1, <2>2
<1>5. CASE OpenStagingFails
  <2>1. at = "opening" /\ at' = "failed" /\ UNCHANGED <<root, owned, seen, taken, intrusions>>
    BY <1>5 DEF OpenStagingFails
  <2> QED BY <2>1 DEF OwnInv, Sight, Recorded
<1>6. CASE MakeFolder \/ OpenFolder \/ WriteFile
  <2>1. OpenFolder => OwnInv'
    BY QuietOwn, FailsOwn DEF OpenFolder, OwnInv
  <2>2. MakeFolder => OwnInv'
    BY QuietOwn, FailsOwn DEF MakeFolder, OwnInv
  <2>3. WriteFile => OwnInv'
    BY QuietOwn DEF WriteFile, OwnInv
  <2> QED BY <1>6, <2>1, <2>2, <2>3
<1>7. CASE OwnFolder
  <2>1. CASE ~IsFolder(holds[root][Folder])
    BY <1>7, <2>1, FailsOwn DEF OwnFolder
  <2>2. CASE IsFolder(holds[root][Folder])
    <3>1. /\ owned' = [owned EXCEPT ![Folder] = holds[root][Folder]] /\ at = "own" /\ at' = "owned"
          /\ UNCHANGED <<todo, root, seen, taken, intrusions>>
      BY <1>7, <2>2 DEF OwnFolder
    <3>2. owned' = [n \in Planned \cup {Root} |-> owned'[n]] /\ owned'[Root] = owned[Root]
      BY <3>1 DEF OwnInv, Folder, Root
    <3> QED BY <3>1, <3>2 DEF OwnInv, Sight, Recorded
  <2> QED BY <2>1, <2>2
<1>8. CASE CreateFile
  <2>1. PICK n \in todo :
          IF holds[OwnedFolderOf(n)][n] # Absent THEN Fails("refused")
          ELSE /\ owned' = [owned EXCEPT ![n] = n] /\ at' = "write"
               /\ UNCHANGED <<todo, root, seen, taken, intrusions>>
    BY <1>8 DEF CreateFile
  <2>2. at = "create"
    BY <1>8 DEF CreateFile
  <2>3. CASE Fails("refused")
    BY <2>2, <2>3, FailsOwn
  <2>4. CASE owned' = [owned EXCEPT ![n] = n] /\ at' = "write" /\ UNCHANGED <<todo, root, seen, taken, intrusions>>
    <3>0. n # Root
      BY <2>2, TreeAssumption DEF OwnInv, Files, Reserved, Root, Receipt
    <3>1. owned' = [m \in Planned \cup {Root} |-> owned'[m]] /\ owned'[Root] = owned[Root]
      BY <2>4, <3>0 DEF OwnInv
    <3> QED BY <2>2, <2>4, <3>1 DEF OwnInv, Sight, Recorded
  <2> QED BY <2>1, <2>3, <2>4
<1> QED BY <1>1, <1>2, <1>3, <1>4, <1>5, <1>6, <1>7, <1>8 DEF Staging

LEMMA ReadingOwn == ASSUME OwnInv, Reading PROVE OwnInv'
<1> USE DEF Goes, Keeps, treeWork, disk, evidence, Cleaning, Rootless, Filling
<1>1. CASE FindRoot
  <2>1. CASE ~parented \/ ~IsFolder(spot.target)
    BY <1>1, <2>1, FailsOwn DEF FindRoot
  <2>2. CASE ~(~parented \/ ~IsFolder(spot.target))
    <3>1. /\ owned' = [owned EXCEPT ![Root] = spot.target] /\ at = "find" /\ at' = "anchor"
          /\ UNCHANGED <<root, seen, taken, intrusions>>
      BY <1>1, <2>2 DEF FindRoot
    <3>2. owned' = [n \in Planned \cup {Root} |-> owned'[n]]
      BY <3>1 DEF OwnInv
    <3> QED BY <3>1, <3>2 DEF OwnInv, Sight, Recorded
  <2> QED BY <2>1, <2>2
<1>2. CASE AnchorRoot
  <2>1. CASE ~parented \/ spot.target # owned[Root]
    BY <1>2, <2>1, FailsOwn DEF AnchorRoot
  <2>2. CASE ~(~parented \/ spot.target # owned[Root])
    <3>1. /\ root' = owned[Root] /\ at = "anchor" /\ at' = "list"
          /\ UNCHANGED <<owned, seen, taken, intrusions>>
      BY <1>2, <2>2 DEF AnchorRoot
    <3> QED BY <3>1 DEF OwnInv, Sight, Recorded
  <2> QED BY <2>1, <2>2
<1>3. ListRoot => OwnInv'
  BY QuietOwn, FailsOwn DEF ListRoot
<1>4. StatEntry => OwnInv'
  BY QuietOwn, FailsOwn DEF StatEntry
<1>5. EnterFolder => OwnInv'
  BY QuietOwn, FailsOwn DEF EnterFolder
<1>6. ListFolder => OwnInv'
  BY QuietOwn, FailsOwn DEF ListFolder
<1>7. WalkEnds => OwnInv'
  BY QuietOwn DEF WalkEnds
<1>8. OpenFile => OwnInv'
  BY QuietOwn, FailsOwn DEF OpenFile
<1>9. BeginRead => OwnInv'
  BY QuietOwn DEF BeginRead
<1>10. EndRead => OwnInv'
  BY QuietOwn, FailsOwn DEF EndRead
<1>11. Answer => OwnInv'
  BY QuietOwn, FailsOwn DEF Answer
<1> QED BY <1>1, <1>2, <1>3, <1>4, <1>5, <1>6, <1>7, <1>8, <1>9, <1>10, <1>11 DEF Reading

LEMMA PublishingOwn == ASSUME OwnInv, Publishing PROVE OwnInv'
<1> USE DEF Goes, Keeps, treeWork, disk, evidence, Cleaning, Rootless, Filling, WalkAgain, Partial
<1>1. Verified => OwnInv'
  BY QuietOwn, FailsOwn DEF Verified
<1>2. LastCheckpoint => OwnInv'
  BY QuietOwn, FailsOwn DEF LastCheckpoint
<1>3. Rename => OwnInv'
  BY QuietOwn, FailsOwn DEF Rename
<1>4. RecordPublished => OwnInv'
  BY QuietOwn DEF RecordPublished
<1>5. LookThroughPath => OwnInv'
  BY QuietOwn DEF LookThroughPath
<1>6. SyncParent => OwnInv'
  BY QuietOwn DEF SyncParent
<1> QED BY <1>1, <1>2, <1>3, <1>4, <1>5, <1>6 DEF Publishing

LEMMA CleanupOwn == ASSUME OwnInv, Cleanup PROVE OwnInv'
<1> USE DEF Goes, Keeps, treeWork, disk, evidence, Cleaning, Rootless, Filling
<1>1. CASE StartCleanup
  <2>1. UNCHANGED <<root, owned, seen, taken, intrusions>> /\ at = "clean"
        /\ (at' = "failed" \/ (at' = "look" /\ todo' = {n \in Planned : owned[n] # Absent}))
    BY <1>1 DEF StartCleanup, Ends
  <2> QED BY <2>1 DEF OwnInv, Sight, Recorded
<1>2. CASE LookAtOwn
  <2>1. PICK n \in todo :
          IF Own(n) THEN path' = n /\ Goes("take") /\ UNCHANGED todo /\ Looks
          ELSE todo' = todo \ {n} /\ Goes("look") /\ UNCHANGED treeWork
    BY <1>2 DEF LookAtOwn
  <2>2. at = "look" /\ UNCHANGED <<intrusions, holds, spot>>
    BY <1>2 DEF LookAtOwn
  <2>3. CASE Own(n)
    <3>1. path' = n /\ at' = "take" /\ seen' = intrusions /\ UNCHANGED <<todo, root, owned, taken>>
      BY <2>1, <2>3 DEF Looks
    <3>2. OwnedFolderOf(path)' = IF n \in Nested THEN owned[Folder] ELSE root
      BY <3>1 DEF OwnedFolderOf
    <3>3. holds'[OwnedFolderOf(path)'][n] = owned[n]
      BY <2>2, <2>3, <3>2 DEF Own
    <3> QED BY <2>2, <3>1, <3>3 DEF OwnInv, Sight, Recorded
  <2>4. CASE ~Own(n)
    <3>1. todo' = todo \ {n} /\ at' = "look" /\ UNCHANGED <<root, owned, seen, taken>>
      BY <2>1, <2>4
    <3> QED BY <2>2, <3>1 DEF OwnInv, Sight, Recorded
  <2> QED BY <2>3, <2>4
<1>3. CASE TakeOwn
  <2> DEFINE i == holds[OwnedFolderOf(path)][path]
  <2>1. /\ at = "take" /\ at' = "look" /\ todo' = todo \ {path} /\ UNCHANGED <<root, owned, seen, intrusions>>
        /\ taken' = taken \/ taken' = IF seen = intrusions THEN taken \cup {i} ELSE taken
    BY <1>3 DEF TakeOwn
  <2>2. seen = intrusions => i \in Recorded
    BY <2>1 DEF OwnInv, Sight, Recorded
  <2> HIDE DEF i
  <2> QED BY <2>1, <2>2 DEF OwnInv, Sight, Recorded
<1>4. CASE LookAtStaging
  <2>1. UNCHANGED <<root, owned, taken, intrusions, spot>> /\ at = "look"
        /\ ((at' = "failed" /\ seen' = seen) \/ (at' = "leave" /\ seen' = intrusions /\ spot.staging = root))
    BY <1>4 DEF LookAtStaging, Ends, Looks
  <2> QED BY <2>1 DEF OwnInv, Sight, Recorded
<1>5. CASE TakeStaging
  <2>1. /\ at = "leave" /\ at' = "failed" /\ UNCHANGED <<root, owned, seen, intrusions>>
        /\ taken' = taken \/ taken' = IF seen = intrusions THEN taken \cup {spot.staging} ELSE taken
    BY <1>5 DEF TakeStaging
  <2>2. seen = intrusions => spot.staging \in Recorded
    BY <2>1 DEF OwnInv, Sight, Recorded
  <2> QED BY <2>1, <2>2 DEF OwnInv, Sight, Recorded
<1>6. CASE CleanupFails
  <2>1. at \in Cleaning /\ at' = "failed" /\ UNCHANGED <<root, owned, seen, taken, intrusions>>
    BY <1>6 DEF CleanupFails
  <2> QED BY <2>1 DEF OwnInv, Sight, Recorded
<1> QED BY <1>1, <1>2, <1>3, <1>4, <1>5, <1>6 DEF Cleanup

LEMMA OwnStep == OwnInv /\ [TreeNext]_treeVars => OwnInv'
<1> SUFFICES ASSUME OwnInv, [TreeNext]_treeVars PROVE OwnInv'
  OBVIOUS
<1>1. CASE TreeCancelled \/ Raises
  BY <1>1, FailsOwn DEF TreeCancelled, Cancellable, Raises, Over, Cleaning
<1>2. CASE UNCHANGED treeVars
  BY <1>2 DEF treeVars, treeWork, evidence, disk, OwnInv, Sight, Recorded, OwnedFolderOf
<1> QED BY <1>1, <1>2, IntruderOwn, StagingOwn, ReadingOwn, PublishingOwn, CleanupOwn DEF TreeNext

-----------------------------------------------------------------------------
(* Nothing is left if nobody interferes.  Until then every entry that an    *)
(* export made is of the name it was made for and recorded; cleanup goes   *)
(* through the recorded names, so that its folders are empty in the end.   *)

\* The entry of a planned name, where an export puts it.
Entry(n) == holds[IF n \in Nested THEN Folder ELSE Root][n]

\* The steps of a new export by what they find at the staging name.
Unstaged == {"render", "prepare", "mkdir"}
Published == {"renamed", "placed", "sync", "done", "partial"}
ReaderSteps == {"find", "anchor", "list", "stat", "enter", "inside", "open", "before", "after", "answer", "answered", "failed"}

StagingPlaced ==
  /\ spot = [staging |-> spot.staging, target |-> spot.target]
  /\ at \in Unstaged => spot.staging = Absent
  /\ at = "created" => spot.staging = Root
  /\ at \notin Unstaged \cup {"created", "failed"} \cup Published => spot.staging = Root /\ owned[Root] = Root
  /\ at \in Published => spot.staging = Absent /\ spot.target = Root
  /\ at \notin Published => spot.target # Root
  /\ at = "failed" => spot.staging = Absent
  /\ root = Root \/ at \in Rootless \cup {"failed"}
  /\ at \notin {"find", "anchor", "answer", "answered"}

\* Every entry is of the name it was made for, and is recorded.
Entries ==
  /\ \A n \in EntryNames :
       /\ holds[Root][n] # Absent => n \in Top /\ holds[Root][n] = n
       /\ holds[Folder][n] # Absent => n \in Nested /\ holds[Folder][n] = n /\ holds[Root][Folder] = Folder
  /\ \A n \in Planned :
       /\ owned[n] \in {Absent, n}
       /\ Entry(n) # Absent => owned[n] = n \/ (n = Folder /\ at = "own")

NodeKinds ==
  /\ node = [i \in Identities |-> node[i]]
  /\ holds = [i \in Identities |-> [n \in EntryNames |-> holds[i][n]]]
  /\ at \notin Unstaged \cup {"failed"} => node[Root].kind = "folder"
  /\ node[Folder].kind \in {"unborn", "folder"} /\ \A n \in Files : node[n].kind # "folder"
  /\ holds[Root][Folder] = Folder => node[Folder].kind = "folder"

\* What a step of the staging relies on.
FilledSoFar ==
  /\ at \in {"folder", "own", "owned"} => Nested # {}
  /\ at \in {"own", "owned"} => holds[Root][Folder] = Folder
  /\ at \in {"owned", "create", "write"} => (Nested # {} => owned[Folder] = Folder /\ holds[Root][Folder] = Folder)
  /\ at = "write" => path \in todo

\* What is still there is still to be taken.
Leftovers ==
  /\ at \in {"look", "take"} => \A n \in Planned : Entry(n) # Absent => n \in todo
  /\ at = "take" => (path = Folder => todo = {Folder}) /\ (path \in Nested => owned[Folder] = Folder)
  /\ at = "leave" => \A n \in Planned : Entry(n) = Absent

Tidy == StagingPlaced /\ Entries /\ NodeKinds /\ FilledSoFar /\ Leftovers

\* While nobody interferes and no call raises.
Undisturbed == intrusions = 0 /\ cause # "error"
TidyInv ==
  /\ Live => cause = "none"
  /\ Undisturbed =>
       /\ parented = TRUE
       /\ ~Does("publish") => spot.staging = Absent /\ at \in ReaderSteps
       /\ Does("publish") => Tidy

LEMMA InitTidy == TreeInit => TidyInv
<1> SUFFICES ASSUME TreeInit PROVE TidyInv
  OBVIOUS
<1>1. CASE ExportInit
  <2>1. /\ Does("publish") /\ at = "render" /\ cause = "none" /\ parented = TRUE /\ root = Absent /\ todo = {}
        /\ spot = [staging |-> Absent, target |-> spot.target] /\ spot.target \in {Absent, Rival}
        /\ node = [i \in Identities |-> Unborn] /\ holds = [i \in Identities |-> Empty]
        /\ owned = [n \in Planned \cup {Root} |-> Absent]
    BY <1>1 DEF TreeInit, ExportInit, Does
  <2>2. StagingPlaced
    BY <2>1 DEF StagingPlaced, Unstaged, Published, Rootless, Rival, Absent, Root
  <2>3. \A i \in Identities, n \in EntryNames : holds[i][n] = Absent
    BY <2>1 DEF Empty
  <2>4. Folder \in Identities
    BY DEF Identities
  <2>5. Entries
    BY <2>1, <2>3, <2>4, Distinct DEF Entries, Entry
  <2>6. NodeKinds
    BY <2>1, <2>3, <2>4, Distinct DEF NodeKinds, Unstaged, Unborn, Folder, Absent, Empty
  <2>7. FilledSoFar /\ Leftovers
    BY <2>1 DEF FilledSoFar, Leftovers
  <2> QED BY <2>1, <2>2, <2>5, <2>6, <2>7 DEF TidyInv, Tidy
<1>2. CASE ReaderInit
  BY <1>2 DEF TreeInit, ReaderInit, TidyInv, Does, ReaderSteps
<1> QED BY <1>1, <1>2 DEF TreeInit

\* It fails before there is a staging directory, or with one that is known.
LEMMA FailsTidy ==
  ASSUME OwnInv, Tidy, Does("publish"), NEW why, Fails(why), at \notin {"created", "opening", "own", "failed"} \cup Cleaning
  PROVE  Tidy'
<1>1. /\ UNCHANGED <<node, holds, spot, owned, root>>
      /\ root = Absent => at' = "failed"
      /\ root # Absent => at' = IF at \in {"placed", "sync"} \/ spot.target = root THEN "partial" ELSE "clean"
  BY DEF Fails, disk, treeWork
<1>2. CASE root = Absent
  <2>1. at' = "failed" /\ at \in Unstaged
    BY <1>1, <1>2 DEF Tidy, StagingPlaced, Rootless, Unstaged, Root, Absent
  <2>2. StagingPlaced' /\ NodeKinds'
    BY <1>1, <2>1 DEF Tidy, StagingPlaced, NodeKinds, Unstaged, Published
  <2>3. Entries'
    BY <1>1, <2>1 DEF Tidy, Entries, Entry, Unstaged
  <2>4. FilledSoFar' /\ Leftovers'
    BY <2>1 DEF FilledSoFar, Leftovers
  <2> QED BY <2>2, <2>3, <2>4 DEF Tidy
<1>3. CASE root # Absent
  <2>1. root = Root /\ at \notin Rootless
    BY <1>3 DEF OwnInv, Tidy, StagingPlaced
  <2>2. at \in Published => at' = "partial"
    BY <1>1, <1>3, <2>1 DEF Tidy, StagingPlaced
  <2>3. at \notin Published => at' = "clean"
    BY <1>1, <1>3, <2>1 DEF Tidy, StagingPlaced, Published
  <2>4. StagingPlaced'
    BY <1>1, <2>1, <2>2, <2>3 DEF Tidy, StagingPlaced, Unstaged, Published, Rootless, Cleaning
  <2>5. Entries'
    <3>1. at # "own" /\ at' # "own"
      BY <2>2, <2>3
    <3> QED BY <1>1, <3>1 DEF Tidy, Entries, Entry
  <2>6. NodeKinds'
    <3>1. at \notin Unstaged \cup {"failed"}
      BY <2>1 DEF Unstaged, Rootless
    <3> QED BY <1>1, <3>1 DEF Tidy, NodeKinds
  <2>7. FilledSoFar' /\ Leftovers'
    BY <2>2, <2>3 DEF FilledSoFar, Leftovers
  <2> QED BY <2>4, <2>5, <2>6, <2>7 DEF Tidy
<1> QED BY <1>2, <1>3

\* A step between two calls that change nothing.
Through == {"list", "stat", "enter", "inside", "open", "before", "after", "walked", "checkpoint", "rename"}
LEMMA QuietTidy ==
  ASSUME Tidy, UNCHANGED <<node, holds, spot, owned, root>>,
         \/ at \in Through /\ at' \in Through
         \/ at \in Unstaged /\ at' \in Unstaged
         \/ at \in Published /\ at' \in Published
  PROVE  Tidy'
<1>1. StagingPlaced'
  BY DEF Tidy, StagingPlaced, Unstaged, Published, Rootless, Through
<1>2. Entries'
  BY DEF Tidy, Entries, Entry, Through, Unstaged, Published
<1>3. NodeKinds'
  BY DEF Tidy, NodeKinds, Unstaged, Through, Published
<1>4. FilledSoFar' /\ Leftovers'
  BY DEF FilledSoFar, Leftovers, Through, Unstaged, Published
<1> QED BY <1>1, <1>2, <1>3, <1>4 DEF Tidy

\* A new folder or file is entered: nothing else changes its kind or its place.
LEMMA EnterPlaces ==
  ASSUME NodeKinds, NEW d \in {Root, Folder}, NEW n \in Planned, NEW kind, NEW body,
         Enter(d, n, n, kind, body), holds[d][n] = Absent,
         n = Folder => kind = "folder", n # Folder => kind # "folder",
         node[Root].kind = "folder", d = Folder => node[Folder].kind = "folder"
  PROVE  /\ holds' = [i \in Identities |-> [m \in EntryNames |-> holds'[i][m]]]
         /\ \A i \in {Root, Folder}, m \in EntryNames : holds'[i][m] = IF i = d /\ m = n THEN n ELSE holds[i][m]
         /\ node' = [i \in Identities |-> node'[i]]
         /\ node'[Root].kind = "folder"
         /\ node'[Folder].kind = IF n = Folder THEN "folder" ELSE node[Folder].kind
         /\ \A m \in Files : node'[m].kind # "folder"
<1>1. Root \in Identities /\ Folder \in Identities /\ Files \subseteq Identities /\ Absent \notin Identities /\ n \in EntryNames
  BY Distinct DEF Identities
<1>2. n # Root /\ Root # Folder /\ Folder \notin Files /\ Root \notin Files
  BY Distinct, TreeAssumption DEF Planned, Top, Files, Root, Folder, Receipt, Reserved
<1>3. /\ holds' = [i \in Identities |-> [m \in EntryNames |-> holds'[i][m]]]
      /\ \A i \in {Root, Folder}, m \in EntryNames : holds'[i][m] = IF i = d /\ m = n THEN n ELSE holds[i][m]
  BY <1>1 DEF Enter, NodeKinds
<1>4. /\ node' = [i \in Identities |-> node'[i]]
      /\ \A j \in Identities : node'[j].kind = IF j = n /\ node[j].kind = "unborn" THEN kind ELSE node[j].kind
  BY <1>1 DEF Enter
<1>5. node[Folder].kind \in {"unborn", "folder"} /\ \A m \in Files : node[m].kind # "folder"
  BY DEF NodeKinds
<1> QED BY <1>1, <1>2, <1>3, <1>4, <1>5

LEMMA StagingTidy ==
  ASSUME OwnInv, Tidy, Does("publish"), parented = TRUE, Staging, cause' # "error"
  PROVE  Tidy'
<1> USE DEF Goes, Keeps, treeWork, disk, evidence, Cleaning
<1>1. CASE Render
  BY <1>1, QuietTidy DEF Render, Unstaged
<1>2. CASE RenderingRefused
  BY <1>2, FailsTidy DEF RenderingRefused
<1>3. CASE PrepareDestination
  BY <1>3, FailsTidy, QuietTidy DEF PrepareDestination, Unstaged
<1>4. CASE MakeStaging
  <2>1. /\ at = "mkdir" /\ at' = "created" /\ spot' = [spot EXCEPT !.staging = Root]
        /\ Become(Root, "folder", <<>>) /\ UNCHANGED <<root, owned, holds, path, todo>>
    BY <1>4 DEF MakeStaging
  <2>2. StagingPlaced'
    BY <2>1 DEF Tidy, StagingPlaced, Unstaged, Published, Rootless
  <2>3. Entries'
    BY <2>1 DEF Tidy, Entries, Entry
  <2>4. NodeKinds'
    <3>1. Folder \in Identities /\ Root # Folder /\ Root \notin Files /\ Root \in Identities /\ Files \subseteq Identities
      BY Distinct, TreeAssumption DEF Identities, Root, Folder, Files, Receipt, Reserved
    <3>2. node'[Root].kind = "folder" /\ \A i \in Files \cup {Folder} : node'[i] = node[i]
      BY <2>1, <3>1 DEF Tidy, NodeKinds, Become
    <3>3. node' = [i \in Identities |-> node'[i]]
      BY <2>1 DEF Tidy, NodeKinds, Become
    <3> QED BY <2>1, <3>1, <3>2, <3>3 DEF Tidy, NodeKinds
  <2>5. FilledSoFar' /\ Leftovers'
    BY <2>1 DEF FilledSoFar, Leftovers
  <2> QED BY <2>2, <2>3, <2>4, <2>5 DEF Tidy
<1>5. CASE OwnStaging
  <2>1. /\ at = "created" /\ at' = "opening" /\ owned' = [owned EXCEPT ![Root] = Root]
        /\ UNCHANGED <<root, node, holds, path, todo, spot>>
    BY <1>5 DEF OwnStaging, Tidy, StagingPlaced, Root, Absent
  <2>2. owned'[Root] = Root /\ \A n \in Planned : owned'[n] = owned[n]
    BY <2>1, TreeAssumption DEF OwnInv, Planned, Top, Files, Root, Receipt, Folder, Reserved
  <2>3. StagingPlaced'
    BY <2>1, <2>2 DEF Tidy, StagingPlaced, Unstaged, Published, Rootless
  <2>4. Entries'
    BY <2>1, <2>2 DEF Tidy, Entries, Entry
  <2>5. NodeKinds'
    BY <2>1 DEF Tidy, NodeKinds, Unstaged
  <2>6. FilledSoFar' /\ Leftovers'
    BY <2>1 DEF FilledSoFar, Leftovers
  <2> QED BY <2>3, <2>4, <2>5, <2>6 DEF Tidy
<1>6. CASE OpenStaging
  <2>1. at = "opening" /\ spot.staging = Root /\ owned[Root] = Root /\ node[Root].kind = "folder"
    BY <1>6 DEF OpenStaging, Tidy, StagingPlaced, NodeKinds, Unstaged, Published
  <2>2. /\ at' = IF Nested = {} THEN "create" ELSE "folder"
        /\ root' = Root /\ UNCHANGED <<owned, node, holds, path, spot>>
    BY <1>6, <2>1 DEF OpenStaging, IsFolder, Root, Absent
  <2>3. StagingPlaced'
    BY <2>1, <2>2 DEF Tidy, StagingPlaced, Unstaged, Published, Rootless
  <2>4. Entries'
    BY <2>1, <2>2 DEF Tidy, Entries, Entry
  <2>5. NodeKinds'
    BY <2>1, <2>2 DEF Tidy, NodeKinds, Unstaged
  <2>6. FilledSoFar' /\ Leftovers'
    BY <2>1, <2>2 DEF FilledSoFar, Leftovers
  <2> QED BY <2>3, <2>4, <2>5, <2>6 DEF Tidy
<1>7. CASE OpenStagingFails
  BY <1>7 DEF OpenStagingFails
<1>8. CASE MakeFolder
  <2>1. at = "folder" /\ root = Root /\ Nested # {} /\ node[Root].kind = "folder"
    BY <1>8 DEF MakeFolder, Tidy, StagingPlaced, NodeKinds, FilledSoFar, Unstaged, Rootless
  <2>2. CASE holds[Root][Folder] # Absent
    BY <1>8, <2>1, <2>2, FailsTidy DEF MakeFolder
  <2>3. CASE holds[Root][Folder] = Absent
    <3>1. at' = "own" /\ UNCHANGED <<owned, root, spot, path, todo>> /\ Enter(Root, Folder, Folder, "folder", <<>>)
      BY <1>8, <2>1, <2>3 DEF MakeFolder
    <3>2. Folder \in Planned /\ Folder \in Top /\ Folder \notin Nested /\ Folder \in EntryNames /\ Nested \subseteq EntryNames
      BY <2>1, Distinct
    <3> HIDE DEF Folder
    <3>3. /\ holds' = [i \in Identities |-> [m \in EntryNames |-> holds'[i][m]]]
          /\ \A i \in {Root, Folder}, m \in EntryNames : holds'[i][m] = IF i = Root /\ m = Folder THEN Folder ELSE holds[i][m]
          /\ node' = [i \in Identities |-> node'[i]]
          /\ node'[Root].kind = "folder" /\ node'[Folder].kind = "folder"
          /\ \A m \in Files : node'[m].kind # "folder"
      BY <2>1, <2>3, <3>1, <3>2, EnterPlaces DEF Tidy
    <3>4. Root # Folder
      BY DEF Root, Folder
    <3>5. StagingPlaced'
      BY <2>1, <3>1 DEF Tidy, StagingPlaced, Unstaged, Published, Rootless
    <3>6. Entries'
      <4>1. \A n \in EntryNames : holds'[Root][n] = (IF n = Folder THEN Folder ELSE holds[Root][n]) /\ holds'[Folder][n] = holds[Folder][n]
        BY <3>3, <3>4
      <4>2. \A n \in Planned : n # Folder => Entry(n)' = Entry(n)
        BY <4>1, Distinct DEF Entry
      <4> QED BY <2>1, <3>1, <3>2, <4>1, <4>2 DEF Tidy, Entries
    <3>7. NodeKinds'
      BY <3>3, <3>2 DEF NodeKinds
    <3>8. FilledSoFar' /\ Leftovers'
      BY <2>1, <3>1, <3>2, <3>3 DEF FilledSoFar, Leftovers
    <3> QED BY <3>5, <3>6, <3>7, <3>8 DEF Tidy
  <2> QED BY <2>2, <2>3
<1>9. CASE OwnFolder
  <2>1. at = "own" /\ root = Root /\ Nested # {} /\ holds[Root][Folder] = Folder /\ node[Folder].kind = "folder"
    BY <1>9 DEF OwnFolder, Tidy, StagingPlaced, NodeKinds, FilledSoFar, Rootless
  <2>2. IsFolder(Folder)
    BY <2>1 DEF IsFolder, Folder, Absent
  <2>3. at' = "owned" /\ owned' = [owned EXCEPT ![Folder] = Folder] /\ UNCHANGED <<root, spot, path, todo, node, holds>>
    BY <1>9, <2>1, <2>2 DEF OwnFolder
  <2>4. Folder \in Planned /\ Folder # Root
    BY <2>1, Distinct DEF Folder, Root
  <2>5. owned'[Folder] = Folder /\ \A n \in Planned \cup {Root} : n # Folder => owned'[n] = owned[n]
    BY <2>3, <2>4 DEF OwnInv
  <2>6. StagingPlaced'
    BY <2>1, <2>3, <2>4, <2>5 DEF Tidy, StagingPlaced, Unstaged, Published, Rootless
  <2>7. Entries'
    BY <2>1, <2>3, <2>5 DEF Tidy, Entries, Entry
  <2>8. NodeKinds'
    BY <2>1, <2>3 DEF Tidy, NodeKinds, Unstaged
  <2>9. FilledSoFar' /\ Leftovers'
    BY <2>1, <2>3, <2>5 DEF FilledSoFar, Leftovers
  <2> QED BY <2>6, <2>7, <2>8, <2>9 DEF Tidy
<1>10. CASE OpenFolder
  <2>1. CASE Fails("refused")
    BY <1>10, <2>1, FailsTidy DEF OpenFolder
  <2>2. CASE at' = "create" /\ UNCHANGED <<root, spot, path, todo, node, holds, owned>>
    <3>1. at = "owned"
      BY <1>10 DEF OpenFolder
    <3>2. StagingPlaced'
      BY <2>2, <3>1 DEF Tidy, StagingPlaced, Unstaged, Published, Rootless
    <3>3. Entries'
      BY <2>2, <3>1 DEF Tidy, Entries, Entry
    <3>4. NodeKinds' /\ FilledSoFar' /\ Leftovers'
      BY <2>2, <3>1 DEF Tidy, NodeKinds, FilledSoFar, Leftovers, Unstaged
    <3> QED BY <3>2, <3>3, <3>4 DEF Tidy
  <2> QED BY <1>10, <2>1, <2>2 DEF OpenFolder
<1>11. CASE CreateFile
  <2>1. at = "create" /\ root = Root /\ node[Root].kind = "folder" /\ owned[Root] = Root /\ todo \subseteq Files
    BY <1>11 DEF CreateFile, Tidy, StagingPlaced, NodeKinds, Unstaged, Rootless, Published, OwnInv, Filling
  <2>2. PICK n \in todo :
          IF holds[OwnedFolderOf(n)][n] # Absent THEN Fails("refused")
          ELSE /\ Enter(OwnedFolderOf(n), n, n, "file", <<>>)
               /\ owned' = [owned EXCEPT ![n] = n] /\ path' = n /\ at' = "write"
               /\ UNCHANGED <<todo, root, spot>>
    BY <1>11 DEF CreateFile
  <2>3. CASE holds[OwnedFolderOf(n)][n] # Absent
    BY <2>1, <2>2, <2>3, FailsTidy
  <2>4. CASE holds[OwnedFolderOf(n)][n] = Absent
    <3> DEFINE d == IF n \in Nested THEN Folder ELSE Root
    <3>1. OwnedFolderOf(n) = d
      BY <2>1 DEF OwnedFolderOf, Tidy, FilledSoFar
    <3>2. n \in Files /\ n \in Planned /\ n # Folder /\ n \in EntryNames /\ n # Root /\ (n \notin Nested => n \in Top)
      BY <2>1, Distinct, TreeAssumption DEF Top, Files, Root, Receipt, Reserved
    <3>3. n \in Nested => owned[Folder] = Folder /\ holds[Root][Folder] = Folder /\ node[Folder].kind = "folder"
      BY <2>1 DEF Tidy, FilledSoFar, NodeKinds
    <3>4. d \in {Root, Folder} /\ (d = Folder => n \in Nested)
      BY DEF Root, Folder
    <3>5. Root # Folder /\ n # Absent /\ Folder \in EntryNames
      BY <3>2, Distinct DEF Root, Folder
    <3> HIDE DEF Folder, d
    <3>6. Enter(d, n, n, "file", <<>>) /\ holds[d][n] = Absent
      BY <2>2, <2>4, <3>1
    <3>7. /\ holds' = [i \in Identities |-> [m \in EntryNames |-> holds'[i][m]]]
          /\ \A i \in {Root, Folder}, m \in EntryNames : holds'[i][m] = IF i = d /\ m = n THEN n ELSE holds[i][m]
          /\ node' = [i \in Identities |-> node'[i]]
          /\ node'[Root].kind = "folder" /\ node'[Folder].kind = node[Folder].kind
          /\ \A m \in Files : node'[m].kind # "folder"
      BY <2>1, <3>2, <3>3, <3>4, <3>6, EnterPlaces DEF Tidy
    <3>8. owned'[n] = n /\ \A m \in Planned \cup {Root} : m # n => owned'[m] = owned[m]
      BY <2>2, <2>4, <3>2 DEF OwnInv
    <3>9. at' = "write" /\ path' = n /\ UNCHANGED <<todo, root, spot>>
      BY <2>2, <2>4
    <3>10. StagingPlaced'
      BY <2>1, <3>2, <3>8, <3>9 DEF Tidy, StagingPlaced, Unstaged, Published, Rootless
    <3>11. Entries'
      <4>1. \A m \in EntryNames : /\ holds'[Root][m] = IF d = Root /\ m = n THEN n ELSE holds[Root][m]
                                  /\ holds'[Folder][m] = IF d = Folder /\ m = n THEN n ELSE holds[Folder][m]
        BY <3>7
      <4>2. \A m \in Planned : m # n => Entry(m)' = Entry(m)
        BY <4>1, Distinct DEF Entry
      <4>3. holds'[Root][Folder] = holds[Root][Folder]
        BY <3>2, <3>5, <4>1
      <4>4. \A m \in EntryNames :
              /\ holds'[Root][m] # Absent => m \in Top /\ holds'[Root][m] = m
              /\ holds'[Folder][m] # Absent => m \in Nested /\ holds'[Folder][m] = m /\ holds'[Root][Folder] = Folder
        <5>1. d = Root => n \in Top
          BY <3>2, <3>5 DEF d
        <5> QED BY <3>3, <3>4, <4>1, <4>3, <5>1 DEF Tidy, Entries
      <4>5. \A m \in Planned :
              /\ owned'[m] \in {Absent, m}
              /\ Entry(m)' # Absent => owned'[m] = m
        BY <2>1, <3>8, <4>2 DEF Tidy, Entries
      <4> QED BY <4>4, <4>5, <3>9 DEF Entries
    <3>12. NodeKinds'
      <4>1. holds'[Root][Folder] = holds[Root][Folder]
        BY <3>2, <3>5, <3>7
      <4> QED BY <3>7, <4>1 DEF Tidy, NodeKinds
    <3>13. FilledSoFar'
      BY <2>1, <3>2, <3>5, <3>7, <3>8, <3>9, Distinct DEF Tidy, FilledSoFar
    <3>14. Leftovers'
      BY <3>9 DEF Leftovers
    <3> QED BY <3>10, <3>11, <3>12, <3>13, <3>14 DEF Tidy
  <2> QED BY <2>3, <2>4
<1>12. CASE WriteFile
  <2>1. /\ at = "write" /\ at' \in {"list", "create"} /\ UNCHANGED <<root, owned, holds, spot, path>>
        /\ node' = [node EXCEPT ![path] = [kind |-> node[path].kind, body |-> rendered[path], version |-> node[path].version + 1]]
    BY <1>12 DEF WriteFile, Become
  <2>2. node' = [i \in Identities |-> node'[i]] /\ \A i \in Identities : node'[i].kind = node[i].kind
    BY <2>1 DEF Tidy, NodeKinds
  <2>3. StagingPlaced'
    BY <2>1 DEF Tidy, StagingPlaced, Unstaged, Published, Rootless
  <2>4. Entries'
    BY <2>1 DEF Tidy, Entries, Entry
  <2>5. NodeKinds'
    <3>1. Root \in Identities /\ Folder \in Identities /\ Files \subseteq Identities
      BY Distinct DEF Identities
    <3> QED BY <2>1, <2>2, <3>1 DEF Tidy, NodeKinds, Unstaged
  <2>6. FilledSoFar' /\ Leftovers'
    BY <2>1 DEF Tidy, FilledSoFar, Leftovers
  <2> QED BY <2>3, <2>4, <2>5, <2>6 DEF Tidy
<1> QED BY <1>1, <1>2, <1>3, <1>4, <1>5, <1>6, <1>7, <1>8, <1>9, <1>10, <1>11, <1>12 DEF Staging

LEMMA ReadingTidy ==
  ASSUME OwnInv, Tidy, Does("publish"), Reading, cause' # "error"
  PROVE  Tidy'
<1> USE DEF Goes, Keeps, treeWork, disk, evidence, Cleaning, Through
<1>1. ~(FindRoot \/ AnchorRoot \/ Answer)
  BY DEF FindRoot, AnchorRoot, Answer, Tidy, StagingPlaced
<1>2. ListRoot => Tidy'
  BY FailsTidy, QuietTidy DEF ListRoot
<1>3. StatEntry => Tidy'
  BY FailsTidy, QuietTidy DEF StatEntry
<1>4. EnterFolder => Tidy'
  BY FailsTidy, QuietTidy DEF EnterFolder
<1>5. ListFolder => Tidy'
  BY FailsTidy, QuietTidy DEF ListFolder
<1>6. WalkEnds => Tidy'
  BY QuietTidy DEF WalkEnds
<1>7. OpenFile => Tidy'
  BY FailsTidy, QuietTidy DEF OpenFile
<1>8. BeginRead => Tidy'
  BY QuietTidy DEF BeginRead
<1>9. EndRead => Tidy'
  BY FailsTidy, QuietTidy DEF EndRead
<1> QED BY <1>1, <1>2, <1>3, <1>4, <1>5, <1>6, <1>7, <1>8, <1>9 DEF Reading

LEMMA PublishingTidy ==
  ASSUME OwnInv, Tidy, Does("publish"), Publishing
  PROVE  Tidy'
<1> USE DEF Goes, Keeps, treeWork, disk, evidence, Cleaning, Through, WalkAgain, Partial, Published
<1>1. Verified => Tidy'
  BY FailsTidy, QuietTidy DEF Verified
<1>2. LastCheckpoint => Tidy'
  BY FailsTidy, QuietTidy DEF LastCheckpoint
<1>3. CASE Rename
  <2>1. at = "rename" /\ spot.staging = Root
    BY <1>3 DEF Rename, Tidy, StagingPlaced, Unstaged
  <2>2. CASE Fails("refused")
    BY <2>1, <2>2, FailsTidy
  <2>3. CASE /\ spot' = [staging |-> Absent, target |-> spot.staging] /\ at' = "renamed"
             /\ UNCHANGED <<node, holds, root, owned, path, todo>>
    <3>1. StagingPlaced'
      BY <2>1, <2>3 DEF Tidy, StagingPlaced, Unstaged, Rootless
    <3>2. Entries'
      BY <2>1, <2>3 DEF Tidy, Entries, Entry
    <3>3. NodeKinds' /\ FilledSoFar' /\ Leftovers'
      BY <2>1, <2>3 DEF Tidy, NodeKinds, FilledSoFar, Leftovers, Unstaged
    <3> QED BY <3>1, <3>2, <3>3 DEF Tidy
  <2> QED BY <1>3, <2>2, <2>3 DEF Rename
<1>4. RecordPublished => Tidy'
  BY QuietTidy DEF RecordPublished
<1>5. LookThroughPath => Tidy'
  BY QuietTidy DEF LookThroughPath
<1>6. SyncParent => Tidy'
  BY QuietTidy DEF SyncParent
<1> QED BY <1>1, <1>2, <1>3, <1>4, <1>5, <1>6 DEF Publishing

\* A step of the cleanup that only looks.
LEMMA LookingTidy ==
  ASSUME Tidy, Leftovers', UNCHANGED <<node, holds, spot, owned, root>>, at \in Cleaning, at' \in Cleaning
  PROVE  Tidy'
<1>1. StagingPlaced'
  BY DEF Tidy, StagingPlaced, Unstaged, Published, Rootless, Cleaning
<1>2. Entries'
  BY DEF Tidy, Entries, Entry, Cleaning
<1>3. NodeKinds' /\ FilledSoFar'
  BY DEF Tidy, NodeKinds, FilledSoFar, Unstaged, Cleaning
<1> QED BY <1>1, <1>2, <1>3 DEF Tidy

LEMMA CleanupTidy ==
  ASSUME OwnInv, Tidy, Does("publish"), intrusions = 0, Cleanup, cause' # "error"
  PROVE  Tidy'
<1> USE DEF Goes, Keeps, treeWork, disk, evidence
<1>1. at \in Cleaning /\ root = Root /\ spot.staging = Root /\ node[Root].kind = "folder"
  <2>1. at \in Cleaning
    BY DEF Cleanup, StartCleanup, LookAtOwn, TakeOwn, LookAtStaging, TakeStaging, CleanupFails, Cleaning
  <2> QED BY <2>1 DEF Tidy, StagingPlaced, NodeKinds, Cleaning, Unstaged, Published, Rootless
<1>2. \A n \in Planned : Entry(n) # Absent => owned[n] = n
  BY <1>1 DEF Tidy, Entries, Cleaning
<1>3. CASE StartCleanup
  <2>1. at' = "look" /\ todo' = {n \in Planned : owned[n] # Absent} /\ UNCHANGED <<node, holds, spot, owned, root>>
    BY <1>1, <1>3 DEF StartCleanup
  <2>2. \A n \in Planned : n # Absent
    BY Distinct
  <2>3. Leftovers'
    <3>1. \A n \in Planned : Entry(n)' # Absent => n \in todo'
      BY <1>2, <2>1, <2>2 DEF Entry
    <3> QED BY <2>1, <3>1 DEF Leftovers
  <2> QED BY <1>1, <2>1, <2>3, LookingTidy DEF Cleaning
<1>4. CASE LookAtOwn
  <2>1. PICK n \in todo :
          /\ n = Folder => todo = {Folder}
          /\ IF Own(n) THEN path' = n /\ Goes("take") /\ UNCHANGED todo /\ Looks
             ELSE todo' = todo \ {n} /\ Goes("look") /\ UNCHANGED treeWork
    BY <1>4 DEF LookAtOwn
  <2>2. at = "look" /\ UNCHANGED <<node, holds, spot, owned, root>> /\ n \in Planned
    BY <1>4, <2>1 DEF LookAtOwn, Looks, OwnInv
  <2>3. \A m \in Planned : Entry(m)' = Entry(m)
    BY <2>2 DEF Entry
  <2>4. \A m \in Planned : Entry(m) # Absent => m \in todo
    BY <2>2 DEF Tidy, Leftovers
  <2>5. CASE Own(n)
    <3>1. n \in Nested => owned[Folder] = Folder
      <4>1. n \in Nested => holds[Root][Folder] # Absent /\ holds[Root][Folder] = owned[Folder]
        BY <1>1, <2>5 DEF Own
      <4> QED BY <4>1, Distinct DEF Tidy, Entries
    <3>2. Leftovers'
      BY <2>1, <2>2, <2>3, <2>4, <2>5, <3>1 DEF Leftovers
    <3> QED BY <1>1, <2>1, <2>2, <2>5, <3>2, LookingTidy DEF Cleaning
  <2>6. CASE ~Own(n)
    <3>1. Entry(n) = Absent
      <4> SUFFICES ASSUME Entry(n) # Absent PROVE Own(n)
        BY <2>6
      <4>1. owned[n] = n /\ n \in EntryNames /\ Folder \in EntryNames
        BY <1>2, <2>2, Distinct
      <4>2. CASE n \in Nested
        <5>1. holds[Folder][n] = n /\ holds[Root][Folder] = Folder /\ Folder # Absent
          BY <4>1, <4>2 DEF Tidy, Entries, Entry, Folder, Absent
        <5>2. owned[Folder] = Folder
          <6>1. Folder \in Planned /\ Folder \notin Nested
            BY <4>2, Distinct DEF Files
          <6>2. Entry(Folder) # Absent
            BY <5>1, <6>1 DEF Entry
          <6> QED BY <1>2, <6>1, <6>2
        <5> QED BY <1>1, <4>1, <4>2, <5>1, <5>2 DEF Own
      <4>3. CASE n \notin Nested
        BY <1>1, <4>1, <4>3 DEF Tidy, Entries, Entry, Own
      <4> QED BY <4>2, <4>3
    <3>2. todo' = todo \ {n} /\ at' = "look"
      BY <2>1, <2>6
    <3>3. Leftovers'
      <4>1. \A m \in Planned : Entry(m)' # Absent => m \in todo'
        BY <2>3, <2>4, <3>1, <3>2
      <4> QED BY <3>2, <4>1 DEF Leftovers
    <3> QED BY <1>1, <2>2, <3>2, <3>3, LookingTidy DEF Cleaning
  <2> QED BY <2>5, <2>6
<1>5. CASE TakeOwn
  <2> DEFINE d == IF path \in Nested THEN Folder ELSE Root
  <2>1. /\ at = "take" /\ seen = intrusions /\ path \in todo /\ path \in Planned /\ path \in EntryNames
        /\ owned[path] = path /\ path # Absent
    <3>1. at = "take" /\ path \in todo /\ path \in Planned /\ owned[path] # Absent /\ seen = intrusions
      BY <1>5 DEF TakeOwn, OwnInv, Sight
    <3> QED BY <3>1, Distinct DEF Tidy, Entries
  <2>2. path \in Nested => owned[Folder] = Folder
    BY <2>1 DEF Tidy, Leftovers
  <2>3. OwnedFolderOf(path) = d /\ holds[d][path] = path
    BY <1>1, <2>1, <2>2 DEF OwnedFolderOf, OwnInv, Sight
  <2>4. d \in Identities /\ Root \in Identities /\ Folder \in Identities /\ Files \subseteq Identities /\ Absent \notin Identities
    BY Distinct DEF Identities
  <2>5. \A n \in Planned : Entry(n) # Absent => n \in todo
    BY <2>1 DEF Tidy, Leftovers
  <2>6. path = Folder => holds[Root][Folder] = Folder /\ \A n \in EntryNames : holds[Folder][n] = Absent
    <3> SUFFICES ASSUME path = Folder PROVE holds[Root][Folder] = Folder /\ \A n \in EntryNames : holds[Folder][n] = Absent
      OBVIOUS
    <3>1. Folder \notin Nested /\ Nested \subseteq Planned
      BY Distinct DEF Files
    <3>2. holds[Root][Folder] = Folder
      BY <2>3, <3>1
    <3>3. todo = {Folder}
      BY <2>1 DEF Tidy, Leftovers
    <3>4. ASSUME NEW n \in EntryNames, holds[Folder][n] # Absent PROVE FALSE
      <4>1. n \in Nested
        BY <3>4 DEF Tidy, Entries
      <4>2. Entry(n) # Absent
        BY <3>4, <4>1 DEF Entry
      <4> QED BY <2>5, <3>1, <3>3, <4>1, <4>2
    <3> QED BY <3>2, <3>4
  <2>7. Removable(path, path)
    <3>1. CASE path = Folder
      <4>1. node[Folder].kind = "folder" /\ Folder # Absent
        BY <2>6, <3>1 DEF Tidy, NodeKinds, Folder, Absent
      <4> QED BY <2>6, <3>1, <4>1 DEF Removable, IsFolder, Held
    <3>2. CASE path # Folder
      <4>1. path \in Files
        BY <2>1, <3>2, TreeAssumption DEF Planned, Top, Files
      <4> QED BY <2>1, <3>2, <4>1 DEF Removable, Tidy, NodeKinds
    <3> QED BY <3>1, <3>2
  <2>8. /\ Leave(d, path) /\ todo' = todo \ {path} /\ at' = "look"
        /\ UNCHANGED <<spot, root, owned, path>>
    <3> HIDE DEF d
    <3> QED BY <1>5, <2>1, <2>3, <2>7 DEF TakeOwn
  <2>9. /\ holds' = [i \in Identities |-> [m \in EntryNames |-> holds'[i][m]]]
        /\ \A i \in {Root, Folder}, m \in EntryNames : holds'[i][m] = IF i = d /\ m = path THEN Absent ELSE holds[i][m]
    <3> HIDE DEF d
    <3> QED BY <2>4, <2>8 DEF Leave, Enter, Tidy, NodeKinds
  <2>10. node' = [i \in Identities |-> node'[i]] /\ \A i \in Identities : node'[i].kind = node[i].kind
    <3> HIDE DEF d
    <3> QED BY <2>4, <2>8 DEF Leave, Enter, Tidy, NodeKinds
  <2>11. Root # Folder /\ Folder \in EntryNames /\ Nested \subseteq EntryNames
    BY Distinct DEF Root, Folder
  <2>12. StagingPlaced'
    BY <1>1, <2>1, <2>8 DEF Tidy, StagingPlaced, Unstaged, Published, Rootless
  <2>13. \A n \in Planned : Entry(n)' = IF n = path THEN Absent ELSE Entry(n)
    <3>1. \A n \in Planned : n \in EntryNames
      BY Distinct
    <3> QED BY <2>9, <2>11, <3>1 DEF Entry
  <2>14. Entries'
    <3>1. \A n \in EntryNames :
            /\ holds'[Root][n] # Absent => n \in Top /\ holds'[Root][n] = n
            /\ holds'[Folder][n] # Absent => n \in Nested /\ holds'[Folder][n] = n /\ holds'[Root][Folder] = Folder
      <4> SUFFICES ASSUME NEW n \in EntryNames
                   PROVE  /\ holds'[Root][n] # Absent => n \in Top /\ holds'[Root][n] = n
                          /\ holds'[Folder][n] # Absent => n \in Nested /\ holds'[Folder][n] = n /\ holds'[Root][Folder] = Folder
        OBVIOUS
      <4>1. holds'[Root][n] # Absent => holds'[Root][n] = holds[Root][n]
        BY <2>9
      <4>2. holds'[Folder][n] # Absent => holds'[Folder][n] = holds[Folder][n]
        BY <2>9
      <4>3. holds'[Folder][n] # Absent => path # Folder
        BY <2>6, <4>2
      <4>4. path # Folder => holds'[Root][Folder] = holds[Root][Folder]
        BY <2>9, <2>11
      <4> HIDE DEF d, Folder
      <4> QED BY <4>1, <4>2, <4>3, <4>4 DEF Tidy, Entries
    <3> HIDE DEF d
    <3> QED BY <1>2, <2>8, <2>13, <3>1 DEF Tidy, Entries
  <2>15. NodeKinds'
    <3>1. holds'[Root][Folder] = Folder => holds[Root][Folder] = Folder
      BY <2>4, <2>9, <2>11
    <3> HIDE DEF d, Folder
    <3> QED BY <1>1, <2>4, <2>8, <2>9, <2>10, <3>1 DEF Tidy, NodeKinds
  <2>16. FilledSoFar' /\ Leftovers'
    <3>1. \A n \in Planned : Entry(n)' # Absent => n \in todo'
      BY <2>5, <2>8, <2>13
    <3> QED BY <2>8, <3>1 DEF FilledSoFar, Leftovers
  <2> QED BY <2>12, <2>14, <2>15, <2>16 DEF Tidy
<1>6. CASE LookAtStaging
  <2>1. at = "look" /\ todo = {} /\ at' = "leave" /\ UNCHANGED <<node, holds, spot, owned, root>>
    BY <1>1, <1>6 DEF LookAtStaging, Looks
  <2>2. \A n \in Planned : Entry(n)' = Absent
    BY <2>1 DEF Tidy, Leftovers, Entry
  <2>3. Leftovers'
    BY <2>1, <2>2 DEF Leftovers
  <2> QED BY <1>1, <2>1, <2>3, LookingTidy DEF Cleaning
<1>7. CASE TakeStaging
  <2>1. at = "leave"
    BY <1>7 DEF TakeStaging
  <2>2. Held(Root) = {}
    <3> SUFFICES ASSUME NEW n \in EntryNames, holds[Root][n] # Absent PROVE FALSE
      BY DEF Held
    <3>1. n \in Planned /\ n \notin Nested
      BY Distinct DEF Tidy, Entries
    <3> QED BY <2>1, <3>1 DEF Tidy, Leftovers, Entry
  <2>3. IsFolder(Root)
    BY <1>1 DEF IsFolder, Root, Absent
  <2>4. at' = "failed" /\ spot' = [spot EXCEPT !.staging = Absent] /\ UNCHANGED <<node, holds, owned, root>>
    BY <1>1, <1>7, <2>2, <2>3 DEF TakeStaging
  <2>5. StagingPlaced'
    BY <2>1, <2>4 DEF Tidy, StagingPlaced, Unstaged, Published
  <2>6. Entries'
    BY <2>1, <2>4 DEF Tidy, Entries, Entry
  <2>7. NodeKinds' /\ FilledSoFar' /\ Leftovers'
    BY <2>4 DEF Tidy, NodeKinds, FilledSoFar, Leftovers
  <2> QED BY <2>5, <2>6, <2>7 DEF Tidy
<1>8. ~CleanupFails
  BY DEF CleanupFails
<1> QED BY <1>3, <1>4, <1>5, <1>6, <1>7, <1>8 DEF Cleanup

\* A step of the operation keeps the disk to itself, and its cause while it lives.
LEMMA OwnSteps ==
  ASSUME TreeCancelled \/ Raises \/ Staging \/ Reading \/ Publishing \/ Cleanup
  PROVE  /\ UNCHANGED <<op, parented, intrusions>>
         /\ Live' => Live /\ cause' = cause
         /\ Live \/ cause' = cause \/ cause' = "error"
<1> USE DEF Goes, Keeps, treeWork, disk, evidence, Cleaning, Live, Fails, Ends, WalkAgain, Partial, Over
<1>1. CASE TreeCancelled \/ Raises
  BY <1>1 DEF TreeCancelled, Cancellable, Raises
<1>2. CASE Staging
  BY <1>2 DEF Staging, Render, RenderingRefused, PrepareDestination, MakeStaging, OwnStaging, OpenStaging, OpenStagingFails,
       MakeFolder, OwnFolder, OpenFolder, CreateFile, WriteFile
<1>3. CASE Reading
  BY <1>3 DEF Reading, FindRoot, AnchorRoot, ListRoot, StatEntry, EnterFolder, ListFolder, WalkEnds, OpenFile, BeginRead, EndRead, Answer
<1>4. CASE Publishing
  BY <1>4 DEF Publishing, Verified, LastCheckpoint, Rename, RecordPublished, LookThroughPath, SyncParent
<1>5. CASE Cleanup
  BY <1>5 DEF Cleanup, StartCleanup, LookAtOwn, TakeOwn, LookAtStaging, TakeStaging, CleanupFails
<1> QED BY <1>1, <1>2, <1>3, <1>4, <1>5

LEMMA IntruderTidy == ASSUME OwnInv, TidyInv, Intrude PROVE TidyInv'
<1>1. UNCHANGED <<op, at, cause, root, owned, todo, path>>
  BY DEF Intrude, AlterFile, AlterEntry, AlterSpot, AlterParent, TakeDestination, IntrusionKeeps, treeWork
<1>2. CASE intrusions' = intrusions + 1
  <2>1. intrusions' # 0
    BY <1>2 DEF OwnInv
  <2> QED BY <1>1, <2>1 DEF TidyInv, Undisturbed, Live, Cleaning
<1>3. CASE TakeDestination
  <2>1. at = "rename" /\ Does("publish") /\ spot' = [spot EXCEPT !.target = Rival] /\ UNCHANGED <<node, holds, parented, intrusions>>
    BY <1>3 DEF TakeDestination
  <2>2. ASSUME Tidy PROVE Tidy'
    <3>1. StagingPlaced'
      BY <1>1, <2>1, <2>2 DEF Tidy, StagingPlaced, Unstaged, Published, Rootless, Rival, Root
    <3>2. Entries'
      BY <1>1, <2>1, <2>2 DEF Tidy, Entries, Entry
    <3>3. NodeKinds' /\ FilledSoFar' /\ Leftovers'
      BY <1>1, <2>1, <2>2 DEF Tidy, NodeKinds, FilledSoFar, Leftovers
    <3> QED BY <3>1, <3>2, <3>3 DEF Tidy
  <2> QED BY <1>1, <2>1, <2>2 DEF TidyInv, Undisturbed, Live, Cleaning, Does
<1> QED BY <1>2, <1>3 DEF Intrude, AlterFile, AlterEntry, AlterSpot, AlterParent, Intrusion

\* A reader has no staging directory.
LEMMA ReaderTidy ==
  ASSUME ~Does("publish"), at \in ReaderSteps, spot.staging = Absent,
         TreeCancelled \/ Raises \/ Staging \/ Reading \/ Publishing \/ Cleanup
  PROVE  at' \in ReaderSteps /\ spot'.staging = Absent
<1> USE DEF Goes, Keeps, treeWork, disk, evidence, ReaderSteps, Fails
<1>1. CASE TreeCancelled \/ Raises
  BY <1>1 DEF TreeCancelled, Raises
<1>2. ~Staging
  BY DEF Staging, Render, RenderingRefused, PrepareDestination, MakeStaging, OwnStaging, OpenStaging, OpenStagingFails,
       MakeFolder, OwnFolder, OpenFolder, CreateFile, WriteFile
<1>3. CASE Reading
  BY <1>3 DEF Reading, FindRoot, AnchorRoot, ListRoot, StatEntry, EnterFolder, ListFolder, WalkEnds, OpenFile, BeginRead, EndRead, Answer
<1>4. ~Publishing
  BY DEF Publishing, Verified, LastCheckpoint, Rename, RecordPublished, LookThroughPath, SyncParent
<1>5. ~Cleanup
  BY DEF Cleanup, StartCleanup, LookAtOwn, TakeOwn, LookAtStaging, TakeStaging, CleanupFails, Cleaning
<1> QED BY <1>1, <1>2, <1>3, <1>4, <1>5

LEMMA TidyStep == OwnInv /\ TidyInv /\ [TreeNext]_treeVars => TidyInv'
<1> SUFFICES ASSUME OwnInv, TidyInv, [TreeNext]_treeVars PROVE TidyInv'
  OBVIOUS
<1>1. CASE UNCHANGED treeVars
  <2>1. UNCHANGED <<op, at, todo, cause, path, root, owned, node, holds, spot, parented, intrusions>>
    BY <1>1 DEF treeVars, treeWork, evidence, disk
  <2>2. ASSUME Tidy PROVE Tidy'
    <3>1. StagingPlaced' /\ NodeKinds'
      BY <2>1, <2>2 DEF Tidy, StagingPlaced, NodeKinds
    <3>2. Entries'
      BY <2>1, <2>2 DEF Tidy, Entries, Entry
    <3>3. FilledSoFar' /\ Leftovers'
      BY <2>1, <2>2 DEF Tidy, FilledSoFar, Leftovers, Entry
    <3> QED BY <3>1, <3>2, <3>3 DEF Tidy
  <2> QED BY <2>1, <2>2 DEF TidyInv, Undisturbed, Live, Cleaning, Does
<1>2. CASE Intrude
  BY <1>2, IntruderTidy
<1>3. CASE TreeCancelled \/ Raises \/ Staging \/ Reading \/ Publishing \/ Cleanup
  <2>1. /\ UNCHANGED <<op, parented, intrusions>>
        /\ Live' => Live /\ cause' = cause
        /\ Live \/ cause' = cause \/ cause' = "error"
    BY <1>3, OwnSteps
  <2>2. ASSUME Undisturbed' PROVE Undisturbed
    BY <2>1, <2>2 DEF Undisturbed, TidyInv
  <2>3. ASSUME Undisturbed', ~Does("publish") PROVE spot'.staging = Absent /\ at' \in ReaderSteps
    BY <1>3, <2>2, <2>3, ReaderTidy DEF TidyInv
  <2>4. ASSUME Undisturbed', Does("publish") PROVE Tidy'
    <3>1. Tidy /\ parented = TRUE /\ intrusions = 0 /\ cause' # "error"
      BY <2>2, <2>4 DEF TidyInv, Undisturbed
    <3>2. CASE TreeCancelled
      BY <2>4, <3>1, <3>2, FailsTidy DEF TreeCancelled, Cancellable, Cleaning
    <3>3. CASE Raises
      BY <3>1, <3>3 DEF Raises, Fails
    <3> QED BY <1>3, <2>4, <3>1, <3>2, <3>3, StagingTidy, ReadingTidy, PublishingTidy, CleanupTidy
  <2> QED BY <2>1, <2>2, <2>3, <2>4 DEF TidyInv, Does
<1> QED BY <1>1, <1>2, <1>3 DEF TreeNext

\* Whatever others do to its tree and its place, a failed export takes nothing
\* away but what it recorded as its own, unless it was replaced after the last
\* look at it; and one that is refused or cancelled while nobody interferes
\* leaves nothing behind (_cleanup_staging).
THEOREM CleanupTakesItsOwn == TreeSpec => []CleansUpItsOwn
<1>1. TreeInit => OwnInv /\ TidyInv
  BY InitOwn, InitTidy
<1>2. OwnInv /\ TidyInv /\ [TreeNext]_treeVars => (OwnInv /\ TidyInv)'
  BY OwnStep, TidyStep
<1>3. OwnInv /\ TidyInv => CleansUpItsOwn
  BY DEF OwnInv, TidyInv, Undisturbed, Tidy, StagingPlaced, CleansUpItsOwn
<1> QED BY <1>1, <1>2, <1>3, PTL DEF TreeSpec
===============================================================================
