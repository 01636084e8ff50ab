----------------------------- MODULE Publication -----------------------------
(***************************************************************************)
(* How finished artifacts become visible: seal promotes a bundle directory *)
(* and then moves HEAD (pipeline/service.py, bundle/finished.py), export   *)
(* derives a directory from a verified bundle (exports/_publication.py),   *)
(* package links an archive of either (_archive_transport.py).  All three  *)
(* stage beside the destination, verify what they staged and publish it in *)
(* one system call that never replaces anything.                           *)
(*                                                                         *)
(* The processes share the destination names; a workspace is sealed under  *)
(* its LOCK, so it has one sealer at a time and that sealer stands for it. *)
(* The bytes are deterministic: an artifact is its kind and the dataset it *)
(* was made from.                                                          *)
(***************************************************************************)
EXTENDS Naturals

CONSTANTS
  Workspaces,   \* each with the process that seals it
  Exporters,
  Packagers,
  Paths,        \* destination names, each in a parent directory of its own
  Datasets,
  Nothing,
  Faults,       \* which of FaultKinds may happen
  MaxFaults,    \* bound on how many do
  MaxChanges    \* bound on rebuilt datasets and removed artifacts

FaultKinds ==
  {"kill",      \* a process dies
   "oserror",   \* a file-system call raises
   "interrupt", \* a KeyboardInterrupt, between any two statements
   "power"}     \* the machine stops: unsynced directory entries may be lost

Processes == Workspaces \cup Exporters \cup Packagers

ASSUME PublicationAssumption ==
  /\ Workspaces \cap Exporters = {} /\ Workspaces \cap Packagers = {}
  /\ Exporters \cap Packagers = {}
  /\ Faults \subseteq FaultKinds
  /\ MaxFaults \in Nat /\ MaxChanges \in Nat

\* An archive is of a bundle or of an export.
ArchiveOf == [bundle |-> "bundle archive", export |-> "export archive"]
Artifact ==
  [kind : {"bundle", "export", "bundle archive", "export archive"}, data : Datasets]
Bundle(d) == [kind |-> "bundle", data |-> d]

\* Nothing stands for an absent entry, so it is neither an artifact nor a name.
ASSUME NothingAssumption == Nothing \notin Artifact /\ Nothing \notin Paths

VARIABLES
  target,    \* the artifact each destination name holds, or Nothing
  unsynced,  \* names that no fsync of their parent has covered
  head,      \* of each workspace: revision number, dataset, is it sealed
  pc,        \* where each process is
  job,       \* what it was asked to do, and the revision it read
  staged,    \* its staging entry, or Nothing; one that outlives its operation
             \* keeps a name nobody uses again
  warned,    \* it has a durability warning to report
  moved,     \* exporters whose source changed since they captured it
  told,      \* what its last operation reported
  made,      \* the name where what its last operation published is still
             \* visible, or Nothing
  shown,     \* every <<name, artifact>> that was visible at some time
  hit,       \* processes that a fault met where they make or remove the entry
  faults, changes

work == <<pc, job, staged, warned, told, made>>
fault == <<hit, faults>>
vars == <<target, unsynced, head, work, moved, shown, fault, changes>>

SealPcs == {"lock", "look", "seal_stage", "recover", "adopt", "promote"}
ExportPcs == {"capture", "prepare"}
PackagePcs == {"verify", "package_stage", "unlink"}
StagingPcs == {"write", "check", "publish"}

\* Where the staging entry is made, and where it is removed.
Making == {"seal_stage", "prepare", "package_stage"}
Handling == Making \cup {"clean", "unlink"}
Kinds == {"none", "done", "conflict", "failed", "partial", "cancelled", "interrupted", "killed"}
Job == [path : Paths, source : Paths, makes : Artifact, rev : Nat]

TypeOK ==
  /\ target \in [Paths -> Artifact \cup {Nothing}]
  /\ unsynced \subseteq Paths
  /\ head \in [Workspaces -> [rev : Nat, data : Datasets, sealed : BOOLEAN]]
  /\ pc \in [Processes -> {"idle", "clean", "sync"} \cup SealPcs \cup ExportPcs \cup PackagePcs \cup StagingPcs]
  /\ job \in [Processes -> Job \cup {Nothing}]
  /\ staged \in [Processes -> Artifact \cup {Nothing}]
  /\ warned \in [Processes -> BOOLEAN]
  /\ moved \subseteq Exporters
  /\ told \in [Processes -> [kind : Kinds, warned : BOOLEAN]]
  /\ made \in [Processes -> Paths \cup {Nothing}]
  /\ shown \subseteq Paths \X Artifact
  /\ hit \subseteq Processes /\ faults \in 0..MaxFaults /\ changes \in 0..MaxChanges

Init ==
  /\ target = [n \in Paths |-> Nothing] /\ unsynced = {}
  /\ head \in [Workspaces -> [rev : {0}, data : Datasets, sealed : {FALSE}]]
  /\ pc = [p \in Processes |-> "idle"] /\ job = [p \in Processes |-> Nothing]
  /\ staged = [p \in Processes |-> Nothing]
  /\ warned = [p \in Processes |-> FALSE] /\ moved = {}
  /\ told = [p \in Processes |-> [kind |-> "none", warned |-> FALSE]]
  /\ made = [p \in Processes |-> Nothing] /\ shown = {}
  /\ hit = {} /\ faults = 0 /\ changes = 0

Dest(p) == job[p].path
Free(p) == target[Dest(p)] = Nothing
Goto(p, l) == pc' = [pc EXCEPT ![p] = l]
Unstage(p) == staged' = [staged EXCEPT ![p] = Nothing]

Tell(p, kind, w) == told' = [told EXCEPT ![p] = [kind |-> kind, warned |-> w]]

Start(p, n, src, artifact, rev, l) ==
  /\ pc[p] = "idle"
  /\ job' = [job EXCEPT ![p] = [path |-> n, source |-> src, makes |-> artifact, rev |-> rev]]
  /\ Unstage(p) /\ hit' = hit \ {p}
  /\ warned' = [warned EXCEPT ![p] = FALSE]
  /\ Tell(p, "none", FALSE)
  /\ made' = [made EXCEPT ![p] = Nothing]
  /\ Goto(p, l)
  /\ UNCHANGED <<target, unsynced, head, moved, shown, faults, changes>>

\* After its cleanup an operation is over; a seal that has no report yet looks
\* whether the bundle it wanted is there.
After(kind) == IF kind = "none" THEN "recover" ELSE "idle"

\* Mutant of Abandon: no finally, only the errors it expects are cleaned up after.
AbandonUnguarded(p, kind) ==
  /\ Goto(p, IF pc[p] \in StagingPcs /\ kind \in {"none", "failed"} THEN "clean" ELSE After(kind))
  /\ Tell(p, kind, FALSE)
  /\ UNCHANGED <<target, unsynced, head, job, warned, moved, made, shown, changes>>

\* The operation ends without success; what it staged is to be cleaned up first.
Abandon(p, kind) ==
  /\ Goto(p, IF pc[p] \in StagingPcs THEN "clean" ELSE After(kind))
  /\ Tell(p, kind, FALSE)
  /\ UNCHANGED <<target, unsynced, head, job, warned, moved, made, shown, changes>>

Fail(p, kind) == Abandon(p, kind) /\ UNCHANGED staged

\* By a fault: one around the call that makes the staging entry may leave it
\* there, since nothing that cleans up knows of it yet.
Broken(p, kind) ==
  /\ Abandon(p, kind)
  /\ \/ UNCHANGED staged
     \/ pc[p] \in Making /\ staged' = [staged EXCEPT ![p] = job[p].makes]

Move(p, l) ==
  /\ Goto(p, l)
  /\ UNCHANGED <<target, unsynced, head, job, staged, warned, moved, told, made,
                 shown, fault, changes>>

Fault(kind) == kind \in Faults /\ faults < MaxFaults /\ faults' = faults + 1
Hit(p, kind) == Fault(kind) /\ hit' = IF pc[p] \in Handling THEN hit \cup {p} ELSE hit

-----------------------------------------------------------------------------
(* Staging and publication, common to the three                            *)

Stage(p, l) ==
  /\ staged' = [staged EXCEPT ![p] = job[p].makes]
  /\ Goto(p, l)
  /\ UNCHANGED <<target, unsynced, head, job, warned, moved, told, made, shown,
                 fault, changes>>

\* The staging entry of an operation that did not publish it is taken away.
Clean(p) ==
  /\ pc[p] = "clean"
  /\ Unstage(p)
  /\ Goto(p, After(told[p].kind))
  /\ UNCHANGED <<target, unsynced, head, job, warned, moved, told, made, shown, fault, changes>>

\* What a fault in the cleanup makes of the report: an export keeps the one it
\* had, a seal too unless it is interrupted, an archive has that of the fault.
Outcome(p, kind) ==
  CASE p \in Exporters -> told[p].kind
    [] p \notin Exporters /\ kind = "interrupt" -> "interrupted"
    [] p \in Workspaces /\ kind # "interrupt" -> told[p].kind
    [] OTHER -> "failed"

\* The entry stays, unless the interrupt came just after it was removed.
CleanFails(p) ==
  /\ pc[p] = "clean"
  /\ \E kind \in {"oserror", "interrupt"} :
       /\ Hit(p, kind)
       /\ UNCHANGED staged \/ (kind = "interrupt" /\ Unstage(p))
       /\ Goto(p, After(Outcome(p, kind))) /\ Tell(p, Outcome(p, kind), FALSE)
  /\ UNCHANGED <<target, unsynced, head, job, warned, moved, made, shown, changes>>

\* Everything that read the name p publishes sees it change.
Changed(n) == moved' = moved \cup {e \in Exporters : pc[e] # "idle" /\ job[e].source = n}

\* What was published under these names is there no more.
Gone(names) == made' = [p \in Processes |-> IF made[p] \in names THEN Nothing ELSE made[p]]

\* The effect of a no-replace rename, or of a link: a link leaves the staging
\* name in place.
Visible(p) ==
  /\ Free(p)
  /\ target' = [target EXCEPT ![Dest(p)] = staged[p]]
  /\ shown' = shown \cup {<<Dest(p), staged[p]>>}
  /\ unsynced' = unsynced \cup {Dest(p)}
  /\ made' = [made EXCEPT ![p] = Dest(p)]
  /\ Changed(Dest(p))
  /\ UNCHANGED <<head, job, warned, changes>>

\* Mutant of Publish: a rename that replaces what is there.
PublishReplacing(p, l) ==
  /\ target' = [target EXCEPT ![Dest(p)] = staged[p]]
  /\ shown' = shown \cup {<<Dest(p), staged[p]>>}
  /\ unsynced' = unsynced \cup {Dest(p)}
  /\ made' = [made EXCEPT ![p] = Dest(p)]
  /\ Changed(Dest(p))
  /\ IF p \in Packagers THEN UNCHANGED staged ELSE Unstage(p)
  /\ Goto(p, l)
  /\ UNCHANGED <<head, job, warned, told, fault, changes>>

Publish(p, l) ==
  /\ Visible(p)
  /\ IF p \in Packagers THEN UNCHANGED staged ELSE Unstage(p)
  /\ Goto(p, l)
  /\ UNCHANGED <<told, fault>>

\* The fsync of the parent; an error is a warning, since the artifact is
\* visible by now.
SyncedOrWarned(p) ==
  \/ unsynced' = unsynced \ {Dest(p)} /\ UNCHANGED <<warned, fault>>
  \/ Hit(p, "oserror") /\ warned' = [warned EXCEPT ![p] = TRUE] /\ UNCHANGED unsynced

\* Exports and archives are done then.
SyncAndReport(p) ==
  /\ pc[p] = "sync" /\ p \notin Workspaces
  /\ SyncedOrWarned(p)
  /\ Goto(p, "idle")
  /\ Tell(p, "done", warned'[p])
  /\ UNCHANGED <<target, head, job, staged, moved, made, shown, changes>>

-----------------------------------------------------------------------------
(* seal                                                                    *)

SealStart(w, n) == Start(w, n, n, Bundle(head[w].data), head[w].rev, "lock")

\* Mutant of SealLock: the expected revision is not compared under the lock.
SealLockUnchecked(w) == pc[w] = "lock" /\ Move(w, "look")

\* Under the lock: the revision that was read is still HEAD.  The objects and
\* the revision of the receipts are installed here (WorkspaceStore).
SealLock(w) ==
  /\ pc[w] = "lock"
  /\ IF head[w].rev = job[w].rev THEN Move(w, "look") ELSE Fail(w, "conflict") /\ UNCHANGED fault

\* _publish_or_recover_finished_bundle
SealLook(w) == pc[w] = "look" /\ Move(w, IF Free(w) THEN "seal_stage" ELSE "adopt")

\* write_finished_bundle looks again before it makes its staging directory.
SealStage(w) ==
  /\ pc[w] = "seal_stage"
  /\ IF Free(w) THEN Stage(w, "write") ELSE Move(w, "recover")

\* Payloads, manifest and attestation are written and synced, and the staged
\* bundle is verified.
SealWrite(w) == pc[w] = "write" /\ w \in Workspaces /\ Move(w, "publish")

SealPublish(w) ==
  /\ pc[w] = "publish" /\ w \in Workspaces
  /\ \/ Publish(w, "sync")
     \/ ~Free(w) /\ Fail(w, "none") /\ UNCHANGED fault
     \/ Visible(w) /\ Hit(w, "oserror")  \* the name cannot be looked at afterwards
        /\ Unstage(w) /\ Goto(w, "recover") /\ UNCHANGED told

\* An I/O error or a failed verification before the rename.
SealStagingFails(w) ==
  /\ pc[w] \in StagingPcs \cup {"seal_stage"} /\ w \in Workspaces /\ Hit(w, "oserror")
  /\ Broken(w, "none")

SealSync(w) ==
  /\ pc[w] = "sync" /\ w \in Workspaces
  /\ SyncedOrWarned(w)
  /\ Goto(w, "promote")
  /\ UNCHANGED <<target, head, job, staged, moved, told, made, shown, changes>>

\* After a FinishedBundleError: whatever became visible meanwhile may be the
\* bundle wanted.
Recover(w) ==
  /\ pc[w] = "recover"
  /\ IF Free(w) THEN Fail(w, "failed") /\ UNCHANGED fault ELSE Move(w, "adopt")

\* Mutant of Adopted: any existing directory will do.
AdoptedUnseen(w) == TRUE

\* Mutant of Adopted: an existing destination is an error, as for a first seal.
AdoptedNever(w) == FALSE

\* _recover_exact_finished_bundle verifies, compares every byte and verifies
\* again.
Adopted(w) == target[Dest(w)] = job[w].makes

Adopt(w) ==
  /\ pc[w] = "adopt"
  /\ IF Adopted(w) THEN Move(w, "promote") ELSE Fail(w, "failed") /\ UNCHANGED fault

\* Moving HEAD records the receipts; sealing again what is sealed commits
\* nothing.
Promote(w) ==
  /\ pc[w] = "promote"
  /\ IF head[w].sealed
       THEN UNCHANGED head
       ELSE head' = [head EXCEPT ![w] =
                       [rev |-> head[w].rev + 1, data |-> head[w].data, sealed |-> TRUE]]
  /\ Goto(w, "idle") /\ Tell(w, "done", warned[w])
  /\ UNCHANGED <<target, unsynced, job, staged, warned, moved, made, shown, fault, changes>>

\* SealPartialPublicationError carries the visible bundle.
PromoteFails(w) ==
  /\ pc[w] = "promote" /\ ~head[w].sealed /\ Hit(w, "oserror")
  /\ Fail(w, "partial")

SealFails(w) == pc[w] \in {"lock", "look", "adopt"} /\ Hit(w, "oserror") /\ Fail(w, "failed")

\* A KeyboardInterrupt is no Exception: what is visible is not reported with it.
SealInterrupted(w) ==
  pc[w] \notin {"idle", "clean"} /\ Hit(w, "interrupt") /\ Broken(w, "interrupted")

\* Another command commits a new dataset to the workspace; the lock keeps it
\* out while a seal is past its check.
Rebuild(w) ==
  /\ pc[w] \in {"idle", "lock"}
  /\ changes < MaxChanges /\ changes' = changes + 1
  /\ \E d \in Datasets :
       head' = [head EXCEPT ![w] = [rev |-> head[w].rev + 1, data |-> d, sealed |-> FALSE]]
  /\ UNCHANGED <<target, unsynced, work, moved, shown, fault>>

-----------------------------------------------------------------------------
(* export: the operator names the bundle and retains its manifest digest   *)

ExportStart(e, n, src, d) == Start(e, n, src, [kind |-> "export", data |-> d], 0, "capture")

\* The source is verified against the digest, planned from and rendered twice.
CaptureUnverified(e) ==  \* mutant: the digest is not compared
  /\ pc[e] = "capture" /\ moved' = moved \ {e} /\ Goto(e, "prepare")
  /\ UNCHANGED <<target, unsynced, head, job, staged, warned, told, made, shown, fault, changes>>

Capture(e) ==
  /\ pc[e] = "capture"
  /\ IF target[job[e].source] = Bundle(job[e].makes.data)
       THEN /\ moved' = moved \ {e} /\ Goto(e, "prepare")
            /\ UNCHANGED <<target, unsynced, head, job, staged, warned, told, made,
                           shown, fault, changes>>
       ELSE Fail(e, "failed") /\ UNCHANGED fault

Prepare(e) ==
  /\ pc[e] = "prepare"
  /\ IF Free(e) THEN Stage(e, "write") ELSE Fail(e, "failed") /\ UNCHANGED fault

ExportWrite(e) == pc[e] = "write" /\ e \in Exporters /\ Move(e, "check")

\* The last checkpoint: cancellation, then the source.
Check(e) ==
  /\ pc[e] = "check"
  /\ IF e \in moved THEN Fail(e, "failed") /\ UNCHANGED fault ELSE Move(e, "publish")

ExportPublish(e) ==
  /\ pc[e] = "publish" /\ e \in Exporters
  /\ \/ Publish(e, "sync")
     \/ ~Free(e) /\ Fail(e, "failed") /\ UNCHANGED fault

\* cancellation_check raises, or any call does.
Cancelled(e) ==
  /\ e \in Exporters /\ pc[e] \in ExportPcs \cup {"write", "check"}
  /\ Fail(e, "cancelled")
  /\ UNCHANGED fault
ExportFails(e) ==
  /\ e \in Exporters /\ pc[e] \in ExportPcs \cup StagingPcs /\ Hit(e, "oserror")
  /\ Broken(e, "failed")

\* Mutant of InterruptedAfterRename: the interrupt is reported as it came.
InterruptedUnrecovered(e) ==
  /\ pc[e] = "publish" /\ Visible(e) /\ Hit(e, "interrupt")
  /\ Goto(e, "idle") /\ Unstage(e)
  /\ Tell(e, "interrupted", FALSE)

\* A KeyboardInterrupt right after the system call: the destination is
\* compared with the staging descriptor to find out that it happened.
InterruptedAfterRename(e) ==
  /\ pc[e] = "publish" /\ Visible(e) /\ Hit(e, "interrupt")
  /\ Goto(e, "idle") /\ Unstage(e)
  /\ Tell(e, "partial", FALSE)

ExportInterrupted(e) ==
  /\ e \in Exporters
  /\ \/ InterruptedAfterRename(e)
     \/ pc[e] \in ExportPcs \cup StagingPcs /\ Hit(e, "interrupt") /\ Broken(e, "interrupted")
     \/ pc[e] = "sync" /\ Hit(e, "interrupt") /\ Fail(e, "partial")

-----------------------------------------------------------------------------
(* package: an archive of a bundle or an export, under its retained digest *)

PackageStart(a, n, src, k, d) ==
  Start(a, n, src, [kind |-> ArchiveOf[k], data |-> d], 0, "verify")

Anchored(a) ==
  \E k \in DOMAIN ArchiveOf :
    /\ job[a].makes.kind = ArchiveOf[k]
    /\ target[job[a].source] = [kind |-> k, data |-> job[a].makes.data]

VerifySource(a) ==
  /\ pc[a] = "verify"
  /\ IF Anchored(a) /\ Free(a) THEN Move(a, "package_stage") ELSE Fail(a, "failed") /\ UNCHANGED fault

PackageStage(a) == pc[a] = "package_stage" /\ Stage(a, "write")

\* The source is read again; the staged archive is verified against the digest.
Pack(a) ==
  /\ pc[a] = "write" /\ a \in Packagers
  /\ IF Anchored(a) THEN Move(a, "publish") ELSE Fail(a, "failed") /\ UNCHANGED fault

PackagePublish(a) ==
  /\ pc[a] = "publish" /\ a \in Packagers
  /\ \/ Publish(a, "unlink")
     \/ ~Free(a) /\ Fail(a, "failed") /\ UNCHANGED fault

\* The staging name goes; an error leaves it, which is only a warning by now.
Unlink(a) ==
  /\ pc[a] = "unlink"
  /\ \/ Unstage(a) /\ UNCHANGED <<warned, fault>>
     \/ Hit(a, "oserror") /\ warned' = [warned EXCEPT ![a] = TRUE] /\ UNCHANGED staged
  /\ Goto(a, "sync")
  /\ UNCHANGED <<target, unsynced, head, job, moved, told, made, shown, changes>>

PackageFails(a) ==
  /\ a \in Packagers /\ pc[a] \in {"verify", "package_stage"} \cup StagingPcs /\ Hit(a, "oserror")
  /\ Broken(a, "failed")

\* The finally cleans up until published is set, and leaves the staging name
\* from then on.
InterruptedAfterLink(a) ==
  /\ pc[a] = "unlink" /\ Hit(a, "interrupt")
  /\ Goto(a, "clean") /\ Tell(a, "interrupted", FALSE)
  /\ UNCHANGED <<target, unsynced, head, job, staged, warned, moved, made, shown, changes>>

PackageInterrupted(a) ==
  /\ a \in Packagers
  /\ \/ InterruptedAfterLink(a)
     \/ pc[a] \notin {"idle", "clean"} /\ Hit(a, "interrupt") /\ Broken(a, "interrupted")

-----------------------------------------------------------------------------
(* The environment                                                         *)

Dies(p) ==
  /\ Goto(p, "idle")
  /\ Tell(p, "killed", FALSE)

\* Its staging entry stays in the directory.
Kill(p) ==
  /\ pc[p] # "idle" /\ Fault("kill")
  /\ Dies(p)
  /\ UNCHANGED <<target, unsynced, head, job, staged, warned, moved, made, shown, hit, changes>>

PowerLoss ==
  /\ Fault("power")
  /\ \E lost \in SUBSET unsynced :
       /\ target' = [n \in Paths |-> IF n \in lost THEN Nothing ELSE target[n]]
       /\ Gone(lost)
  /\ unsynced' = {}
  /\ pc' = [p \in Processes |-> "idle"]
  /\ told' = [p \in Processes |->
       IF pc[p] = "idle" THEN told[p] ELSE [kind |-> "killed", warned |-> FALSE]]
  /\ UNCHANGED <<head, job, staged, warned, moved, shown, hit, changes>>

\* Whoever owns the destination moves or deletes an artifact.
Remove(n) ==
  /\ target[n] # Nothing
  /\ changes < MaxChanges /\ changes' = changes + 1
  /\ target' = [target EXCEPT ![n] = Nothing]
  /\ unsynced' = unsynced \ {n}
  /\ Changed(n)
  /\ Gone({n})
  /\ UNCHANGED <<head, pc, job, staged, warned, told, shown, fault>>

-----------------------------------------------------------------------------
SealStep(w) ==
  \/ SealLock(w) \/ SealLook(w) \/ SealStage(w) \/ SealWrite(w) \/ SealPublish(w)
  \/ SealSync(w) \/ Recover(w) \/ Adopt(w) \/ Promote(w) \/ Clean(w)
SealFault(w) == SealStagingFails(w) \/ PromoteFails(w) \/ SealFails(w) \/ SealInterrupted(w)
ExportStep(e) ==
  \/ Capture(e) \/ Prepare(e) \/ ExportWrite(e) \/ Check(e) \/ ExportPublish(e)
  \/ SyncAndReport(e) \/ Clean(e)
ExportFault(e) == Cancelled(e) \/ ExportFails(e) \/ ExportInterrupted(e)
PackageStep(a) ==
  \/ VerifySource(a) \/ PackageStage(a) \/ Pack(a) \/ PackagePublish(a) \/ Unlink(a)
  \/ SyncAndReport(a) \/ Clean(a)

Next ==
  \/ \E w \in Workspaces :
       SealStep(w) \/ SealFault(w) \/ Rebuild(w) \/ \E n \in Paths : SealStart(w, n)
  \/ \E e \in Exporters :
       \/ ExportStep(e) \/ ExportFault(e)
       \/ \E n, src \in Paths, d \in Datasets : n # src /\ ExportStart(e, n, src, d)
  \/ \E a \in Packagers :
       \/ PackageStep(a) \/ PackageFails(a) \/ PackageInterrupted(a)
       \/ \E n, src \in Paths, k \in DOMAIN ArchiveOf, d \in Datasets :
            n # src /\ PackageStart(a, n, src, k, d)
  \/ \E p \in Processes : Kill(p) \/ CleanFails(p)
  \/ PowerLoss \/ \E n \in Paths : Remove(n)

Spec == Init /\ [][Next]_vars

\* A running seal goes on, and an operator whose seal was left half done runs
\* it again on the same destination.
SealAgain(w) == told[w].kind \in {"partial", "killed", "interrupted", "failed", "conflict"} /\ SealStart(w, Dest(w))
FairSpec == Spec /\ \A w \in Workspaces : WF_vars(SealStep(w)) /\ WF_vars(SealAgain(w))

-----------------------------------------------------------------------------
(* A destination that holds an artifact keeps it: two publishers, of       *)
(* whatever kind, never overwrite each other.  Only its owner removes it,  *)
(* or a power loss before its directory was synced.                        *)
NeverReplaced ==
  [][\A n \in Paths : target[n] # Nothing => target'[n] \in {target[n], Nothing}]_target

(* HEAD says sealed only if the bundle of exactly its dataset had become   *)
(* visible before, and success is reported only for what was visible.      *)
ReceiptAfterBundle ==
  /\ \A w \in Workspaces :
       head[w].sealed => \E n \in Paths : <<n, Bundle(head[w].data)>> \in shown
  /\ \A p \in Processes : told[p].kind = "done" => <<Dest(p), job[p].makes>> \in shown

(* A bundle appears only while HEAD is the revision that it was made from: *)
(* a dataset that was replaced meanwhile is never published by a late seal. *)
PublishesCurrent ==
  [][\A w \in Workspaces :
       made[w] = Nothing /\ made'[w] # Nothing => job[w].makes.data = head[w].data]_made

(* Whoever is told that an operation failed or was cancelled finds nothing *)
(* that it published: a visible artifact is reported as published in part. *)
(* For an export that is so of an interrupt too.  Two faults in a row get  *)
(* past seal: it could neither look at the new name nor read it back.  And *)
(* an export or archive that was reported done, is still there and could   *)
(* be lost with the power was reported with a durability warning.          *)
Truthful ==
  \A p \in Processes : made[p] # Nothing =>
    /\ faults <= 1 =>
         /\ told[p].kind \notin {"failed", "conflict", "cancelled"}
         /\ told[p].kind = "interrupted" => p \notin Exporters
    /\ told[p].kind = "done" /\ p \notin Workspaces /\ Dest(p) \in unsynced => told[p].warned

(* What was staged is gone when its operation is over, however it ends:     *)
(* with a conflict, a cancellation, an error or an interrupt at any point.  *)
(* It stays only when the process is killed, or when a fault meets the very *)
(* calls that make or remove it (a second fault, after one that ended the   *)
(* operation).  An export reported done has left nothing even then, and an  *)
(* archive reported done with its staging link still there says so.         *)
NoLitter ==
  \A p \in Processes : pc[p] = "idle" /\ staged[p] # Nothing =>
    /\ told[p].kind = "killed" \/ p \in hit
    /\ told[p].kind = "done" => p \notin Exporters /\ (p \in Packagers => told[p].warned)

(* What is visible was made from a dataset whose bundle had been visible:  *)
(* no export or archive of anything else appears, however its source was   *)
(* moved and replaced while it was read.                                   *)
FromABundle ==
  \A n \in Paths : target[n] # Nothing =>
    \E m \in Paths : <<m, Bundle(target[n].data)>> \in shown

(* A seal whose bundle became visible and whose commit then failed or died *)
(* can be finished: running it again adopts the bundle and records it,     *)
(* unless the bundle is taken away or the workspace moves on.              *)
Unrecorded(w) ==
  /\ told[w].kind \in {"partial", "killed", "interrupted"} /\ ~head[w].sealed
  /\ target[Dest(w)] = Bundle(head[w].data)
Finished(w) ==
  job[w] # Nothing =>
    head[w].sealed \/ target[Dest(w)] # job[w].makes \/ head[w].data # job[w].makes.data
PartialSealFinishes == \A w \in Workspaces : Unrecorded(w) ~> Finished(w)
=============================================================================
