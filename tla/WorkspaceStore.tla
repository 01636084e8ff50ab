--------------------------- MODULE WorkspaceStore ---------------------------
(***************************************************************************)
(* The workspace directory of Veriformis (src/veriformis/workspace.py):    *)
(* workspace.json, HEAD, LOCK, objects/, revisions/ and the .txn staging   *)
(* directories, shared by client processes that create, open, commit to    *)
(* and migrate it, and that may die or fail between any two file-system    *)
(* effects.                                                                *)
(*                                                                         *)
(* A revision identity is a digest over the manifest, parent identity      *)
(* included, so it stands for the chain behind it: a revision is the       *)
(* sequence of entries from its init root, its parent is all but the last, *)
(* and <<>> is "no revision" (HEAD missing).  An entry keeps what the file *)
(* protocol tells apart: schema version, referenced objects, timestamp.    *)
(* The stage states inside a manifest are modelled in StageRevisions.      *)
(***************************************************************************)
EXTENDS Naturals, Sequences

CONSTANTS
  Clients,        \* client processes
  Objects,        \* content digests of artifact bytes
  Schemas,        \* revision schemas that clients ask Workspace.create for
  MaxRevisions,   \* bound on the length of a history
  Faults,         \* which of FaultKinds may happen
  MaxFaults,      \* bound on how many do
  NoClient

FaultKinds ==
  {"kill",      \* a process dies between two effects
   "oserror",   \* a file-system call or a check raises
   "headsync",  \* the directory fsync after the HEAD rename raises
   "power"}     \* the machine stops: unsynced directory entries may be lost

SchemaVersions == 1..4      \* legacy, group 2, current, import
CurrentSchema == 3
ImportSchema == 4

ASSUME StoreAssumption ==
  /\ Schemas \subseteq SchemaVersions
  /\ MaxRevisions \in Nat /\ MaxFaults \in Nat
  /\ Faults \subseteq FaultKinds
  /\ NoClient \notin Clients

Entry == [schema : SchemaVersions, arts : SUBSET Objects, stamp : Nat]
Rev == Seq(Entry)
Tip(r) == r[Len(r)]
Parent(r) == SubSeq(r, 1, Len(r) - 1)
Extends(r, s) == Len(s) <= Len(r) /\ \A i \in 1..Len(s) : r[i] = s[i]

\* The init revision is a constant of its schema: its timestamp is fixed.
Root(s) == <<[schema |-> s, arts |-> {}, stamp |-> 0]>>

VARIABLES
  dirs,           \* the workspace directory has entries
  meta,           \* workspace.json exists
  head,           \* the revision HEAD names, <<>> while there is no HEAD
  installed,      \* revisions whose directory is visible
  objects,        \* object files that are visible
  unsyncedRevs,   \* of those, the entries no directory fsync has covered
  unsyncedObjs,
  unsyncedHeads,  \* earlier values of HEAD that a power loss may bring back
  lock,           \* the client holding flock(LOCK), or NoClient
  pc,             \* where each client is
  want,           \* the schema a creating client asked for
  base,           \* the revision each client read
  plan,           \* what its transaction stages and commits
  cand,           \* the candidate revision of a commit, <<>> before there is one
  result,         \* what the client's last operation reported
  clock,          \* the time: every candidate revision is stamped with a new one
  faults          \* faults so far

disk == <<dirs, meta, head, installed, objects>>
sync == <<unsyncedRevs, unsyncedObjs, unsyncedHeads>>
client == <<want, base, plan, cand>>
vars == <<disk, sync, lock, pc, client, result, clock, faults>>

CreatePcs == {"make_dirs", "write_meta", "install_root", "write_head"}
CommitPcs == {"check_head", "objects", "revision", "promote"}
MigratePcs == {"migrate_check", "migrate_step", "migrate_revision", "migrate_promote"}
Pcs == {"idle", "open", "staging", "commit", "migrate"}
         \cup CreatePcs \cup CommitPcs \cup MigratePcs
Kinds == {"none", "committed", "warned", "unchanged", "conflict", "locked",
          "failed", "corrupt", "not_found", "killed"}

Plan == [staged : SUBSET Objects, arts : SUBSET Objects, noop : BOOLEAN]
NoPlan == [staged |-> {}, arts |-> {}, noop |-> FALSE]
Result == [kind : Kinds, rev : Rev]
Report(k, r) == [kind |-> k, rev |-> r]

TypeOK ==
  /\ dirs \in BOOLEAN /\ meta \in BOOLEAN
  /\ head \in Rev
  /\ installed \subseteq Rev /\ unsyncedRevs \subseteq Rev /\ unsyncedHeads \subseteq Rev
  /\ objects \subseteq Objects /\ unsyncedObjs \subseteq Objects
  /\ lock \in Clients \cup {NoClient}
  /\ pc \in [Clients -> Pcs]
  /\ want \in [Clients -> SchemaVersions]
  /\ base \in [Clients -> Rev] /\ cand \in [Clients -> Rev]
  /\ plan \in [Clients -> Plan]
  /\ result \in [Clients -> Result]
  /\ clock \in Nat /\ faults \in Nat

(* verify_history walks the chain from HEAD to the root; the full form     *)
(* also hashes every object that any revision of the chain references.     *)
ChainInstalled(r) == r # <<>> /\ \A n \in 1..Len(r) : SubSeq(r, 1, n) \in installed
Intact(r) == ChainInstalled(r) /\ \A n \in 1..Len(r) : r[n].arts \subseteq objects

\* Mutant of Verified: objects are not hashed.
VerifiedChainOnly(r) == ChainInstalled(r)

\* What open, head and begin check before they hand out a revision.
Verified(r) == Intact(r)

Init ==
  /\ dirs = FALSE /\ meta = FALSE /\ head = <<>>
  /\ installed = {} /\ objects = {}
  /\ unsyncedRevs = {} /\ unsyncedObjs = {} /\ unsyncedHeads = {}
  /\ lock = NoClient
  /\ pc = [c \in Clients |-> "idle"]
  /\ want = [c \in Clients |-> CurrentSchema]
  /\ base = [c \in Clients |-> <<>>]
  /\ plan = [c \in Clients |-> NoPlan]
  /\ cand = [c \in Clients |-> <<>>]
  /\ result = [c \in Clients |-> Report("none", <<>>)]
  /\ clock = 0 /\ faults = 0

Goto(c, l) == pc' = [pc EXCEPT ![c] = l]

(* The operation ends: its handle and transaction are gone, LOCK is        *)
(* released if this client held it, and it reports kind and revision.      *)
Return(c, kind, r) ==
  /\ Goto(c, "idle")
  /\ result' = [result EXCEPT ![c] = Report(kind, r)]
  /\ lock' = IF lock = c THEN NoClient ELSE lock
  /\ want' = [want EXCEPT ![c] = CurrentSchema]
  /\ base' = [base EXCEPT ![c] = <<>>]
  /\ plan' = [plan EXCEPT ![c] = NoPlan]
  /\ cand' = [cand EXCEPT ![c] = <<>>]

-----------------------------------------------------------------------------
(* Workspace.create: none of its steps takes the lock.                     *)

CreateStarts(c) ==
  /\ pc[c] = "idle" /\ ~meta /\ head = <<>> /\ ~dirs
  /\ Goto(c, "make_dirs")
  /\ \E s \in Schemas : want' = [want EXCEPT ![c] = s]
  /\ result' = [result EXCEPT ![c] = Report("none", <<>>)]
  /\ UNCHANGED <<disk, sync, lock, base, plan, cand, clock, faults>>

\* A directory that is not empty and holds no workspace is refused.
CreateRefused(c) ==
  /\ pc[c] = "idle" /\ ~meta /\ head = <<>> /\ dirs
  /\ Return(c, "corrupt", <<>>)
  /\ UNCHANGED <<disk, sync, clock, faults>>

MakeDirs(c) ==
  /\ pc[c] = "make_dirs"
  /\ dirs' = TRUE
  /\ Goto(c, "write_meta")
  /\ UNCHANGED <<meta, head, installed, objects, sync, lock, client, result, clock, faults>>

WriteMeta(c) ==
  /\ pc[c] = "write_meta"
  /\ meta' = TRUE
  /\ Goto(c, "install_root")
  /\ UNCHANGED <<dirs, head, installed, objects, sync, lock, client, result, clock, faults>>

InstallRoot(c) ==
  /\ pc[c] = "install_root" /\ Root(want[c]) \notin installed
  /\ installed' = installed \cup {Root(want[c])}
  /\ unsyncedRevs' = {}
  /\ Goto(c, "write_head")
  /\ UNCHANGED <<dirs, meta, head, objects, unsyncedObjs, unsyncedHeads, lock, client,
                 result, clock, faults>>

\* Another creator was faster: mkdir raises FileExistsError.
RootExists(c) ==
  /\ pc[c] = "install_root" /\ Root(want[c]) \in installed
  /\ Return(c, "failed", <<>>)
  /\ UNCHANGED <<disk, sync, clock, faults>>

\* os.replace over whatever HEAD names by now.
WriteHead(c) ==
  /\ pc[c] = "write_head"
  /\ head' = Root(want[c])
  /\ unsyncedHeads' = {}
  /\ Goto(c, "open")
  /\ UNCHANGED <<dirs, meta, installed, objects, unsyncedRevs, unsyncedObjs, lock, client,
                 result, clock, faults>>

-----------------------------------------------------------------------------
(* Workspace.open, head, begin and the staging of a transaction            *)

\* A service opens the workspace and reads its current revision, verified.
Open(c) ==
  /\ pc[c] = "idle" /\ meta /\ Verified(head)
  /\ Goto(c, "open")
  /\ base' = [base EXCEPT ![c] = head]
  /\ result' = [result EXCEPT ![c] = Report("none", <<>>)]
  /\ UNCHANGED <<disk, sync, lock, want, plan, cand, clock, faults>>

OpenFails(c) ==
  /\ pc[c] = "idle"
  /\ \/ ~meta /\ Return(c, "not_found", <<>>)
     \/ meta /\ ~Verified(head) /\ Return(c, "corrupt", <<>>)
  /\ UNCHANGED <<disk, sync, clock, faults>>

\* begin reads HEAD again: parse, clean and chunk adopt the newer base, the
\* other stages pass the revision they computed from and may conflict.
Begin(c) ==
  /\ pc[c] = "open" /\ Verified(head) /\ Len(head) < MaxRevisions
  /\ Goto(c, "staging")
  /\ base' = [base EXCEPT ![c] = head]
  /\ UNCHANGED <<disk, sync, lock, want, plan, cand, result, clock, faults>>

BeginConflict(c) ==
  /\ pc[c] = "open" /\ base[c] # <<>> /\ base[c] # head
  /\ Return(c, "conflict", <<>>)
  /\ UNCHANGED <<disk, sync, clock, faults>>

\* A command that only reads closes its handle.
Close(c) ==
  /\ pc[c] = "open"
  /\ Return(c, "none", <<>>)
  /\ UNCHANGED <<disk, sync, clock, faults>>

\* put_artifact copies new outputs into the private .txn directory.  The
\* candidate will reference them and some of what its base references; noop
\* says that the recomputed stage state equals the one HEAD holds.
PutArtifacts(c) ==
  /\ pc[c] = "staging"
  /\ \E new \in (SUBSET Objects) \ {{}}, kept \in SUBSET Tip(base[c]).arts, noop \in BOOLEAN :
       /\ noop => new \cup kept = Tip(base[c]).arts
       /\ plan' = [plan EXCEPT ![c] =
                     [staged |-> new, arts |-> new \cup kept, noop |-> noop]]
  /\ Goto(c, "commit")
  /\ UNCHANGED <<disk, sync, lock, want, base, cand, result, clock, faults>>

-----------------------------------------------------------------------------
(* _exclusive_lock                                                         *)

\* Mutant of AcquireLock: the lock does not exclude.
AcquireLockShared(c) ==
  /\ pc[c] \in {"commit", "migrate"}
  /\ lock' = c
  /\ Goto(c, IF pc[c] = "commit" THEN "check_head" ELSE "migrate_check")
  /\ UNCHANGED <<disk, sync, client, result, clock, faults>>

AcquireLock(c) ==
  /\ pc[c] \in {"commit", "migrate"} /\ lock = NoClient
  /\ lock' = c
  /\ Goto(c, IF pc[c] = "commit" THEN "check_head" ELSE "migrate_check")
  /\ UNCHANGED <<disk, sync, client, result, clock, faults>>

\* Mutant of LockTimeout: the deadline is never reached.
LockTimeoutNever(c) == FALSE /\ Return(c, "locked", <<>>)

\* LOCK_NB is retried until the deadline, then workspace-locked is raised.
LockTimeout(c) ==
  /\ pc[c] \in {"commit", "migrate"} /\ lock # NoClient
  /\ Return(c, "locked", <<>>)
  /\ UNCHANGED <<disk, sync, clock, faults>>

-----------------------------------------------------------------------------
(* WorkspaceTransaction._commit, under the lock                            *)

\* The new revision on b.  Its timestamp tells it from any that an earlier
\* attempt derived, so its identity is fresh.
NewRevision(b, s, arts) == Append(b, [schema |-> s, arts |-> arts, stamp |-> clock'])
Tick == clock' = clock + 1

\* Mutant of CommitConflict: the conflict path leaves the lock held.
CommitConflictLeaksLock(c) ==
  /\ pc[c] \in {"check_head", "migrate_check"} /\ head # base[c]
  /\ Goto(c, "idle")
  /\ result' = [result EXCEPT ![c] = Report("conflict", <<>>)]
  /\ base' = [base EXCEPT ![c] = <<>>]
  /\ plan' = [plan EXCEPT ![c] = NoPlan]
  /\ UNCHANGED <<disk, sync, lock, want, cand, clock, faults>>

CommitConflict(c) ==
  /\ pc[c] \in {"check_head", "migrate_check"} /\ head # base[c]
  /\ Return(c, "conflict", <<>>)
  /\ UNCHANGED <<disk, sync, clock, faults>>

\* An exact no-op commits nothing and returns the revision HEAD names.
CommitUnchanged(c) ==
  /\ pc[c] = "check_head" /\ head = base[c] /\ ChainInstalled(head)
  /\ plan[c].noop
  /\ Tip(head).arts \subseteq objects
  /\ Return(c, "unchanged", head)
  /\ UNCHANGED <<disk, sync, clock, faults>>

\* Mutant of CommitCandidate: HEAD is not compared with the base again.
CommitCandidateUnchecked(c) ==
  /\ pc[c] = "check_head"
  /\ ~plan[c].noop
  /\ Tick
  /\ cand' = [cand EXCEPT ![c] = NewRevision(base[c], Tip(base[c]).schema, plan[c].arts)]
  /\ Goto(c, "objects")
  /\ UNCHANGED <<disk, sync, lock, want, base, plan, result, faults>>

CommitCandidate(c) ==
  /\ pc[c] = "check_head" /\ head = base[c] /\ ChainInstalled(head)
  /\ ~plan[c].noop
  /\ Tick
  /\ cand' = [cand EXCEPT ![c] = NewRevision(head, Tip(head).schema, plan[c].arts)]
  /\ Goto(c, "objects")
  /\ UNCHANGED <<disk, sync, lock, want, base, plan, result, faults>>

\* Candidate objects that have no file yet.  A file that is there is verified
\* and reused, whoever put it there, and its directory is not synced again.
MissingObjects(c) == Tip(cand[c]).arts \ objects

InstallObject(c) ==
  /\ pc[c] = "objects"
  /\ \E o \in MissingObjects(c) \cap plan[c].staged : objects' = objects \cup {o}
  /\ UNCHANGED <<dirs, meta, head, installed, sync, lock, pc, client, result, clock, faults>>

\* Mutant of ObjectsInstalled: the revision is installed before its objects are.
ObjectsInstalledEarly(c) ==
  /\ pc[c] = "objects"
  /\ Goto(c, "revision")
  /\ UNCHANGED <<disk, sync, lock, client, result, clock, faults>>

ObjectsInstalled(c) ==
  /\ pc[c] = "objects" /\ MissingObjects(c) = {}
  /\ Goto(c, "revision")
  /\ UNCHANGED <<disk, sync, lock, client, result, clock, faults>>

\* The rename into revisions/ and the fsync of revisions/, which covers every
\* entry of that directory.
InstallRevision(c) ==
  /\ pc[c] \in {"revision", "migrate_revision"}
  /\ installed' = installed \cup {cand[c]}
  /\ unsyncedRevs' = {}
  /\ Goto(c, IF pc[c] = "revision" THEN "promote" ELSE "migrate_promote")
  /\ UNCHANGED <<dirs, meta, head, objects, unsyncedObjs, unsyncedHeads, lock, client,
                 result, clock, faults>>

\* Mutant of MoveHead: the directory of HEAD is never synced.
MoveHeadUnsynced(c, synced) ==
  /\ head' = cand[c]
  /\ unsyncedHeads' = unsyncedHeads \cup {head}
  /\ faults' = IF synced THEN faults ELSE faults + 1
  /\ synced \/ ("headsync" \in Faults /\ faults < MaxFaults)
  /\ UNCHANGED <<dirs, meta, installed, objects, unsyncedRevs, unsyncedObjs, clock>>

\* The rename of HEAD is the commit point.  If the directory fsync after it
\* fails, the commit stands and only carries a durability warning.
MoveHead(c, synced) ==
  /\ head' = cand[c]
  /\ unsyncedHeads' = IF synced THEN {} ELSE unsyncedHeads \cup {head}
  /\ faults' = IF synced THEN faults ELSE faults + 1
  /\ synced \/ ("headsync" \in Faults /\ faults < MaxFaults)
  /\ UNCHANGED <<dirs, meta, installed, objects, unsyncedRevs, unsyncedObjs, clock>>

Promote(c) ==
  /\ pc[c] = "promote"
  /\ \E synced \in BOOLEAN :
       /\ MoveHead(c, synced)
       /\ Return(c, IF synced THEN "committed" ELSE "warned", cand[c])

-----------------------------------------------------------------------------
(* Workspace.migrate_to_current: one lock, one full commit per version     *)

MigrateBegin(c) ==
  /\ pc[c] = "open" /\ base[c] = head /\ Verified(head)
  /\ Len(head) + 2 <= MaxRevisions
  /\ Goto(c, "migrate")
  /\ UNCHANGED <<disk, sync, lock, client, result, clock, faults>>

\* Mutant of MigrateCheck: HEAD is not read again under the lock.
MigrateCheckStale(c) ==
  /\ pc[c] = "migrate_check"
  /\ Goto(c, "migrate_step")
  /\ UNCHANGED <<disk, sync, lock, client, result, clock, faults>>

\* An import workspace is current as it is; others take the steps they need.
MigrateCheck(c) ==
  /\ pc[c] = "migrate_check" /\ head = base[c] /\ ChainInstalled(head)
  /\ IF Tip(head).schema = ImportSchema
       THEN Return(c, "unchanged", head)
       ELSE Goto(c, "migrate_step") /\ UNCHANGED <<lock, client, result>>
  /\ UNCHANGED <<disk, sync, clock, faults>>

\* Mutant of MigrateStep: the loop does not stop at the current schema.
MigrateStepPastCurrent(c) ==
  /\ pc[c] = "migrate_step"
  /\ Tick
  /\ cand' = [cand EXCEPT ![c] =
       NewRevision(base[c], Tip(base[c]).schema + 1, Tip(base[c]).arts)]
  /\ Goto(c, "migrate_revision")
  /\ UNCHANGED <<disk, sync, lock, want, base, plan, result, faults>>

\* v1 to v2 keeps every artifact; v2 to v3 keeps those that parse to construct
\* still reference.
MigrateStep(c) ==
  /\ pc[c] = "migrate_step"
  /\ LET from == Tip(base[c]) IN
       /\ from.schema < CurrentSchema
       /\ Tick
       /\ \E kept \in IF from.schema = 1 THEN {from.arts} ELSE SUBSET from.arts :
            cand' = [cand EXCEPT ![c] = NewRevision(base[c], from.schema + 1, kept)]
  /\ Goto(c, "migrate_revision")
  /\ UNCHANGED <<disk, sync, lock, want, base, plan, result, faults>>

MigratePromote(c) ==
  /\ pc[c] = "migrate_promote"
  /\ \E synced \in BOOLEAN :
       /\ MoveHead(c, synced)
       /\ result' = [result EXCEPT ![c] =
            Report(IF synced /\ result[c].kind # "warned" THEN "committed" ELSE "warned",
                   cand[c])]
  /\ base' = [base EXCEPT ![c] = cand[c]]
  /\ cand' = [cand EXCEPT ![c] = <<>>]
  /\ Goto(c, "migrate_step")
  /\ UNCHANGED <<lock, want, plan>>

MigrateDone(c) ==
  /\ pc[c] = "migrate_step" /\ Tip(base[c]).schema = CurrentSchema
  /\ Return(c, IF result[c].kind = "none" THEN "unchanged" ELSE result[c].kind, base[c])
  /\ UNCHANGED <<disk, sync, clock, faults>>

-----------------------------------------------------------------------------
(* Faults                                                                  *)

\* The process dies, or the operation raises and its finally blocks run.
Stop(c) ==
  /\ faults < MaxFaults /\ faults' = faults + 1
  /\ \/ "kill" \in Faults /\ Return(c, "killed", cand[c])
     \/ "oserror" \in Faults /\ Return(c, "failed", cand[c])

\* Between two effects: an I/O error, a failed semantic replay, an injected
\* failure, or a kill.
Halt(c) ==
  /\ pc[c] # "idle"
  /\ Stop(c)
  /\ UNCHANGED <<disk, sync, clock>>

\* After a rename and before the fsync of its directory.
HaltInObject(c) ==
  /\ pc[c] = "objects"
  /\ \E o \in MissingObjects(c) \cap plan[c].staged :
       objects' = objects \cup {o} /\ unsyncedObjs' = unsyncedObjs \cup {o}
  /\ Stop(c)
  /\ UNCHANGED <<dirs, meta, head, installed, unsyncedRevs, unsyncedHeads, clock>>

HaltInRevision(c) ==
  /\ pc[c] \in {"revision", "migrate_revision"}
  /\ installed' = installed \cup {cand[c]}
  /\ unsyncedRevs' = unsyncedRevs \cup {cand[c]}
  /\ Stop(c)
  /\ UNCHANGED <<dirs, meta, head, objects, unsyncedObjs, unsyncedHeads, clock>>

HaltInCreate(c) ==
  /\ \/ /\ pc[c] = "install_root" /\ Root(want[c]) \notin installed
        /\ installed' = installed \cup {Root(want[c])}
        /\ unsyncedRevs' = unsyncedRevs \cup {Root(want[c])}
        /\ UNCHANGED <<head, unsyncedHeads>>
     \/ /\ pc[c] = "write_head"
        /\ head' = Root(want[c])
        /\ unsyncedHeads' = unsyncedHeads \cup {head}
        /\ UNCHANGED <<installed, unsyncedRevs>>
  /\ Stop(c)
  /\ UNCHANGED <<dirs, meta, objects, unsyncedObjs, clock>>

\* Mutant of KilledAfterHead: an fsync error after the rename is raised.
KilledAfterHeadRaises(c) ==
  /\ pc[c] \in {"promote", "migrate_promote"}
  /\ head' = cand[c]
  /\ unsyncedHeads' = unsyncedHeads \cup {head}
  /\ Stop(c)
  /\ UNCHANGED <<dirs, meta, installed, objects, unsyncedRevs, unsyncedObjs, clock>>

\* Only a kill: an fsync error after the HEAD rename is a warning, and no
\* fallible work follows it.
KilledAfterHead(c) ==
  /\ pc[c] \in {"promote", "migrate_promote"}
  /\ "kill" \in Faults /\ faults < MaxFaults /\ faults' = faults + 1
  /\ head' = cand[c]
  /\ unsyncedHeads' = unsyncedHeads \cup {head}
  /\ Return(c, "killed", cand[c])
  /\ UNCHANGED <<dirs, meta, installed, objects, unsyncedRevs, unsyncedObjs, clock>>

\* The machine stops and restarts: what no fsync covered may be gone, and
\* what is found on the disk afterwards stays.
PowerLoss ==
  /\ "power" \in Faults /\ faults < MaxFaults /\ faults' = faults + 1
  /\ \E gone \in SUBSET unsyncedObjs : objects' = objects \ gone
  /\ \E gone \in SUBSET unsyncedRevs : installed' = installed \ gone
  /\ head' \in {head} \cup unsyncedHeads
  /\ unsyncedObjs' = {} /\ unsyncedRevs' = {} /\ unsyncedHeads' = {}
  /\ lock' = NoClient
  /\ pc' = [c \in Clients |-> "idle"]
  /\ want' = [c \in Clients |-> CurrentSchema]
  /\ base' = [c \in Clients |-> <<>>] /\ cand' = [c \in Clients |-> <<>>]
  /\ plan' = [c \in Clients |-> NoPlan]
  /\ result' = [c \in Clients |->
       IF pc[c] = "idle" THEN result[c] ELSE Report("killed", cand[c])]
  /\ UNCHANGED <<dirs, meta, clock>>

-----------------------------------------------------------------------------
CreateStep(c) == MakeDirs(c) \/ WriteMeta(c) \/ InstallRoot(c) \/ RootExists(c) \/ WriteHead(c)
CommitStep(c) ==
  \/ AcquireLock(c) \/ LockTimeout(c)
  \/ CommitConflict(c) \/ CommitUnchanged(c) \/ CommitCandidate(c)
  \/ InstallObject(c) \/ ObjectsInstalled(c) \/ InstallRevision(c) \/ Promote(c)
MigrateSteps(c) == MigrateCheck(c) \/ MigrateStep(c) \/ MigratePromote(c) \/ MigrateDone(c)

\* What a started operation does next; a client decides freely to start one.
Work(c) == CreateStep(c) \/ PutArtifacts(c) \/ CommitStep(c) \/ MigrateSteps(c)
Start(c) ==
  \/ CreateStarts(c) \/ CreateRefused(c) \/ Open(c) \/ OpenFails(c)
  \/ Begin(c) \/ BeginConflict(c) \/ MigrateBegin(c) \/ Close(c)
Fault(c) ==
  \/ Halt(c) \/ HaltInObject(c) \/ HaltInRevision(c)
  \/ HaltInCreate(c) \/ KilledAfterHead(c)

Next == (\E c \in Clients : Start(c) \/ Work(c) \/ Fault(c)) \/ PowerLoss

Spec == Init /\ [][Next]_vars
\* A running process keeps running: the code never waits but for the lock,
\* and for that at most lock_timeout.
FairSpec == Spec /\ \A c \in Clients : WF_vars(Work(c))

-----------------------------------------------------------------------------
(* The revision HEAD names is complete: its whole chain is installed and   *)
(* every object any revision of it references is there, at every moment a  *)
(* reader may open the workspace, whatever died or failed before.          *)
HeadIntact == head # <<>> => Intact(head)

(* A revision that commit returned to its caller stays in the history of   *)
(* HEAD: no other writer, and no later failure, rolls it back.             *)
CommittedStays ==
  \A c \in Clients :
    result[c].kind \in {"committed", "warned"} => Extends(head, result[c].rev)

(* A commit without a durability warning survives a power loss as well.    *)
ConfirmedSurvives ==
  \A c \in Clients : result[c].kind = "committed" => Extends(head, result[c].rev)

(* A commit that raised did not happen: its candidate is not, and never    *)
(* becomes, part of the history (no false rollback is reported).           *)
FailedInvisible ==
  \A c \in Clients :
    result[c].kind = "failed" /\ result[c].rev # <<>> => ~Extends(head, result[c].rev)

(* HEAD moves only to a revision that extends the one it named: history is *)
(* never rewritten, and no update is lost.                                 *)
HistoryAppendOnly == [][Extends(head', head)]_head

(* No commit builds on a damaged history: damage is found first.           *)
DamageNotExtended == [][Len(head') > Len(head) /\ head # <<>> => Intact(head)]_head

(* docs/architecture/data-flow.md: "Only after objects and the revision    *)
(* manifest are durable is HEAD swapped".                                  *)
DurableBeforeHead ==
  \A n \in 1..Len(head) :
    SubSeq(head, 1, n) \notin unsyncedRevs /\ head[n].arts \cap unsyncedObjs = {}

(* Whoever takes the lock gives it back, on every path out of a commit.    *)
LockReleased == \A c \in Clients : lock = c ~> lock # c

(* A commit or migration that asks for the lock gets an answer in the end. *)
CommitAnswered == \A c \in Clients : pc[c] \in {"commit", "migrate"} ~> pc[c] = "idle"

(* The store implements the linear history with optimistic commits.        *)
History == INSTANCE WorkspaceHistory WITH history <- head, view <- base
HistorySpec == History!Spec
=============================================================================
