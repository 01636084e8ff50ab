----------------------- MODULE WorkspaceStore_proofs -----------------------
(***************************************************************************)
(* Machine-checked proofs about WorkspaceStore, for every set of clients,  *)
(* objects and schemas and every bound.                                    *)
(***************************************************************************)
EXTENDS WorkspaceStore, SequenceTheorems, TLAPS

-----------------------------------------------------------------------------
(* Types                                                                   *)

\* Where a client relies on having a base, and a candidate.
BasePcs == {"staging", "migrate_step"}
CandPcs == {"objects", "revision", "promote", "migrate_revision", "migrate_promote"}

NonEmpty(c) ==
  /\ pc[c] \in BasePcs => base[c] # <<>>
  /\ pc[c] \in CandPcs => cand[c] # <<>>

TypeInv == TypeOK /\ \A c \in Clients : NonEmpty(c)

\* A revision that is not empty has a tip, and its tip is an entry.
LEMMA TipType ==
  ASSUME NEW r \in Rev, r # <<>>
  PROVE  /\ Len(r) \in Nat \ {0}
         /\ Tip(r) \in Entry
         /\ Tip(r).schema \in SchemaVersions
         /\ Tip(r).arts \subseteq Objects
<1>1. r \in Seq(Entry)
  BY DEF Rev
<1>2. Len(r) \in Nat \ {0}
  BY <1>1, EmptySeq
<1>3. Tip(r) \in Entry
  BY <1>1, <1>2, ElementOfSeq DEF Tip
<1>4. QED
  BY <1>2, <1>3 DEF Entry

\* Deriving a revision from a revision gives a revision that is not empty.
LEMMA NewRevisionType ==
  ASSUME NEW b \in Rev, NEW s \in SchemaVersions, NEW a \in SUBSET Objects, clock' \in Nat
  PROVE  /\ NewRevision(b, s, a) \in Rev
         /\ NewRevision(b, s, a) # <<>>
BY DEF NewRevision, Rev, Entry

LEMMA RootType ==
  ASSUME NEW s \in SchemaVersions
  PROVE  Root(s) \in Rev /\ Root(s) # <<>>
BY DEF Root, Rev, Entry

\* Ending an operation keeps the types of what it resets.
LEMMA ReturnType ==
  ASSUME TypeInv, NEW c \in Clients, NEW k \in Kinds, NEW r \in Rev, Return(c, k, r)
  PROVE  /\ lock' \in Clients \cup {NoClient}
         /\ pc' \in [Clients -> Pcs]
         /\ want' \in [Clients -> SchemaVersions]
         /\ base' \in [Clients -> Rev] /\ cand' \in [Clients -> Rev]
         /\ plan' \in [Clients -> Plan]
         /\ result' \in [Clients -> Result]
         /\ \A d \in Clients : NonEmpty(d)'
<1>1. <<>> \in Rev
  BY DEF Rev
<1>2. CurrentSchema \in SchemaVersions /\ NoPlan \in Plan /\ Report(k, r) \in Result
  BY DEF CurrentSchema, SchemaVersions, NoPlan, Plan, Report, Result
<1>3. /\ lock' \in Clients \cup {NoClient}
      /\ pc' \in [Clients -> Pcs]
      /\ want' \in [Clients -> SchemaVersions]
      /\ base' \in [Clients -> Rev] /\ cand' \in [Clients -> Rev]
      /\ plan' \in [Clients -> Plan]
      /\ result' \in [Clients -> Result]
  BY <1>1, <1>2 DEF TypeInv, TypeOK, Return, Goto, Pcs
<1>4. ASSUME NEW d \in Clients
      PROVE  NonEmpty(d)'
  BY DEF TypeInv, TypeOK, NonEmpty, Return, Goto, BasePcs, CandPcs
<1>5. QED
  BY <1>3, <1>4

LEMMA InitTypeInv == Init => TypeInv
<1>1. <<>> \in Rev
  BY DEF Rev
<1>2. "idle" \in Pcs /\ CurrentSchema \in SchemaVersions
  BY DEF Pcs, CurrentSchema, SchemaVersions
<1>3. NoPlan \in Plan /\ Report("none", <<>>) \in Result
  BY <1>1 DEF NoPlan, Plan, Report, Result, Kinds
<1>4. SUFFICES ASSUME Init PROVE TypeInv
  OBVIOUS
<1>5. TypeOK
  BY <1>1, <1>2, <1>3, <1>4 DEF Init, TypeOK
<1>6. \A c \in Clients : NonEmpty(c)
  BY <1>4 DEF Init, NonEmpty, BasePcs, CandPcs
<1>7. QED
  BY <1>5, <1>6 DEF TypeInv

\* Operations that start, and those that end without touching the disk.
LEMMA StartTypeInv ==
  ASSUME TypeInv, NEW c \in Clients, Start(c)
  PROVE  TypeInv'
<1> USE DEF disk, sync, client
<1>1. ASSUME NEW k \in Kinds, Return(c, k, <<>>), UNCHANGED <<disk, sync, clock, faults>>
      PROVE  TypeInv'
  <2>1. <<>> \in Rev
    BY DEF Rev
  <2>2. QED
    BY <1>1, <2>1, ReturnType DEF TypeInv, TypeOK
<1>2. CASE CreateStarts(c)
  <2>1. <<>> \in Rev /\ Report("none", <<>>) \in Result
    BY DEF Rev, Report, Result, Kinds
  <2>2. \A s \in Schemas : s \in SchemaVersions
    BY StoreAssumption
  <2>3. TypeOK'
    BY <1>2, <2>1, <2>2 DEF CreateStarts, TypeInv, TypeOK, Goto, Pcs, CreatePcs
  <2>4. ASSUME NEW d \in Clients PROVE NonEmpty(d)'
    BY <1>2 DEF CreateStarts, TypeInv, TypeOK, Goto, NonEmpty, BasePcs, CandPcs
  <2>5. QED
    BY <2>3, <2>4 DEF TypeInv
<1>3. CASE CreateRefused(c)
  BY <1>3, <1>1 DEF CreateRefused, Kinds
<1>4. CASE Open(c)
  <2>1. Report("none", <<>>) \in Result
    BY DEF Rev, Report, Result, Kinds
  <2>2. TypeOK'
    BY <1>4, <2>1 DEF Open, TypeInv, TypeOK, Goto, Pcs
  <2>3. ASSUME NEW d \in Clients PROVE NonEmpty(d)'
    BY <1>4 DEF Open, TypeInv, TypeOK, Goto, NonEmpty, BasePcs, CandPcs
  <2>4. QED
    BY <2>2, <2>3 DEF TypeInv
<1>5. CASE OpenFails(c)
  BY <1>5, <1>1 DEF OpenFails, Kinds
<1>6. CASE Begin(c)
  <2>1. TypeOK'
    BY <1>6 DEF Begin, TypeInv, TypeOK, Goto, Pcs
  <2>2. ASSUME NEW d \in Clients PROVE NonEmpty(d)'
    BY <1>6 DEF Begin, Verified, Intact, ChainInstalled, TypeInv, TypeOK, Goto, NonEmpty,
                BasePcs, CandPcs
  <2>3. QED
    BY <2>1, <2>2 DEF TypeInv
<1>7. CASE BeginConflict(c)
  BY <1>7, <1>1 DEF BeginConflict, Kinds
<1>8. CASE MigrateBegin(c)
  <2>1. TypeOK'
    BY <1>8 DEF MigrateBegin, TypeInv, TypeOK, Goto, Pcs
  <2>2. ASSUME NEW d \in Clients PROVE NonEmpty(d)'
    BY <1>8 DEF MigrateBegin, TypeInv, TypeOK, Goto, NonEmpty, BasePcs, CandPcs
  <2>3. QED
    BY <2>1, <2>2 DEF TypeInv
<1>9. CASE Close(c)
  BY <1>9, <1>1 DEF Close, Kinds
<1>10. QED
  BY <1>2, <1>3, <1>4, <1>5, <1>6, <1>7, <1>8, <1>9 DEF Start

LEMMA CreateTypeInv ==
  ASSUME TypeInv, NEW c \in Clients, CreateStep(c)
  PROVE  TypeInv'
<1> USE DEF disk, sync, client
<1>1. CASE MakeDirs(c)
  <2>1. TypeOK'
    BY <1>1 DEF MakeDirs, TypeInv, TypeOK, Goto, Pcs, CreatePcs
  <2>2. ASSUME NEW d \in Clients PROVE NonEmpty(d)'
    BY <1>1 DEF MakeDirs, TypeInv, TypeOK, Goto, NonEmpty, BasePcs, CandPcs
  <2>3. QED
    BY <2>1, <2>2 DEF TypeInv
<1>2. CASE WriteMeta(c)
  <2>1. TypeOK'
    BY <1>2 DEF WriteMeta, TypeInv, TypeOK, Goto, Pcs, CreatePcs
  <2>2. ASSUME NEW d \in Clients PROVE NonEmpty(d)'
    BY <1>2 DEF WriteMeta, TypeInv, TypeOK, Goto, NonEmpty, BasePcs, CandPcs
  <2>3. QED
    BY <2>1, <2>2 DEF TypeInv
<1>3. Root(want[c]) \in Rev
  BY RootType DEF TypeInv, TypeOK
<1>4. CASE InstallRoot(c)
  <2>1. TypeOK'
    BY <1>3, <1>4 DEF InstallRoot, TypeInv, TypeOK, Goto, Pcs, CreatePcs
  <2>2. ASSUME NEW d \in Clients PROVE NonEmpty(d)'
    BY <1>4 DEF InstallRoot, TypeInv, TypeOK, Goto, NonEmpty, BasePcs, CandPcs
  <2>3. QED
    BY <2>1, <2>2 DEF TypeInv
<1>5. CASE RootExists(c)
  <2>1. <<>> \in Rev /\ "failed" \in Kinds
    BY DEF Rev, Kinds
  <2>2. Return(c, "failed", <<>>)
    BY <1>5 DEF RootExists
  <2>3. QED
    BY <1>5, <2>1, <2>2, ReturnType DEF RootExists, TypeInv, TypeOK
<1>6. CASE WriteHead(c)
  <2>1. TypeOK'
    BY <1>3, <1>6 DEF WriteHead, TypeInv, TypeOK, Goto, Pcs, CreatePcs
  <2>2. ASSUME NEW d \in Clients PROVE NonEmpty(d)'
    BY <1>6 DEF WriteHead, TypeInv, TypeOK, Goto, NonEmpty, BasePcs, CandPcs
  <2>3. QED
    BY <2>1, <2>2 DEF TypeInv
<1>7. QED
  BY <1>1, <1>2, <1>4, <1>5, <1>6 DEF CreateStep

\* What a fault-free or failed promotion does to the disk.
LEMMA MoveHeadType ==
  ASSUME TypeInv, NEW c \in Clients, NEW synced \in BOOLEAN, MoveHead(c, synced)
  PROVE  /\ head' \in Rev /\ unsyncedHeads' \subseteq Rev /\ faults' \in Nat
         /\ UNCHANGED <<dirs, meta, installed, objects, unsyncedRevs, unsyncedObjs, clock>>
BY DEF MoveHead, TypeInv, TypeOK

LEMMA CommitTypeInv ==
  ASSUME TypeInv, NEW c \in Clients, PutArtifacts(c) \/ CommitStep(c)
  PROVE  TypeInv'
<1> USE DEF disk, sync, client
<1>1. ASSUME NEW k \in Kinds, NEW r \in Rev,
             Return(c, k, r), UNCHANGED <<disk, sync, clock, faults>>
      PROVE  TypeInv'
  BY <1>1, ReturnType DEF TypeInv, TypeOK
<1>2. <<>> \in Rev /\ head \in Rev /\ cand[c] \in Rev
  BY DEF Rev, TypeInv, TypeOK
<1>3. CASE PutArtifacts(c)
  <2>1. Tip(base[c]).arts \subseteq Objects
    BY <1>3, TipType DEF PutArtifacts, TypeInv, TypeOK, NonEmpty, BasePcs
  <2>2. PICK new \in (SUBSET Objects) \ {{}}, kept \in SUBSET Tip(base[c]).arts, noop \in BOOLEAN :
          plan' = [plan EXCEPT ![c] = [staged |-> new, arts |-> new \cup kept, noop |-> noop]]
    BY <1>3 DEF PutArtifacts
  <2>3. [staged |-> new, arts |-> new \cup kept, noop |-> noop] \in Plan
    BY <2>1 DEF Plan
  <2>4. TypeOK'
    BY <1>3, <2>2, <2>3 DEF PutArtifacts, TypeInv, TypeOK, Goto, Pcs
  <2>5. ASSUME NEW d \in Clients PROVE NonEmpty(d)'
    BY <1>3 DEF PutArtifacts, TypeInv, TypeOK, Goto, NonEmpty, BasePcs, CandPcs
  <2>6. QED
    BY <2>4, <2>5 DEF TypeInv
<1>4. CASE AcquireLock(c)
  <2>1. TypeOK'
    BY <1>4 DEF AcquireLock, TypeInv, TypeOK, Goto, Pcs, CommitPcs, MigratePcs
  <2>2. ASSUME NEW d \in Clients PROVE NonEmpty(d)'
    BY <1>4 DEF AcquireLock, TypeInv, TypeOK, Goto, NonEmpty, BasePcs, CandPcs
  <2>3. QED
    BY <2>1, <2>2 DEF TypeInv
<1>5. CASE LockTimeout(c)
  BY <1>1, <1>2, <1>5 DEF LockTimeout, Kinds
<1>6. CASE CommitConflict(c)
  BY <1>1, <1>2, <1>6 DEF CommitConflict, Kinds
<1>7. CASE CommitUnchanged(c)
  BY <1>1, <1>2, <1>7 DEF CommitUnchanged, Kinds
<1>8. CASE CommitCandidate(c)
  <2>1. head # <<>> /\ clock' \in Nat
    BY <1>8 DEF CommitCandidate, ChainInstalled, Tick, TypeInv, TypeOK
  <2>2. Tip(head).schema \in SchemaVersions
    BY <1>2, <2>1, TipType
  <2>3. plan[c].arts \in SUBSET Objects
    BY DEF TypeInv, TypeOK, Plan
  <2>4. DEFINE new == NewRevision(head, Tip(head).schema, plan[c].arts)
  <2>5. new \in Rev /\ new # <<>>
    BY <1>2, <2>1, <2>2, <2>3, NewRevisionType
  <2>6. cand' = [cand EXCEPT ![c] = new]
    BY <1>8 DEF CommitCandidate
  <2> HIDE DEF new
  <2>7. TypeOK'
    BY <1>8, <2>1, <2>5, <2>6 DEF CommitCandidate, TypeInv, TypeOK, Goto, Pcs, CommitPcs
  <2>8. ASSUME NEW d \in Clients PROVE NonEmpty(d)'
    BY <1>8, <2>5, <2>6 DEF CommitCandidate, TypeInv, TypeOK, Goto, NonEmpty, BasePcs, CandPcs
  <2>9. QED
    BY <2>7, <2>8 DEF TypeInv
<1>9. CASE InstallObject(c)
  <2>1. MissingObjects(c) \cap plan[c].staged \subseteq Objects
    BY DEF TypeInv, TypeOK, Plan
  <2>2. TypeOK'
    BY <1>9, <2>1 DEF InstallObject, TypeInv, TypeOK
  <2>3. ASSUME NEW d \in Clients PROVE NonEmpty(d)'
    BY <1>9 DEF InstallObject, TypeInv, NonEmpty
  <2>4. QED
    BY <2>2, <2>3 DEF TypeInv
<1>10. CASE ObjectsInstalled(c)
  <2>1. TypeOK'
    BY <1>10 DEF ObjectsInstalled, TypeInv, TypeOK, Goto, Pcs, CommitPcs
  <2>2. ASSUME NEW d \in Clients PROVE NonEmpty(d)'
    BY <1>10 DEF ObjectsInstalled, TypeInv, TypeOK, Goto, NonEmpty, BasePcs, CandPcs
  <2>3. QED
    BY <2>1, <2>2 DEF TypeInv
<1>11. CASE InstallRevision(c)
  <2>1. TypeOK'
    BY <1>2, <1>11 DEF InstallRevision, TypeInv, TypeOK, Goto, Pcs, CommitPcs, MigratePcs
  <2>2. ASSUME NEW d \in Clients PROVE NonEmpty(d)'
    BY <1>11 DEF InstallRevision, TypeInv, TypeOK, Goto, NonEmpty, BasePcs, CandPcs
  <2>3. QED
    BY <2>1, <2>2 DEF TypeInv
<1>12. CASE Promote(c)
  <2>1. PICK synced \in BOOLEAN :
          MoveHead(c, synced) /\ Return(c, IF synced THEN "committed" ELSE "warned", cand[c])
    BY <1>12 DEF Promote
  <2>2. (IF synced THEN "committed" ELSE "warned") \in Kinds
    BY DEF Kinds
  <2>3. QED
    BY <1>2, <2>1, <2>2, ReturnType, MoveHeadType DEF TypeInv, TypeOK
<1>13. QED
  BY <1>3, <1>4, <1>5, <1>6, <1>7, <1>8, <1>9, <1>10, <1>11, <1>12 DEF CommitStep

LEMMA MigrateTypeInv ==
  ASSUME TypeInv, NEW c \in Clients, MigrateSteps(c)
  PROVE  TypeInv'
<1> USE DEF disk, sync, client
<1>1. base[c] \in Rev /\ cand[c] \in Rev /\ head \in Rev /\ <<>> \in Rev
  BY DEF TypeInv, TypeOK, Rev
<1>2. CASE MigrateCheck(c)
  <2>1. CASE Tip(head).schema = ImportSchema
    BY <1>1, <1>2, <2>1, ReturnType DEF MigrateCheck, TypeInv, TypeOK, Kinds
  <2>2. CASE Tip(head).schema # ImportSchema
    <3>1. TypeOK'
      BY <1>2, <2>2 DEF MigrateCheck, TypeInv, TypeOK, Goto, Pcs, MigratePcs
    <3>2. ASSUME NEW d \in Clients PROVE NonEmpty(d)'
      BY <1>2, <2>2
      DEF MigrateCheck, ChainInstalled, TypeInv, TypeOK, Goto, NonEmpty, BasePcs, CandPcs
    <3>3. QED
      BY <3>1, <3>2 DEF TypeInv
  <2>3. QED
    BY <2>1, <2>2
<1>3. CASE MigrateStep(c)
  <2>1. base[c] # <<>>
    BY <1>3 DEF MigrateStep, TypeInv, NonEmpty, BasePcs
  <2>2. Tip(base[c]).schema + 1 \in SchemaVersions /\ Tip(base[c]).arts \subseteq Objects
    BY <1>1, <1>3, <2>1, TipType DEF MigrateStep, SchemaVersions, CurrentSchema
  <2>3. clock' \in Nat
    BY <1>3 DEF MigrateStep, Tick, TypeInv, TypeOK
  <2>4. PICK kept \in SUBSET Tip(base[c]).arts :
          cand' = [cand EXCEPT ![c] = NewRevision(base[c], Tip(base[c]).schema + 1, kept)]
    BY <1>3 DEF MigrateStep
  <2>5. DEFINE new == NewRevision(base[c], Tip(base[c]).schema + 1, kept)
  <2>6. new \in Rev /\ new # <<>>
    BY <1>1, <2>2, <2>3, NewRevisionType
  <2>7. cand' = [cand EXCEPT ![c] = new]
    BY <2>4
  <2> HIDE DEF new
  <2>8. TypeOK'
    BY <1>3, <2>3, <2>6, <2>7 DEF MigrateStep, TypeInv, TypeOK, Goto, Pcs, MigratePcs
  <2>9. ASSUME NEW d \in Clients PROVE NonEmpty(d)'
    BY <1>3, <2>6, <2>7 DEF MigrateStep, TypeInv, TypeOK, Goto, NonEmpty, BasePcs, CandPcs
  <2>10. QED
    BY <2>8, <2>9 DEF TypeInv
<1>4. CASE MigratePromote(c)
  <2>1. PICK synced \in BOOLEAN :
          /\ MoveHead(c, synced)
          /\ result' = [result EXCEPT ![c] =
               Report(IF synced /\ result[c].kind # "warned" THEN "committed" ELSE "warned",
                      cand[c])]
    BY <1>4 DEF MigratePromote
  <2>2. Report(IF synced /\ result[c].kind # "warned" THEN "committed" ELSE "warned", cand[c])
          \in Result
    BY <1>1 DEF Report, Result, Kinds
  <2>3. cand[c] # <<>>
    BY <1>4 DEF MigratePromote, TypeInv, NonEmpty, CandPcs
  <2>4. TypeOK'
    BY <1>1, <1>4, <2>1, <2>2, MoveHeadType
    DEF MigratePromote, TypeInv, TypeOK, Goto, Pcs, MigratePcs
  <2>5. ASSUME NEW d \in Clients PROVE NonEmpty(d)'
    BY <1>4, <2>3 DEF MigratePromote, TypeInv, TypeOK, Goto, NonEmpty, BasePcs, CandPcs
  <2>6. QED
    BY <2>4, <2>5 DEF TypeInv
<1>5. CASE MigrateDone(c)
  <2>1. (IF result[c].kind = "none" THEN "unchanged" ELSE result[c].kind) \in Kinds
    BY DEF TypeInv, TypeOK, Result, Kinds
  <2>2. QED
    BY <1>1, <1>5, <2>1, ReturnType DEF MigrateDone, TypeInv, TypeOK
<1>6. QED
  BY <1>2, <1>3, <1>4, <1>5 DEF MigrateSteps

LEMMA StopType ==
  ASSUME TypeInv, NEW c \in Clients, Stop(c)
  PROVE  /\ faults' \in Nat
         /\ lock' \in Clients \cup {NoClient}
         /\ pc' \in [Clients -> Pcs]
         /\ want' \in [Clients -> SchemaVersions]
         /\ base' \in [Clients -> Rev] /\ cand' \in [Clients -> Rev]
         /\ plan' \in [Clients -> Plan]
         /\ result' \in [Clients -> Result]
         /\ \A d \in Clients : NonEmpty(d)'
<1>1. PICK k \in Kinds : Return(c, k, cand[c])
  BY DEF Stop, Kinds
<1>2. cand[c] \in Rev /\ faults' \in Nat
  BY DEF Stop, TypeInv, TypeOK
<1>3. QED
  BY <1>1, <1>2, ReturnType

LEMMA FaultTypeInv ==
  ASSUME TypeInv, NEW c \in Clients, Fault(c)
  PROVE  TypeInv'
<1> USE DEF disk, sync
<1>1. cand[c] \in Rev /\ Root(want[c]) \in Rev
  BY RootType DEF TypeInv, TypeOK
<1>2. CASE Halt(c)
  BY <1>2, StopType DEF Halt, TypeInv, TypeOK
<1>3. CASE HaltInObject(c)
  <2>1. MissingObjects(c) \cap plan[c].staged \subseteq Objects
    BY DEF TypeInv, TypeOK, Plan
  <2>2. QED
    BY <1>3, <2>1, StopType DEF HaltInObject, TypeInv, TypeOK
<1>4. CASE HaltInRevision(c)
  BY <1>1, <1>4, StopType DEF HaltInRevision, TypeInv, TypeOK
<1>5. CASE HaltInCreate(c)
  <2>1. /\ head' \in Rev /\ installed' \subseteq Rev
        /\ unsyncedRevs' \subseteq Rev /\ unsyncedHeads' \subseteq Rev
    BY <1>1, <1>5 DEF HaltInCreate, TypeInv, TypeOK
  <2>2. Stop(c) /\ UNCHANGED <<dirs, meta, objects, unsyncedObjs, clock>>
    BY <1>5 DEF HaltInCreate
  <2>3. QED
    BY <2>1, <2>2, StopType DEF TypeInv, TypeOK
<1>6. CASE KilledAfterHead(c)
  <2>1. "killed" \in Kinds
    BY DEF Kinds
  <2>2. Return(c, "killed", cand[c])
    BY <1>6 DEF KilledAfterHead
  <2>3. QED
    BY <1>1, <1>6, <2>1, <2>2, ReturnType DEF KilledAfterHead, TypeInv, TypeOK
<1>7. QED
  BY <1>2, <1>3, <1>4, <1>5, <1>6 DEF Fault

LEMMA PowerTypeInv ==
  ASSUME TypeInv, PowerLoss
  PROVE  TypeInv'
<1>1. <<>> \in Rev /\ "idle" \in Pcs /\ CurrentSchema \in SchemaVersions
  BY DEF Rev, Pcs, CurrentSchema, SchemaVersions
<1>2. NoPlan \in Plan
  BY DEF NoPlan, Plan
<1>3. \A c \in Clients : Report("killed", cand[c]) \in Result
  BY DEF TypeInv, TypeOK, Report, Result, Kinds
<1>4. TypeOK'
  BY <1>1, <1>2, <1>3 DEF PowerLoss, TypeInv, TypeOK
<1>5. \A c \in Clients : NonEmpty(c)'
  BY DEF PowerLoss, NonEmpty, BasePcs, CandPcs
<1>6. QED
  BY <1>4, <1>5 DEF TypeInv

LEMMA NextTypeInv == TypeInv /\ [Next]_vars => TypeInv'
<1> SUFFICES ASSUME TypeInv, [Next]_vars PROVE TypeInv'
  OBVIOUS
<1>1. CASE UNCHANGED vars
  BY <1>1 DEF vars, disk, sync, client, TypeInv, TypeOK, NonEmpty
<1>2. CASE PowerLoss
  BY <1>2, PowerTypeInv
<1>3. ASSUME NEW c \in Clients, Start(c) \/ Work(c) \/ Fault(c)
      PROVE  TypeInv'
  BY <1>3, StartTypeInv, CreateTypeInv, CommitTypeInv, MigrateTypeInv, FaultTypeInv DEF Work
<1>4. QED
  BY <1>1, <1>2, <1>3 DEF Next

(* Every variable keeps its type: a client that reads the tip of its base, *)
(* or promotes its candidate, has one.                                     *)
THEOREM TypeCorrect == Spec => []TypeOK
<1>1. TypeInv => TypeOK
  BY DEF TypeInv
<1>2. QED
  BY <1>1, InitTypeInv, NextTypeInv, PTL DEF Spec

-----------------------------------------------------------------------------
(* HEAD is complete                                                        *)

\* A power loss takes away what no fsync covered.  That hurts once a commit has
\* stopped half way, so the theorem asks that not both kinds of fault happen.
NoTornPower == "power" \in Faults => Faults \cap {"kill", "oserror"} = {}

\* One more entry on a complete history.
Derived(r) == \E b \in Rev, e \in Entry : Intact(b) /\ r = Append(b, e)

\* What each client has made sure of before it moves HEAD.
Ready(c) ==
  /\ pc[c] = "write_head" => Root(want[c]) \in installed
  /\ pc[c] = "migrate_step" => Intact(base[c])
  /\ pc[c] \in {"objects", "revision", "migrate_revision"} => Derived(cand[c])
  /\ pc[c] \in {"revision", "migrate_revision"} => Tip(cand[c]).arts \subseteq objects
  /\ pc[c] \in {"promote", "migrate_promote"} => Intact(cand[c])

\* What a power loss would find.
SafeOnDisk ==
  "power" \in Faults =>
    /\ unsyncedRevs = {} /\ unsyncedObjs = {}
    /\ \A h \in unsyncedHeads : h = <<>> \/ Intact(h)

FilesInv == TypeInv /\ HeadIntact /\ SafeOnDisk /\ \A c \in Clients : Ready(c)

\* A complete revision stays complete while files are only added.
LEMMA IntactStays ==
  ASSUME NEW r, Intact(r), installed \subseteq installed', objects \subseteq objects'
  PROVE  /\ r # <<>>
         /\ \A n \in 1..Len(r) : SubSeq(r, 1, n) \in installed'
         /\ \A n \in 1..Len(r) : r[n].arts \subseteq objects'
BY DEF Intact, ChainInstalled

\* A derived revision is complete once it is installed and its objects are.
LEMMA DerivedIntact ==
  ASSUME NEW r \in Rev, Derived(r), Tip(r).arts \subseteq objects', r \in installed',
         installed \subseteq installed', objects \subseteq objects'
  PROVE  /\ r # <<>>
         /\ \A n \in 1..Len(r) : SubSeq(r, 1, n) \in installed'
         /\ \A n \in 1..Len(r) : r[n].arts \subseteq objects'
<1>1. PICK b \in Rev, e \in Entry : Intact(b) /\ r = Append(b, e)
  BY DEF Derived
<1>2. /\ Len(b) \in Nat /\ Len(r) = Len(b) + 1 /\ r # <<>>
      /\ \A i \in 1..Len(b) : r[i] = b[i]
      /\ r[Len(b) + 1] = e
  BY <1>1, AppendProperties, LenProperties DEF Rev
<1>3. ASSUME NEW n \in 1..Len(r)
      PROVE  SubSeq(r, 1, n) \in installed' /\ r[n].arts \subseteq objects'
  <2>1. CASE n = Len(r)
    <3>1. SubSeq(r, 1, n) = r
      BY <2>1, SubSeqFull DEF Rev
    <3>2. QED
      BY <2>1, <3>1 DEF Tip
  <2>2. CASE n # Len(r)
    <3>1. n \in 1..Len(b)
      BY <1>2, <2>2
    <3>2. e \in Entry /\ <<e>> \in Seq(Entry) /\ r = b \o <<e>>
      BY <1>1, AppendIsConcat DEF Rev
    <3>3. 1 \in 1..Len(b)
      BY <1>2, <3>1
    <3>4. SubSeq(r, 1, n) = SubSeq(b, 1, n)
      BY <3>1, <3>2, <3>3, SubSeqOfConcat1 DEF Rev
    <3>5. SubSeq(b, 1, n) \in installed /\ b[n].arts \subseteq objects
      BY <1>1, <3>1 DEF Intact, ChainInstalled
    <3>6. QED
      BY <1>2, <3>1, <3>4, <3>5
  <2>3. QED
    BY <2>1, <2>2
<1>4. QED
  BY <1>2, <1>3

\* The init revision is complete once it is installed: it references nothing.
LEMMA RootIntact ==
  ASSUME NEW s \in SchemaVersions, Root(s) \in installed'
  PROVE  /\ Root(s) # <<>>
         /\ \A n \in 1..Len(Root(s)) : SubSeq(Root(s), 1, n) \in installed'
         /\ \A n \in 1..Len(Root(s)) : Root(s)[n].arts \subseteq objects'
<1>1. Root(s) \in Seq(Entry) /\ Len(Root(s)) = 1 /\ Root(s)[1].arts = {}
  BY DEF Root, Entry
<1>2. SubSeq(Root(s), 1, Len(Root(s))) = Root(s)
  BY <1>1, SubSeqFull
<1>3. Root(s) # <<>>
  BY <1>1, EmptySeq
<1>4. ASSUME NEW n \in 1..Len(Root(s))
      PROVE  SubSeq(Root(s), 1, n) \in installed' /\ Root(s)[n].arts \subseteq objects'
  <2>1. n = Len(Root(s)) /\ n = 1
    BY <1>1
  <2>2. SubSeq(Root(s), 1, n) = Root(s) /\ Root(s)[n].arts = {}
    BY <1>1, <1>2, <2>1
  <2>3. QED
    BY <2>2
<1>5. QED
  BY <1>3, <1>4

\* A client that takes no step keeps what it made sure of.
LEMMA OtherReady ==
  ASSUME TypeInv, NEW d \in Clients, Ready(d),
         installed \subseteq installed', objects \subseteq objects',
         pc'[d] = pc[d], want'[d] = want[d], base'[d] = base[d], cand'[d] = cand[d]
  PROVE  Ready(d)'
<1>1. Intact(base[d]) => Intact(base[d])'
  BY IntactStays DEF Intact, ChainInstalled
<1>2. Intact(cand[d]) => Intact(cand[d])'
  BY IntactStays DEF Intact, ChainInstalled
<1>3. Derived(cand[d]) => Derived(cand[d])'
  BY IntactStays DEF Derived, Intact, ChainInstalled
<1>4. QED
  BY <1>1, <1>2, <1>3 DEF Ready

\* What a step of client c has to show.
LEMMA FilesFrame ==
  ASSUME FilesInv, TypeInv', NEW c \in Clients, Ready(c)',
         installed \subseteq installed', objects \subseteq objects',
         \A d \in Clients \ {c} : /\ pc'[d] = pc[d] /\ want'[d] = want[d]
                                  /\ base'[d] = base[d] /\ cand'[d] = cand[d],
         head' = head \/ Intact(head)',
         "power" \in Faults => /\ unsyncedRevs' \subseteq unsyncedRevs
                               /\ unsyncedObjs' \subseteq unsyncedObjs
                               /\ unsyncedHeads' \subseteq unsyncedHeads \cup {head}
  PROVE  FilesInv'
<1>1. HeadIntact'
  BY IntactStays DEF FilesInv, HeadIntact, Intact, ChainInstalled
<1>2. SafeOnDisk'
  <2>1. SUFFICES ASSUME "power" \in Faults
                 PROVE  /\ unsyncedRevs' = {} /\ unsyncedObjs' = {}
                        /\ \A h \in unsyncedHeads' : h = <<>> \/ Intact(h)'
    BY DEF SafeOnDisk
  <2>2. ASSUME NEW h \in unsyncedHeads'
        PROVE  h = <<>> \/ Intact(h)'
    <3>1. h = <<>> \/ Intact(h)
      BY <2>1 DEF FilesInv, SafeOnDisk, HeadIntact
    <3>2. QED
      BY <3>1, IntactStays DEF Intact, ChainInstalled
  <2>3. QED
    BY <2>1, <2>2 DEF FilesInv, SafeOnDisk
<1>3. ASSUME NEW d \in Clients PROVE Ready(d)'
  BY <1>3, OtherReady DEF FilesInv
<1>4. QED
  BY <1>1, <1>2, <1>3 DEF FilesInv

LEMMA InitFilesInv == Init => FilesInv
BY InitTypeInv DEF Init, FilesInv, HeadIntact, SafeOnDisk, Ready

\* A client whose operation ends has nothing left to make sure of.
LEMMA ReturnReady ==
  ASSUME TypeInv, NEW c \in Clients, NEW k, NEW r, Return(c, k, r)
  PROVE  /\ Ready(c)'
         /\ \A d \in Clients \ {c} : /\ pc'[d] = pc[d] /\ want'[d] = want[d]
                                     /\ base'[d] = base[d] /\ cand'[d] = cand[d]
BY DEF Return, Goto, Ready, TypeInv, TypeOK

LEMMA StartFilesInv ==
  ASSUME FilesInv, TypeInv', NEW c \in Clients, Start(c)
  PROVE  FilesInv'
<1> USE DEF disk, sync, client
<1>1. UNCHANGED <<disk, sync>>
  BY DEF Start, CreateStarts, CreateRefused, Open, OpenFails, Begin, BeginConflict,
         MigrateBegin, Close
<1>2. Ready(c)' /\ \A d \in Clients \ {c} : /\ pc'[d] = pc[d] /\ want'[d] = want[d]
                                            /\ base'[d] = base[d] /\ cand'[d] = cand[d]
  <2>1. CASE \E k \in Kinds : Return(c, k, <<>>)
    BY <2>1, ReturnReady DEF FilesInv
  <2>2. CASE CreateStarts(c) \/ Open(c) \/ Begin(c) \/ MigrateBegin(c)
    BY <2>2 DEF CreateStarts, Open, Begin, MigrateBegin, Goto, Ready, FilesInv, TypeInv, TypeOK
  <2>3. QED
    BY <2>1, <2>2 DEF Start, CreateRefused, OpenFails, BeginConflict, Close, Kinds
<1>3. QED
  BY <1>1, <1>2, FilesFrame

LEMMA CreateFilesInv ==
  ASSUME FilesInv, TypeInv', NEW c \in Clients, CreateStep(c)
  PROVE  FilesInv'
<1> USE DEF disk, sync, client
<1>1. CASE MakeDirs(c) \/ WriteMeta(c)
  <2>1. Ready(c)' /\ UNCHANGED <<head, installed, objects, sync, want, base, cand>>
    BY <1>1 DEF MakeDirs, WriteMeta, Goto, Ready, FilesInv, TypeInv, TypeOK
  <2>2. \A d \in Clients \ {c} : pc'[d] = pc[d]
    BY <1>1 DEF MakeDirs, WriteMeta, Goto, FilesInv, TypeInv, TypeOK
  <2>3. QED
    BY <2>1, <2>2, FilesFrame
<1>2. CASE InstallRoot(c)
  <2>1. Ready(c)' /\ UNCHANGED <<head, objects, unsyncedObjs, unsyncedHeads, want, base, cand>>
    BY <1>2 DEF InstallRoot, Goto, Ready, FilesInv, TypeInv, TypeOK
  <2>2. \A d \in Clients \ {c} : pc'[d] = pc[d]
    BY <1>2 DEF InstallRoot, Goto, FilesInv, TypeInv, TypeOK
  <2>3. QED
    BY <1>2, <2>1, <2>2, FilesFrame DEF InstallRoot
<1>3. CASE RootExists(c)
  <2>1. Return(c, "failed", <<>>) /\ UNCHANGED <<disk, sync>>
    BY <1>3 DEF RootExists
  <2>2. QED
    BY <2>1, ReturnReady, FilesFrame DEF FilesInv
<1>4. CASE WriteHead(c)
  <2>1. Root(want[c]) \in installed /\ want[c] \in SchemaVersions
    BY <1>4 DEF WriteHead, FilesInv, Ready, TypeInv, TypeOK
  <2>2. UNCHANGED <<installed, objects, unsyncedRevs, unsyncedObjs, want, base, cand>>
    BY <1>4 DEF WriteHead
  <2>3. Intact(head)'
    BY <1>4, <2>1, <2>2, RootIntact DEF WriteHead, Intact, ChainInstalled
  <2>4. Ready(c)' /\ \A d \in Clients \ {c} : pc'[d] = pc[d]
    BY <1>4 DEF WriteHead, Goto, Ready, FilesInv, TypeInv, TypeOK
  <2>5. QED
    BY <1>4, <2>2, <2>3, <2>4, FilesFrame DEF WriteHead
<1>5. QED
  BY <1>1, <1>2, <1>3, <1>4 DEF CreateStep

\* Moving HEAD to a complete candidate.
LEMMA MoveHeadFiles ==
  ASSUME FilesInv, NEW c \in Clients, NEW synced \in BOOLEAN,
         MoveHead(c, synced), Intact(cand[c])
  PROVE  /\ UNCHANGED <<installed, objects, unsyncedRevs, unsyncedObjs>>
         /\ unsyncedHeads' \subseteq unsyncedHeads \cup {head}
         /\ Intact(head)'
BY IntactStays DEF MoveHead, Intact, ChainInstalled

LEMMA CommitFilesInv ==
  ASSUME FilesInv, TypeInv', NEW c \in Clients, PutArtifacts(c) \/ CommitStep(c)
  PROVE  FilesInv'
<1> USE DEF disk, sync, client
<1>1. ASSUME NEW k, NEW r, Return(c, k, r), UNCHANGED <<disk, sync>>
      PROVE  FilesInv'
  BY <1>1, ReturnReady, FilesFrame DEF FilesInv
<1>2. CASE PutArtifacts(c) \/ AcquireLock(c)
  <2>1. Ready(c)' /\ UNCHANGED <<disk, sync, want, base, cand>>
    BY <1>2 DEF PutArtifacts, AcquireLock, Goto, Ready, FilesInv, TypeInv, TypeOK
  <2>2. \A d \in Clients \ {c} : pc'[d] = pc[d]
    BY <1>2 DEF PutArtifacts, AcquireLock, Goto, FilesInv, TypeInv, TypeOK
  <2>3. QED
    BY <2>1, <2>2, FilesFrame
<1>3. CASE LockTimeout(c) \/ CommitConflict(c) \/ CommitUnchanged(c)
  BY <1>1, <1>3 DEF LockTimeout, CommitConflict, CommitUnchanged
<1>4. CASE CommitCandidate(c)
  <2>1. Intact(head) /\ head \in Rev /\ head # <<>>
    BY <1>4 DEF CommitCandidate, ChainInstalled, FilesInv, HeadIntact, TypeInv, TypeOK
  <2>2. clock' \in Nat
    BY <1>4 DEF CommitCandidate, Tick, FilesInv, TypeInv, TypeOK
  <2>3. DEFINE e == [schema |-> Tip(head).schema, arts |-> plan[c].arts, stamp |-> clock']
  <2>4. e \in Entry
    BY <2>1, <2>2, TipType DEF Entry, FilesInv, TypeInv, TypeOK, Plan
  <2>5. cand' = [cand EXCEPT ![c] = Append(head, e)]
    BY <1>4 DEF CommitCandidate, NewRevision
  <2> HIDE DEF e
  <2>6. UNCHANGED <<disk, sync, want, base>>
    BY <1>4 DEF CommitCandidate
  <2>7. pc' = [pc EXCEPT ![c] = "objects"]
    BY <1>4 DEF CommitCandidate, Goto
  <2>8. \A d \in Clients \ {c} : pc'[d] = pc[d] /\ cand'[d] = cand[d]
    BY <2>5, <2>7 DEF FilesInv, TypeInv, TypeOK
  <2>9. pc'[c] = "objects" /\ cand'[c] = Append(head, e)
    BY <2>5, <2>7 DEF FilesInv, TypeInv, TypeOK
  <2>10. Derived(cand[c])'
    BY <2>1, <2>4, <2>6, <2>9, IntactStays DEF Derived, Intact, ChainInstalled
  <2>11. Ready(c)'
    BY <2>9, <2>10 DEF Ready
  <2>12. QED
    BY <2>6, <2>8, <2>11, FilesFrame
<1>5. CASE InstallObject(c)
  <2>1. /\ UNCHANGED <<head, installed, sync, pc, want, base, cand>>
        /\ objects \subseteq objects'
    BY <1>5 DEF InstallObject
  <2>2. Ready(c)'
    BY <2>1, OtherReady DEF FilesInv
  <2>3. QED
    BY <2>1, <2>2, FilesFrame
<1>6. CASE ObjectsInstalled(c)
  <2>1. UNCHANGED <<disk, sync, want, base, cand>> /\ pc' = [pc EXCEPT ![c] = "revision"]
    BY <1>6 DEF ObjectsInstalled, Goto
  <2>2. \A d \in Clients \ {c} : pc'[d] = pc[d]
    BY <2>1 DEF FilesInv, TypeInv, TypeOK
  <2>3. Derived(cand[c]) /\ Tip(cand[c]).arts \subseteq objects
    BY <1>6 DEF ObjectsInstalled, MissingObjects, FilesInv, Ready
  <2>4. Derived(cand[c])'
    BY <2>1, <2>3 DEF Derived, Intact, ChainInstalled
  <2>5. pc'[c] = "revision" /\ Tip(cand'[c]).arts \subseteq objects'
    BY <2>1, <2>3 DEF FilesInv, TypeInv, TypeOK
  <2>6. Ready(c)'
    BY <2>4, <2>5 DEF Ready, Tip
  <2>7. QED
    BY <2>1, <2>2, <2>6, FilesFrame
<1>7. CASE InstallRevision(c)
  <2>1. /\ UNCHANGED <<head, objects, unsyncedObjs, unsyncedHeads, want, base, cand>>
        /\ installed' = installed \cup {cand[c]} /\ unsyncedRevs' = {}
    BY <1>7 DEF InstallRevision
  <2>2. pc[c] \in {"revision", "migrate_revision"}
    BY <1>7 DEF InstallRevision
  <2>3. pc'[c] \in {"promote", "migrate_promote"} /\ \A d \in Clients \ {c} : pc'[d] = pc[d]
    BY <1>7 DEF InstallRevision, Goto, FilesInv, TypeInv, TypeOK
  <2>4. cand[c] \in Rev /\ Derived(cand[c]) /\ Tip(cand[c]).arts \subseteq objects
    BY <2>2 DEF FilesInv, Ready, TypeInv, TypeOK
  <2>5. Intact(cand[c])'
    BY <2>1, <2>4, DerivedIntact DEF Intact, ChainInstalled
  <2>6. Ready(c)'
    BY <2>3, <2>5 DEF Ready
  <2>7. QED
    BY <2>1, <2>3, <2>6, FilesFrame
<1>8. CASE Promote(c)
  <2>1. PICK synced \in BOOLEAN, k \in {"committed", "warned"} : MoveHead(c, synced) /\ Return(c, k, cand[c])
    BY <1>8 DEF Promote
  <2>2. Intact(cand[c])
    BY <1>8 DEF Promote, FilesInv, Ready
  <2>3. QED
    BY <2>1, <2>2, MoveHeadFiles, ReturnReady, FilesFrame DEF FilesInv
<1>9. QED
  BY <1>2, <1>3, <1>4, <1>5, <1>6, <1>7, <1>8 DEF CommitStep

LEMMA MigrateFilesInv ==
  ASSUME FilesInv, TypeInv', NEW c \in Clients, MigrateSteps(c)
  PROVE  FilesInv'
<1> USE DEF disk, sync, client
<1>1. ASSUME NEW k, NEW r, Return(c, k, r), UNCHANGED <<disk, sync>>
      PROVE  FilesInv'
  BY <1>1, ReturnReady, FilesFrame DEF FilesInv
<1>2. CASE MigrateCheck(c)
  <2>1. CASE Tip(head).schema = ImportSchema
    BY <1>1, <1>2, <2>1 DEF MigrateCheck
  <2>2. CASE Tip(head).schema # ImportSchema
    <3>1. UNCHANGED <<disk, sync, want, base, cand>> /\ pc' = [pc EXCEPT ![c] = "migrate_step"]
      BY <1>2, <2>2 DEF MigrateCheck, Goto
    <3>2. base[c] = head /\ Intact(head)
      BY <1>2 DEF MigrateCheck, ChainInstalled, FilesInv, HeadIntact
    <3>3. pc'[c] = "migrate_step" /\ \A d \in Clients \ {c} : pc'[d] = pc[d]
      BY <3>1 DEF FilesInv, TypeInv, TypeOK
    <3>4. Intact(base[c])'
      BY <3>1, <3>2 DEF Intact, ChainInstalled
    <3>5. Ready(c)'
      BY <3>3, <3>4 DEF Ready
    <3>6. QED
      BY <3>1, <3>3, <3>5, FilesFrame
  <2>3. QED
    BY <2>1, <2>2
<1>3. CASE MigrateStep(c)
  <2>1. base[c] \in Rev /\ base[c] # <<>> /\ Intact(base[c])
    BY <1>3 DEF MigrateStep, FilesInv, Ready, TypeInv, TypeOK, NonEmpty, BasePcs
  <2>2. Len(base[c]) \in Nat \ {0} /\ Tip(base[c]) \in Entry
    BY <2>1, TipType
  <2>3. Tip(base[c]).arts \subseteq objects
    BY <2>1, <2>2 DEF Intact, Tip
  <2>4. PICK kept \in SUBSET Tip(base[c]).arts :
          cand' = [cand EXCEPT ![c] = NewRevision(base[c], Tip(base[c]).schema + 1, kept)]
    BY <1>3 DEF MigrateStep
  <2>5. DEFINE e == [schema |-> Tip(base[c]).schema + 1, arts |-> kept, stamp |-> clock']
  <2>6. e \in Entry
    <3>1. Tip(base[c]).schema + 1 \in SchemaVersions
      BY <1>3, <2>2 DEF MigrateStep, Entry, SchemaVersions, CurrentSchema
    <3>2. clock' \in Nat
      BY <1>3 DEF MigrateStep, Tick, FilesInv, TypeInv, TypeOK
    <3>3. kept \subseteq Objects
      BY <2>3 DEF FilesInv, TypeInv, TypeOK
    <3>4. QED
      BY <3>1, <3>2, <3>3 DEF Entry
  <2>7. e.arts \subseteq objects
    BY <2>3
  <2>8. cand' = [cand EXCEPT ![c] = Append(base[c], e)]
    BY <2>4 DEF NewRevision
  <2> HIDE DEF e
  <2>9. UNCHANGED <<disk, sync, want, base>> /\ pc' = [pc EXCEPT ![c] = "migrate_revision"]
    BY <1>3 DEF MigrateStep, Goto
  <2>10. \A d \in Clients \ {c} : pc'[d] = pc[d] /\ cand'[d] = cand[d]
    BY <2>8, <2>9 DEF FilesInv, TypeInv, TypeOK
  <2>11. pc'[c] = "migrate_revision" /\ cand'[c] = Append(base[c], e)
    BY <2>8, <2>9 DEF FilesInv, TypeInv, TypeOK
  <2>12. Derived(cand[c])'
    BY <2>1, <2>6, <2>9, <2>11 DEF Derived, Intact, ChainInstalled
  <2>13. Tip(Append(base[c], e)) = e
    BY <2>1, <2>6, AppendProperties DEF Tip, Rev
  <2>14. Tip(cand[c])'.arts \subseteq objects'
    BY <2>7, <2>9, <2>11, <2>13 DEF Tip
  <2>15. Ready(c)'
    BY <2>11, <2>12, <2>14 DEF Ready
  <2>16. QED
    BY <2>9, <2>10, <2>15, FilesFrame
<1>4. CASE MigratePromote(c)
  <2>1. PICK synced \in BOOLEAN : MoveHead(c, synced)
    BY <1>4 DEF MigratePromote
  <2>2. Intact(cand[c])
    BY <1>4 DEF MigratePromote, FilesInv, Ready
  <2>3. /\ pc' = [pc EXCEPT ![c] = "migrate_step"] /\ want' = want
        /\ base' = [base EXCEPT ![c] = cand[c]] /\ cand' = [cand EXCEPT ![c] = <<>>]
    BY <1>4 DEF MigratePromote, Goto
  <2>4. pc'[c] = "migrate_step" /\ base'[c] = cand[c]
    BY <2>3 DEF FilesInv, TypeInv, TypeOK
  <2>5. \A d \in Clients \ {c} : /\ pc'[d] = pc[d] /\ want'[d] = want[d]
                                 /\ base'[d] = base[d] /\ cand'[d] = cand[d]
    BY <2>3 DEF FilesInv, TypeInv, TypeOK
  <2>6. Intact(base[c])'
    BY <2>1, <2>2, <2>4, MoveHeadFiles DEF Intact, ChainInstalled
  <2>7. Ready(c)'
    BY <2>4, <2>6 DEF Ready
  <2>8. QED
    BY <2>1, <2>2, <2>5, <2>7, MoveHeadFiles, FilesFrame
<1>5. CASE MigrateDone(c)
  BY <1>1, <1>5 DEF MigrateDone
<1>6. QED
  BY <1>2, <1>3, <1>4, <1>5 DEF MigrateSteps

LEMMA FaultFilesInv ==
  ASSUME NoTornPower, FilesInv, TypeInv', NEW c \in Clients, Fault(c)
  PROVE  FilesInv'
<1> USE DEF disk, sync
<1>1. "power" \notin Faults
  BY DEF Fault, Halt, HaltInObject, HaltInRevision, HaltInCreate, KilledAfterHead, Stop,
         NoTornPower
<1>2. PICK k : Return(c, k, cand[c])
  BY DEF Fault, Halt, HaltInObject, HaltInRevision, HaltInCreate, KilledAfterHead, Stop
<1>3. installed \subseteq installed' /\ objects \subseteq objects'
  BY DEF Fault, Halt, HaltInObject, HaltInRevision, HaltInCreate, KilledAfterHead
<1>4. head' = head \/ Intact(head)'
  <2>1. CASE HaltInCreate(c) /\ head' # head
    <3>1. head' = Root(want[c]) /\ Root(want[c]) \in installed /\ want[c] \in SchemaVersions
      BY <2>1 DEF HaltInCreate, FilesInv, Ready, TypeInv, TypeOK
    <3>2. QED
      BY <1>3, <3>1, RootIntact DEF Intact, ChainInstalled
  <2>2. CASE KilledAfterHead(c)
    <3>1. head' = cand[c] /\ Intact(cand[c])
      BY <2>2 DEF KilledAfterHead, FilesInv, Ready
    <3>2. QED
      BY <1>3, <3>1, IntactStays DEF Intact, ChainInstalled
  <2>3. CASE Halt(c) \/ HaltInObject(c) \/ HaltInRevision(c)
    BY <2>3 DEF Halt, HaltInObject, HaltInRevision
  <2>4. QED
    BY <2>1, <2>2, <2>3 DEF Fault
<1>5. QED
  BY <1>1, <1>2, <1>3, <1>4, ReturnReady, FilesFrame DEF FilesInv

LEMMA PowerFilesInv ==
  ASSUME FilesInv, TypeInv', PowerLoss
  PROVE  FilesInv'
<1>1. "power" \in Faults /\ unsyncedRevs = {} /\ unsyncedObjs = {}
  BY DEF PowerLoss, FilesInv, SafeOnDisk
<1>2. installed' = installed /\ objects' = objects
  BY <1>1 DEF PowerLoss
<1>3. head' \in {head} \cup unsyncedHeads
  BY DEF PowerLoss
<1>4. HeadIntact'
  BY <1>1, <1>2, <1>3 DEF FilesInv, SafeOnDisk, HeadIntact, Intact, ChainInstalled
<1>5. SafeOnDisk' /\ \A c \in Clients : Ready(c)'
  BY DEF PowerLoss, SafeOnDisk, Ready
<1>6. QED
  BY <1>4, <1>5 DEF FilesInv

LEMMA NextFilesInv ==
  ASSUME NoTornPower
  PROVE  FilesInv /\ [Next]_vars => FilesInv'
<1> SUFFICES ASSUME FilesInv, [Next]_vars PROVE FilesInv'
  OBVIOUS
<1>1. TypeInv'
  BY NextTypeInv DEF FilesInv
<1>2. CASE UNCHANGED vars
  BY <1>1, <1>2 DEF vars, disk, sync, client, FilesInv, HeadIntact, SafeOnDisk, Ready, Intact,
                    ChainInstalled, Derived
<1>3. CASE PowerLoss
  BY <1>1, <1>3, PowerFilesInv
<1>4. ASSUME NEW c \in Clients, Start(c) \/ Work(c) \/ Fault(c)
      PROVE  FilesInv'
  BY <1>1, <1>4, StartFilesInv, CreateFilesInv, CommitFilesInv, MigrateFilesInv, FaultFilesInv
  DEF Work
<1>5. QED
  BY <1>2, <1>3, <1>4 DEF Next

(* Whatever died or failed, and in whatever order, the revision that HEAD  *)
(* names has its whole chain installed and every object of the chain on    *)
(* disk, unless power is lost after a process stopped half way.            *)
THEOREM HeadStaysIntact ==
  ASSUME NoTornPower
  PROVE  Spec => []HeadIntact
<1>1. FilesInv => HeadIntact
  BY DEF FilesInv
<1>2. QED
  BY <1>1, InitFilesInv, NextFilesInv, PTL DEF Spec

-----------------------------------------------------------------------------
(* A commit that raised did not happen                                     *)
(*                                                                         *)
(* The stamp of a candidate is new when it is made.  Until HEAD is moved   *)
(* to it no revision that anybody reads carries that stamp, and once its   *)
(* commit has failed nobody holds the candidate any more.                  *)

Stamps(r) == {r[n].stamp : n \in 1..Len(r)}
TipStamp(r) == Tip(r).stamp

\* The stamps of the revisions that HEAD names, that a power loss may bring
\* back, and that clients have read.
Exposed ==
  {n \in Nat : \/ n \in Stamps(head)
               \/ \E h \in unsyncedHeads : n \in Stamps(h)
               \/ \E c \in Clients : n \in Stamps(base[c])}

FailedWith(c, r) == result[c].kind = "failed" /\ result[c].rev = r /\ r # <<>>
Unseen(s) == s \in 1..clock /\ s \notin Exposed

Held(c) ==
  cand[c] # <<>> =>
    /\ pc[c] \in CandPcs
    /\ Unseen(TipStamp(cand[c]))
    /\ Stamps(cand[c]) \subseteq Stamps(base[c]) \cup {TipStamp(cand[c])}

StampInv ==
  /\ TypeInv
  /\ Exposed \subseteq 0..clock
  /\ \A c \in Clients : Held(c)
  /\ \A c, d \in Clients : c # d /\ cand[c] # <<>> /\ cand[d] # <<>> =>
       TipStamp(cand[c]) # TipStamp(cand[d])
  /\ \A c \in Clients, r \in Rev : FailedWith(c, r) =>
       /\ Unseen(TipStamp(r))
       /\ \A d \in Clients : cand[d] # <<>> => TipStamp(cand[d]) # TipStamp(r)

LEMMA StampsType ==
  ASSUME NEW r \in Rev
  PROVE  /\ Stamps(r) \subseteq Nat
         /\ r = <<>> => Stamps(r) = {}
         /\ r # <<>> => TipStamp(r) \in Stamps(r) /\ TipStamp(r) \in Nat
<1>1. r \in Seq(Entry) /\ Len(r) \in Nat
  BY DEF Rev
<1>2. ASSUME NEW n \in 1..Len(r) PROVE r[n].stamp \in Nat
  <2>1. r[n] \in Entry
    BY <1>1, ElementOfSeq
  <2>2. QED
    BY <2>1 DEF Entry
<1>3. Stamps(r) \subseteq Nat
  BY <1>2 DEF Stamps
<1>4. r = <<>> => Stamps(r) = {}
  BY DEF Stamps
<1>5. ASSUME r # <<>> PROVE TipStamp(r) \in Stamps(r) /\ TipStamp(r) \in Nat
  <2>1. Len(r) \in 1..Len(r)
    BY <1>1, <1>5, EmptySeq
  <2>2. QED
    BY <1>2, <2>1 DEF TipStamp, Tip, Stamps
<1>6. QED
  BY <1>3, <1>4, <1>5

LEMMA AppendStamps ==
  ASSUME NEW r \in Rev, NEW e \in Entry
  PROVE  /\ Append(r, e) \in Rev /\ Append(r, e) # <<>>
         /\ Stamps(Append(r, e)) = Stamps(r) \cup {e.stamp}
         /\ TipStamp(Append(r, e)) = e.stamp
<1>1. /\ Append(r, e) \in Seq(Entry) /\ Append(r, e) # <<>>
      /\ Len(r) \in Nat /\ Len(Append(r, e)) = Len(r) + 1
      /\ \A n \in 1..Len(r) : Append(r, e)[n] = r[n]
      /\ Append(r, e)[Len(r) + 1] = e
  BY AppendProperties, LenProperties DEF Rev
<1> DEFINE a == Append(r, e)
<1>2. TipStamp(a) = e.stamp
  BY <1>1 DEF TipStamp, Tip
<1>3. ASSUME NEW s \in Stamps(a) PROVE s \in Stamps(r) \cup {e.stamp}
  <2>1. PICK n \in 1..Len(a) : s = a[n].stamp
    BY <1>3 DEF Stamps
  <2>2. CASE n = Len(r) + 1
    BY <1>1, <2>1, <2>2
  <2>3. CASE n \in 1..Len(r)
    BY <1>1, <2>1, <2>3 DEF Stamps
  <2>4. QED
    BY <1>1, <2>1, <2>2, <2>3
<1>4. ASSUME NEW s \in Stamps(r) PROVE s \in Stamps(a)
  <2>1. PICK n \in 1..Len(r) : s = r[n].stamp
    BY <1>4 DEF Stamps
  <2>2. n \in 1..Len(a) /\ a[n].stamp = s
    BY <1>1, <2>1
  <2>3. QED
    <3> HIDE DEF a
    <3> QED
      BY <2>2 DEF Stamps
<1>5. e.stamp \in Stamps(a)
  <2>1. Len(r) + 1 \in 1..Len(a) /\ a[Len(r) + 1].stamp = e.stamp
    BY <1>1
  <2>2. QED
    <3> HIDE DEF a
    <3> QED
      BY <2>1 DEF Stamps
<1>6. QED
  BY <1>1, <1>2, <1>3, <1>4, <1>5 DEF Rev

\* Whose stamp is held is not in the base of anybody.
LEMMA CandType ==
  ASSUME StampInv, NEW c \in Clients
  PROVE  /\ base[c] \in Rev /\ cand[c] \in Rev /\ head \in Rev /\ clock \in Nat
         /\ \A h \in unsyncedHeads : h \in Rev
         /\ Stamps(head) \subseteq Exposed /\ Stamps(base[c]) \subseteq Exposed
         /\ \A h \in unsyncedHeads : Stamps(h) \subseteq Exposed
         /\ pc[c] \in CandPcs => cand[c] # <<>>
<1>1. /\ base[c] \in Rev /\ cand[c] \in Rev /\ head \in Rev /\ clock \in Nat
      /\ \A h \in unsyncedHeads : h \in Rev
  BY DEF StampInv, TypeInv, TypeOK
<1>2. /\ Stamps(head) \subseteq Nat /\ Stamps(base[c]) \subseteq Nat
      /\ \A h \in unsyncedHeads : Stamps(h) \subseteq Nat
  BY <1>1, StampsType
<1>3. pc[c] \in CandPcs => cand[c] # <<>>
  BY DEF StampInv, TypeInv, NonEmpty
<1>4. QED
  BY <1>1, <1>2, <1>3 DEF Exposed

\* A step that exposes nothing and makes no candidate.
LEMMA QuietStamps ==
  ASSUME StampInv, TypeInv', clock' = clock, Exposed' \subseteq Exposed \cup {0},
         \A c \in Clients : \/ cand'[c] = <<>>
                            \/ /\ cand'[c] = cand[c]
                               /\ cand[c] # <<>> => pc'[c] \in CandPcs /\ base'[c] = base[c],
         \A c \in Clients : \/ result'[c] = result[c]
                            \/ result'[c].kind # "failed"
                            \/ result'[c].rev = cand[c] /\ cand'[c] = <<>>
  PROVE  StampInv'
<1>1. clock \in Nat
  BY DEF StampInv, TypeInv, TypeOK
<1>2. ASSUME NEW s, Unseen(s) PROVE s \in 1..clock' /\ s \notin Exposed'
  BY <1>1, <1>2 DEF Unseen
<1>3. ASSUME NEW c \in Clients PROVE Held(c)'
  <2>1. CASE cand'[c] = <<>>
    BY <2>1 DEF Held
  <2>2. CASE cand'[c] # <<>>
    <3>1. cand'[c] = cand[c] /\ pc'[c] \in CandPcs /\ base'[c] = base[c]
      BY <2>2
    <3>2. /\ Unseen(TipStamp(cand[c]))
          /\ Stamps(cand[c]) \subseteq Stamps(base[c]) \cup {TipStamp(cand[c])}
      BY <2>2, <3>1 DEF StampInv, Held
    <3>3. QED
      BY <1>2, <3>1, <3>2 DEF Held, Unseen
  <2>3. QED
    BY <2>1, <2>2
<1>4. \A c, d \in Clients : c # d /\ cand'[c] # <<>> /\ cand'[d] # <<>> =>
        TipStamp(cand'[c]) # TipStamp(cand'[d])
  BY DEF StampInv
<1>5. ASSUME NEW c \in Clients, NEW r \in Rev, FailedWith(c, r)'
      PROVE  /\ TipStamp(r) \in 1..clock' /\ TipStamp(r) \notin Exposed'
             /\ \A d \in Clients : cand'[d] # <<>> => TipStamp(cand'[d]) # TipStamp(r)
  <2>1. result'[c].kind = "failed" /\ result'[c].rev = r /\ r # <<>>
    BY <1>5 DEF FailedWith
  <2>2. CASE result'[c] = result[c]
    <3>1. FailedWith(c, r)
      BY <2>1, <2>2 DEF FailedWith
    <3>2. Unseen(TipStamp(r)) /\ \A d \in Clients : cand[d] # <<>> => TipStamp(cand[d]) # TipStamp(r)
      BY <3>1 DEF StampInv
    <3>3. \A d \in Clients : cand'[d] # <<>> => cand'[d] = cand[d]
      OBVIOUS
    <3>4. QED
      BY <1>2, <3>2, <3>3
  <2>3. CASE r = cand[c] /\ cand'[c] = <<>>
    <3>1. Unseen(TipStamp(r))
      BY <2>1, <2>3 DEF StampInv, Held
    <3>2. ASSUME NEW d \in Clients, cand'[d] # <<>> PROVE TipStamp(cand'[d]) # TipStamp(r)
      <4>1. d # c /\ cand'[d] = cand[d]
        BY <2>3, <3>2
      <4>2. QED
        BY <2>1, <2>3, <3>2, <4>1 DEF StampInv
    <3>3. QED
      BY <1>2, <3>1, <3>2
  <2>4. QED
    BY <2>1, <2>2, <2>3
<1>6. Exposed' \subseteq 0..clock'
  BY <1>1 DEF StampInv
<1>7. QED
  BY <1>3, <1>4, <1>5, <1>6 DEF StampInv, Unseen

\* A candidate is made, with a new stamp.
LEMMA CandidateStamps ==
  ASSUME StampInv, TypeInv', NEW c \in Clients, NEW e \in Entry, Tick, e.stamp = clock',
         cand' = [cand EXCEPT ![c] = Append(base[c], e)], pc'[c] \in CandPcs,
         \A d \in Clients \ {c} : pc'[d] = pc[d],
         UNCHANGED <<head, unsyncedHeads, base, result>>
  PROVE  StampInv'
<1>1. Exposed' = Exposed
  BY DEF Exposed
<1>2. clock \in Nat /\ clock' = clock + 1 /\ base[c] \in Rev /\ Stamps(base[c]) \subseteq Exposed
  BY CandType DEF Tick
<1>3. \A s : Unseen(s) => s \in 1..clock' /\ s # clock'
  BY <1>2 DEF Unseen
<1>4. /\ cand'[c] = Append(base[c], e) /\ TipStamp(cand'[c]) = clock'
      /\ Stamps(cand'[c]) = Stamps(base[c]) \cup {clock'}
      /\ \A d \in Clients \ {c} : cand'[d] = cand[d]
  BY <1>2, AppendStamps DEF StampInv, TypeInv, TypeOK
<1>5. Exposed \subseteq 0..clock /\ clock' \in 1..clock' /\ clock' \notin Exposed
  BY <1>2 DEF StampInv
<1>6. ASSUME NEW d \in Clients PROVE Held(d)'
  <2>1. CASE d = c
    BY <1>1, <1>2, <1>4, <1>5, <2>1 DEF Held, Unseen
  <2>2. CASE d # c
    <3>1. Held(d) /\ cand'[d] = cand[d] /\ pc'[d] = pc[d] /\ base'[d] = base[d]
      BY <1>4, <2>2 DEF StampInv
    <3>2. cand[d] # <<>> => TipStamp(cand[d]) \in 1..clock' /\ TipStamp(cand[d]) \notin Exposed'
      BY <1>1, <1>3, <3>1 DEF Held, Unseen
    <3>3. QED
      BY <3>1, <3>2 DEF Held, Unseen
  <2>3. QED
    BY <2>1, <2>2
<1>7. ASSUME NEW d \in Clients \ {c}, cand[d] # <<>>
      PROVE  TipStamp(cand[d]) # clock'
  BY <1>3, <1>7 DEF StampInv, Held
<1>8. \A a, b \in Clients : a # b /\ cand'[a] # <<>> /\ cand'[b] # <<>> =>
        TipStamp(cand'[a]) # TipStamp(cand'[b])
  BY <1>4, <1>7 DEF StampInv
<1>9. ASSUME NEW a \in Clients, NEW r \in Rev, FailedWith(a, r)'
      PROVE  /\ TipStamp(r) \in 1..clock' /\ TipStamp(r) \notin Exposed'
             /\ \A d \in Clients : cand'[d] # <<>> => TipStamp(cand'[d]) # TipStamp(r)
  <2>1. FailedWith(a, r)
    BY <1>9 DEF FailedWith
  <2>2. Unseen(TipStamp(r)) /\ \A d \in Clients : cand[d] # <<>> => TipStamp(cand[d]) # TipStamp(r)
    BY <2>1 DEF StampInv
  <2>3. TipStamp(r) \in 1..clock' /\ TipStamp(r) # clock'
    BY <1>3, <2>2
  <2>4. QED
    BY <1>1, <1>4, <2>2, <2>3 DEF Unseen
<1>10. Exposed' \subseteq 0..clock'
  BY <1>1, <1>2, <1>5
<1>11. QED
  BY <1>6, <1>8, <1>9, <1>10 DEF StampInv, Unseen

\* HEAD is moved to a candidate, which nobody holds any more.
LEMMA MovedStamps ==
  ASSUME StampInv, TypeInv', NEW c \in Clients, pc[c] \in CandPcs,
         head' = cand[c], unsyncedHeads' \subseteq unsyncedHeads \cup {head},
         base'[c] \in {<<>>, cand[c]}, cand'[c] = <<>>, clock' = clock,
         \A d \in Clients \ {c} : /\ pc'[d] = pc[d] /\ base'[d] = base[d] /\ cand'[d] = cand[d]
                                  /\ result'[d] = result[d],
         result'[c].kind # "failed"
  PROVE  StampInv'
<1> DEFINE t == TipStamp(cand[c])
<1>1. cand[c] # <<>> /\ cand[c] \in Rev /\ clock \in Nat /\ head \in Rev
  BY CandType
<1>2. Unseen(t) /\ Stamps(cand[c]) \subseteq Exposed \cup {t}
  <2>1. Unseen(t) /\ Stamps(cand[c]) \subseteq Stamps(base[c]) \cup {t}
    BY <1>1 DEF StampInv, Held
  <2>2. QED
    BY <2>1, CandType
<1>3. Stamps(<<>>) = {}
  BY DEF Stamps
<1>4. Exposed' \subseteq Exposed \cup {t}
  <2>1. ASSUME NEW n \in Exposed' PROVE n \in Exposed \cup {t}
    <3>1. CASE n \in Stamps(cand[c])
      BY <1>2, <3>1
    <3>2. CASE \E h \in unsyncedHeads' : n \in Stamps(h)
      <4>1. PICK h \in unsyncedHeads \cup {head} : n \in Stamps(h)
        BY <3>2
      <4>2. QED
        BY <4>1, CandType
    <3>3. CASE \E d \in Clients : n \in Stamps(base'[d])
      <4>1. PICK d \in Clients : n \in Stamps(base'[d])
        BY <3>3
      <4>2. CASE d = c
        BY <1>2, <1>3, <4>1, <4>2
      <4>3. CASE d # c
        BY <4>1, <4>3, CandType
      <4>4. QED
        BY <4>2, <4>3
    <3>4. QED
      BY <2>1, <3>1, <3>2, <3>3 DEF Exposed
  <2>2. QED
    BY <2>1
<1>5. ASSUME NEW s, Unseen(s), s # t PROVE s \in 1..clock' /\ s \notin Exposed'
  BY <1>4, <1>5 DEF Unseen
<1>6. ASSUME NEW d \in Clients \ {c}, cand[d] # <<>>
      PROVE  Unseen(TipStamp(cand[d])) /\ TipStamp(cand[d]) # t
  BY <1>1, <1>6 DEF StampInv, Held
<1> HIDE DEF t
<1>7. ASSUME NEW d \in Clients PROVE Held(d)'
  <2>1. CASE d = c
    BY <2>1 DEF Held
  <2>2. CASE d # c /\ cand[d] # <<>>
    <3>1. /\ pc[d] \in CandPcs
          /\ Stamps(cand[d]) \subseteq Stamps(base[d]) \cup {TipStamp(cand[d])}
      BY <2>2 DEF StampInv, Held
    <3>2. pc'[d] = pc[d] /\ base'[d] = base[d] /\ cand'[d] = cand[d]
      BY <2>2
    <3>3. TipStamp(cand[d]) \in 1..clock' /\ TipStamp(cand[d]) \notin Exposed'
      BY <1>5, <1>6, <2>2
    <3>4. QED
      BY <3>1, <3>2, <3>3 DEF Held, Unseen
  <2>3. CASE d # c /\ cand[d] = <<>>
    BY <2>3 DEF Held
  <2>4. QED
    BY <2>1, <2>2, <2>3
<1>8. \A a, b \in Clients : a # b /\ cand'[a] # <<>> /\ cand'[b] # <<>> =>
        TipStamp(cand'[a]) # TipStamp(cand'[b])
  BY DEF StampInv
<1>9. ASSUME NEW a \in Clients, NEW r \in Rev, FailedWith(a, r)'
      PROVE  /\ TipStamp(r) \in 1..clock' /\ TipStamp(r) \notin Exposed'
             /\ \A d \in Clients : cand'[d] # <<>> => TipStamp(cand'[d]) # TipStamp(r)
  <2>1. a # c
    BY <1>9 DEF FailedWith
  <2>2. FailedWith(a, r)
    BY <1>9, <2>1 DEF FailedWith
  <2>3. Unseen(TipStamp(r)) /\ \A d \in Clients : cand[d] # <<>> => TipStamp(cand[d]) # TipStamp(r)
    BY <2>2 DEF StampInv
  <2>4. TipStamp(r) # t
    BY <1>1, <2>3 DEF t
  <2>5. \A d \in Clients : cand'[d] # <<>> => cand'[d] = cand[d]
    OBVIOUS
  <2>6. QED
    BY <1>5, <2>3, <2>4, <2>5
<1>10. Exposed' \subseteq 0..clock'
  BY <1>1, <1>2, <1>4 DEF StampInv, Unseen
<1>11. QED
  BY <1>7, <1>8, <1>9, <1>10 DEF StampInv, Unseen

\* An operation that ends without moving HEAD to its candidate.
LEMMA ReturnStamps ==
  ASSUME StampInv, TypeInv', NEW c \in Clients, NEW k, NEW r, Return(c, k, r),
         k = "failed" => r \in {<<>>, cand[c]}, clock' = clock,
         Stamps(head') \subseteq Exposed \cup {0},
         \A h \in unsyncedHeads' : h \in unsyncedHeads \/ h = head
  PROVE  StampInv'
<1>1. /\ pc' = [pc EXCEPT ![c] = "idle"] /\ result' = [result EXCEPT ![c] = Report(k, r)]
      /\ base' = [base EXCEPT ![c] = <<>>] /\ cand' = [cand EXCEPT ![c] = <<>>]
  BY DEF Return, Goto
<1>2. /\ cand'[c] = <<>> /\ base'[c] = <<>> /\ result'[c] = Report(k, r)
      /\ \A d \in Clients \ {c} : /\ pc'[d] = pc[d] /\ base'[d] = base[d]
                                  /\ cand'[d] = cand[d] /\ result'[d] = result[d]
  BY <1>1 DEF StampInv, TypeInv, TypeOK
<1>3. Exposed' \subseteq Exposed \cup {0}
  <2>1. Stamps(<<>>) = {}
    BY DEF Stamps
  <2>2. \A d \in Clients : Stamps(base'[d]) \subseteq Exposed
    BY <1>2, <2>1, CandType
  <2>3. \A h \in unsyncedHeads' : Stamps(h) \subseteq Exposed
    BY CandType
  <2>4. QED
    BY <2>2, <2>3 DEF Exposed
<1>4. \A d \in Clients : \/ cand'[d] = <<>>
                         \/ /\ cand'[d] = cand[d]
                            /\ cand[d] # <<>> => pc'[d] \in CandPcs /\ base'[d] = base[d]
  BY <1>2 DEF StampInv, Held
<1>5. CASE k = "failed" /\ r = <<>>
  <2>1. ASSUME NEW a \in Clients, NEW q \in Rev, FailedWith(a, q)'
        PROVE  FailedWith(a, q)
    BY <1>2, <1>5, <2>1 DEF FailedWith, Report
  <2>2. clock \in Nat /\ Exposed' \subseteq 0..clock
    BY <1>3, CandType DEF StampInv
  <2>3. ASSUME NEW s, Unseen(s) PROVE s \in 1..clock' /\ s \notin Exposed'
    BY <1>3, <2>2, <2>3 DEF Unseen
  <2>4. ASSUME NEW a \in Clients, NEW q \in Rev, FailedWith(a, q)'
        PROVE  /\ TipStamp(q) \in 1..clock' /\ TipStamp(q) \notin Exposed'
               /\ \A d \in Clients : cand'[d] # <<>> => TipStamp(cand'[d]) # TipStamp(q)
    <3>1. Unseen(TipStamp(q)) /\ \A d \in Clients : cand[d] # <<>> => TipStamp(cand[d]) # TipStamp(q)
      BY <2>1, <2>4 DEF StampInv
    <3>2. \A d \in Clients : cand'[d] # <<>> => cand'[d] = cand[d]
      BY <1>4
    <3>3. QED
      BY <2>3, <3>1, <3>2
  <2>5. ASSUME NEW d \in Clients PROVE Held(d)'
    <3>1. Held(d)
      BY DEF StampInv
    <3>2. QED
      BY <1>4, <2>3, <3>1 DEF Held, Unseen
  <2>6. \A a, b \in Clients : a # b /\ cand'[a] # <<>> /\ cand'[b] # <<>> =>
          TipStamp(cand'[a]) # TipStamp(cand'[b])
    BY <1>4 DEF StampInv
  <2>7. QED
    BY <2>2, <2>4, <2>5, <2>6 DEF StampInv, Unseen
<1>6. CASE k # "failed" \/ r = cand[c]
  <2>1. \A d \in Clients : \/ result'[d] = result[d]
                           \/ result'[d].kind # "failed"
                           \/ result'[d].rev = cand[d] /\ cand'[d] = <<>>
    BY <1>2, <1>6 DEF Report
  <2>2. QED
    BY <1>3, <1>4, <2>1, QuietStamps
<1>7. QED
  BY <1>5, <1>6

\* A step of one client that leaves HEAD, candidates and failures alone.
LEMMA MoveStamps ==
  ASSUME StampInv, TypeInv', NEW c \in Clients, NEW l, Goto(c, l),
         cand[c] # <<>> => l \in CandPcs /\ base' = base,
         \A d \in Clients : base'[d] \in {base[d], head},
         UNCHANGED <<cand, clock>>,
         Stamps(head') \subseteq Exposed \cup {0}, unsyncedHeads' \subseteq unsyncedHeads,
         \A d \in Clients \ {c} : base'[d] = base[d],
         \A d \in Clients : result'[d] = result[d] \/ result'[d].kind # "failed"
  PROVE  StampInv'
<1>1. \A d \in Clients : pc'[d] = IF d = c THEN l ELSE pc[d]
  BY DEF Goto, StampInv, TypeInv, TypeOK
<1>2. Exposed' \subseteq Exposed \cup {0}
  <2>1. \A d \in Clients : Stamps(base'[d]) \subseteq Exposed
    BY CandType
  <2>2. \A h \in unsyncedHeads' : Stamps(h) \subseteq Exposed
    BY CandType
  <2>3. QED
    BY <2>1, <2>2 DEF Exposed
<1>3. \A d \in Clients : cand[d] # <<>> => pc'[d] \in CandPcs /\ base'[d] = base[d]
  BY <1>1 DEF StampInv, Held
<1>4. QED
  BY <1>2, <1>3, QuietStamps

\* What a running operation has reported so far: nothing, or the steps of a
\* migration that were promoted.
Reporting ==
  \A c \in Clients : pc[c] # "idle" =>
    \/ result[c].kind = "none"
    \/ /\ pc[c] \in {"migrate_step", "migrate_revision", "migrate_promote"}
       /\ result[c].kind \in {"committed", "warned"}
       /\ result[c].rev = base[c]

LEMMA NextReporting == TypeInv /\ Reporting /\ [Next]_vars => Reporting'
<1> SUFFICES ASSUME TypeInv, Reporting, [Next]_vars PROVE Reporting'
  OBVIOUS
<1> USE DEF Reporting, disk, sync, client
<1>1. ASSUME NEW c \in Clients, NEW k, NEW r, Return(c, k, r)
      PROVE  Reporting'
  BY <1>1 DEF Return, Goto, TypeInv, TypeOK
<1>2. ASSUME NEW c \in Clients, NEW l, Goto(c, l),
             pc[c] \notin {"idle", "migrate_step", "migrate_revision", "migrate_promote"},
             result' = result, \A d \in Clients \ {c} : base'[d] = base[d]
      PROVE  Reporting'
  BY <1>2 DEF Goto, TypeInv, TypeOK
<1>3. ASSUME NEW c \in Clients, Start(c)
      PROVE  Reporting'
  <2>1. CASE CreateStarts(c) \/ Open(c)
    BY <2>1 DEF CreateStarts, Open, Goto, Report, TypeInv, TypeOK
  <2>2. CASE CreateRefused(c) \/ OpenFails(c) \/ BeginConflict(c) \/ Close(c)
    BY <1>1, <2>2 DEF CreateRefused, OpenFails, BeginConflict, Close
  <2>3. CASE Begin(c) \/ MigrateBegin(c)
    <3>1. \A d \in Clients \ {c} : base'[d] = base[d]
      BY <2>3 DEF Begin, MigrateBegin, TypeInv, TypeOK
    <3>2. QED
      BY <1>2, <2>3, <3>1 DEF Begin, MigrateBegin
  <2>4. QED
    BY <1>3, <2>1, <2>2, <2>3 DEF Start
<1>4. ASSUME NEW c \in Clients, CreateStep(c) \/ PutArtifacts(c)
      PROVE  Reporting'
  BY <1>1, <1>2, <1>4
  DEF CreateStep, MakeDirs, WriteMeta, InstallRoot, RootExists, WriteHead, PutArtifacts
<1>5. ASSUME NEW c \in Clients, CommitStep(c)
      PROVE  Reporting'
  <2>1. CASE LockTimeout(c) \/ CommitConflict(c) \/ CommitUnchanged(c) \/ Promote(c)
    BY <1>1, <2>1 DEF LockTimeout, CommitConflict, CommitUnchanged, Promote
  <2>2. CASE AcquireLock(c) \/ CommitCandidate(c) \/ ObjectsInstalled(c)
    BY <1>2, <2>2 DEF AcquireLock, CommitCandidate, ObjectsInstalled
  <2>3. CASE InstallRevision(c)
    BY <2>3 DEF InstallRevision, Goto, TypeInv, TypeOK
  <2>4. CASE InstallObject(c)
    BY <2>4 DEF InstallObject
  <2>5. QED
    BY <1>5, <2>1, <2>2, <2>3, <2>4 DEF CommitStep
<1>6. ASSUME NEW c \in Clients, MigrateSteps(c)
      PROVE  Reporting'
  <2>1. CASE MigrateCheck(c)
    BY <1>1, <1>2, <2>1 DEF MigrateCheck
  <2>2. CASE MigrateStep(c)
    BY <2>2 DEF MigrateStep, Goto, TypeInv, TypeOK
  <2>3. CASE MigratePromote(c)
    BY <2>3 DEF MigratePromote, Goto, Report, TypeInv, TypeOK
  <2>4. CASE MigrateDone(c)
    BY <1>1, <2>4 DEF MigrateDone
  <2>5. QED
    BY <1>6, <2>1, <2>2, <2>3, <2>4 DEF MigrateSteps
<1>7. ASSUME NEW c \in Clients, Fault(c)
      PROVE  Reporting'
  BY <1>1, <1>7
  DEF Fault, Halt, HaltInObject, HaltInRevision, HaltInCreate, KilledAfterHead, Stop
<1>8. CASE PowerLoss
  BY <1>8 DEF PowerLoss
<1>9. CASE UNCHANGED vars
  BY <1>9 DEF vars
<1>10. QED
  BY <1>3, <1>4, <1>5, <1>6, <1>7, <1>8, <1>9 DEF Next, Work

LEMMA InitStampInv == Init => StampInv
<1> SUFFICES ASSUME Init PROVE StampInv
  OBVIOUS
<1>1. TypeInv
  BY InitTypeInv
<1>2. /\ head = <<>> /\ unsyncedHeads = {} /\ clock = 0
      /\ \A c \in Clients : /\ base[c] = <<>> /\ cand[c] = <<>>
                            /\ result[c] = Report("none", <<>>)
  BY DEF Init
<1>3. Stamps(<<>>) = {}
  BY DEF Stamps
<1>4. Exposed \subseteq 0..clock
  BY <1>2, <1>3 DEF Exposed
<1>5. \A c \in Clients : Held(c)
  BY <1>2 DEF Held
<1>6. \A c \in Clients, r \in Rev : ~FailedWith(c, r)
  BY <1>2 DEF FailedWith, Report
<1>7. QED
  BY <1>1, <1>2, <1>4, <1>5, <1>6 DEF StampInv

\* The stamp of an init revision is no candidate's.
LEMMA RootStamps ==
  ASSUME NEW s
  PROVE  Stamps(Root(s)) = {0}
<1>1. Len(Root(s)) = 1 /\ Root(s)[1].stamp = 0
  BY DEF Root
<1>2. QED
  BY <1>1 DEF Stamps

LEMMA StartStamps ==
  ASSUME StampInv, TypeInv', NEW c \in Clients, Start(c)
  PROVE  StampInv'
<1> USE DEF disk, sync, client
<1>1. head \in Rev /\ Stamps(head) \subseteq Exposed
  BY CandType
<1>2. ASSUME NEW k \in Kinds \ {"failed"}, Return(c, k, <<>>), UNCHANGED <<disk, sync, clock, faults>>
      PROVE  StampInv'
  BY <1>1, <1>2, ReturnStamps
<1>3. pc[c] \in {"idle", "open"} => cand[c] = <<>>
  BY DEF StampInv, Held, CandPcs
<1>4. CASE CreateStarts(c)
  <2>1. /\ Goto(c, "make_dirs") /\ UNCHANGED <<disk, sync, base, cand, clock>>
        /\ result' = [result EXCEPT ![c] = Report("none", <<>>)]
    BY <1>4 DEF CreateStarts
  <2>2. \A d \in Clients : result'[d] = result[d] \/ result'[d].kind # "failed"
    BY <2>1 DEF StampInv, TypeInv, TypeOK, Report
  <2>3. cand[c] = <<>>
    BY <1>3, <1>4 DEF CreateStarts
  <2>4. QED
    BY <1>1, <2>1, <2>2, <2>3, MoveStamps
<1>5. CASE CreateRefused(c)
  BY <1>5, <1>2 DEF CreateRefused, Kinds
<1>6. CASE Open(c)
  <2>1. /\ Goto(c, "open") /\ UNCHANGED <<disk, sync, cand, clock>>
        /\ result' = [result EXCEPT ![c] = Report("none", <<>>)]
        /\ base' = [base EXCEPT ![c] = head]
    BY <1>6 DEF Open
  <2>2. \A d \in Clients : result'[d] = result[d] \/ result'[d].kind # "failed"
    BY <2>1 DEF StampInv, TypeInv, TypeOK, Report
  <2>3. /\ \A d \in Clients : base'[d] \in {base[d], head}
        /\ \A d \in Clients \ {c} : base'[d] = base[d]
    BY <2>1 DEF StampInv, TypeInv, TypeOK
  <2>4. cand[c] = <<>>
    BY <1>3, <1>6 DEF Open
  <2>5. QED
    BY <1>1, <2>1, <2>2, <2>3, <2>4, MoveStamps
<1>7. CASE OpenFails(c)
  BY <1>7, <1>2 DEF OpenFails, Kinds
<1>8. CASE Begin(c)
  <2>1. /\ Goto(c, "staging") /\ UNCHANGED <<disk, sync, cand, result, clock>>
        /\ base' = [base EXCEPT ![c] = head]
    BY <1>8 DEF Begin
  <2>2. /\ \A d \in Clients : base'[d] \in {base[d], head}
        /\ \A d \in Clients \ {c} : base'[d] = base[d]
    BY <2>1 DEF StampInv, TypeInv, TypeOK
  <2>3. cand[c] = <<>>
    BY <1>3, <1>8 DEF Begin
  <2>4. QED
    BY <1>1, <2>1, <2>2, <2>3, MoveStamps
<1>9. CASE BeginConflict(c)
  BY <1>9, <1>2 DEF BeginConflict, Kinds
<1>10. CASE MigrateBegin(c)
  <2>1. Goto(c, "migrate") /\ UNCHANGED <<disk, sync, base, cand, result, clock>>
    BY <1>10 DEF MigrateBegin
  <2>2. cand[c] = <<>>
    BY <1>3, <1>10 DEF MigrateBegin
  <2>3. QED
    BY <1>1, <2>1, <2>2, MoveStamps
<1>11. CASE Close(c)
  BY <1>11, <1>2 DEF Close, Kinds
<1>12. QED
  BY <1>4, <1>5, <1>6, <1>7, <1>8, <1>9, <1>10, <1>11 DEF Start

LEMMA CreateStamps ==
  ASSUME StampInv, TypeInv', NEW c \in Clients, CreateStep(c) \/ PutArtifacts(c)
  PROVE  StampInv'
<1> USE DEF disk, sync, client
<1>1. head \in Rev /\ Stamps(head) \subseteq Exposed
  BY CandType
<1>2. pc[c] \in CreatePcs \cup {"staging"} => cand[c] = <<>>
  BY DEF StampInv, Held, CandPcs, CreatePcs
<1>3. ASSUME NEW l, Goto(c, l), pc[c] \in CreatePcs \cup {"staging"},
             UNCHANGED <<base, cand, result, clock>>,
             head' = head \/ head' = Root(want[c]), unsyncedHeads' \subseteq unsyncedHeads
      PROVE  StampInv'
  <2>1. Stamps(head') \subseteq Exposed \cup {0}
    BY <1>1, <1>3, RootStamps
  <2>2. QED
    BY <1>2, <1>3, <2>1, MoveStamps
<1>4. CASE MakeDirs(c)
  BY <1>3, <1>4 DEF MakeDirs, CreatePcs
<1>5. CASE WriteMeta(c)
  BY <1>3, <1>5 DEF WriteMeta, CreatePcs
<1>6. CASE InstallRoot(c)
  BY <1>3, <1>6 DEF InstallRoot, CreatePcs
<1>7. CASE RootExists(c)
  BY <1>1, <1>7, ReturnStamps DEF RootExists
<1>8. CASE WriteHead(c)
  BY <1>3, <1>8 DEF WriteHead, CreatePcs
<1>9. CASE PutArtifacts(c)
  BY <1>3, <1>9 DEF PutArtifacts
<1>10. QED
  BY <1>4, <1>5, <1>6, <1>7, <1>8, <1>9 DEF CreateStep

LEMMA CommitStamps ==
  ASSUME StampInv, TypeInv', NEW c \in Clients, CommitStep(c)
  PROVE  StampInv'
<1> USE DEF disk, sync, client
<1>1. head \in Rev /\ Stamps(head) \subseteq Exposed
  BY CandType
<1>2. pc[c] \in {"commit", "migrate", "check_head", "migrate_check"} => cand[c] = <<>>
  BY DEF StampInv, Held, CandPcs
<1>3. CASE AcquireLock(c)
  <2>1. PICK l : Goto(c, l)
    BY <1>3 DEF AcquireLock
  <2>2. cand[c] = <<>> /\ UNCHANGED <<head, unsyncedHeads, base, cand, result, clock>>
    BY <1>2, <1>3 DEF AcquireLock
  <2>3. QED
    BY <1>1, <2>1, <2>2, MoveStamps
<1>4. CASE LockTimeout(c)
  BY <1>1, <1>4, ReturnStamps DEF LockTimeout
<1>5. CASE CommitConflict(c)
  BY <1>1, <1>5, ReturnStamps DEF CommitConflict
<1>6. CASE CommitUnchanged(c)
  BY <1>1, <1>6, ReturnStamps DEF CommitUnchanged
<1>7. CASE CommitCandidate(c)
  <2>1. /\ head = base[c] /\ head # <<>>
        /\ cand' = [cand EXCEPT ![c] = NewRevision(head, Tip(head).schema, plan[c].arts)]
        /\ Tick /\ Goto(c, "objects") /\ UNCHANGED <<head, unsyncedHeads, base, result>>
    BY <1>7 DEF CommitCandidate, ChainInstalled
  <2>2. Tip(head).schema \in SchemaVersions
    BY <1>1, <2>1, TipType
  <2>3. plan[c].arts \subseteq Objects /\ clock' \in Nat
    BY <2>1 DEF StampInv, TypeInv, TypeOK, Plan, Tick
  <2>4. DEFINE e == [schema |-> Tip(head).schema, arts |-> plan[c].arts, stamp |-> clock']
  <2>5. e \in Entry /\ e.stamp = clock'
    BY <2>2, <2>3 DEF Entry
  <2>6. cand' = [cand EXCEPT ![c] = Append(base[c], e)]
    BY <2>1 DEF NewRevision
  <2> HIDE DEF e
  <2>7. pc'[c] \in CandPcs /\ \A d \in Clients \ {c} : pc'[d] = pc[d]
    BY <2>1 DEF Goto, CandPcs, StampInv, TypeInv, TypeOK
  <2>8. QED
    BY <2>1, <2>5, <2>6, <2>7, CandidateStamps
<1>8. ASSUME NEW l, Goto(c, l), pc[c] \in CandPcs, l \in CandPcs,
             UNCHANGED <<head, unsyncedHeads, base, cand, result, clock>>
      PROVE  StampInv'
  BY <1>1, <1>8, MoveStamps
<1>9. CASE InstallObject(c)
  <2>1. UNCHANGED <<head, unsyncedHeads, pc, base, cand, result, clock>>
    BY <1>9 DEF InstallObject
  <2>2. Exposed' = Exposed
    BY <2>1 DEF Exposed
  <2>3. \A d \in Clients : cand[d] # <<>> => pc[d] \in CandPcs
    BY DEF StampInv, Held
  <2>4. QED
    BY <2>1, <2>2, <2>3, QuietStamps
<1>10. CASE ObjectsInstalled(c)
  BY <1>8, <1>10 DEF ObjectsInstalled, CandPcs
<1>11. CASE InstallRevision(c)
  BY <1>8, <1>11 DEF InstallRevision, CandPcs
<1>12. CASE Promote(c)
  <2>1. PICK synced \in BOOLEAN :
          /\ MoveHead(c, synced)
          /\ Return(c, IF synced THEN "committed" ELSE "warned", cand[c])
    BY <1>12 DEF Promote
  <2>2. head' = cand[c] /\ unsyncedHeads' \subseteq unsyncedHeads \cup {head} /\ clock' = clock
    BY <2>1 DEF MoveHead
  <2>3. /\ base'[c] = <<>> /\ cand'[c] = <<>> /\ result'[c].kind # "failed"
        /\ \A d \in Clients \ {c} : /\ pc'[d] = pc[d] /\ base'[d] = base[d]
                                    /\ cand'[d] = cand[d] /\ result'[d] = result[d]
    BY <2>1 DEF Return, Goto, Report, StampInv, TypeInv, TypeOK
  <2>4. pc[c] \in CandPcs
    BY <1>12 DEF Promote, CandPcs
  <2>5. QED
    BY <2>2, <2>3, <2>4, MovedStamps
<1>13. QED
  BY <1>3, <1>4, <1>5, <1>6, <1>7, <1>9, <1>10, <1>11, <1>12 DEF CommitStep

LEMMA MigrateStamps ==
  ASSUME StampInv, Reporting, TypeInv', NEW c \in Clients, MigrateSteps(c)
  PROVE  StampInv'
<1> USE DEF disk, sync, client
<1>1. head \in Rev /\ Stamps(head) \subseteq Exposed
  BY CandType
<1>2. pc[c] \in {"migrate_check", "migrate_step"} => cand[c] = <<>>
  BY DEF StampInv, Held, CandPcs
<1>3. CASE MigrateCheck(c)
  <2>1. CASE Tip(head).schema = ImportSchema
    BY <1>1, <1>3, <2>1, ReturnStamps DEF MigrateCheck
  <2>2. CASE Tip(head).schema # ImportSchema
    <3>1. /\ cand[c] = <<>> /\ Goto(c, "migrate_step")
          /\ UNCHANGED <<head, unsyncedHeads, base, cand, result, clock>>
      BY <1>2, <1>3, <2>2 DEF MigrateCheck
    <3>2. QED
      BY <1>1, <3>1, MoveStamps
  <2>3. QED
    BY <2>1, <2>2
<1>4. CASE MigrateStep(c)
  <2>1. base[c] # <<>> /\ base[c] \in Rev
    BY <1>4 DEF MigrateStep, StampInv, TypeInv, TypeOK, NonEmpty, BasePcs
  <2>2. Tip(base[c]).schema \in SchemaVersions /\ Tip(base[c]).arts \subseteq Objects
    BY <2>1, TipType
  <2>3. PICK kept \in SUBSET Tip(base[c]).arts :
          cand' = [cand EXCEPT ![c] = NewRevision(base[c], Tip(base[c]).schema + 1, kept)]
    BY <1>4 DEF MigrateStep
  <2>4. /\ Tip(base[c]).schema < CurrentSchema /\ Tick /\ Goto(c, "migrate_revision")
        /\ UNCHANGED <<head, unsyncedHeads, base, result>>
    BY <1>4 DEF MigrateStep
  <2>5. DEFINE e == [schema |-> Tip(base[c]).schema + 1, arts |-> kept, stamp |-> clock']
  <2>6. clock' \in Nat /\ kept \subseteq Objects /\ Tip(base[c]).schema + 1 \in SchemaVersions
    BY <2>2, <2>3, <2>4 DEF SchemaVersions, CurrentSchema, Tick, StampInv, TypeInv, TypeOK
  <2>7. e \in Entry /\ e.stamp = clock'
    BY <2>6 DEF Entry
  <2>8. cand' = [cand EXCEPT ![c] = Append(base[c], e)]
    BY <2>3 DEF NewRevision
  <2> HIDE DEF e
  <2>9. pc'[c] \in CandPcs /\ \A d \in Clients \ {c} : pc'[d] = pc[d]
    BY <2>4 DEF Goto, CandPcs, StampInv, TypeInv, TypeOK
  <2>10. QED
    BY <2>4, <2>7, <2>8, <2>9, CandidateStamps
<1>5. CASE MigratePromote(c)
  <2>1. PICK synced \in BOOLEAN :
          /\ MoveHead(c, synced)
          /\ result' = [result EXCEPT ![c] =
               Report(IF synced /\ result[c].kind # "warned" THEN "committed" ELSE "warned",
                      cand[c])]
    BY <1>5 DEF MigratePromote
  <2>2. head' = cand[c] /\ unsyncedHeads' \subseteq unsyncedHeads \cup {head} /\ clock' = clock
    BY <2>1 DEF MoveHead
  <2>3. /\ base'[c] = cand[c] /\ cand'[c] = <<>>
        /\ \A d \in Clients \ {c} : /\ pc'[d] = pc[d] /\ base'[d] = base[d]
                                    /\ cand'[d] = cand[d]
    BY <1>5 DEF MigratePromote, Goto, StampInv, TypeInv, TypeOK
  <2>4. /\ result'[c].kind # "failed"
        /\ \A d \in Clients \ {c} : result'[d] = result[d]
    BY <2>1 DEF Report, StampInv, TypeInv, TypeOK
  <2>5. pc[c] \in CandPcs
    BY <1>5 DEF MigratePromote, CandPcs
  <2>6. QED
    BY <2>2, <2>3, <2>4, <2>5, MovedStamps
<1>6. CASE MigrateDone(c)
  <2>1. PICK k \in Kinds, r \in Rev : Return(c, k, r) /\ k \in {"unchanged", result[c].kind}
    BY <1>6 DEF MigrateDone, StampInv, TypeInv, TypeOK, Result, Kinds
  <2>2. k # "failed"
    BY <1>6, <2>1 DEF MigrateDone, Reporting
  <2>3. QED
    BY <1>1, <1>6, <2>1, <2>2, ReturnStamps DEF MigrateDone
<1>7. QED
  BY <1>3, <1>4, <1>5, <1>6 DEF MigrateSteps

LEMMA FaultStamps ==
  ASSUME StampInv, TypeInv', NEW c \in Clients, Fault(c)
  PROVE  StampInv'
<1> USE DEF disk, sync
<1>1. head \in Rev /\ Stamps(head) \subseteq Exposed
  BY CandType
<1>2. CASE KilledAfterHead(c)
  <2>1. /\ Return(c, "killed", cand[c]) /\ head' = cand[c] /\ clock' = clock
        /\ unsyncedHeads' = unsyncedHeads \cup {head} /\ pc[c] \in CandPcs
    BY <1>2 DEF KilledAfterHead, CandPcs
  <2>2. /\ base'[c] = <<>> /\ cand'[c] = <<>> /\ result'[c].kind # "failed"
        /\ \A d \in Clients \ {c} : /\ pc'[d] = pc[d] /\ base'[d] = base[d]
                                    /\ cand'[d] = cand[d] /\ result'[d] = result[d]
    BY <2>1 DEF Return, Goto, Report, StampInv, TypeInv, TypeOK
  <2>3. QED
    BY <2>1, <2>2, MovedStamps
<1>3. CASE Halt(c) \/ HaltInObject(c) \/ HaltInRevision(c) \/ HaltInCreate(c)
  <2>1. PICK k : Return(c, k, cand[c])
    BY <1>3 DEF Halt, HaltInObject, HaltInRevision, HaltInCreate, Stop
  <2>2. clock' = clock
    BY <1>3 DEF Halt, HaltInObject, HaltInRevision, HaltInCreate
  <2>3. head' = head \/ head' = Root(want[c])
    BY <1>3 DEF Halt, HaltInObject, HaltInRevision, HaltInCreate
  <2>4. Stamps(head') \subseteq Exposed \cup {0}
    BY <1>1, <2>3, RootStamps
  <2>5. \A h \in unsyncedHeads' : h \in unsyncedHeads \/ h = head
    BY <1>3 DEF Halt, HaltInObject, HaltInRevision, HaltInCreate
  <2>6. QED
    BY <2>1, <2>2, <2>4, <2>5, ReturnStamps
<1>4. QED
  BY <1>2, <1>3 DEF Fault

LEMMA PowerStamps ==
  ASSUME StampInv, TypeInv', PowerLoss
  PROVE  StampInv'
<1>1. /\ head' \in {head} \cup unsyncedHeads /\ unsyncedHeads' = {} /\ clock' = clock
      /\ \A c \in Clients : /\ base'[c] = <<>> /\ cand'[c] = <<>>
                            /\ result'[c] = result[c] \/ result'[c].kind # "failed"
  BY DEF PowerLoss, Report
<1>2. Stamps(<<>>) = {}
  BY DEF Stamps
<1>3. Exposed' \subseteq Exposed \cup {0}
  BY <1>1, <1>2 DEF Exposed
<1>4. QED
  BY <1>1, <1>3, QuietStamps

LEMMA NextStampInv == StampInv /\ Reporting /\ [Next]_vars => StampInv'
<1> SUFFICES ASSUME StampInv, Reporting, [Next]_vars PROVE StampInv'
  OBVIOUS
<1>1. TypeInv'
  BY NextTypeInv DEF StampInv
<1>2. CASE UNCHANGED vars
  <2>1. UNCHANGED <<head, unsyncedHeads, pc, base, cand, result, clock>>
    BY <1>2 DEF vars, disk, sync, client
  <2>2. Exposed' = Exposed
    BY <2>1 DEF Exposed
  <2>3. \A d \in Clients : cand[d] # <<>> => pc[d] \in CandPcs
    BY DEF StampInv, Held
  <2>4. QED
    BY <1>1, <2>1, <2>2, <2>3, QuietStamps
<1>3. CASE PowerLoss
  BY <1>1, <1>3, PowerStamps
<1>4. ASSUME NEW c \in Clients, Start(c) \/ Work(c) \/ Fault(c)
      PROVE  StampInv'
  BY <1>1, <1>4, StartStamps, CreateStamps, CommitStamps, MigrateStamps, FaultStamps DEF Work
<1>5. QED
  BY <1>2, <1>3, <1>4 DEF Next

(* A commit that was reported as failed is not part of the history, and    *)
(* never becomes part of it: whatever else clients and faults do, two      *)
(* locking modes and power losses included, HEAD does not extend it.       *)
THEOREM FailuresStayInvisible == Spec => []FailedInvisible
<1>1. ASSUME StampInv PROVE FailedInvisible
  <2> SUFFICES ASSUME NEW c \in Clients,
                      result[c].kind = "failed", result[c].rev # <<>>,
                      Extends(head, result[c].rev)
               PROVE  FALSE
    BY DEF FailedInvisible
  <2> DEFINE r == result[c].rev
  <2>1. r \in Rev /\ head \in Rev /\ FailedWith(c, r)
    BY <1>1 DEF StampInv, TypeInv, TypeOK, Result, FailedWith
  <2>2. Len(r) \in Nat \ {0} /\ Len(r) <= Len(head) /\ head[Len(r)] = Tip(r) /\ Len(head) \in Nat
    <3>1. Len(r) \in Nat \ {0} /\ Len(head) \in Nat
      BY <2>1, TipType DEF Rev
    <3>2. QED
      BY <3>1 DEF Extends, Tip
  <2>3. TipStamp(r) \in Stamps(head)
    BY <2>2 DEF Stamps, TipStamp
  <2>4. TipStamp(r) \notin Exposed
    BY <1>1, <2>1 DEF StampInv, Unseen
  <2>5. QED
    BY <1>1, <2>3, <2>4, CandType
<1>2. Init => Reporting
  BY DEF Init, Reporting
<1>3. StampInv => TypeInv
  BY DEF StampInv
<1>4. QED
  BY <1>1, <1>2, <1>3, InitStampInv, NextStampInv, NextReporting, PTL DEF Spec

-----------------------------------------------------------------------------
(* WorkspaceStore implements WorkspaceHistory: HEAD only moves forward,    *)
(* and only from the revision that the committing client read.  What was   *)
(* confirmed survives, and what was damaged is not built upon.             *)
(*                                                                         *)
(* All creators ask for the same mode: Workspace.create takes no lock, and *)
(* creators of two modes overwrite each other's HEAD.  What says that HEAD *)
(* never goes back also excludes a loss of power, which may take it back   *)
(* to a value that its directory was not synced after.                     *)

NoPowerLoss == "power" \notin Faults
OneMode == \A s, t \in Schemas : s = t

LockedPcs == CommitPcs \cup MigratePcs

\* What a client knows of HEAD at each point of its operation.
Knows(c) ==
  /\ pc[c] \in LockedPcs => lock = c
  /\ pc[c] \in CandPcs =>
       /\ base[c] = head /\ head # <<>>
       /\ \E e \in Entry : cand[c] = Append(head, e)
  /\ pc[c] = "migrate_step" => base[c] = head /\ head # <<>>
  /\ pc[c] \in CreatePcs \cup {"idle"} => base[c] = <<>>
  /\ pc[c] \in CreatePcs => want[c] \in Schemas
  /\ pc[c] = "write_head" => head = <<>> /\ Root(want[c]) \in installed

\* The mkdir of the init revision admits one creator.
OneCreator == \A c, d \in Clients : pc[c] = "write_head" /\ pc[d] = "write_head" => c = d

\* As long as a creator may still install it, the init revision of a history
\* that has begun is there.
RootFirst ==
  head # <<>> /\ (\E c \in Clients : pc[c] \in CreatePcs) =>
    \E s \in Schemas : Root(s) \in installed

OrderInv == TypeInv /\ OneCreator /\ RootFirst /\ \A c \in Clients : Knows(c)

-----------------------------------------------------------------------------
(* The steps of the store, as the history sees them                        *)

LEMMA AppendGrows ==
  ASSUME NEW r \in Rev, NEW e \in Entry
  PROVE  /\ Append(r, e) \in Rev /\ Append(r, e) # <<>>
         /\ Len(r) \in Nat /\ Len(Append(r, e)) = Len(r) + 1
         /\ \A n \in 1..Len(r) : Append(r, e)[n] = r[n]
BY AppendProperties, LenProperties DEF Rev

LEMMA RootGrows ==
  ASSUME NEW s \in SchemaVersions
  PROVE  /\ Root(s) \in Rev /\ Root(s) # <<>>
         /\ Len(<<>>) = 0 /\ Len(Root(s)) = 1
         /\ 1..Len(<<>>) = {}
BY RootType DEF Root

\* HEAD is where it was, or has grown by one revision.
Advances == head' = head \/ History!Grows

LEMMA AppendAdvances ==
  ASSUME TypeInv, NEW e \in Entry, head' = Append(head, e)
  PROVE  History!Grows
BY AppendGrows DEF History!Grows, TypeInv, TypeOK, Rev

LEMMA RootAdvances ==
  ASSUME NEW s \in SchemaVersions, head = <<>>, head' = Root(s)
  PROVE  History!Grows
BY RootGrows DEF History!Grows, Rev

\* Ending an operation makes its client forget what it read.
LEMMA ReturnForgets ==
  ASSUME NEW c \in Clients, NEW k, NEW r, Return(c, k, r), head' = head
  PROVE  History!Next
BY DEF Return, History!Next, History!Forget

\* Promoting a candidate is a commit of the history.
LEMMA PromotionCommits ==
  ASSUME OrderInv, NEW c \in Clients, pc[c] \in CandPcs, head' = cand[c],
         base' = [base EXCEPT ![c] = <<>>] \/ base' = [base EXCEPT ![c] = cand[c]]
  PROVE  History!Next /\ History!Grows
<1>1. PICK e \in Entry : cand[c] = Append(head, e)
  BY DEF OrderInv, Knows
<1>2. History!Grows
  BY <1>1, AppendAdvances DEF OrderInv
<1>3. base[c] = head /\ head # <<>>
  BY DEF OrderInv, Knows
<1>4. base' \in {[base EXCEPT ![c] = <<>>], [base EXCEPT ![c] = head']}
  OBVIOUS
<1>5. QED
  BY <1>2, <1>3, <1>4 DEF History!Next, History!Commit

\* Writing the init revision creates the history.
LEMMA RootCreates ==
  ASSUME OrderInv, NEW c \in Clients, pc[c] = "write_head", head' = Root(want[c]),
         base' = base \/ base' = [base EXCEPT ![c] = <<>>]
  PROVE  History!Next /\ History!Grows
<1>1. head = <<>> /\ want[c] \in SchemaVersions
  BY DEF OrderInv, Knows, TypeInv, TypeOK
<1>2. History!Grows
  BY <1>1, RootAdvances
<1>3. base[c] = <<>>
  BY DEF OrderInv, Knows, CreatePcs
<1>4. base' = base
  BY <1>3 DEF OrderInv, TypeInv, TypeOK
<1>5. QED
  BY <1>1, <1>2, <1>4 DEF History!Next, History!Create

LEMMA StepRefines ==
  ASSUME OrderInv, [Next]_vars, ~PowerLoss
  PROVE  [History!Next]_<<head, base>> /\ Advances
<1> USE DEF disk, sync, client
<1>1. CASE UNCHANGED vars
  BY <1>1 DEF vars, Advances
<1>2. ASSUME NEW c \in Clients, Start(c)
      PROVE  History!Next \/ UNCHANGED <<head, base>>
  <2>1. CASE Open(c) \/ Begin(c)
    BY <2>1 DEF Open, Begin, History!Next, History!Read
  <2>2. CASE CreateStarts(c) \/ MigrateBegin(c)
    BY <2>2 DEF CreateStarts, MigrateBegin
  <2>3. CASE CreateRefused(c) \/ OpenFails(c) \/ BeginConflict(c) \/ Close(c)
    BY <2>3, ReturnForgets DEF CreateRefused, OpenFails, BeginConflict, Close
  <2>4. QED
    BY <1>2, <2>1, <2>2, <2>3 DEF Start
<1>3. ASSUME NEW c \in Clients, Start(c)
      PROVE  head' = head
  BY <1>3 DEF Start, CreateStarts, CreateRefused, Open, OpenFails, Begin, BeginConflict,
              MigrateBegin, Close
<1>4. ASSUME NEW c \in Clients, CreateStep(c)
      PROVE  (History!Next \/ UNCHANGED <<head, base>>) /\ Advances
  <2>1. CASE MakeDirs(c) \/ WriteMeta(c) \/ InstallRoot(c)
    BY <2>1 DEF MakeDirs, WriteMeta, InstallRoot, Advances
  <2>2. CASE RootExists(c)
    BY <2>2, ReturnForgets DEF RootExists, Advances
  <2>3. CASE WriteHead(c)
    BY <2>3, RootCreates DEF WriteHead, Advances
  <2>4. QED
    BY <1>4, <2>1, <2>2, <2>3 DEF CreateStep
<1>5. ASSUME NEW c \in Clients, PutArtifacts(c) \/ CommitStep(c)
      PROVE  (History!Next \/ UNCHANGED <<head, base>>) /\ Advances
  <2>1. CASE \/ PutArtifacts(c) \/ AcquireLock(c) \/ CommitCandidate(c) \/ InstallObject(c)
             \/ ObjectsInstalled(c) \/ InstallRevision(c)
    BY <2>1 DEF PutArtifacts, AcquireLock, CommitCandidate, InstallObject, ObjectsInstalled,
                InstallRevision, Advances
  <2>2. CASE LockTimeout(c) \/ CommitConflict(c) \/ CommitUnchanged(c)
    BY <2>2, ReturnForgets DEF LockTimeout, CommitConflict, CommitUnchanged, Advances
  <2>3. CASE Promote(c)
    <3>1. pc[c] \in CandPcs /\ head' = cand[c] /\ base' = [base EXCEPT ![c] = <<>>]
      BY <2>3 DEF Promote, MoveHead, Return, CandPcs
    <3>2. QED
      BY <3>1, PromotionCommits DEF Advances
  <2>4. QED
    BY <1>5, <2>1, <2>2, <2>3 DEF CommitStep
<1>6. ASSUME NEW c \in Clients, MigrateSteps(c)
      PROVE  (History!Next \/ UNCHANGED <<head, base>>) /\ Advances
  <2>1. CASE MigrateCheck(c)
    BY <2>1, ReturnForgets DEF MigrateCheck, Advances
  <2>2. CASE MigrateStep(c)
    BY <2>2 DEF MigrateStep, Advances
  <2>3. CASE MigratePromote(c)
    <3>1. pc[c] \in CandPcs /\ head' = cand[c] /\ base' = [base EXCEPT ![c] = cand[c]]
      BY <2>3 DEF MigratePromote, MoveHead, CandPcs
    <3>2. QED
      BY <3>1, PromotionCommits DEF Advances
  <2>4. CASE MigrateDone(c)
    BY <2>4, ReturnForgets DEF MigrateDone, Advances
  <2>5. QED
    BY <1>6, <2>1, <2>2, <2>3, <2>4 DEF MigrateSteps
<1>7. ASSUME NEW c \in Clients, Fault(c)
      PROVE  (History!Next \/ UNCHANGED <<head, base>>) /\ Advances
  <2>1. PICK k : Return(c, k, cand[c])
    BY <1>7 DEF Fault, Halt, HaltInObject, HaltInRevision, HaltInCreate, KilledAfterHead, Stop
  <2>2. base' = [base EXCEPT ![c] = <<>>]
    BY <2>1 DEF Return
  <2>3. CASE head' = head
    BY <2>1, <2>3, ReturnForgets DEF Advances
  <2>4. CASE HaltInCreate(c) /\ head' # head
    <3>1. pc[c] = "write_head" /\ head' = Root(want[c])
      BY <2>4 DEF HaltInCreate
    <3>2. QED
      BY <2>2, <3>1, RootCreates DEF Advances
  <2>5. CASE KilledAfterHead(c)
    <3>1. pc[c] \in CandPcs /\ head' = cand[c]
      BY <2>5 DEF KilledAfterHead, CandPcs
    <3>2. QED
      BY <2>2, <3>1, PromotionCommits DEF Advances
  <2>6. QED
    BY <1>7, <2>3, <2>4, <2>5 DEF Fault, Halt, HaltInObject, HaltInRevision
<1>8. QED
  BY <1>1, <1>2, <1>3, <1>4, <1>5, <1>6, <1>7 DEF Next, Work, Advances

-----------------------------------------------------------------------------
(* OrderInv is inductive                                                   *)

LEMMA InitOrderInv == Init => OrderInv
<1> SUFFICES ASSUME Init PROVE OrderInv
  OBVIOUS
<1>1. \A c \in Clients : pc[c] = "idle" /\ base[c] = <<>>
  BY DEF Init
<1>2. head = <<>>
  BY DEF Init
<1>3. \A c \in Clients : Knows(c)
  BY <1>1 DEF Knows, LockedPcs, CommitPcs, MigratePcs, CandPcs, CreatePcs
<1>4. QED
  BY <1>1, <1>2, <1>3, InitTypeInv DEF OrderInv, OneCreator, RootFirst

\* While one client can move HEAD, nobody else relies on where HEAD is.
LEMMA OneMover ==
  ASSUME OrderInv, NEW c \in Clients, pc[c] \in CandPcs \cup {"write_head"},
         NEW d \in Clients \ {c}
  PROVE  pc[d] \notin CandPcs \cup {"migrate_step", "write_head"}
<1>1. CASE pc[c] \in CandPcs
  <2>1. lock = c /\ head # <<>>
    BY <1>1 DEF OrderInv, Knows, LockedPcs, CommitPcs, MigratePcs, CandPcs
  <2>2. pc[d] \notin LockedPcs /\ pc[d] # "write_head"
    BY <2>1 DEF OrderInv, Knows
  <2>3. QED
    BY <2>2 DEF LockedPcs, CommitPcs, MigratePcs, CandPcs
<1>2. CASE pc[c] = "write_head"
  BY <1>2 DEF OrderInv, OneCreator, Knows
<1>3. QED
  BY <1>1, <1>2

\* What a step of client c has to show.
LEMMA OrderFrame ==
  ASSUME OrderInv, TypeInv', NEW c \in Clients, Knows(c)',
         \A d \in Clients \ {c} : /\ pc'[d] = pc[d] /\ want'[d] = want[d]
                                  /\ base'[d] = base[d] /\ cand'[d] = cand[d]
                                  /\ lock = d => lock' = d,
         installed \subseteq installed',
         head' = head \/ pc[c] \in CandPcs \cup {"write_head"},
         pc'[c] = "write_head" => \A d \in Clients \ {c} : pc[d] # "write_head",
         pc'[c] \in CreatePcs => pc[c] \in CreatePcs \/ head' = <<>>
  PROVE  OrderInv'
<1>1. ASSUME NEW d \in Clients \ {c}
      PROVE  Knows(d)'
  <2>1. Knows(d)
    BY DEF OrderInv
  <2>2. /\ pc'[d] = pc[d] /\ want'[d] = want[d] /\ base'[d] = base[d]
        /\ cand'[d] = cand[d] /\ (lock = d => lock' = d)
    OBVIOUS
  <2>3. CASE head' = head
    BY <2>1, <2>2, <2>3 DEF Knows
  <2>4. CASE pc[d] \notin CandPcs \cup {"migrate_step", "write_head"}
    BY <2>1, <2>2, <2>4 DEF Knows
  <2>5. QED
    BY <2>3, <2>4, OneMover
<1>2. OneCreator'
  <2>1. \A d \in Clients \ {c} : pc'[d] = pc[d]
    OBVIOUS
  <2>2. ASSUME pc'[c] = "write_head", NEW d \in Clients \ {c}
        PROVE  pc'[d] # "write_head"
    BY <2>1, <2>2
  <2>3. QED
    BY <2>1, <2>2 DEF OrderInv, OneCreator
<1>3. RootFirst'
  <2>1. CASE pc[c] = "write_head"
    <3>1. want[c] \in Schemas /\ Root(want[c]) \in installed
      BY <2>1 DEF OrderInv, Knows, CreatePcs
    <3>2. QED
      BY <3>1 DEF RootFirst
  <2>2. CASE head # <<>>
    <3>1. ASSUME NEW d \in Clients, pc'[d] \in CreatePcs, head' # <<>>
          PROVE  \E e \in Clients : pc[e] \in CreatePcs
      BY <3>1
    <3>2. (\E e \in Clients : pc[e] \in CreatePcs) =>
            \E s \in Schemas : Root(s) \in installed
      BY <2>2 DEF OrderInv, RootFirst
    <3>3. QED
      BY <3>1, <3>2 DEF RootFirst
  <2>3. CASE head = <<>> /\ head' = head
    BY <2>3 DEF RootFirst
  <2>4. CASE pc[c] \in CandPcs
    BY <2>2, <2>4 DEF OrderInv, Knows
  <2>5. QED
    BY <2>1, <2>2, <2>3, <2>4
<1>4. QED
  BY <1>1, <1>2, <1>3 DEF OrderInv

\* An operation that ends, having moved HEAD only where it may.
LEMMA ReturnOrder ==
  ASSUME OrderInv, TypeInv', NEW c \in Clients, NEW k, NEW r, Return(c, k, r),
         installed \subseteq installed',
         head' = head \/ pc[c] \in CandPcs \cup {"write_head"}
  PROVE  OrderInv'
<1>1. pc'[c] = "idle" /\ base'[c] = <<>>
  BY DEF Return, Goto, OrderInv, TypeInv, TypeOK
<1>2. Knows(c)'
  BY <1>1 DEF Knows, LockedPcs, CommitPcs, MigratePcs, CandPcs, CreatePcs
<1>3. \A d \in Clients \ {c} : /\ pc'[d] = pc[d] /\ want'[d] = want[d]
                               /\ base'[d] = base[d] /\ cand'[d] = cand[d]
                               /\ lock = d => lock' = d
  BY DEF Return, Goto, OrderInv, TypeInv, TypeOK
<1>4. QED
  BY <1>1, <1>2, <1>3, OrderFrame DEF CreatePcs

\* A step that only moves its client along, with the base and the candidate.
LEMMA MoveOrder ==
  ASSUME OrderInv, TypeInv', NEW c \in Clients, NEW l, Goto(c, l), l # "write_head",
         l \in CreatePcs => pc[c] \in CreatePcs,
         Knows(c)', UNCHANGED <<head, installed, want>>,
         \A d \in Clients \ {c} : /\ base'[d] = base[d] /\ cand'[d] = cand[d]
                                  /\ lock = d => lock' = d
  PROVE  OrderInv'
<1>1. pc'[c] = l /\ \A d \in Clients \ {c} : pc'[d] = pc[d]
  BY DEF Goto, OrderInv, TypeInv, TypeOK
<1>2. QED
  BY <1>1, OrderFrame

LEMMA StartOrderInv ==
  ASSUME OrderInv, TypeInv', NEW c \in Clients, Start(c)
  PROVE  OrderInv'
<1> USE DEF disk, sync, client
<1>1. CASE CreateRefused(c) \/ OpenFails(c) \/ BeginConflict(c) \/ Close(c)
  BY <1>1, ReturnOrder DEF CreateRefused, OpenFails, BeginConflict, Close
<1>2. CASE CreateStarts(c)
  <2>1. PICK s \in Schemas : want' = [want EXCEPT ![c] = s]
    BY <1>2 DEF CreateStarts
  <2>2. pc'[c] = "make_dirs" /\ want'[c] \in Schemas /\ base'[c] = <<>>
    BY <1>2, <2>1 DEF CreateStarts, Goto, OrderInv, Knows, TypeInv, TypeOK
  <2>3. Knows(c)'
    BY <2>2 DEF Knows, LockedPcs, CommitPcs, MigratePcs, CandPcs, CreatePcs
  <2>4. \A d \in Clients \ {c} : /\ pc'[d] = pc[d] /\ want'[d] = want[d]
                                 /\ base'[d] = base[d] /\ cand'[d] = cand[d]
    BY <1>2, <2>1 DEF CreateStarts, Goto, OrderInv, TypeInv, TypeOK
  <2>5. QED
    BY <1>2, <2>2, <2>3, <2>4, OrderFrame DEF CreateStarts
<1>3. CASE Open(c) \/ Begin(c) \/ MigrateBegin(c)
  <2>1. PICK l \in {"open", "staging", "migrate"} : Goto(c, l)
    BY <1>3 DEF Open, Begin, MigrateBegin
  <2>2. pc'[c] = l
    BY <2>1 DEF Goto, OrderInv, TypeInv, TypeOK
  <2>3. Knows(c)'
    BY <2>1, <2>2 DEF Knows, LockedPcs, CommitPcs, MigratePcs, CandPcs, CreatePcs
  <2>4. \A d \in Clients \ {c} : base'[d] = base[d] /\ cand'[d] = cand[d]
    BY <1>3 DEF Open, Begin, MigrateBegin, OrderInv, TypeInv, TypeOK
  <2>5. UNCHANGED <<head, installed, want, lock>>
    BY <1>3 DEF Open, Begin, MigrateBegin
  <2>6. QED
    BY <2>1, <2>3, <2>4, <2>5, MoveOrder DEF CreatePcs
<1>4. QED
  BY <1>1, <1>2, <1>3 DEF Start

LEMMA CreateOrderInv ==
  ASSUME OneMode, OrderInv, TypeInv', NEW c \in Clients, CreateStep(c)
  PROVE  OrderInv'
<1> USE DEF disk, sync, client
<1>1. CASE MakeDirs(c) \/ WriteMeta(c)
  <2>1. PICK l \in {"write_meta", "install_root"} : Goto(c, l)
    BY <1>1 DEF MakeDirs, WriteMeta
  <2>2. pc'[c] = l /\ UNCHANGED <<head, installed, want, lock, base, cand>>
    BY <1>1, <2>1 DEF Goto, MakeDirs, WriteMeta, OrderInv, TypeInv, TypeOK
  <2>3. pc[c] \in CreatePcs
    BY <1>1 DEF MakeDirs, WriteMeta, CreatePcs
  <2>4. Knows(c)'
    BY <2>1, <2>2, <2>3 DEF OrderInv, Knows, LockedPcs, CommitPcs, MigratePcs, CandPcs, CreatePcs
  <2>5. QED
    BY <2>1, <2>2, <2>3, <2>4, MoveOrder
<1>2. CASE InstallRoot(c)
  <2>1. want[c] \in Schemas /\ base[c] = <<>>
    BY <1>2 DEF InstallRoot, OrderInv, Knows, CreatePcs
  <2>2. head = <<>> /\ \A d \in Clients : pc[d] # "write_head"
    BY <1>2, <2>1 DEF InstallRoot, OneMode, OrderInv, RootFirst, Knows, CreatePcs
  <2>3. UNCHANGED <<head, want, lock, base, cand>> /\ Root(want[c]) \in installed'
    BY <1>2 DEF InstallRoot
  <2>4. pc'[c] = "write_head" /\ \A d \in Clients \ {c} : pc'[d] = pc[d]
    BY <1>2 DEF InstallRoot, Goto, OrderInv, TypeInv, TypeOK
  <2>5. Knows(c)'
    BY <2>1, <2>2, <2>3, <2>4 DEF Knows, LockedPcs, CommitPcs, MigratePcs, CandPcs, CreatePcs
  <2>6. QED
    BY <1>2, <2>2, <2>3, <2>4, <2>5, OrderFrame DEF InstallRoot
<1>3. CASE RootExists(c)
  BY <1>3, ReturnOrder DEF RootExists
<1>4. CASE WriteHead(c)
  <2>1. pc'[c] = "open" /\ \A d \in Clients \ {c} : pc'[d] = pc[d]
    BY <1>4 DEF WriteHead, Goto, OrderInv, TypeInv, TypeOK
  <2>2. Knows(c)'
    BY <2>1 DEF Knows, LockedPcs, CommitPcs, MigratePcs, CandPcs, CreatePcs
  <2>3. pc[c] = "write_head" /\ UNCHANGED <<installed, want, lock, base, cand>>
    BY <1>4 DEF WriteHead
  <2>4. QED
    BY <2>1, <2>2, <2>3, OrderFrame DEF CreatePcs
<1>5. QED
  BY <1>1, <1>2, <1>3, <1>4 DEF CreateStep

LEMMA CommitOrderInv ==
  ASSUME OrderInv, TypeInv', NEW c \in Clients, PutArtifacts(c) \/ CommitStep(c)
  PROVE  OrderInv'
<1> USE DEF disk, sync, client
<1>1. CASE LockTimeout(c) \/ CommitConflict(c) \/ CommitUnchanged(c)
  BY <1>1, ReturnOrder DEF LockTimeout, CommitConflict, CommitUnchanged
<1>2. CASE Promote(c)
  <2>1. PICK k : Return(c, k, cand[c])
    BY <1>2 DEF Promote
  <2>2. pc[c] \in CandPcs /\ installed' = installed
    BY <1>2 DEF Promote, MoveHead, CandPcs
  <2>3. QED
    BY <2>1, <2>2, ReturnOrder
<1>3. CASE PutArtifacts(c)
  <2>1. pc'[c] = "commit" /\ Goto(c, "commit")
    BY <1>3 DEF PutArtifacts, Goto, OrderInv, TypeInv, TypeOK
  <2>2. Knows(c)'
    BY <2>1 DEF Knows, LockedPcs, CommitPcs, MigratePcs, CandPcs, CreatePcs
  <2>3. QED
    BY <1>3, <2>1, <2>2, MoveOrder DEF PutArtifacts, CreatePcs
<1>4. CASE AcquireLock(c)
  <2>1. PICK l \in {"check_head", "migrate_check"} : Goto(c, l)
    BY <1>4 DEF AcquireLock
  <2>2. pc'[c] = l /\ lock' = c
    BY <1>4, <2>1 DEF AcquireLock, Goto, OrderInv, TypeInv, TypeOK
  <2>3. Knows(c)'
    BY <2>1, <2>2 DEF Knows, LockedPcs, CommitPcs, MigratePcs, CandPcs, CreatePcs
  <2>4. \A d \in Clients : lock # d
    BY <1>4, StoreAssumption DEF AcquireLock
  <2>5. UNCHANGED <<head, installed, want, base, cand>>
    BY <1>4 DEF AcquireLock
  <2>6. QED
    BY <2>1, <2>3, <2>4, <2>5, MoveOrder DEF CreatePcs
<1>5. CASE CommitCandidate(c)
  <2>1. head = base[c] /\ head # <<>> /\ head \in Rev /\ lock = c
    BY <1>5 DEF CommitCandidate, ChainInstalled, OrderInv, Knows, LockedPcs, CommitPcs,
                TypeInv, TypeOK
  <2>2. DEFINE e == [schema |-> Tip(head).schema, arts |-> plan[c].arts, stamp |-> clock']
  <2>3. e \in Entry
    BY <1>5, <2>1, TipType DEF CommitCandidate, Tick, Entry, OrderInv, TypeInv, TypeOK, Plan
  <2>4. cand' = [cand EXCEPT ![c] = Append(head, e)]
    BY <1>5 DEF CommitCandidate, NewRevision
  <2> HIDE DEF e
  <2>5. UNCHANGED <<head, installed, want, base, lock>> /\ Goto(c, "objects")
    BY <1>5 DEF CommitCandidate
  <2>6. cand'[c] = Append(head, e) /\ \A d \in Clients \ {c} : cand'[d] = cand[d]
    BY <2>4 DEF OrderInv, TypeInv, TypeOK
  <2>7. pc'[c] = "objects"
    BY <2>5 DEF Goto, OrderInv, TypeInv, TypeOK
  <2>8. Knows(c)'
    BY <2>1, <2>3, <2>5, <2>6, <2>7
    DEF Knows, LockedPcs, CommitPcs, MigratePcs, CandPcs, CreatePcs
  <2>9. QED
    BY <2>5, <2>6, <2>8, MoveOrder DEF CreatePcs
<1>6. CASE InstallObject(c)
  <2>1. UNCHANGED <<head, installed, pc, want, base, cand, lock>>
    BY <1>6 DEF InstallObject
  <2>2. QED
    BY <2>1 DEF OrderInv, OneCreator, RootFirst, Knows
<1>7. CASE ObjectsInstalled(c)
  <2>1. UNCHANGED <<head, installed, want, base, cand, lock>> /\ Goto(c, "revision")
    BY <1>7 DEF ObjectsInstalled
  <2>2. pc[c] = "objects" /\ pc'[c] = "revision"
    BY <1>7, <2>1 DEF ObjectsInstalled, Goto, OrderInv, TypeInv, TypeOK
  <2>3. Knows(c)'
    BY <2>1, <2>2 DEF OrderInv, Knows, LockedPcs, CommitPcs, MigratePcs, CandPcs, CreatePcs
  <2>4. QED
    BY <2>1, <2>3, MoveOrder DEF CreatePcs
<1>8. CASE InstallRevision(c)
  <2>1. PICK l \in {"promote", "migrate_promote"} : Goto(c, l)
    BY <1>8 DEF InstallRevision
  <2>2. UNCHANGED <<head, want, base, cand, lock>> /\ installed \subseteq installed'
    BY <1>8 DEF InstallRevision
  <2>3. pc[c] \in {"revision", "migrate_revision"} /\ pc'[c] = l
    BY <1>8, <2>1 DEF InstallRevision, Goto, OrderInv, TypeInv, TypeOK
  <2>4. Knows(c)'
    BY <2>1, <2>2, <2>3 DEF OrderInv, Knows, LockedPcs, CommitPcs, MigratePcs, CandPcs, CreatePcs
  <2>5. \A d \in Clients \ {c} : pc'[d] = pc[d]
    BY <2>1 DEF Goto, OrderInv, TypeInv, TypeOK
  <2>6. QED
    BY <2>1, <2>2, <2>3, <2>4, <2>5, OrderFrame DEF CreatePcs
<1>9. QED
  BY <1>1, <1>2, <1>3, <1>4, <1>5, <1>6, <1>7, <1>8 DEF CommitStep

LEMMA MigrateOrderInv ==
  ASSUME OrderInv, TypeInv', NEW c \in Clients, MigrateSteps(c)
  PROVE  OrderInv'
<1> USE DEF disk, sync, client
<1>1. CASE MigrateCheck(c)
  <2>1. CASE Tip(head).schema = ImportSchema
    BY <1>1, <2>1, ReturnOrder DEF MigrateCheck
  <2>2. CASE Tip(head).schema # ImportSchema
    <3>1. UNCHANGED <<head, installed, want, base, cand, lock>> /\ Goto(c, "migrate_step")
      BY <1>1, <2>2 DEF MigrateCheck
    <3>2. lock = c /\ base[c] = head /\ head # <<>> /\ pc'[c] = "migrate_step"
      BY <1>1, <3>1 DEF MigrateCheck, ChainInstalled, Goto, OrderInv, Knows, LockedPcs,
                        MigratePcs, TypeInv, TypeOK
    <3>3. Knows(c)'
      BY <3>1, <3>2 DEF Knows, LockedPcs, CommitPcs, MigratePcs, CandPcs, CreatePcs
    <3>4. QED
      BY <3>1, <3>3, MoveOrder DEF CreatePcs
  <2>3. QED
    BY <2>1, <2>2
<1>2. CASE MigrateStep(c)
  <2>1. base[c] = head /\ head # <<>> /\ head \in Rev /\ lock = c
    BY <1>2 DEF MigrateStep, OrderInv, Knows, LockedPcs, MigratePcs, TypeInv, TypeOK
  <2>2. PICK kept \in SUBSET Tip(base[c]).arts :
          cand' = [cand EXCEPT ![c] = NewRevision(base[c], Tip(base[c]).schema + 1, kept)]
    BY <1>2 DEF MigrateStep
  <2>3. DEFINE e == [schema |-> Tip(base[c]).schema + 1, arts |-> kept, stamp |-> clock']
  <2>4. e \in Entry
    <3>1. Tip(base[c]) \in Entry
      BY <2>1, TipType
    <3>2. Tip(base[c]).schema + 1 \in SchemaVersions
      BY <1>2, <3>1 DEF MigrateStep, Entry, SchemaVersions, CurrentSchema
    <3>3. clock' \in Nat /\ kept \subseteq Objects
      BY <1>2, <3>1 DEF MigrateStep, Tick, Entry, OrderInv, TypeInv, TypeOK
    <3>4. QED
      BY <3>2, <3>3 DEF Entry
  <2>5. cand' = [cand EXCEPT ![c] = Append(head, e)]
    BY <2>1, <2>2 DEF NewRevision
  <2> HIDE DEF e
  <2>6. UNCHANGED <<head, installed, want, base, lock>> /\ Goto(c, "migrate_revision")
    BY <1>2 DEF MigrateStep
  <2>7. cand'[c] = Append(head, e) /\ \A d \in Clients \ {c} : cand'[d] = cand[d]
    BY <2>5 DEF OrderInv, TypeInv, TypeOK
  <2>8. pc'[c] = "migrate_revision"
    BY <2>6 DEF Goto, OrderInv, TypeInv, TypeOK
  <2>9. Knows(c)'
    BY <2>1, <2>4, <2>6, <2>7, <2>8
    DEF Knows, LockedPcs, CommitPcs, MigratePcs, CandPcs, CreatePcs
  <2>10. QED
    BY <2>6, <2>7, <2>9, MoveOrder DEF CreatePcs
<1>3. CASE MigratePromote(c)
  <2>1. pc[c] \in CandPcs /\ head' = cand[c]
    BY <1>3 DEF MigratePromote, MoveHead, CandPcs
  <2>2. /\ Goto(c, "migrate_step") /\ UNCHANGED <<installed, want, lock>>
        /\ base' = [base EXCEPT ![c] = cand[c]] /\ cand' = [cand EXCEPT ![c] = <<>>]
    BY <1>3 DEF MigratePromote, MoveHead
  <2>3. pc'[c] = "migrate_step" /\ base'[c] = head'
    BY <2>1, <2>2 DEF Goto, OrderInv, TypeInv, TypeOK
  <2>4. cand[c] # <<>> /\ lock = c
    BY <1>3, <2>1
    DEF MigratePromote, OrderInv, TypeInv, NonEmpty, Knows, LockedPcs, MigratePcs
  <2>5. Knows(c)'
    BY <2>1, <2>2, <2>3, <2>4 DEF Knows, LockedPcs, CommitPcs, MigratePcs, CandPcs, CreatePcs
  <2>6. \A d \in Clients \ {c} : /\ pc'[d] = pc[d] /\ want'[d] = want[d]
                                 /\ base'[d] = base[d] /\ cand'[d] = cand[d]
                                 /\ lock = d => lock' = d
    BY <2>2 DEF Goto, OrderInv, TypeInv, TypeOK
  <2>7. QED
    BY <2>1, <2>2, <2>3, <2>5, <2>6, OrderFrame DEF CreatePcs
<1>4. CASE MigrateDone(c)
  BY <1>4, ReturnOrder DEF MigrateDone
<1>5. QED
  BY <1>1, <1>2, <1>3, <1>4 DEF MigrateSteps

LEMMA FaultOrderInv ==
  ASSUME OrderInv, TypeInv', NEW c \in Clients, Fault(c)
  PROVE  OrderInv'
<1>1. PICK k : Return(c, k, cand[c])
  BY DEF Fault, Halt, HaltInObject, HaltInRevision, HaltInCreate, KilledAfterHead, Stop
<1>2. installed \subseteq installed'
  BY DEF Fault, Halt, HaltInObject, HaltInRevision, HaltInCreate, KilledAfterHead, disk
<1>3. head' = head \/ pc[c] \in CandPcs \cup {"write_head"}
  BY DEF Fault, Halt, HaltInObject, HaltInRevision, HaltInCreate, KilledAfterHead, disk, CandPcs
<1>4. QED
  BY <1>1, <1>2, <1>3, ReturnOrder

LEMMA NextOrderInv ==
  ASSUME OneMode
  PROVE  OrderInv /\ [Next]_vars => OrderInv'
<1> SUFFICES ASSUME OrderInv, [Next]_vars PROVE OrderInv'
  OBVIOUS
<1>1. TypeInv'
  BY NextTypeInv DEF OrderInv
<1>2. CASE UNCHANGED vars
  BY <1>1, <1>2 DEF vars, disk, client, OrderInv, OneCreator, RootFirst, Knows
<1>3. ASSUME NEW c \in Clients, Start(c) \/ Work(c) \/ Fault(c)
      PROVE  OrderInv'
  BY <1>1, <1>3, StartOrderInv, CreateOrderInv, CommitOrderInv, MigrateOrderInv, FaultOrderInv
  DEF Work
<1>4. CASE PowerLoss
  <2>1. \A c \in Clients : pc'[c] = "idle" /\ base'[c] = <<>>
    BY <1>4 DEF PowerLoss
  <2>2. \A c \in Clients : Knows(c)'
    BY <2>1 DEF Knows, LockedPcs, CommitPcs, MigratePcs, CandPcs, CreatePcs
  <2>3. QED
    BY <1>1, <2>1, <2>2 DEF OrderInv, OneCreator, RootFirst, CreatePcs
<1>5. QED
  BY <1>2, <1>3, <1>4 DEF Next

-----------------------------------------------------------------------------
(* HEAD only ever moves to a revision that extends the one it named.       *)
THEOREM HistoryOnlyGrows ==
  ASSUME NoPowerLoss, OneMode
  PROVE  Spec => HistoryAppendOnly
<1>1. TypeInv /\ Advances => [Extends(head', head)]_head
  BY DEF Advances, History!Grows, Extends, TypeInv, TypeOK, Rev
<1>2. OrderInv /\ [Next]_vars => [Extends(head', head)]_head
  BY <1>1, StepRefines DEF OrderInv, PowerLoss, NoPowerLoss
<1>3. QED
  BY <1>2, InitOrderInv, NextOrderInv, PTL DEF Spec, HistoryAppendOnly

(* The store implements the linear history with optimistic commits: every  *)
(* step of a client, crash included, creates, reads, forgets or commits.   *)
THEOREM StoreImplementsHistory ==
  ASSUME NoPowerLoss, OneMode
  PROVE  Spec => HistorySpec
<1>1. Init => History!Init
  BY DEF Init, History!Init
<1>2. OrderInv /\ [Next]_vars => [History!Next]_(History!vars)
  BY StepRefines DEF History!vars, PowerLoss, NoPowerLoss
<1>3. QED
  BY <1>1, <1>2, InitOrderInv, NextOrderInv, PTL DEF Spec, HistorySpec, History!Spec

-----------------------------------------------------------------------------
(* An acknowledged commit stays                                            *)

Acknowledged == {"committed", "warned"}

LEMMA ExtendsReflexive ==
  ASSUME NEW r \in Rev
  PROVE  Extends(r, r)
BY DEF Extends, Rev

LEMMA ExtendsTransitive ==
  ASSUME NEW r \in Rev, NEW s \in Rev, NEW t \in Rev, Extends(r, s), Extends(s, t)
  PROVE  Extends(r, t)
BY DEF Extends, Rev

\* What an operation returns is the only report that changes.
LEMMA ReturnReports ==
  ASSUME TypeInv, NEW c \in Clients, NEW k, NEW r, Return(c, k, r), NEW d \in Clients
  PROVE  result'[d] = result[d] \/ result'[d] = Report(k, r)
BY DEF Return, TypeInv, TypeOK

\* Every report is an old one, or acknowledges nothing, or names HEAD.
LEMMA ReportsName ==
  ASSUME NoPowerLoss, OrderInv, [Next]_vars, NEW d \in Clients
  PROVE  \/ result'[d] = result[d]
         \/ result'[d].kind \notin Acknowledged
         \/ result'[d].rev = head'
<1> USE DEF disk, sync, client
<1>0. TypeInv
  BY DEF OrderInv
<1>1. CASE UNCHANGED vars
  BY <1>1 DEF vars
<1>2. ASSUME NEW c \in Clients, NEW k, NEW r, Return(c, k, r), k \notin Acknowledged
      PROVE  result'[d] = result[d] \/ result'[d].kind \notin Acknowledged
  <2>1. result'[d] = result[d] \/ result'[d] = Report(k, r)
    BY <1>0, <1>2, ReturnReports
  <2>2. QED
    BY <1>2, <2>1 DEF Report
<1>3. ASSUME NEW c \in Clients, NEW k, NEW r, Return(c, k, r), r = head'
      PROVE  result'[d] = result[d] \/ result'[d].rev = head'
  <2>1. result'[d] = result[d] \/ result'[d] = Report(k, r)
    BY <1>0, <1>3, ReturnReports
  <2>2. QED
    BY <1>3, <2>1 DEF Report
<1>4. ASSUME NEW c \in Clients, Start(c)
      PROVE  result'[d] = result[d] \/ result'[d].kind \notin Acknowledged
  <2>1. CASE CreateStarts(c) \/ Open(c)
    BY <1>0, <2>1 DEF CreateStarts, Open, Report, Acknowledged, TypeInv, TypeOK
  <2>2. CASE Begin(c) \/ MigrateBegin(c)
    BY <2>2 DEF Begin, MigrateBegin
  <2>3. CASE CreateRefused(c) \/ OpenFails(c) \/ BeginConflict(c) \/ Close(c)
    BY <1>2, <2>3 DEF CreateRefused, OpenFails, BeginConflict, Close, Acknowledged
  <2>4. QED
    BY <1>4, <2>1, <2>2, <2>3 DEF Start
<1>5. ASSUME NEW c \in Clients, CreateStep(c)
      PROVE  result'[d] = result[d] \/ result'[d].kind \notin Acknowledged
  <2>1. CASE RootExists(c)
    BY <1>2, <2>1 DEF RootExists, Acknowledged
  <2>2. CASE MakeDirs(c) \/ WriteMeta(c) \/ InstallRoot(c) \/ WriteHead(c)
    BY <2>2 DEF MakeDirs, WriteMeta, InstallRoot, WriteHead
  <2>3. QED
    BY <1>5, <2>1, <2>2 DEF CreateStep
<1>6. ASSUME NEW c \in Clients, PutArtifacts(c) \/ CommitStep(c)
      PROVE  \/ result'[d] = result[d]
             \/ result'[d].kind \notin Acknowledged
             \/ result'[d].rev = head'
  <2>1. CASE \/ PutArtifacts(c) \/ AcquireLock(c) \/ CommitCandidate(c) \/ InstallObject(c)
             \/ ObjectsInstalled(c) \/ InstallRevision(c)
    BY <2>1 DEF PutArtifacts, AcquireLock, CommitCandidate, InstallObject, ObjectsInstalled,
                InstallRevision
  <2>2. CASE LockTimeout(c) \/ CommitConflict(c) \/ CommitUnchanged(c)
    BY <1>2, <2>2 DEF LockTimeout, CommitConflict, CommitUnchanged, Acknowledged
  <2>3. CASE Promote(c)
    <3>1. head' = cand[c] /\ \E k : Return(c, k, cand[c])
      BY <2>3 DEF Promote, MoveHead
    <3>2. QED
      BY <1>3, <3>1
  <2>4. QED
    BY <1>6, <2>1, <2>2, <2>3 DEF CommitStep
<1>7. ASSUME NEW c \in Clients, MigrateSteps(c)
      PROVE  \/ result'[d] = result[d]
             \/ result'[d].kind \notin Acknowledged
             \/ result'[d].rev = head'
  <2>1. CASE MigrateCheck(c)
    BY <1>2, <2>1 DEF MigrateCheck, Acknowledged
  <2>2. CASE MigrateStep(c)
    BY <2>2 DEF MigrateStep
  <2>3. CASE MigratePromote(c)
    <3>1. /\ head' = cand[c]
          /\ \E k : result' = [result EXCEPT ![c] = Report(k, cand[c])]
      BY <2>3 DEF MigratePromote, MoveHead
    <3>2. QED
      BY <1>0, <3>1 DEF Report, TypeInv, TypeOK
  <2>4. CASE MigrateDone(c)
    <3>1. head' = head /\ base[c] = head
      BY <2>4 DEF MigrateDone, OrderInv, Knows
    <3>2. \E k : Return(c, k, base[c])
      BY <2>4 DEF MigrateDone
    <3>3. QED
      BY <1>3, <3>1, <3>2
  <2>5. QED
    BY <1>7, <2>1, <2>2, <2>3, <2>4 DEF MigrateSteps
<1>8. ASSUME NEW c \in Clients, Fault(c)
      PROVE  result'[d] = result[d] \/ result'[d].kind \notin Acknowledged
  <2>1. PICK k : Return(c, k, cand[c]) /\ k \in {"killed", "failed"}
    BY <1>8 DEF Fault, Halt, HaltInObject, HaltInRevision, HaltInCreate, KilledAfterHead, Stop
  <2>2. QED
    BY <1>2, <2>1 DEF Acknowledged
<1>9. ~PowerLoss
  BY DEF PowerLoss, NoPowerLoss
<1>10. QED
  BY <1>1, <1>4, <1>5, <1>6, <1>7, <1>8, <1>9 DEF Next, Work

LEMMA NextCommittedStays ==
  ASSUME NoPowerLoss, OneMode, OrderInv, OrderInv', CommittedStays, [Next]_vars
  PROVE  CommittedStays'
<1>1. head \in Rev /\ head' \in Rev
  BY DEF OrderInv, TypeInv, TypeOK
<1>2. Extends(head', head)
  <2>1. ~PowerLoss
    BY DEF PowerLoss, NoPowerLoss
  <2>2. QED
    BY <1>1, <2>1, StepRefines, ExtendsReflexive DEF Advances, History!Grows, Extends, Rev
<1>3. ASSUME NEW c \in Clients, result'[c].kind \in Acknowledged
      PROVE  Extends(head', result'[c].rev)
  <2>1. CASE result'[c] = result[c]
    <3>1. result[c].rev \in Rev /\ Extends(head, result[c].rev)
      BY <1>3, <2>1 DEF CommittedStays, Acknowledged, OrderInv, TypeInv, TypeOK, Result
    <3>2. QED
      BY <1>1, <1>2, <2>1, <3>1, ExtendsTransitive
  <2>2. CASE result'[c].rev = head'
    BY <1>1, <2>2, ExtendsReflexive
  <2>3. QED
    BY <1>3, <2>1, <2>2, ReportsName
<1>4. QED
  BY <1>3 DEF CommittedStays, Acknowledged

(* A commit or migration that was acknowledged to its caller is part of    *)
(* the history from then on: no other client, failure or kill removes it.  *)
THEOREM AcknowledgedStays ==
  ASSUME NoPowerLoss, OneMode
  PROVE  Spec => []CommittedStays
<1>1. Init => CommittedStays
  BY DEF Init, CommittedStays, Report
<1>2. OrderInv /\ OrderInv' /\ CommittedStays /\ [Next]_vars => CommittedStays'
  BY NextCommittedStays
<1>3. QED
  BY <1>1, <1>2, InitOrderInv, NextOrderInv, PTL DEF Spec

-----------------------------------------------------------------------------
(* A confirmed commit survives the loss of power                           *)
(*                                                                         *)
(* HEAD may go back to a value that its directory was not synced after.    *)
(* A commit is confirmed only when that directory was synced, and later    *)
(* values of HEAD extend it.                                               *)

Confirmed(c) == result[c].kind = "committed"

Lasting ==
  \A c \in Clients : Confirmed(c) =>
    \A h \in {head} \cup unsyncedHeads : Extends(h, result[c].rev)

\* Every report is an old one, or confirms nothing, or names a HEAD that no
\* power loss can take back.
LEMMA ReportsConfirm ==
  ASSUME TypeInv, Reporting, [Next]_vars, NEW d \in Clients
  PROVE  \/ result'[d] = result[d]
         \/ ~Confirmed(d)'
         \/ result'[d].rev = head' /\ unsyncedHeads' = {}
<1> USE DEF disk, sync, client, Confirmed
<1>1. ASSUME NEW c \in Clients, NEW k, NEW r, Return(c, k, r), k # "committed"
      PROVE  result'[d] = result[d] \/ ~Confirmed(d)'
  <2>1. result'[d] = result[d] \/ result'[d] = Report(k, r)
    BY <1>1, ReturnReports
  <2>2. QED
    BY <1>1, <2>1 DEF Report
<1>2. CASE UNCHANGED vars
  BY <1>2 DEF vars
<1>3. ASSUME NEW c \in Clients, Start(c)
      PROVE  result'[d] = result[d] \/ ~Confirmed(d)'
  <2>1. CASE CreateStarts(c) \/ Open(c)
    BY <2>1 DEF CreateStarts, Open, Report, TypeInv, TypeOK
  <2>2. CASE Begin(c) \/ MigrateBegin(c)
    BY <2>2 DEF Begin, MigrateBegin
  <2>3. CASE CreateRefused(c) \/ OpenFails(c) \/ BeginConflict(c) \/ Close(c)
    BY <1>1, <2>3 DEF CreateRefused, OpenFails, BeginConflict, Close
  <2>4. QED
    BY <1>3, <2>1, <2>2, <2>3 DEF Start
<1>4. ASSUME NEW c \in Clients, CreateStep(c) \/ PutArtifacts(c)
      PROVE  result'[d] = result[d] \/ ~Confirmed(d)'
  BY <1>1, <1>4
  DEF CreateStep, MakeDirs, WriteMeta, InstallRoot, RootExists, WriteHead, PutArtifacts
<1>5. ASSUME NEW c \in Clients, CommitStep(c)
      PROVE  \/ result'[d] = result[d] \/ ~Confirmed(d)'
             \/ result'[d].rev = head' /\ unsyncedHeads' = {}
  <2>1. CASE \/ AcquireLock(c) \/ CommitCandidate(c) \/ InstallObject(c)
             \/ ObjectsInstalled(c) \/ InstallRevision(c)
    BY <2>1 DEF AcquireLock, CommitCandidate, InstallObject, ObjectsInstalled, InstallRevision
  <2>2. CASE LockTimeout(c) \/ CommitConflict(c) \/ CommitUnchanged(c)
    BY <1>1, <2>2 DEF LockTimeout, CommitConflict, CommitUnchanged
  <2>3. CASE Promote(c)
    <3>1. PICK synced \in BOOLEAN :
            MoveHead(c, synced) /\ Return(c, IF synced THEN "committed" ELSE "warned", cand[c])
      BY <2>3 DEF Promote
    <3>2. CASE synced
      <4>1. head' = cand[c] /\ unsyncedHeads' = {}
        BY <3>1, <3>2 DEF MoveHead
      <4>2. result'[d] = result[d] \/ result'[d] = Report("committed", cand[c])
        BY <3>1, <3>2, ReturnReports
      <4>3. QED
        BY <4>1, <4>2 DEF Report
    <3>3. CASE ~synced
      BY <1>1, <3>1, <3>3
    <3>4. QED
      BY <3>2, <3>3
  <2>4. QED
    BY <1>5, <2>1, <2>2, <2>3 DEF CommitStep
<1>6. ASSUME NEW c \in Clients, MigrateSteps(c)
      PROVE  \/ result'[d] = result[d] \/ ~Confirmed(d)'
             \/ result'[d].rev = head' /\ unsyncedHeads' = {}
  <2>1. CASE MigrateCheck(c)
    BY <1>1, <2>1 DEF MigrateCheck
  <2>2. CASE MigrateStep(c)
    BY <2>2 DEF MigrateStep
  <2>3. CASE MigratePromote(c)
    <3>1. PICK synced \in BOOLEAN :
            /\ MoveHead(c, synced)
            /\ result' = [result EXCEPT ![c] =
                 Report(IF synced /\ result[c].kind # "warned" THEN "committed" ELSE "warned",
                        cand[c])]
      BY <2>3 DEF MigratePromote
    <3>2. CASE synced
      <4>1. head' = cand[c] /\ unsyncedHeads' = {}
        BY <3>1, <3>2 DEF MoveHead
      <4>2. result'[d] = result[d] \/ result'[d].rev = cand[c]
        BY <3>1 DEF Report, TypeInv, TypeOK
      <4>3. QED
        BY <4>1, <4>2
    <3>3. CASE ~synced
      BY <3>1, <3>3 DEF Report, TypeInv, TypeOK
    <3>4. QED
      BY <3>2, <3>3
  <2>4. CASE MigrateDone(c)
    <3>1. CASE ~Confirmed(c)
      <4>1. PICK k : Return(c, k, base[c]) /\ k # "committed"
        BY <2>4, <3>1 DEF MigrateDone
      <4>2. QED
        BY <1>1, <4>1
    <3>2. CASE Confirmed(c)
      <4>1. Return(c, "committed", base[c]) /\ result[c].rev = base[c]
        BY <2>4, <3>2 DEF MigrateDone, Reporting
      <4>2. result[c] = Report("committed", base[c])
        BY <3>2, <4>1 DEF Report, TypeInv, TypeOK, Result
      <4>3. QED
        BY <4>1, <4>2 DEF Return, TypeInv, TypeOK
    <3>3. QED
      BY <3>1, <3>2
  <2>5. QED
    BY <1>6, <2>1, <2>2, <2>3, <2>4 DEF MigrateSteps
<1>7. ASSUME NEW c \in Clients, Fault(c)
      PROVE  result'[d] = result[d] \/ ~Confirmed(d)'
  <2>1. PICK k : Return(c, k, cand[c]) /\ k # "committed"
    BY <1>7 DEF Fault, Halt, HaltInObject, HaltInRevision, HaltInCreate, KilledAfterHead, Stop
  <2>2. QED
    BY <1>1, <2>1
<1>8. CASE PowerLoss
  BY <1>8 DEF PowerLoss, Report
<1>9. QED
  BY <1>2, <1>3, <1>4, <1>5, <1>6, <1>7, <1>8 DEF Next, Work

\* What a power loss may bring HEAD back to, after a step that is not one.
LEMMA HeadsKept ==
  ASSUME [Next]_vars, ~PowerLoss
  PROVE  unsyncedHeads' \subseteq unsyncedHeads \cup {head}
<1> USE DEF disk, sync, client
<1>1. CASE UNCHANGED vars
  BY <1>1 DEF vars
<1>2. ASSUME NEW c \in Clients, Start(c)
      PROVE  unsyncedHeads' = unsyncedHeads
  BY <1>2 DEF Start, CreateStarts, CreateRefused, Open, OpenFails, Begin, BeginConflict,
              MigrateBegin, Close
<1>3. ASSUME NEW c \in Clients, CreateStep(c) \/ PutArtifacts(c)
      PROVE  unsyncedHeads' \subseteq unsyncedHeads \cup {head}
  BY <1>3 DEF CreateStep, MakeDirs, WriteMeta, InstallRoot, RootExists, WriteHead, PutArtifacts
<1>4. ASSUME NEW c \in Clients, CommitStep(c)
      PROVE  unsyncedHeads' \subseteq unsyncedHeads \cup {head}
  BY <1>4 DEF CommitStep, AcquireLock, LockTimeout, CommitConflict, CommitUnchanged,
              CommitCandidate, InstallObject, ObjectsInstalled, InstallRevision, Promote, MoveHead
<1>5. ASSUME NEW c \in Clients, MigrateSteps(c)
      PROVE  unsyncedHeads' \subseteq unsyncedHeads \cup {head}
  BY <1>5 DEF MigrateSteps, MigrateCheck, MigrateStep, MigratePromote, MigrateDone, MoveHead
<1>6. ASSUME NEW c \in Clients, Fault(c)
      PROVE  unsyncedHeads' \subseteq unsyncedHeads \cup {head}
  BY <1>6 DEF Fault, Halt, HaltInObject, HaltInRevision, HaltInCreate, KilledAfterHead
<1>7. QED
  BY <1>1, <1>2, <1>3, <1>4, <1>5, <1>6 DEF Next, Work

LEMMA NextLasting ==
  ASSUME OrderInv, OrderInv', Reporting, Lasting, [Next]_vars
  PROVE  Lasting'
<1>1. head \in Rev /\ head' \in Rev /\ TypeInv
  BY DEF OrderInv, TypeInv, TypeOK
<1>2. ASSUME NEW c \in Clients, Confirmed(c)', NEW h \in {head'} \cup unsyncedHeads'
      PROVE  Extends(h, result'[c].rev)
  <2>1. CASE result'[c] = result[c]
    <3>1. Confirmed(c) /\ result[c].rev \in Rev
      BY <1>2, <2>1 DEF Confirmed, OrderInv, TypeInv, TypeOK, Result
    <3>2. \A g \in {head} \cup unsyncedHeads : Extends(g, result[c].rev)
      BY <3>1 DEF Lasting
    <3>3. CASE PowerLoss
      BY <2>1, <3>2, <3>3 DEF PowerLoss
    <3>4. CASE ~PowerLoss
      <4>1. unsyncedHeads' \subseteq unsyncedHeads \cup {head}
        BY <3>4, HeadsKept
      <4>2. Extends(head', head)
        BY <1>1, <3>4, StepRefines, ExtendsReflexive DEF Advances, History!Grows, Extends, Rev
      <4>3. Extends(head', result[c].rev)
        BY <1>1, <3>1, <3>2, <4>2, ExtendsTransitive
      <4>4. QED
        BY <2>1, <3>2, <4>1, <4>3
    <3>5. QED
      BY <3>3, <3>4
  <2>2. CASE result'[c].rev = head' /\ unsyncedHeads' = {}
    BY <1>1, <2>2, ExtendsReflexive
  <2>3. QED
    BY <1>1, <1>2, <2>1, <2>2, ReportsConfirm
<1>3. QED
  BY <1>2 DEF Lasting

(* A commit that was confirmed without a durability warning is part of the *)
(* history from then on, whatever is lost when the machine stops, if all   *)
(* creators of the workspace asked for the same mode.                      *)
THEOREM ConfirmedStays ==
  ASSUME OneMode
  PROVE  Spec => []ConfirmedSurvives
<1>1. Init => Reporting /\ Lasting
  BY DEF Init, Reporting, Lasting, Confirmed, Report
<1>2. OrderInv => TypeInv
  BY DEF OrderInv
<1>3. OrderInv /\ OrderInv' /\ Reporting /\ Lasting /\ [Next]_vars => Lasting'
  BY NextLasting
<1>4. Lasting => ConfirmedSurvives
  BY DEF Lasting, Confirmed, ConfirmedSurvives
<1>5. QED
  BY <1>1, <1>2, <1>3, <1>4, InitOrderInv, NextOrderInv, NextReporting, PTL DEF Spec

-----------------------------------------------------------------------------
(* Damage is found before it is built upon                                 *)
(*                                                                         *)
(* begin and migrate verify the history before their first effect, and a   *)
(* power loss, which could damage it later, ends the operation as well.    *)

CheckedPcs == {"staging", "commit", "check_head", "migrate", "migrate_check", "migrate_step"}
                \cup CandPcs

Checked(c) ==
  /\ pc[c] \in CheckedPcs => Intact(base[c])
  /\ pc[c] = "migrate_revision" => Tip(cand[c]).arts \subseteq objects
  /\ pc[c] = "migrate_promote" => Intact(cand[c])

CheckedInv == \A c \in Clients : Checked(c)

\* HEAD is never shorter than what a power loss may bring back.
Longest == \A h \in unsyncedHeads : Len(h) <= Len(head)

LEMMA IntactLater ==
  ASSUME NEW r, installed \subseteq installed', objects \subseteq objects'
  PROVE  Intact(r) => /\ r # <<>>
                      /\ \A n \in 1..Len(r) : SubSeq(r, 1, n) \in installed'
                      /\ \A n \in 1..Len(r) : r[n].arts \subseteq objects'
BY IntactStays

\* What a step of client c has to show.
LEMMA CheckedFrame ==
  ASSUME CheckedInv, NEW c \in Clients, Checked(c)',
         installed \subseteq installed', objects \subseteq objects',
         \A d \in Clients \ {c} : pc'[d] = pc[d] /\ base'[d] = base[d] /\ cand'[d] = cand[d]
  PROVE  CheckedInv'
<1>1. ASSUME NEW d \in Clients \ {c} PROVE Checked(d)'
  <2>1. Checked(d) /\ pc'[d] = pc[d] /\ base'[d] = base[d] /\ cand'[d] = cand[d]
    BY DEF CheckedInv
  <2>2. Intact(base[d]) => Intact(base[d])'
    BY <2>1, IntactLater DEF Intact, ChainInstalled
  <2>3. Intact(cand[d]) => Intact(cand[d])'
    BY <2>1, IntactLater DEF Intact, ChainInstalled
  <2>4. QED
    BY <2>1, <2>2, <2>3 DEF Checked
<1>2. QED
  BY <1>1 DEF CheckedInv

LEMMA ReturnChecked ==
  ASSUME TypeInv, CheckedInv, NEW c \in Clients, NEW k, NEW r, Return(c, k, r),
         installed \subseteq installed', objects \subseteq objects'
  PROVE  CheckedInv'
<1>1. pc'[c] = "idle"
  BY DEF Return, Goto, TypeInv, TypeOK
<1>2. Checked(c)'
  BY <1>1 DEF Checked, CheckedPcs, CandPcs
<1>3. \A d \in Clients \ {c} : pc'[d] = pc[d] /\ base'[d] = base[d] /\ cand'[d] = cand[d]
  BY DEF Return, Goto, TypeInv, TypeOK
<1>4. QED
  BY <1>2, <1>3, CheckedFrame

\* A step that takes its client to l, with a base that is complete where one
\* is needed.
LEMMA MoveChecked ==
  ASSUME TypeInv, CheckedInv, NEW c \in Clients, NEW l, Goto(c, l),
         l \in CheckedPcs => Intact(base[c])', l # "migrate_promote",
         l = "migrate_revision" => Tip(cand[c])'.arts \subseteq objects',
         installed \subseteq installed', objects \subseteq objects',
         \A d \in Clients \ {c} : base'[d] = base[d] /\ cand'[d] = cand[d]
  PROVE  CheckedInv'
<1>1. pc'[c] = l /\ \A d \in Clients \ {c} : pc'[d] = pc[d]
  BY DEF Goto, TypeInv, TypeOK
<1>2. Checked(c)'
  BY <1>1 DEF Checked
<1>3. QED
  BY <1>1, <1>2, CheckedFrame

LEMMA StartChecked ==
  ASSUME TypeInv, CheckedInv, NEW c \in Clients,
         Start(c) \/ CreateStep(c) \/ PutArtifacts(c)
  PROVE  CheckedInv'
<1> USE DEF disk, sync, client
<1>1. CASE CreateRefused(c) \/ OpenFails(c) \/ BeginConflict(c) \/ Close(c) \/ RootExists(c)
  BY <1>1, ReturnChecked DEF CreateRefused, OpenFails, BeginConflict, Close, RootExists
<1>2. CASE CreateStarts(c) \/ MakeDirs(c) \/ WriteMeta(c) \/ InstallRoot(c) \/ WriteHead(c)
  <2>1. PICK l \in CreatePcs \cup {"open"} : Goto(c, l)
    BY <1>2 DEF CreateStarts, MakeDirs, WriteMeta, InstallRoot, WriteHead, CreatePcs
  <2>2. installed \subseteq installed' /\ UNCHANGED <<objects, base, cand>>
    BY <1>2 DEF CreateStarts, MakeDirs, WriteMeta, InstallRoot, WriteHead
  <2>3. l \notin CheckedPcs
    BY DEF CreatePcs, CheckedPcs, CandPcs
  <2>4. QED
    BY <2>1, <2>2, <2>3, MoveChecked DEF CheckedPcs, CandPcs
<1>3. CASE Open(c)
  <2>1. Goto(c, "open") /\ UNCHANGED <<installed, objects, cand>>
    BY <1>3 DEF Open
  <2>2. \A d \in Clients \ {c} : base'[d] = base[d]
    BY <1>3 DEF Open, TypeInv, TypeOK
  <2>3. QED
    BY <2>1, <2>2, MoveChecked DEF CheckedPcs, CandPcs
<1>4. CASE Begin(c)
  <2>1. Goto(c, "staging") /\ UNCHANGED <<installed, objects, cand>> /\ Intact(head)
    BY <1>4 DEF Begin, Verified
  <2>2. base'[c] = head /\ \A d \in Clients \ {c} : base'[d] = base[d]
    BY <1>4 DEF Begin, TypeInv, TypeOK
  <2>3. Intact(base[c])'
    BY <2>1, <2>2 DEF Intact, ChainInstalled
  <2>4. QED
    BY <2>1, <2>2, <2>3, MoveChecked
<1>5. CASE MigrateBegin(c)
  <2>1. Goto(c, "migrate") /\ UNCHANGED <<installed, objects, base, cand>> /\ Intact(base[c])
    BY <1>5 DEF MigrateBegin, Verified
  <2>2. Intact(base[c])'
    BY <2>1 DEF Intact, ChainInstalled
  <2>3. QED
    BY <2>1, <2>2, MoveChecked
<1>6. CASE PutArtifacts(c)
  <2>1. Goto(c, "commit") /\ UNCHANGED <<installed, objects, base, cand>> /\ pc[c] = "staging"
    BY <1>6 DEF PutArtifacts
  <2>2. Intact(base[c])'
    BY <2>1 DEF CheckedInv, Checked, CheckedPcs, Intact, ChainInstalled
  <2>3. QED
    BY <2>1, <2>2, MoveChecked
<1>7. QED
  BY <1>1, <1>2, <1>3, <1>4, <1>5, <1>6 DEF Start, CreateStep

LEMMA CommitChecked ==
  ASSUME OrderInv, CheckedInv, NEW c \in Clients, CommitStep(c)
  PROVE  CheckedInv'
<1> USE DEF disk, sync, client
<1>1. TypeInv
  BY DEF OrderInv
<1>2. pc[c] \in CheckedPcs => Intact(base[c])
  BY DEF CheckedInv, Checked
<1>3. CASE LockTimeout(c) \/ CommitConflict(c) \/ CommitUnchanged(c) \/ Promote(c)
  <2>1. \E k, r : Return(c, k, r)
    BY <1>3 DEF LockTimeout, CommitConflict, CommitUnchanged, Promote
  <2>2. UNCHANGED <<installed, objects>>
    BY <1>3 DEF LockTimeout, CommitConflict, CommitUnchanged, Promote, MoveHead
  <2>3. QED
    BY <1>1, <2>1, <2>2, ReturnChecked
<1>4. CASE AcquireLock(c) \/ CommitCandidate(c) \/ ObjectsInstalled(c)
  <2>1. PICK l \in {"check_head", "migrate_check", "objects", "revision"} : Goto(c, l)
    BY <1>4 DEF AcquireLock, CommitCandidate, ObjectsInstalled
  <2>2. UNCHANGED <<installed, objects, base>> /\ pc[c] \in CheckedPcs
    BY <1>4 DEF AcquireLock, CommitCandidate, ObjectsInstalled, CheckedPcs, CandPcs
  <2>3. \A d \in Clients \ {c} : cand'[d] = cand[d]
    BY <1>1, <1>4 DEF AcquireLock, CommitCandidate, ObjectsInstalled, TypeInv, TypeOK
  <2>4. Intact(base[c])'
    BY <1>2, <2>2 DEF Intact, ChainInstalled
  <2>5. QED
    BY <1>1, <2>1, <2>2, <2>3, <2>4, MoveChecked
<1>5. CASE InstallObject(c)
  <2>1. UNCHANGED <<installed, pc, base, cand>> /\ objects \subseteq objects' /\ pc[c] = "objects"
    BY <1>5 DEF InstallObject
  <2>2. Intact(base[c])'
    BY <1>2, <2>1, IntactLater DEF CheckedPcs, CandPcs, Intact, ChainInstalled
  <2>3. Checked(c)'
    BY <2>1, <2>2 DEF Checked
  <2>4. QED
    BY <2>1, <2>3, CheckedFrame
<1>6. CASE InstallRevision(c)
  <2>1. /\ installed' = installed \cup {cand[c]} /\ UNCHANGED <<objects, base, cand>>
        /\ pc' = [pc EXCEPT ![c] = IF pc[c] = "revision" THEN "promote" ELSE "migrate_promote"]
        /\ pc[c] \in {"revision", "migrate_revision"}
    BY <1>6 DEF InstallRevision, Goto
  <2>2. Intact(base[c]) /\ pc[c] \in CandPcs
    BY <1>2, <2>1 DEF CheckedPcs, CandPcs
  <2>3. Intact(base[c])'
    BY <2>1, <2>2, IntactLater DEF Intact, ChainInstalled
  <2>4. ASSUME pc[c] = "migrate_revision" PROVE Intact(cand[c])'
    <3>1. Derived(cand[c]) /\ cand[c] \in Rev
      BY <1>1, <2>2 DEF OrderInv, Knows, Derived, TypeInv, TypeOK
    <3>2. Tip(cand[c]).arts \subseteq objects'
      BY <2>1, <2>4 DEF CheckedInv, Checked
    <3>3. QED
      BY <2>1, <3>1, <3>2, DerivedIntact DEF Intact, ChainInstalled
  <2>5. pc'[c] \in {"promote", "migrate_promote"} /\ (pc'[c] = "migrate_promote" => pc[c] = "migrate_revision")
    BY <1>1, <2>1 DEF TypeInv, TypeOK
  <2>6. Checked(c)'
    BY <2>3, <2>4, <2>5 DEF Checked
  <2>7. \A d \in Clients \ {c} : pc'[d] = pc[d]
    BY <1>1, <2>1 DEF TypeInv, TypeOK
  <2>8. QED
    BY <2>1, <2>6, <2>7, CheckedFrame
<1>7. QED
  BY <1>3, <1>4, <1>5, <1>6 DEF CommitStep

LEMMA MigrateChecked ==
  ASSUME OrderInv, CheckedInv, NEW c \in Clients, MigrateSteps(c)
  PROVE  CheckedInv'
<1> USE DEF disk, sync, client
<1>1. TypeInv
  BY DEF OrderInv
<1>2. Checked(c)
  BY DEF CheckedInv
<1>3. CASE MigrateCheck(c)
  <2>1. CASE Tip(head).schema = ImportSchema
    BY <1>1, <1>3, <2>1, ReturnChecked DEF MigrateCheck
  <2>2. CASE Tip(head).schema # ImportSchema
    <3>1. /\ Goto(c, "migrate_step") /\ UNCHANGED <<installed, objects, base, cand>>
          /\ pc[c] = "migrate_check"
      BY <1>3, <2>2 DEF MigrateCheck
    <3>2. Intact(base[c])'
      BY <1>2, <3>1 DEF Checked, CheckedPcs, Intact, ChainInstalled
    <3>3. QED
      BY <1>1, <3>1, <3>2, MoveChecked
  <2>3. QED
    BY <2>1, <2>2
<1>4. CASE MigrateStep(c)
  <2>1. pc[c] = "migrate_step" /\ Goto(c, "migrate_revision") /\ UNCHANGED <<installed, objects, base>>
    BY <1>4 DEF MigrateStep
  <2>2. Intact(base[c]) /\ base[c] \in Rev /\ base[c] # <<>>
    BY <1>1, <1>2, <2>1 DEF Checked, CheckedPcs, Intact, ChainInstalled, TypeInv, TypeOK
  <2>3. Tip(base[c]).arts \subseteq objects /\ Tip(base[c]) \in Entry
    BY <2>2, TipType DEF Intact, Tip
  <2>4. PICK kept \in SUBSET Tip(base[c]).arts :
          cand' = [cand EXCEPT ![c] = NewRevision(base[c], Tip(base[c]).schema + 1, kept)]
    BY <1>4 DEF MigrateStep
  <2>5. DEFINE e == [schema |-> Tip(base[c]).schema + 1, arts |-> kept, stamp |-> clock']
  <2>6. e \in Entry
    <3>1. Tip(base[c]).schema + 1 \in SchemaVersions
      BY <1>4, <2>3 DEF MigrateStep, Entry, SchemaVersions, CurrentSchema
    <3>2. clock' \in Nat /\ kept \subseteq Objects
      BY <1>1, <1>4, <2>3 DEF MigrateStep, Tick, Entry, TypeInv, TypeOK
    <3>3. QED
      BY <3>1, <3>2 DEF Entry
  <2>7. e.arts \subseteq objects
    BY <2>3
  <2>8. cand' = [cand EXCEPT ![c] = Append(base[c], e)]
    BY <2>4 DEF NewRevision
  <2> HIDE DEF e
  <2>9. cand'[c] = Append(base[c], e) /\ \A d \in Clients \ {c} : cand'[d] = cand[d]
    BY <1>1, <2>8 DEF TypeInv, TypeOK
  <2>10. Tip(Append(base[c], e)) = e
    BY <2>2, <2>6, AppendProperties DEF Tip, Rev
  <2>11. Tip(cand[c])'.arts \subseteq objects'
    BY <2>1, <2>7, <2>9, <2>10 DEF Tip
  <2>12. Intact(base[c])'
    BY <2>1, <2>2 DEF Intact, ChainInstalled
  <2>13. QED
    BY <1>1, <2>1, <2>9, <2>11, <2>12, MoveChecked
<1>5. CASE MigratePromote(c)
  <2>1. pc[c] = "migrate_promote" /\ Goto(c, "migrate_step") /\ UNCHANGED <<installed, objects>>
    BY <1>5 DEF MigratePromote, MoveHead
  <2>2. /\ base'[c] = cand[c]
        /\ \A d \in Clients \ {c} : base'[d] = base[d] /\ cand'[d] = cand[d]
    BY <1>1, <1>5 DEF MigratePromote, TypeInv, TypeOK
  <2>3. Intact(base[c])'
    BY <1>2, <2>1, <2>2 DEF Checked, Intact, ChainInstalled
  <2>4. QED
    BY <1>1, <2>1, <2>2, <2>3, MoveChecked
<1>6. CASE MigrateDone(c)
  BY <1>1, <1>6, ReturnChecked DEF MigrateDone
<1>7. QED
  BY <1>3, <1>4, <1>5, <1>6 DEF MigrateSteps

LEMMA FaultChecked ==
  ASSUME TypeInv, CheckedInv, NEW c \in Clients, Fault(c)
  PROVE  CheckedInv'
<1>1. \E k : Return(c, k, cand[c])
  BY DEF Fault, Halt, HaltInObject, HaltInRevision, HaltInCreate, KilledAfterHead, Stop
<1>2. installed \subseteq installed' /\ objects \subseteq objects'
  BY DEF Fault, Halt, HaltInObject, HaltInRevision, HaltInCreate, KilledAfterHead, disk
<1>3. QED
  BY <1>1, <1>2, ReturnChecked

LEMMA NextChecked == OrderInv /\ CheckedInv /\ [Next]_vars => CheckedInv'
<1> SUFFICES ASSUME OrderInv, CheckedInv, [Next]_vars PROVE CheckedInv'
  OBVIOUS
<1>1. TypeInv
  BY DEF OrderInv
<1>2. CASE UNCHANGED vars
  BY <1>2 DEF vars, disk, client, CheckedInv, Checked, Intact, ChainInstalled
<1>3. CASE PowerLoss
  BY <1>3 DEF PowerLoss, CheckedInv, Checked, CheckedPcs, CandPcs
<1>4. ASSUME NEW c \in Clients, Start(c) \/ Work(c) \/ Fault(c)
      PROVE  CheckedInv'
  BY <1>1, <1>4, StartChecked, CommitChecked, MigrateChecked, FaultChecked DEF Work
<1>5. QED
  BY <1>2, <1>3, <1>4 DEF Next

LEMMA NextLongest == OrderInv /\ Longest /\ [Next]_vars => Longest'
<1> SUFFICES ASSUME OrderInv, Longest, [Next]_vars PROVE Longest'
  OBVIOUS
<1>1. CASE PowerLoss
  BY <1>1 DEF PowerLoss, Longest
<1>2. CASE ~PowerLoss
  <2>1. unsyncedHeads' \subseteq unsyncedHeads \cup {head}
    BY <1>2, HeadsKept
  <2>2. head \in Rev /\ head' \in Rev /\ \A h \in unsyncedHeads : h \in Rev
    BY NextTypeInv DEF OrderInv, TypeInv, TypeOK
  <2>3. Len(head) <= Len(head')
    BY <1>2, <2>2, StepRefines DEF Advances, History!Grows, Rev
  <2>4. \A r \in Rev : Len(r) \in Nat
    BY DEF Rev
  <2>5. QED
    BY <2>1, <2>2, <2>3, <2>4 DEF Longest
<1>3. QED
  BY <1>1, <1>2

\* Who makes HEAD longer has a base that is complete, and HEAD is that base.
LEMMA LongerFromIntact ==
  ASSUME OrderInv, CheckedInv, Longest, [Next]_vars, Len(head') > Len(head), head # <<>>
  PROVE  Intact(head)
<1> USE DEF disk, sync, client
<1>1. head \in Rev /\ \A h \in unsyncedHeads : h \in Rev
  BY DEF OrderInv, TypeInv, TypeOK
<1>2. \A r \in Rev : Len(r) \in Nat
  BY DEF Rev
<1>3. ~PowerLoss
  BY <1>1, <1>2 DEF PowerLoss, Longest
<1>4. head' # head
  BY <1>1, <1>2
<1>5. ASSUME NEW c \in Clients, pc[c] \in CandPcs
      PROVE  Intact(head)
  BY <1>5 DEF CheckedInv, Checked, CheckedPcs, OrderInv, Knows
<1>6. \A c \in Clients : pc[c] # "write_head"
  BY DEF OrderInv, Knows
<1>7. ASSUME NEW c \in Clients, Start(c) \/ Work(c) \/ Fault(c)
      PROVE  pc[c] \in CandPcs
  <2>1. ~Start(c)
    BY <1>4 DEF Start, CreateStarts, CreateRefused, Open, OpenFails, Begin, BeginConflict,
                MigrateBegin, Close
  <2>2. ~CreateStep(c) /\ ~PutArtifacts(c)
    BY <1>4, <1>6 DEF CreateStep, MakeDirs, WriteMeta, InstallRoot, RootExists, WriteHead,
                      PutArtifacts
  <2>3. CommitStep(c) => pc[c] \in CandPcs
    BY <1>4 DEF CommitStep, AcquireLock, LockTimeout, CommitConflict, CommitUnchanged,
                CommitCandidate, InstallObject, ObjectsInstalled, InstallRevision, Promote, CandPcs
  <2>4. MigrateSteps(c) => pc[c] \in CandPcs
    BY <1>4 DEF MigrateSteps, MigrateCheck, MigrateStep, MigratePromote, MigrateDone, CandPcs
  <2>5. Fault(c) => pc[c] \in CandPcs
    BY <1>4, <1>6 DEF Fault, Halt, HaltInObject, HaltInRevision, HaltInCreate, KilledAfterHead,
                      CandPcs
  <2>6. QED
    BY <1>7, <2>1, <2>2, <2>3, <2>4, <2>5 DEF Work
<1>8. QED
  BY <1>3, <1>4, <1>5, <1>7 DEF Next, vars

(* No commit and no migration builds on a history that a power loss has    *)
(* damaged: HEAD only grows from a revision whose chain and objects are    *)
(* complete, if all creators of the workspace asked for the same mode.     *)
THEOREM DamageIsNotExtended ==
  ASSUME OneMode
  PROVE  Spec => DamageNotExtended
<1>1. Init => CheckedInv /\ Longest
  BY DEF Init, CheckedInv, Checked, CheckedPcs, CandPcs, Longest
<1>2. OrderInv /\ CheckedInv /\ Longest /\ [Next]_vars =>
        [Len(head') > Len(head) /\ head # <<>> => Intact(head)]_head
  BY LongerFromIntact
<1>3. QED
  BY <1>1, <1>2, InitOrderInv, NextOrderInv, NextChecked, NextLongest, PTL
  DEF Spec, DamageNotExtended

=============================================================================
