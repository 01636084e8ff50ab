------------------------------ MODULE ExportTree ------------------------------
(***************************************************************************)
(* One export on a disk that others write to as well: the tree of files    *)
(* that exports/_publication.py stages, reads back, publishes or takes     *)
(* away again, and its two readers, verify and inspect.  Publication has   *)
(* the artifact as one thing; here it is a folder with entries, each of    *)
(* them a file that can be changed or replaced between any two calls.      *)
(*                                                                         *)
(* An identity stands for a device and an inode, and is not given out      *)
(* again.  Its version stands for the rest of _EntryFacts: a write, a      *)
(* rename, a link and, for a folder, an entry that comes or goes change it. *)
(* The identity of what the export creates is the name it creates it for.  *)
(***************************************************************************)
EXTENDS Naturals

CONSTANTS
  Payloads,        \* the names of the planned files
  Nested,          \* those of them that lie in the one folder of the tree
  Spares,          \* identities of what others bring in
  MaxIntrusions    \* bound on what others do to the tree and its place

Folder == "folder"
Receipt == "receipt"
Stray == "stray"      \* a name that is not planned
Root == "root"
Rival == "rival"      \* what another process puts at the destination
Absent == "absent"
Reserved == {Folder, Receipt, Stray, Root, Rival, Absent}

ASSUME TreeAssumption ==
  /\ Nested \subseteq Payloads
  /\ Payloads \cap Reserved = {} /\ Spares \cap (Payloads \cup Reserved) = {}
  /\ MaxIntrusions \in Nat

Files == Payloads \cup {Receipt}
Top == (Files \ Nested) \cup (IF Nested = {} THEN {} ELSE {Folder})
Planned == Top \cup Nested
EntryNames == Files \cup {Folder, Stray}
Identities == Files \cup {Folder, Root} \cup Spares

\* The bytes of a payload: as planned, others with the same rows, other rows.
Words == {"planned", "variant", "alien"}
Bytes(word) == <<word>>
ReceiptOf(bodies) == <<"receipt", bodies>>

VARIABLES
  op,          \* the operation, and is its profile portable_exact_bytes
  at,          \* its next step
  pass,        \* which of its walks through the tree is the latest
  todo,        \* the names that the current loop has still to do
  path,        \* the name in hand
  before,      \* the version of the open file before it is read
  rendered,    \* the bytes of every file of a new export
  noted,       \* the facts of every entry in the first walk
  read,        \* the bytes read of every file
  root,        \* the folder behind the descriptor of the tree
  owned,       \* the identities a new export recorded as its own
  seen,        \* intrusions when cleanup looked at the entry in hand
  taken,       \* what cleanup took away undisturbed since it looked
  cause,       \* it was refused or cancelled, or a call raised
  node,        \* of every identity: kind, bytes and version
  holds,       \* of every folder: what its entries lead to
  spot,        \* what the staging name and the destination lead to
  parented,    \* the path of the parent leads to the parent still
  intrusions,
  moment       \* the disk when the latest walk began

disk == <<node, holds, spot, parented, intrusions>>
evidence == <<noted, read, moment>>
treeWork == <<path, before, rendered, root, owned, seen, taken>>
treeVars == <<op, at, pass, todo, cause, treeWork, evidence, disk>>

Does(what) == op.does = what
NoFacts == [file |-> Absent, version |-> 0]
FactsOf(i) == [file |-> i, version |-> node[i].version]
IsFolder(i) == i # Absent /\ node[i].kind = "folder"
Held(d) == {n \in EntryNames : holds[d][n] # Absent}

-----------------------------------------------------------------------------
(* Changes of the tree                                                      *)

\* The entry n of d leads to i from now on: d, i and what it led to change.
Enter(d, n, i, kind, body) ==
  /\ holds' = [holds EXCEPT ![d] = [m \in EntryNames |-> IF m = n THEN i ELSE holds[d][m]]]
  /\ node' = [j \in Identities |->
       IF j = i /\ node[j].kind = "unborn" THEN [kind |-> kind, body |-> body, version |-> node[j].version + 1]
       ELSE IF j \in {d, i, holds[d][n]} THEN [kind |-> node[j].kind, body |-> node[j].body, version |-> node[j].version + 1]
       ELSE node[j]]

Leave(d, n) == Enter(d, n, Absent, "unborn", <<>>)

\* The bytes or the links of i change.
Become(i, kind, body) ==
  node' = [node EXCEPT ![i] = [kind |-> kind, body |-> body, version |-> node[i].version + 1]]

-----------------------------------------------------------------------------
(* Other processes                                                          *)

Over == at \in {"done", "partial", "failed", "answered"}
Intrusion == ~Over /\ intrusions < MaxIntrusions /\ intrusions' = intrusions + 1
IntrusionKeeps == UNCHANGED <<op, at, pass, todo, cause, treeWork, evidence>>

\* A file is written, or gets a second name outside.
AlterFile ==
  \E i \in Files, word \in Words, kind \in {"file", "shared"} :
    /\ Intrusion /\ node[i].kind = "file"
    /\ Become(i, kind, IF kind = "shared" THEN node[i].body ELSE Bytes(word))
    /\ UNCHANGED <<holds, spot, parented>> /\ IntrusionKeeps

\* An entry goes, comes, or is replaced.
AlterEntry ==
  \E d \in {Root, Folder} \cup Spares, n \in EntryNames, i \in {Absent} \cup Spares, kind \in {"file", "folder", "link"} :
    /\ Intrusion /\ node[d].kind = "folder"
    /\ i = Absent => holds[d][n] # Absent /\ kind = "file"
    /\ i # Absent => node[i].kind = "unborn"
    /\ \/ Enter(d, n, i, kind, Bytes("alien"))
       \/ holds[d][n] # Absent /\ kind = "file" /\ Enter(d, n, i, kind, node[holds[d][n]].body)
    /\ UNCHANGED <<spot, parented>> /\ IntrusionKeeps

\* The staging name or the destination is moved away or replaced.
AlterSpot ==
  \E i \in {Absent} \cup Spares, kind \in {"folder", "link"} :
    /\ Intrusion
    /\ i = Absent => kind = "folder"
    /\ i # Absent => node[i].kind = "unborn"
    /\ \/ spot.staging # Absent /\ spot' = [spot EXCEPT !.staging = i]
       \/ spot.target # Absent /\ spot' = [spot EXCEPT !.target = i]
    /\ node' = [j \in Identities |-> IF j = i THEN [kind |-> kind, body |-> <<>>, version |-> node[j].version + 1] ELSE node[j]]
    /\ UNCHANGED <<holds, parented>> /\ IntrusionKeeps

AlterParent ==
  /\ Intrusion /\ parented' = FALSE /\ at \notin {"render", "prepare"}
  /\ UNCHANGED <<node, holds, spot>> /\ IntrusionKeeps

\* Another publisher has the destination first.  When makes no difference
\* before the rename: nobody looks in between.
TakeDestination ==
  /\ Does("publish") /\ at = "rename" /\ spot.target = Absent
  /\ spot' = [spot EXCEPT !.target = Rival]
  /\ UNCHANGED <<node, holds, parented, intrusions>> /\ IntrusionKeeps

-----------------------------------------------------------------------------
(* The end of an operation                                                  *)

\* except BaseException: a rename that did happen is found out, everything
\* else is cleaned up; a reader has nothing to clean.
Fails(why) ==
  /\ cause' = why
  /\ at' = IF ~Does("publish") \/ root = Absent THEN "failed"
           ELSE IF at \in {"placed", "sync"} \/ spot.target = root THEN "partial" ELSE "clean"
  /\ UNCHANGED <<op, pass, todo, treeWork, evidence, disk>>

Goes(step) == at' = step /\ UNCHANGED <<op, cause>>
Keeps == UNCHANGED <<evidence, disk>>

\* The calls of _check_cancellation: none between a mkdir and the record of
\* it, and none after the last checkpoint.
Cancellable ==
  {"render", "mkdir", "folder", "create", "write", "list", "stat", "inside", "after", "walked", "checkpoint"}
TreeCancelled ==
  /\ at \in Cancellable /\ (at \in {"list", "stat", "inside"} => pass < 4)
  /\ Fails("refused")

\* Any call may raise; the first two of a staging directory are told apart below.
Raises == ~Over /\ at \notin {"opening", "clean", "look", "take", "leave"} /\ Fails("error")

-----------------------------------------------------------------------------
(* A new export is rendered and staged                                      *)

\* _render_and_validate: a rendering keeps the rows, and is of the planned
\* bytes when these are part of the plan.
Renderings ==
  [Payloads -> IF op.exact THEN {Bytes("planned")} ELSE {Bytes("planned"), Bytes("variant")}]

\* ExportService.publish: it is rendered twice, and the first is published.
Render ==
  /\ at = "render"
  /\ \E first \in Renderings :
       rendered' = [n \in Files |-> IF n = Receipt THEN ReceiptOf(first) ELSE first[n]]
  /\ Goes("prepare")
  /\ UNCHANGED <<pass, todo, path, before, root, owned, seen, taken>> /\ Keeps

\* A rendering with other rows, or other bytes than planned.
RenderingRefused == at = "render" /\ Fails("refused")

\* _prepare_destination
PrepareDestination ==
  /\ at = "prepare"
  /\ IF spot.target # Absent THEN Fails("refused")
     ELSE Goes("mkdir") /\ UNCHANGED <<pass, todo, treeWork>> /\ Keeps

\* _create_staging: a name that was free ...
MakeStaging ==
  /\ at = "mkdir"
  /\ IF ~parented THEN Fails("refused")
     ELSE /\ spot' = [spot EXCEPT !.staging = Root]
          /\ Become(Root, "folder", <<>>)
          /\ Goes("created")
          /\ UNCHANGED <<pass, todo, treeWork, evidence, holds, parented, intrusions>>

\* ... whose identity is recorded as the created one ...
OwnStaging ==
  /\ at = "created"
  /\ IF spot.staging = Absent THEN Fails("refused")
     ELSE /\ owned' = [owned EXCEPT ![Root] = spot.staging]
          /\ Goes("opening")
          /\ UNCHANGED <<pass, todo, path, before, rendered, root, seen, taken>> /\ Keeps

\* ... and opened, and is the created one still.
OpenStaging ==
  /\ at = "opening"
  /\ IF spot.staging = owned[Root] /\ IsFolder(owned[Root])
       THEN /\ root' = owned[Root] /\ todo' = Files
            /\ Goes(IF Nested = {} THEN "create" ELSE "folder")
            /\ UNCHANGED <<pass, path, before, rendered, owned, seen, taken>> /\ Keeps
       ELSE Fails("refused")

\* It cannot be opened: it is removed if it is the created one and empty.
OpenStagingFails ==
  /\ at = "opening"
  /\ IF spot.staging = owned[Root] /\ IsFolder(owned[Root]) /\ Held(owned[Root]) = {}
       THEN spot' = [spot EXCEPT !.staging = Absent] ELSE UNCHANGED spot
  /\ at' = "failed" /\ cause' = "error"
  /\ UNCHANGED <<op, pass, todo, treeWork, evidence, node, holds, parented, intrusions>>

\* _create_parent_directories: mkdir, the record of its identity, and open.
MakeFolder ==
  /\ at = "folder"
  /\ IF holds[root][Folder] # Absent THEN Fails("refused")
     ELSE /\ Enter(root, Folder, Folder, "folder", <<>>)
          /\ Goes("own")
          /\ UNCHANGED <<pass, todo, treeWork, evidence, spot, parented, intrusions>>

OwnFolder ==
  /\ at = "own"
  /\ IF ~IsFolder(holds[root][Folder]) THEN Fails("refused")
     ELSE /\ owned' = [owned EXCEPT ![Folder] = holds[root][Folder]]
          /\ Goes("owned")
          /\ UNCHANGED <<pass, todo, path, before, rendered, root, seen, taken>> /\ Keeps

OpenFolder ==
  /\ at = "owned"
  /\ IF holds[root][Folder] # owned[Folder] THEN Fails("refused")
     ELSE Goes("create") /\ UNCHANGED <<pass, todo, treeWork>> /\ Keeps

OwnedFolderOf(n) == IF n \in Nested THEN owned[Folder] ELSE root

\* _write_file: created where nothing was, recorded, written; the receipt last.
CreateFile ==
  /\ at = "create"
  /\ \E n \in todo :
       /\ n = Receipt => todo = {Receipt}
       /\ IF holds[OwnedFolderOf(n)][n] # Absent THEN Fails("refused")
          ELSE /\ Enter(OwnedFolderOf(n), n, n, "file", <<>>)
               /\ owned' = [owned EXCEPT ![n] = n] /\ path' = n
               /\ Goes("write")
               /\ UNCHANGED <<pass, todo, before, rendered, root, seen, taken, evidence, spot, parented, intrusions>>

\* When the last file is written and all is synced, the tree is read back.
WriteFile ==
  /\ at = "write"
  /\ Become(path, node[path].kind, rendered[path])
  /\ todo' = todo \ {path}
  /\ Goes(IF todo = {path} THEN "list" ELSE "create")
  /\ UNCHANGED <<pass, treeWork, evidence, holds, spot, parented, intrusions>>

-----------------------------------------------------------------------------
(* A walk through the tree: _collect_tree                                   *)

FolderOf(n) == IF n \in Nested THEN noted[Folder].file ELSE root
Kind(n) == IF n = Folder THEN "folder" ELSE "file"

\* What lies in the folder is done before what is left of the root.
DeepestFirst(n) == n \in Nested \/ todo \cap Nested = {}

\* Mutant of Same: the identity is the same.
SameIdentity(i, n) == i = noted[n].file

\* The facts of an entry are those of the first walk.
Same(i, n) == FactsOf(i) = noted[n]

\* The names of the root are read.  A walk that meets a name that is not
\* planned, or misses one, fails here; the code compares when it is over.
ListRoot ==
  /\ at = "list"
  /\ IF Held(root) # Top THEN Fails("refused")
     ELSE /\ todo' = Top /\ moment' = [node |-> node, holds |-> holds]
          /\ Goes("stat")
          /\ UNCHANGED <<pass, treeWork, noted, read, disk>>

\* An entry is looked at: no link, no special file, no second name of a file.
StatEntry ==
  /\ at = "stat"
  /\ \E n \in todo :
       LET i == holds[FolderOf(n)][n]
       IN  /\ DeepestFirst(n)
           /\ IF i # Absent /\ node[i].kind = Kind(n) /\ (pass > 1 => Same(i, n))
                THEN /\ todo' = todo \ {n}
                     /\ noted' = IF pass = 1 THEN [noted EXCEPT ![n] = FactsOf(i)] ELSE noted
                     /\ Goes(IF n = Folder THEN "enter" ELSE "stat")
                     /\ UNCHANGED <<pass, treeWork, read, moment, disk>>
                ELSE Fails("refused")

\* A folder is opened, and is the one that was looked at ...
EnterFolder ==
  /\ at = "enter"
  /\ IF holds[root][Folder] # noted[Folder].file THEN Fails("refused")
     ELSE Goes("inside") /\ UNCHANGED <<pass, todo, treeWork>> /\ Keeps

\* ... and its names are read.
ListFolder ==
  /\ at = "inside"
  /\ IF Held(noted[Folder].file) # Nested THEN Fails("refused")
     ELSE /\ todo' = todo \cup Nested
          /\ Goes("stat")
          /\ UNCHANGED <<pass, treeWork>> /\ Keeps

\* After the first walk the files are read.  Readers walk twice; an export is
\* walked again before its last checkpoint, and once more behind it.
WalkEnds ==
  /\ at = "stat" /\ todo = {}
  /\ Goes(IF pass = 1 THEN "open"
          ELSE IF ~Does("publish") THEN "answer"
          ELSE IF pass = 2 THEN "walked" ELSE IF pass = 3 THEN "checkpoint" ELSE "rename")
  /\ todo' = IF pass = 1 THEN Files ELSE {}
  /\ UNCHANGED <<pass, treeWork>> /\ Keeps

WalkAgain == pass' = pass + 1 /\ Goes("list") /\ UNCHANGED <<todo, treeWork>> /\ Keeps

-----------------------------------------------------------------------------
(* A file is read: _open_regular_file and _read_and_hash                    *)

\* A receipt comes after the files it is about; inspect reads it first.
InTurn(n) == IF Does("inspect") THEN Receipt \in todo => n = Receipt
             ELSE n = Receipt => todo = {Receipt}

\* The open file is the one that the walk met, unchanged.
OpenFile ==
  /\ at = "open"
  /\ \E n \in todo :
       LET d == IF n \in Nested THEN holds[root][Folder] ELSE root
           i == IF IsFolder(d) THEN holds[d][n] ELSE Absent
       IN  /\ InTurn(n)
           /\ IF i # Absent /\ Same(i, n)
                THEN path' = n /\ Goes("before") /\ UNCHANGED <<pass, todo, before, rendered, root, owned, seen, taken>> /\ Keeps
                ELSE Fails("refused")

BeginRead ==
  /\ at = "before"
  /\ before' = node[noted[path].file].version
  /\ Goes("after")
  /\ UNCHANGED <<pass, todo, path, rendered, root, owned, seen, taken>> /\ Keeps

\* As the plan has it: its bytes, or bytes whose rows are replayed as its.
AsPlanned(body) ==
  IF op.exact THEN body = Bytes("planned") ELSE body \in {Bytes("planned"), Bytes("variant")}

\* The receipt that follows from the files that were read.
Reconstructed(body) == body = ReceiptOf([p \in Payloads |-> read[p]])

\* inspect has no plan: any receipt of these files, and then what it lists.
SelfDescribed(body) == \E bodies \in [Payloads -> {Bytes(w) : w \in Words}] : body = ReceiptOf(bodies)
AsListed(n, body) == read[Receipt][2][n] = body

Expected(n, body) ==
  IF Does("inspect") THEN IF n = Receipt THEN SelfDescribed(body) ELSE AsListed(n, body)
  ELSE IF n = Receipt THEN Reconstructed(body) ELSE AsPlanned(body)

\* The file is read to its end, and did not change since before: a change
\* leaves any bytes, which are not used.
EndRead ==
  /\ at = "after"
  /\ LET file == node[noted[path].file]
     IN  IF file.version = before /\ Expected(path, file.body)
           THEN /\ read' = [read EXCEPT ![path] = file.body]
                /\ todo' = todo \ {path}
                /\ IF todo = {path}
                     THEN pass' = pass + 1 /\ Goes("list")
                     ELSE UNCHANGED pass /\ Goes("open")
                /\ UNCHANGED <<treeWork, noted, moment, disk>>
           ELSE Fails("refused")

-----------------------------------------------------------------------------
(* The end of a reader: _verify_export_directory, _inspect_export_directory *)

\* _open_anchored_export_root: the root is looked at ...
FindRoot ==
  /\ at = "find"
  /\ IF ~parented \/ ~IsFolder(spot.target) THEN Fails("refused")
     ELSE /\ owned' = [owned EXCEPT ![Root] = spot.target]
          /\ Goes("anchor")
          /\ UNCHANGED <<pass, todo, path, before, rendered, root, seen, taken>> /\ Keeps

\* ... and opened, and is the same.
AnchorRoot ==
  /\ at = "anchor"
  /\ IF ~parented \/ spot.target # owned[Root] THEN Fails("refused")
     ELSE /\ root' = owned[Root]
          /\ Goes("list")
          /\ UNCHANGED <<pass, todo, path, before, rendered, owned, seen, taken>> /\ Keeps

\* The path leads to the tree that was read, still.
Answer ==
  /\ at = "answer"
  /\ IF ~parented \/ spot.target # root THEN Fails("refused")
     ELSE Goes("answered") /\ UNCHANGED <<pass, todo, treeWork>> /\ Keeps

-----------------------------------------------------------------------------
(* The end of an export: _publish_verified_export, _rename_no_replace       *)

\* The receipt that was read back is the one that was written.
Verified ==
  /\ at = "walked"
  /\ IF read[Receipt] = rendered[Receipt] THEN WalkAgain ELSE Fails("refused")

\* Behind the last checkpoint the parent, the staging name and, in one more
\* walk, the tree are what they were.
LastCheckpoint ==
  /\ at = "checkpoint"
  /\ IF parented /\ spot.staging = root THEN WalkAgain ELSE Fails("refused")

\* One system call, that never replaces the destination.
Rename ==
  /\ at = "rename"
  /\ IF spot.staging = Absent \/ spot.target # Absent THEN Fails("refused")
     ELSE /\ spot' = [staging |-> Absent, target |-> spot.staging]
          /\ Goes("renamed")
          /\ UNCHANGED <<pass, todo, treeWork, evidence, node, holds, parented, intrusions>>

Partial == at' = "partial" /\ cause' = "refused" /\ UNCHANGED <<op, pass, todo, treeWork, evidence, disk>>

\* It is recorded as published, and looked at in the parent ...
RecordPublished ==
  /\ at = "renamed"
  /\ IF spot.target # root THEN Partial ELSE Goes("placed") /\ UNCHANGED <<pass, todo, treeWork>> /\ Keeps

\* ... and through its path.
LookThroughPath ==
  /\ at = "placed"
  /\ IF ~parented \/ spot.target # root THEN Partial ELSE Goes("sync") /\ UNCHANGED <<pass, todo, treeWork>> /\ Keeps

\* The parent is synced, or that it is not becomes a warning.
SyncParent == at = "sync" /\ Goes("done") /\ UNCHANGED <<pass, todo, treeWork>> /\ Keeps

-----------------------------------------------------------------------------
(* The end of an export that is not published: _cleanup_staging             *)

Cleaning == {"clean", "look", "take", "leave"}
Ends == at' = "failed" /\ UNCHANGED <<op, pass, todo, cause, treeWork, evidence, disk>>
Recorded == {owned[n] : n \in Planned \cup {Root}} \ {Absent}
Looks == seen' = intrusions /\ UNCHANGED <<before, rendered, root, owned, taken>>

\* The staging name leads to the staging directory.
StartCleanup ==
  /\ at = "clean"
  /\ IF spot.staging # root THEN Ends
     ELSE /\ todo' = {n \in Planned : owned[n] # Absent}
          /\ Goes("look")
          /\ UNCHANGED <<pass, treeWork>> /\ Keeps

\* Mutant of Own: what has the name of an own entry.
OwnByName(n) == TRUE

\* The entry is what was recorded, in the folder that was recorded.
Own(n) ==
  LET d == IF n \in Nested THEN holds[root][Folder] ELSE root
  IN  /\ n \in Nested => d # Absent /\ d = owned[Folder]
      /\ holds[d][n] = owned[n]

\* Files before the folder; what cannot be shown to be its own stays.
LookAtOwn ==
  /\ at = "look"
  /\ \E n \in todo :
       /\ DeepestFirst(n) /\ (n = Folder => todo = {Folder})
       /\ IF Own(n) THEN path' = n /\ Goes("take") /\ UNCHANGED todo /\ Looks
                    ELSE todo' = todo \ {n} /\ Goes("look") /\ UNCHANGED treeWork
       /\ UNCHANGED pass /\ Keeps

\* unlink and rmdir take what the name leads to now; rmdir only empty folders.
Removable(n, i) ==
  IF n = Folder THEN IsFolder(i) /\ Held(i) = {} ELSE i # Absent /\ node[i].kind # "folder"

TakeOwn ==
  /\ at = "take"
  /\ LET d == OwnedFolderOf(path)
         i == holds[d][path]
     IN  \/ /\ Removable(path, i)
            /\ Leave(d, path)
            /\ taken' = IF seen = intrusions THEN taken \cup {i} ELSE taken
            /\ todo' = todo \ {path} /\ Goes("look")
         \/ /\ ~Removable(path, i) /\ (i = Absent \/ path = Folder)
            /\ todo' = todo \ {path} /\ Goes("look")
            /\ UNCHANGED <<taken, node, holds>>
  /\ UNCHANGED <<pass, path, before, rendered, root, owned, seen, evidence, spot, parented, intrusions>>

\* The staging directory last.
LookAtStaging ==
  /\ at = "look" /\ todo = {}
  /\ IF spot.staging # root THEN Ends
     ELSE Goes("leave") /\ Looks /\ UNCHANGED <<pass, todo, path>> /\ Keeps

TakeStaging ==
  /\ at = "leave"
  /\ IF IsFolder(spot.staging) /\ Held(spot.staging) = {}
       THEN /\ spot' = [spot EXCEPT !.staging = Absent]
            /\ taken' = IF seen = intrusions THEN taken \cup {spot.staging} ELSE taken
       ELSE UNCHANGED <<spot, taken>>
  /\ Goes("failed")
  /\ UNCHANGED <<pass, todo, path, before, rendered, root, owned, seen, evidence, node, holds, parented, intrusions>>

\* A call of the cleanup raises: it is given up with a warning.
CleanupFails ==
  /\ at \in Cleaning
  /\ at' = "failed" /\ cause' = "error"
  /\ UNCHANGED <<op, pass, todo, treeWork, evidence, disk>>

-----------------------------------------------------------------------------
(* The behaviours                                                           *)

Empty == [n \in EntryNames |-> Absent]
Unborn == [kind |-> "unborn", body |-> <<>>, version |-> 0]

\* Nothing is there yet, or another's tree already.
ExportInit ==
  /\ op \in [does : {"publish"}, exact : BOOLEAN] /\ at = "render"
  /\ node = [i \in Identities |-> Unborn] /\ holds = [i \in Identities |-> Empty]
  /\ spot \in [staging : {Absent}, target : {Absent, Rival}]

\* A complete tree with its receipt, made by an export or not.
ReaderInit ==
  /\ op \in [does : {"verify", "inspect"}, exact : BOOLEAN] /\ at = "find"
  /\ \E bodies, listed \in [Payloads -> {Bytes(w) : w \in Words}] :
       node = [i \in Identities |->
         IF i \in Files THEN [kind |-> "file", body |-> IF i = Receipt THEN ReceiptOf(listed) ELSE bodies[i], version |-> 1]
         ELSE IF i = Root \/ i \in Planned THEN [kind |-> "folder", body |-> <<>>, version |-> 1] ELSE Unborn]
  /\ holds = [i \in Identities |-> [n \in EntryNames |->
       IF (i = Root /\ n \in Top) \/ (i = Folder /\ n \in Nested) THEN n ELSE Absent]]
  /\ spot = [staging |-> Absent, target |-> Root]

TreeInit ==
  /\ ExportInit \/ ReaderInit
  /\ pass = 1 /\ todo = {} /\ path = Receipt /\ before = 0 /\ rendered = [n \in Files |-> <<>>]
  /\ noted = [n \in Planned |-> NoFacts] /\ read = [n \in Files |-> <<>>]
  /\ root = Absent /\ owned = [n \in Planned \cup {Root} |-> Absent]
  /\ seen = 0 /\ taken = {} /\ cause = "none" /\ parented = TRUE /\ intrusions = 0
  /\ moment = [node |-> node, holds |-> holds]

Intrude == AlterFile \/ AlterEntry \/ AlterSpot \/ AlterParent \/ TakeDestination
Staging ==
  \/ Render \/ RenderingRefused \/ PrepareDestination \/ MakeStaging \/ OwnStaging \/ OpenStaging \/ OpenStagingFails
  \/ MakeFolder \/ OwnFolder \/ OpenFolder \/ CreateFile \/ WriteFile
Reading ==
  \/ FindRoot \/ AnchorRoot \/ ListRoot \/ StatEntry \/ EnterFolder \/ ListFolder \/ WalkEnds
  \/ OpenFile \/ BeginRead \/ EndRead \/ Answer
Publishing == Verified \/ LastCheckpoint \/ Rename \/ RecordPublished \/ LookThroughPath \/ SyncParent
Cleanup == StartCleanup \/ LookAtOwn \/ TakeOwn \/ LookAtStaging \/ TakeStaging \/ CleanupFails

TreeNext == Intrude \/ TreeCancelled \/ Raises \/ Staging \/ Reading \/ Publishing \/ Cleanup
TreeSpec == TreeInit /\ [][TreeNext]_treeVars

-----------------------------------------------------------------------------
(* Properties                                                               *)

Kept == {"rename", "renamed", "placed", "sync", "done", "answer", "answered"}

\* The tree at the moment was of exactly the planned entries, and of the bytes
\* that were read.
WasThere ==
  LET held(d) == {n \in EntryNames : moment.holds[d][n] # Absent}
      folder == moment.holds[root][Folder]
      file(n) == moment.node[moment.holds[IF n \in Nested THEN folder ELSE root][n]]
  IN  /\ held(root) = Top
      /\ Nested # {} => moment.node[folder].kind = "folder" /\ held(folder) = Nested
      /\ \A n \in Files : file(n).kind = "file" /\ file(n).body = read[n]

\* What is published, verified or inspected was one tree at one moment: after
\* the last checkpoint of an export, and when the second walk of a reader
\* began, it held what its receipt lists and nothing else, and the rows that
\* were planned, whatever others did to it while it was read file by file
\* (_verify_staged_export, _rename_no_replace).
TakenAsOneTree ==
  at \in Kept =>
    /\ WasThere
    /\ read[Receipt] = ReceiptOf([p \in Payloads |-> read[p]])
    /\ Does("publish") => \A n \in Files : read[n] = rendered[n]
    /\ Does("verify") => \A n \in Payloads :
         read[n] \in (IF op.exact THEN {Bytes("planned")} ELSE {Bytes("planned"), Bytes("variant")})

\* A failed export takes nothing away but what it recorded as its own, unless
\* it was replaced after the last look at it; and if nobody interfered, a
\* refused or cancelled one leaves nothing (_cleanup_staging).
CleansUpItsOwn ==
  /\ \A i \in taken : i \in Recorded
  /\ at = "failed" /\ intrusions = 0 /\ cause # "error" => spot.staging = Absent
=============================================================================
