------------------------------ MODULE ProjectRun ------------------------------
(***************************************************************************)
(* Project specs (automation/): spec-run executes the stages of a pinned   *)
(* pipeline document and answers a lock; spec-lock pins a workspace as it  *)
(* is; spec-resume continues a workspace that still is what its lock pins, *)
(* skipping the stages that are complete (execute.py, inspect.py,          *)
(* recipes/runner.py, pipeline/service.py).                                *)
(*                                                                         *)
(* The pipeline document and the mapping plan are files that the operator  *)
(* edits: what they say is setting.  A stage command takes effect when it  *)
(* commits, on the revision it read, so a project's commands are one step  *)
(* each.                                                                   *)
(***************************************************************************)
EXTENDS StageRevisions, Sequences

CONSTANTS
  Specs,      \* [mode, stages: named by the pipeline, mapping: the confirmed
              \* plan or None, pins: configurations that the spec itself selects]
  Versions    \* environments: versions of the package, of Python, the extras

\* A pipeline document cannot name map: the plan is a file of its own.
ASSUME ProjectAssumption ==
  \A s \in Specs :
    /\ s.mode \in {"document-source", "dataset-row"} /\ s.stages \subseteq StageNames \ {"map"}
    /\ s.mapping \in Settings["map"] \cup {None}
    /\ \A t \in DOMAIN s.pins : s.pins[t] \in Settings[t]

VARIABLES
  project,    \* the run or resume under way, or None
  lock,       \* the project lock the operator holds, or None
  version     \* the installed environment

projectVars == <<project, lock, version>>

StageOrder == <<"parse", "clean", "chunk", "construct", "map",
                "curate", "split", "format", "validate", "seal">>
Earlier(s, t) ==
  \E i, j \in 1..Len(StageOrder) : i < j /\ StageOrder[i] = s /\ StageOrder[j] = t
Foremost(S) == CHOOSE s \in S : \A t \in S \ {s} : Earlier(s, t)

\* load_project_spec: rows need a confirmed mapping and documents have none;
\* goal, preset and consumer profile select for the stages that know them.
Loaded ==
  {s \in Specs : /\ s.mode = "document-source" <=> s.mapping = None
                 /\ DOMAIN s.pins \subseteq {"chunk", "construct", "curate"}}

\* The mode decides which schema the first parse gives the workspace.  A mixed
\* project has to have row sources only and is one of dataset rows.
SchemaOf(spec) == IF spec.mode = "document-source" THEN 3 ELSE 4

\* A pipeline that parses and seals names everything in between.
Named(spec) ==
  IF {"parse", "seal"} \subseteq spec.stages THEN Stages(3) ELSE spec.stages

\* Rows are parsed and mapped whatever is named.
Planned(spec) ==
  IF spec.mode = "dataset-row" THEN {"parse", "map"} \cup (Named(spec) \cap Finished)
  ELSE Named(spec)

\* Sets of stages in the order in which completion is looked up and they run.
Groups(spec) ==
  IF spec.mode = "dataset-row"
    THEN <<{"parse"}, {"map"}, Planned(spec) \ {"parse", "map"}>> ELSE <<Planned(spec)>>

\* The document names the configuration of its stages; sources and the mapping
\* plan are files of their own.
Document(spec) == [s \in Planned(spec) \ {"parse", "map"} |-> setting[s]]

\* create_project_lock, and what bind_workspace_lock adds to a lock: the
\* revision, whose stages stand here for all it holds, and its sources.
Lock(spec) == [spec |-> spec, document |-> Document(spec), version |-> version,
               head |-> None, sources |-> "", stages |-> <<>>]
Bound(l) == [l EXCEPT !.head = head.id, !.sources = head.sources, !.stages = head.stages]

\* Mutant of SameContext: the referenced document is not part of the digest.
SameSpecOnly(l, spec) == l.spec = spec /\ l.version = version

\* _require_lock_context: the spec, the bytes of the document and the
\* environment are those of the lock.
SameContext(l, spec) ==
  l.spec = spec /\ l.document = Document(spec) /\ l.version = version

\* _apply_spec_pins: the document contradicts no goal, preset or profile that
\* the spec pins.
\* _mapping_plan: the plan file holds the plan that was confirmed.
PinsHold(spec) ==
  /\ \A s \in DOMAIN spec.pins \cap DOMAIN Document(spec) : setting[s] = spec.pins[s]
  /\ spec.mode = "dataset-row" => setting["map"] = spec.mapping

\* resume_project_spec: HEAD and the sources are those of the lock.
AsPinned(l) == l.head = head.id /\ l.sources # "" /\ l.sources = head.sources

ProjectInit ==
  /\ Init /\ project = None /\ lock = None
  /\ version \in Versions

-----------------------------------------------------------------------------
(* What the operator does beside running stages                            *)

\* spec-lock --workspace.  Without a workspace the lock has no pins, and no
\* resume accepts it.
WriteLock(spec) ==
  /\ project = None
  /\ edits < MaxEdits /\ edits' = edits + 1
  /\ lock' = Bound(Lock(spec))
  /\ UNCHANGED <<head, work, setting, packet, project, version>>

\* A process keeps the environment it started in.
Reinstall ==
  /\ project = None
  /\ edits < MaxEdits /\ edits' = edits + 1
  /\ version' \in Versions \ {version}
  /\ UNCHANGED <<head, work, setting, packet, project, lock>>

\* The revision that the command of stage s leaves behind when it makes w.
Committed(s, w) ==
  IF ExactNoop(w) \/ (s = "clean" /\ head.stages[s].status = "complete"
                        /\ head.stages[s].config = w.config)
    THEN head ELSE Child(w)

\* The construction with the decisions of the packet in it.
WithReviews ==
  LET w == Computed(head, "construct", setting["construct"]) IN
    [w EXCEPT !.made = @ \cup {Review(packet.built)}]

\* Somebody works in the workspace without the spec: runs a stage, or submits
\* the packet.  No lock is held while a project runs, so this may happen under
\* one; the project then goes on as any client of StageRevisions would, and is
\* followed no further here.
WorkByHand ==
  /\ \/ /\ \E s \in DOMAIN head.stages :
            /\ Admitted(head, s)
            /\ head' = Committed(s, Computed(head, s, setting[s]))
       /\ UNCHANGED edits
     \/ /\ edits < MaxEdits /\ edits' = edits + 1
       /\ head.schema = 3 /\ ReviewAdmitted(head)
       /\ head' = Committed("construct", WithReviews)
  /\ head' # head /\ Accepted(head')
  /\ project' = None
  /\ UNCHANGED <<work, setting, packet, lock, version>>

\* Files and settings change, and reviewers fill in a packet.
Prepare == (Edit \/ FillPacket) /\ UNCHANGED projectVars

-----------------------------------------------------------------------------
(* spec-run and spec-resume                                                *)

Complete(stages, S) == {s \in S \cap DOMAIN stages : stages[s].status = "complete"}

Project(kind, spec, l) ==
  [kind |-> kind, spec |-> spec, lock |-> l, phase |-> "locked", mapping |-> "",
   document |-> Document(spec), groups |-> Groups(spec), left |-> {}]

\* The service locks the spec first, reading the document once.
RunSpec(spec) ==
  /\ project = None /\ head.schema = SchemaOf(spec)
  /\ project' = Project("run", spec, Lock(spec))
  /\ UNCHANGED <<vars, lock, version>>

\* Without pins, or with others than those of the workspace, the resume is
\* refused before it does anything.
ResumeSpec(spec) ==
  /\ project = None /\ head.schema = SchemaOf(spec)
  /\ lock # None /\ SameContext(lock, spec) /\ AsPinned(lock)
  /\ project' = Project("resume", spec, lock)
  /\ UNCHANGED <<vars, lock, version>>

\* A run reads the document again and compares it with its lock; a resume has.
\* The document that was compared is the one that is executed.
StartStages ==
  /\ project # None /\ project.phase = "locked"
  /\ project.kind = "run" => SameContext(project.lock, project.spec)
  /\ PinsHold(project.spec)
  /\ project' = [project EXCEPT !.phase = "running", !.mapping = setting["map"],
                   !.document = IF project.kind = "run" THEN Document(project.spec) ELSE @]
  /\ UNCHANGED <<vars, lock, version>>

\* Mutant of Incomplete: a resume repeats every stage.
IncompleteAll(S) == S

\* _filter_incomplete: stages that have to run.  A failed or stale one is not
\* complete.
Incomplete(S) == S \ Complete(head.stages, S)

Running == project # None /\ project.phase = "running"

ChooseStages ==
  /\ Running /\ project.left = {} /\ project.groups # <<>>
  /\ LET named == Head(project.groups) IN
       project' = [project EXCEPT !.groups = Tail(@),
                     !.left = IF project.kind = "run" THEN named ELSE Incomplete(named)]
  /\ UNCHANGED <<vars, lock, version>>

ConfigFor(s) ==
  CASE s = "parse" -> setting["parse"]
    [] s = "map"   -> project.mapping
    [] OTHER       -> project.document[s]

\* A validation that fails is committed and ends the project.
RunStage ==
  /\ Running /\ project.left # {}
  /\ LET s == Foremost(project.left) IN
       /\ Admitted(head, s)
       /\ head' = Committed(s, Computed(head, s, ConfigFor(s)))
       /\ head' # head => Accepted(head')
       /\ project' = IF head'.stages[s].status = "failed" THEN None
                     ELSE [project EXCEPT !.left = @ \ {s}]
  /\ UNCHANGED <<work, setting, packet, edits, lock, version>>

Answering == Running /\ project.left = {} /\ project.groups = <<>>

\* bind_workspace_lock: the answer carries the lock, bound to HEAD as it is by
\* now.
AnswerProject ==
  /\ Answering
  /\ lock' = Bound(project.lock)
  /\ project' = None
  /\ UNCHANGED <<vars, version>>

\* A refusal, an error of a stage, a revision conflict or the death of the
\* process; no lock is answered.
FailProject ==
  /\ project # None
  /\ project' = None
  /\ UNCHANGED <<vars, lock, version>>

ProjectNext ==
  \/ Prepare \/ WorkByHand \/ Reinstall
  \/ \E spec \in Loaded : WriteLock(spec) \/ RunSpec(spec) \/ ResumeSpec(spec)
  \/ StartStages \/ ChooseStages \/ RunStage \/ AnswerProject \/ FailProject

ProjectSpec == ProjectInit /\ [][ProjectNext]_<<vars, projectVars>>

-----------------------------------------------------------------------------
\* The complete stages hold what the document asks for.
AsDocumented(stages, l) ==
  \A s \in Complete(stages, DOMAIN l.document) : stages[s].config = l.document[s]

(* When a run answers, every stage of its document is complete and was     *)
(* made with exactly the document that the answered lock names, although   *)
(* document, plan and sources are files that change under it; and so when  *)
(* a resume answers whose lock pinned stages made as it documents them.    *)
FinishedAsLocked ==
  Answering /\ (project.kind = "run" \/ AsDocumented(project.lock.stages, project.lock)) =>
    /\ Complete(head.stages, Planned(project.spec)) = Planned(project.spec)
    /\ AsDocumented(head.stages, project.lock)

(* A resume continues: what was complete in the revision its lock pins,    *)
(* reviews and captured sources included, is still there untouched however *)
(* files changed since; no stage that it does run takes it away.           *)
ResumeKeepsPinned ==
  project # None /\ project.kind = "resume" =>
    \A s \in Complete(project.lock.stages, Planned(project.spec)) :
      head.stages[s] = project.lock.stages[s]
=============================================================================
