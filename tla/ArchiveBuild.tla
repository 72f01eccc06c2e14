----------------------------- MODULE ArchiveBuild -----------------------------
(***************************************************************************)
(* The graph archive of a repository, built commit by commit (build.py,    *)
(* cbm/_runner.py, store.py, KGARecorder): three stores are kept in step   *)
(* across crashes without a common transaction: the archive file, the      *)
(* database in which CBM publishes a generation of the graph, and the      *)
(* small files of the work directory that say which commit each is at.     *)
(*                                                                         *)
(* One build of an archive runs at a time.  CBM is external: it publishes  *)
(* any graph for a tree, and reports a no-op only when the database        *)
(* already holds what it extracted from the same files.                    *)
(***************************************************************************)
EXTENDS KgaFile

CONSTANTS
    Histories,  \* the sequences of commits a build may be asked for
    TreeOf,     \* the files of each commit
    Rows,       \* identities of graph rows
    CovRows,    \* identities of coverage rows
    Engines,    \* CBM engines
    Covering,   \* those that attach coverage to a generation
    Legacy,     \* file of an archive that predates checkpoints
    DeleteFails, \* CBM may fail to delete a project
    PowerFails, \* the machine may stop, losing files that were not synced
    MaxFaults,  \* bound on crashes, errors and lost files
    MaxAsks     \* bound on changes of what is asked for

Commits == UNION {{h[i] : i \in DOMAIN h} : h \in Histories}

(* _coverage_snapshot_from: the tables of the coverage and of its metadata *)
(* are there together, or there is no coverage.                            *)
Attachments(e) == IF e \in Covering THEN SUBSET CovRows ELSE {None}
Generations(tree, e) ==
    [tree : {tree}, engine : {e}, rows : SUBSET Rows, coverage : Attachments(e)]
Published == UNION {Generations(t, e) : t \in {TreeOf[c] : c \in Commits}, e \in Engines}

(* What a manifest holds; an archive may predate the record of engines.    *)
Records ==
    [sha : Commits, engine : Engines \union {None}, nodes : Nat, coverage : Nat \union {None},
     snapshot : BOOLEAN, size : Nat, covered : Nat \union {None}, captured : Published]

(* The trees a reader of the file loads for a commit are the graph and the *)
(* coverage that CBM had published when it was captured, and verify.       *)
Exact(f, commit) ==
    /\ RowsAt(f, commit.nodes) = commit.captured.rows
    /\ VerifySnapshot(f, commit)
    /\ IF commit.captured.coverage = None THEN commit.coverage = None
       ELSE /\ commit.coverage # None
            /\ RowsAt(f, commit.coverage) = commit.captured.coverage

(* A commit by another engine than the one before it is a snapshot.        *)
WholeAtBoundaries(commits) ==
    \A i \in DOMAIN commits :
        i > 1 /\ commits[i].engine # commits[i - 1].engine => commits[i].snapshot

ASSUME BuildAssumption ==
    /\ Histories \subseteq Seq(Commits)
    /\ \A h \in Histories : h # <<>> /\ IsInjective(h) /\ \A i \in DOMAIN h : h[i] # None
    /\ IsFiniteSet(Rows) /\ IsFiniteSet(CovRows)
    /\ Covering \subseteq Engines /\ None \notin Nat
    /\ {DeleteFails, PowerFails} \subseteq BOOLEAN /\ MaxFaults \in Nat /\ MaxAsks \in Nat

Trees == [kind : {"page"}, rows : SUBSET (Rows \union CovRows)]
CommitFrames == [kind : {"commit"}, manifest : Records]
Indexes == [kind : {"index"}, commits : Seq(Records)]

(* The roots of a recorded commit lead to pages before it.                 *)
IsRoot(f, root, end) == root \in 0 .. end /\ (root # 0 => f[root].kind = "page")
Rooted(f, commit, end) ==
    /\ IsRoot(f, commit.nodes, end)
    /\ commit.coverage # None => IsRoot(f, commit.coverage, end)

(* An archive that predates checkpoints may have been interrupted or       *)
(* finished any number of times; it was recorded exactly, and a commit by  *)
(* another engine than the one before it is stored whole.                  *)
ASSUME LegacyAssumption ==
    /\ Legacy \in Seq(Trees \union CommitFrames \union Indexes \union {Footer, Torn})
    /\ \A i \in DOMAIN Legacy :
        LET frame == Legacy[i] IN
        /\ frame.kind = "commit" => Exact(Legacy, frame.manifest) /\ Rooted(Legacy, frame.manifest, i)
        /\ frame.kind = "index" => \A j \in DOMAIN frame.commits :
                Exact(Legacy, frame.commits[j]) /\ Rooted(Legacy, frame.commits[j], i)
        /\ frame.kind = "footer" => i > 1 /\ Legacy[i - 1].kind = "index"
    /\ WholeAtBoundaries(Manifests(Legacy))

VARIABLES
    file,      \* the archive file, as the operating system has it
    synced,    \* the length of it that fsync has returned for
    db,        \* the published generation, or None
    current, version, pending,  \* current-sha, state-version, pending-sha
    pc,        \* stage of the running build, or "idle"
    pinned,    \* the generation pinned before CBM was called, or None
    route,     \* what CBM reported
    force,     \* engine_upgrade: the next capture is a full snapshot
    history, engine,  \* the selected commits and the installed engine
    faults, asks

archive == <<file, synced>>
marks == <<current, version, pending>>
local == <<pc, pinned, route, force>>
request == <<history, engine>>
bounds == <<faults, asks>>
vars == <<archive, db, marks, local, request, bounds>>

(* The commits the writer knows: those whose checkpoint is synced. *)
Durable == SubSeq(file, 1, synced)
Recorded == Manifests(Durable)
TipOf(commits) ==
    IF commits = <<>> THEN [sha |-> None, engine |-> None, nodes |-> 0, coverage |-> None]
    ELSE Last(commits)
Tip == TipOf(Recorded)
AllRecorded == Len(Recorded) = Len(history)
Target == history[Len(Recorded) + 1]

(* CBMRunner.current_commit *)
Current == IF version THEN current ELSE None

Fault == faults < MaxFaults /\ faults' = faults + 1 /\ UNCHANGED asks
Goes(from, to) == pc = from /\ pc' = to
Ends == pc' = "idle" /\ pinned' = None /\ route' = "none" /\ force' = FALSE

-----------------------------------------------------------------------------
Init ==
    /\ file \in {<<>>, Legacy} /\ synced = Len(file)
    /\ db = None /\ current = None /\ version = FALSE /\ pending = None
    /\ pc = "idle" /\ pinned = None /\ route = "none" /\ force = FALSE
    /\ history \in Histories /\ engine \in Engines
    /\ faults = 0 /\ asks = 0

(* The archive is as long as the request, and closed by its final index. *)
Whole == Complete(file) /\ Shas(file) = history

(* A mutated form: the engine recorded in the archive is not looked at. *)
EngineUnchecked == FALSE

(* _validate_resume_engine, with --allow-cbm-upgrade *)
EngineChanged == Manifests(file) # <<>> /\ TipOf(Manifests(file)).engine # engine

(* _build_repository up to the loop: the archive must be a prefix of the   *)
(* request; one that is whole is only verified.  A build refused here, also *)
(* for an engine that changed without permission, changes nothing.         *)
Start ==
    /\ Goes("idle", "open")
    /\ IsPrefix(Shas(file), history) /\ ~Whole
    /\ force' = EngineChanged
    /\ UNCHANGED <<archive, db, marks, pinned, route, request, bounds>>

(* ArchiveWriter(): cuts the file after its last durable trailer. *)
Open ==
    LET kept == SubSeq(file, 1, DurableEnd(file))
    IN  /\ pc = "open"
        /\ synced' = Len(kept)
        /\ IF NeedsAnchor(file)
           THEN file' = kept \o <<FinalIndex(Manifests(file)), Footer>> /\ pc' = "anchor"
           ELSE file' = kept /\ pc' = "ready"
        /\ UNCHANGED <<db, marks, pinned, route, force, request, bounds>>

SyncAnchor ==
    /\ Goes("anchor", "ready")
    /\ synced' = Len(file)
    /\ UNCHANGED <<file, db, marks, pinned, route, force, request, bounds>>

(* Mutated forms: whatever is pending is taken as recorded; nothing is. *)
RecoverAny ==
    /\ Goes("ready", "mark_current")
    /\ ~AllRecorded /\ pending # None
    /\ UNCHANGED <<archive, db, marks, pinned, route, force, request, bounds>>
RecoverNothing == FALSE

(* _recover_committed_pending: the commit was recorded, not yet marked. *)
Recover ==
    /\ Goes("ready", "mark_current")
    /\ ~AllRecorded /\ pending # None /\ pending = Tip.sha
    /\ UNCHANGED <<archive, db, marks, pinned, route, force, request, bounds>>

(* "interrupted commit ... must be recovered before ..." *)
RefusePending ==
    /\ pc = "ready" /\ ~AllRecorded
    /\ pending \notin {None, Tip.sha, Target}
    /\ Ends
    /\ UNCHANGED <<archive, db, marks, request, bounds>>

(* A mutated form: an interrupted commit does not distrust the database. *)
AlignedAnyway == Tip.sha # None /\ Current = Tip.sha

(* The files are extracted anew, and the generation of the archive's head  *)
(* is pinned as the base of a diff if the marks say it is published.       *)
Aligned == pending = None /\ Tip.sha # None /\ Current = Tip.sha
Prepare ==
    /\ Goes("ready", "prepared")
    /\ ~AllRecorded /\ pending \in {None, Target}
    /\ pinned' = IF Aligned /\ ~force THEN db ELSE None
    /\ UNCHANGED <<archive, db, marks, route, force, request, bounds>>

(* CBMRunner.begin_commit *)
Begin ==
    /\ Goes("prepared", "begun")
    /\ pending' = Target
    /\ UNCHANGED <<archive, db, current, version, pinned, route, force, request, bounds>>

(* CBM publishes a generation, or finds that nothing has changed. *)
Index ==
    /\ Goes("begun", "indexed")
    /\ \/ /\ db' \in Generations(TreeOf[Target], engine)
          /\ route' = "built"
       \/ /\ db # None /\ db.tree = TreeOf[Target] /\ db.engine = engine
          /\ UNCHANGED db
          /\ route' = "noop"
    /\ UNCHANGED <<archive, marks, pinned, force, request, bounds>>

-----------------------------------------------------------------------------
(* GraphReader.capture *)
Differences(old, new) == [put |-> new \ old, deleted |-> old \ new]
Snapshot == force \/ pinned = None
GraphChanges ==
    IF Snapshot THEN Differences({}, db.rows)
    ELSE IF route = "noop" THEN Differences({}, {})
    ELSE Differences(pinned.rows, db.rows)

CoverageSnapshot == Snapshot \/ Tip.coverage = None
                    \/ (route # "noop" /\ pinned.coverage = None)
CoverageChanges ==
    IF CoverageSnapshot THEN Differences({}, db.coverage)
    ELSE IF route = "noop" THEN Differences({}, {})
    ELSE Differences(pinned.coverage, db.coverage)

(* KGARecorder.append: a snapshot starts from an empty tree. *)
NodeBase == IF Snapshot THEN 0 ELSE Tip.nodes
CoverageBase == IF CoverageSnapshot THEN 0 ELSE Tip.coverage

WithNodes == Applied(file, NodeBase, GraphChanges)
WithCoverage ==
    IF db.coverage = None THEN [root |-> None, file |-> WithNodes.file]
    ELSE Applied(WithNodes.file, CoverageBase, CoverageChanges)

Recordable ==
    /\ CanApply(file, NodeBase, GraphChanges)
    /\ IF db.coverage = None THEN Tip.coverage = None
       ELSE CanApply(file, CoverageBase, CoverageChanges)

(* The manifest; captured is not stored: it is the generation that CBM had *)
(* published when the commit was captured.                                 *)
Manifest ==
    [sha |-> Target, engine |-> engine, nodes |-> WithNodes.root,
     coverage |-> WithCoverage.root, snapshot |-> Snapshot, captured |-> db,
     size |-> Cardinality(RowsAt(WithNodes.file, WithNodes.root)),
     covered |-> IF db.coverage = None THEN None
                 ELSE Cardinality(RowsAt(WithCoverage.file, WithCoverage.root))]

Record ==
    /\ Goes("indexed", "written")
    /\ Recordable
    /\ file' = WithCoverage.file \o <<Commit(Manifest), Checkpoint(Anchor(Durable))>>
    /\ UNCHANGED <<synced, db, marks, pinned, route, force, request, bounds>>

(* "published CBM generation lost its coverage attachment" and the like:   *)
(* pages may already be in the file.                                       *)
RefuseCapture ==
    /\ pc = "indexed" /\ ~Recordable
    /\ Ends
    /\ \/ UNCHANGED archive
       \/ /\ CanApply(file, NodeBase, GraphChanges)
          /\ file' = WithNodes.file /\ synced' = Len(file')
    /\ UNCHANGED <<db, marks, request, bounds>>

SyncCommit ==
    /\ Goes("written", "mark_current")
    /\ synced' = Len(file)
    /\ pinned' = None /\ route' = "none" /\ force' = FALSE
    /\ UNCHANGED <<file, db, marks, request, bounds>>

(* CBMRunner.mark_archived, one file after the other. *)
MarkCurrent ==
    /\ Goes("mark_current", "mark_version")
    /\ current' = Tip.sha
    /\ UNCHANGED <<archive, db, version, pending, pinned, route, force, request, bounds>>

MarkVersion ==
    /\ Goes("mark_version", "mark_pending")
    /\ version' = TRUE
    /\ UNCHANGED <<archive, db, current, pending, pinned, route, force, request, bounds>>

MarkPending ==
    /\ Goes("mark_pending", "ready")
    /\ pending' = None
    /\ UNCHANGED <<archive, db, current, version, pinned, route, force, request, bounds>>

-----------------------------------------------------------------------------
(* KGARecorder.finalize *)
Finalize ==
    /\ Goes("ready", "finalizing")
    /\ AllRecorded
    /\ file' = file \o <<FinalIndex(Recorded), Footer>>
    /\ UNCHANGED <<synced, db, marks, pinned, route, force, request, bounds>>

SyncFinal ==
    /\ Goes("finalizing", "finalized")
    /\ synced' = Len(file)
    /\ UNCHANGED <<file, db, marks, pinned, route, force, request, bounds>>

(* Nothing is removed unless the archive can be restored from.             *)
(* delete_project reports a failure, and the build goes on.                *)
DeleteProject ==
    /\ Goes("finalized", "removing")
    /\ VerifyIndex(file) /\ VerifySnapshot(file, Tip)
    /\ db' \in {None} \union (IF DeleteFails THEN {db} ELSE {})
    /\ UNCHANGED <<archive, marks, pinned, route, force, request, bounds>>

(* cleanup_work_dir: rmtree removes one file after another, in any order. *)
RemoveFile ==
    /\ pc = "removing"
    /\ \/ current # None /\ current' = None /\ UNCHANGED <<version, pending>>
       \/ version /\ version' = FALSE /\ UNCHANGED <<current, pending>>
       \/ pending # None /\ pending' = None /\ UNCHANGED <<current, version>>
    /\ UNCHANGED <<archive, db, local, request, bounds>>

Finish ==
    /\ pc = "removing" /\ current = None /\ ~version /\ pending = None
    /\ Ends
    /\ UNCHANGED <<archive, db, marks, request, bounds>>

-----------------------------------------------------------------------------
(* Any stage may raise: close_incomplete flushes what was written. *)
Fail ==
    /\ pc # "idle" /\ Fault
    /\ Ends
    /\ synced' = Len(file)
    /\ UNCHANGED <<file, db, marks, request>>

(* What may be left of an archive that was being written. *)
Cut(n) == {SubSeq(file, 1, n)}
          \union (IF n < Len(file) THEN {Append(SubSeq(file, 1, n), Torn)} ELSE {})

(* The process is killed at any point.  If the machine stops, a mark that  *)
(* was just written may be empty: none is written with fsync.              *)
Crash ==
    LET lost == IF PowerFails THEN {None} ELSE {}
    IN  /\ pc # "idle" /\ Fault
        /\ Ends
        /\ \E n \in synced .. Len(file) : file' \in Cut(n)
        /\ synced' = Len(file')
        /\ current' \in {current} \union lost /\ pending' \in {pending} \union lost
        /\ version' \in {version, version /\ ~PowerFails}
        /\ UNCHANGED <<db, request>>

(* The work directory is a temporary one, the database in a cache. *)
LoseScratch ==
    /\ pc = "idle" /\ Fault
    /\ \/ db' = None /\ UNCHANGED marks
       \/ current' = None /\ version' = FALSE /\ pending' = None /\ UNCHANGED db
    /\ UNCHANGED <<archive, local, request>>

(* The next build is asked for other commits, or runs another engine. *)
Ask ==
    /\ pc = "idle" /\ asks < MaxAsks /\ asks' = asks + 1
    /\ \/ history' \in Histories \ {history} /\ UNCHANGED engine
       \/ engine' \in Engines \ {engine} /\ UNCHANGED history
    /\ UNCHANGED <<archive, db, marks, local, faults>>

BuildCommit ==
    \/ Recover \/ RefusePending \/ Prepare \/ Begin \/ Index \/ Record \/ RefuseCapture
    \/ SyncCommit \/ MarkCurrent \/ MarkVersion \/ MarkPending
Step ==
    \/ Start \/ Open \/ SyncAnchor \/ BuildCommit
    \/ Finalize \/ SyncFinal \/ DeleteProject \/ RemoveFile \/ Finish

Next == Step \/ Fail \/ Crash \/ LoseScratch \/ Ask

Spec == Init /\ [][Next]_vars

(* A build that started proceeds, and an interrupted one is run again. *)
FairSpec == Spec /\ WF_vars(Step)

-----------------------------------------------------------------------------
(* Types: the marks name commits, the stage is one of the build's, the     *)
(* synced length is one the file has, and roots lead to pages.             *)
Stages == {"idle", "open", "anchor", "ready", "prepared", "begun", "indexed", "written",
           "mark_current", "mark_version", "mark_pending",
           "finalizing", "finalized", "removing"}

TypeOK ==
    /\ synced \in 0 .. Len(file)
    /\ {db, pinned} \subseteq Published \union {None}
    /\ {current, pending} \subseteq Commits \union {None}
    /\ version \in BOOLEAN /\ force \in BOOLEAN
    /\ pc \in Stages /\ route \in {"none", "built", "noop"}
    /\ history \in Histories /\ engine \in Engines
    /\ faults \in 0 .. MaxFaults /\ asks \in 0 .. MaxAsks
    /\ \A i \in DOMAIN Manifests(file) :
        {Manifests(file)[i].nodes, Manifests(file)[i].coverage} \subseteq
            {None, 0} \union {at \in DOMAIN file : file[at].kind = "page"}

(* Whatever crashes, retries and rebuilt generations lie between two       *)
(* commits, the trees a reader of the file loads for a commit are the      *)
(* graph and the coverage that CBM had published when it was captured, and *)
(* the verification finds every commit fit to be restored.                 *)
ArchiveIsExact ==
    \A i \in DOMAIN Manifests(file) : Exact(file, Manifests(file)[i])

(* When the marks say that the database holds the generation of the        *)
(* archive's last commit, so that the next one may be recorded as a        *)
(* difference from it, it does, or it is gone.                             *)
BaseIsTrusted ==
    pc \in {"idle", "ready"} /\ Aligned /\ db # None => db = Tip.captured

(* A commit made by another engine than the one before it is stored whole, *)
(* also when the build that changed engines was interrupted.               *)
EngineBoundaryIsWhole == WholeAtBoundaries(Manifests(file))

(* A commit whose checkpoint was synced is never lost, moved or replaced:  *)
(* not by a crash, nor by the writer that cuts what the crash left.        *)
CommitsAreKept == [][IsPrefix(Recorded, Manifests(SubSeq(file, 1, synced))')]_vars

(* No request can be met: the archive is not a prefix of it; the database  *)
(* engine attaches no coverage and the archive has some; or a commit that  *)
(* the request does not put next is still marked as pending.               *)
Stuck ==
    \/ ~IsPrefix(Shas(file), history)
    \/ Tip.coverage # None /\ engine \notin Covering
    \/ ~AllRecorded /\ pending \notin {None, Tip.sha, Target}

(* A build that is run again after every interruption finishes the         *)
(* archive, unless it is stuck.                                            *)
BuildsFinish == []<>((pc = "idle" /\ Whole) \/ Stuck)

=============================================================================
