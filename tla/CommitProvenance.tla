--------------------------- MODULE CommitProvenance ---------------------------
(***************************************************************************)
(* How commit-object facts come to name the reference facts they rest on:  *)
(* structured_commits() in the API lane publishes what a parent refers to  *)
(* and enqueues commit tasks, run_commit_batch() in the Git lane reads the *)
(* reference index, retains the objects and publishes (collector.py).      *)
(*                                                                         *)
(* Both lanes use one SQLite connection.  A transaction of the API lane    *)
(* holds the store lock across its awaits; commit_reference_index() reads  *)
(* without the lock, so it sees the rows of a transaction that is open.    *)
(* The time of a fact is abstracted: the Git lane publishes in the order   *)
(* of its read windows, so the latest row of a commit is its current fact. *)
(***************************************************************************)
EXTENDS Naturals, Sequences, FiniteSets, FiniteSetsExt

CONSTANTS
    Commits,      \* object names
    Parents,      \* parent tasks
    Sources,      \* sources of a parent: timeline, events, reviews, ...
    Refers,       \* the commits each source of each parent refers to
    CommitBatch,  \* _COMMIT_BATCH_SIZE
    MaxStops,     \* bound on crashes and failed commit batches
    Rollbacks     \* whether a publication may fail inside its transaction

ASSUME ProvenanceAssumption ==
    /\ Refers \in [Parents -> [Sources -> SUBSET Commits]]
    /\ CommitBatch \in Nat \ {0} /\ MaxStops \in Nat /\ Rollbacks \in BOOLEAN

VARIABLES
    rows,      \* fact_observations, those of an open transaction included
    durable,   \* number of rows that are committed
    tasks,     \* pending commit-object tasks, <<commit, parent>> pairs
    enqueued,  \* parents whose commit tasks were inserted
    lane,      \* what the Git lane does next
    batch,     \* the tasks it has claimed and not published yet
    cutoff,    \* observation_cutoff() of the batch
    found,     \* references read: <<commit, observation id>> pairs
    stops      \* crashes and failures so far

archive == <<rows, durable, tasks, enqueued>>
git == <<lane, batch, cutoff, found>>
vars == <<archive, git, stops>>

(* A commit-references row, and a commit-object row with its scope.        *)
Reference(p, s) == [family |-> "commit-references", parent |-> p, source |-> s]
Object(c, ids) == [family |-> "commit-object", commit |-> c, ids |-> ids]

IsReference(i) == i \in DOMAIN rows /\ rows[i].family = "commit-references"
Names(i, c) == IsReference(i) /\ c \in Refers[rows[i].parent][rows[i].source]
IsObject(i, c) == i \in DOMAIN rows /\ rows[i].family = "commit-object" /\ rows[i].commit = c

InTransaction == durable < Len(rows)
Scanned(p, s) ==
    \E i \in 1 .. durable : IsReference(i) /\ rows[i].parent = p /\ rows[i].source = s
FullyScanned(p) == \A s \in Sources : Scanned(p, s)

-----------------------------------------------------------------------------
Init ==
    /\ rows = <<>> /\ durable = 0 /\ tasks = {} /\ enqueued = {}
    /\ lane = "idle" /\ batch = {} /\ cutoff = 0 /\ found = {}
    /\ stops = 0

(* publish() of the scan of one source: the row is inserted ...            *)
InsertScan(p, s) ==
    /\ ~InTransaction /\ ~Scanned(p, s)
    /\ rows' = Append(rows, Reference(p, s))
    /\ UNCHANGED <<durable, tasks, enqueued, git, stops>>

(* ... and the transaction commits, or fails and is rolled back.           *)
CommitScan ==
    /\ InTransaction
    /\ durable' = Len(rows)
    /\ UNCHANGED <<rows, tasks, enqueued, git, stops>>

RollbackScan ==
    /\ InTransaction /\ Rollbacks
    /\ rows' = SubSeq(rows, 1, durable)
    /\ UNCHANGED <<durable, tasks, enqueued, git, stops>>

(* A mutated form: the tasks are enqueued after the first scan.            *)
AnyScanned(p) == \E s \in Sources : Scanned(p, s)

(* Every scan of the parent was published, in this call or a former one.   *)
AllScanned(p) == FullyScanned(p)

(* enqueue_tasks: one task per commit and parent task.                     *)
EnqueueCommits(p) ==
    /\ ~InTransaction /\ p \notin enqueued /\ AllScanned(p)
    /\ enqueued' = enqueued \cup {p}
    /\ tasks' = tasks \cup {<<c, p>> : c \in UNION {Refers[p][s] : s \in Sources}}
    /\ UNCHANGED <<rows, durable, git, stops>>

-----------------------------------------------------------------------------
(* take_tasks, under the store lock.                                       *)
ClaimCommits ==
    /\ lane = "idle" /\ ~InTransaction /\ tasks # {}
    /\ \E claim \in SUBSET tasks :
          /\ Cardinality(claim) = Min({Cardinality(tasks), CommitBatch})
          /\ batch' = claim
    /\ lane' = "cutoff"
    /\ UNCHANGED <<archive, cutoff, found, stops>>

(* observation_cutoff, without the lock.                                   *)
ReadCutoff ==
    /\ lane = "cutoff"
    /\ cutoff' = Len(rows)
    /\ lane' = "references"
    /\ UNCHANGED <<archive, batch, found, stops>>

(* A mutated form: the cutoff itself is left out.                          *)
Below(c) == {i \in 1 .. cutoff : i < cutoff /\ Names(i, c)}

(* The rows up to the cutoff that refer to a commit.                       *)
Indexed(c) == {i \in 1 .. cutoff : Names(i, c)}

(* iter_commit_references, without the lock.                               *)
ReadReferences ==
    /\ lane = "references"
    /\ found' = UNION {{<<t[1], i>> : i \in Indexed(t[1])} : t \in batch}
    /\ lane' = "publish"
    /\ UNCHANGED <<archive, batch, cutoff, stops>>

Scope(c) == {f[2] : f \in {g \in found : g[1] = c}}

(* The objects were retained: one publication per task completes it.       *)
PublishObject(t) ==
    /\ lane = "publish" /\ ~InTransaction /\ t \in batch
    /\ rows' = Append(rows, Object(t[1], Scope(t[1])))
    /\ durable' = Len(rows')
    /\ tasks' = tasks \ {t}
    /\ batch' = batch \ {t}
    /\ lane' = IF batch' = {} THEN "idle" ELSE "publish"
    /\ found' = IF batch' = {} THEN {} ELSE found
    /\ cutoff' = IF batch' = {} THEN 0 ELSE cutoff
    /\ UNCHANGED <<enqueued, stops>>

(* Reading, retaining or publishing fails; the remaining tasks stay        *)
(* pending and are claimed again by a later run.                           *)
FailBatch ==
    /\ lane # "idle" /\ ~InTransaction /\ stops < MaxStops
    /\ stops' = stops + 1
    /\ lane' = "idle" /\ batch' = {} /\ cutoff' = 0 /\ found' = {}
    /\ UNCHANGED archive

Crash ==
    /\ stops < MaxStops
    /\ stops' = stops + 1
    /\ rows' = SubSeq(rows, 1, durable)
    /\ lane' = "idle" /\ batch' = {} /\ cutoff' = 0 /\ found' = {}
    /\ UNCHANGED <<durable, tasks, enqueued>>

(* Every parent is over and no task is pending.                            *)
Drained == enqueued = Parents /\ tasks = {} /\ lane = "idle" /\ ~InTransaction

Next ==
    \/ \E p \in Parents :
          EnqueueCommits(p) \/ \E s \in Sources : InsertScan(p, s)
    \/ CommitScan \/ RollbackScan
    \/ ClaimCommits \/ ReadCutoff \/ ReadReferences
    \/ \E t \in batch : PublishObject(t)
    \/ FailBatch \/ Crash

Spec == Init /\ [][Next]_vars

-----------------------------------------------------------------------------
TypeOK ==
    /\ \A i \in DOMAIN rows :
          \/ \E p \in Parents, s \in Sources : rows[i] = Reference(p, s)
          \/ \E c \in Commits : IsObject(i, c) /\ rows[i].ids \subseteq 1 .. Len(rows)
    /\ Len(rows) - durable \in {0, 1}
    /\ tasks \subseteq Commits \X Parents /\ batch \subseteq tasks
    /\ enqueued \subseteq Parents
    /\ lane \in {"idle", "cutoff", "references", "publish"}
    /\ cutoff \in Nat /\ found \subseteq Commits \X Nat
    /\ stops \in 0 .. MaxStops

(* Once no commit task is pending, the current fact of every commit names  *)
(* every reference to it that the archive holds, although references are   *)
(* published while batches are read, fetched, failed and repeated.         *)
CurrentScopeIsWhole ==
    Drained =>
       \A i \in DOMAIN rows, c \in Commits :
          Names(i, c) =>
             LET current == {j \in DOMAIN rows : IsObject(j, c)} IN
             current # {} /\ i \in rows[Max(current)].ids

(* Every reference a commit-object fact names is a committed fact that     *)
(* refers to this commit.                                                  *)
ScopeExists ==
    \A j \in 1 .. durable, c \in Commits :
       IsObject(j, c) => \A i \in rows[j].ids : i <= durable /\ Names(i, c)

=============================================================================
