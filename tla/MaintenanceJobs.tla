--------------------------- MODULE MaintenanceJobs ---------------------------
(***************************************************************************)
(* Refresh and backfill jobs: calls of refresh() and backfill() with or    *)
(* without an idempotency key, the durable job and its task population,    *)
(* and the run that works on it (maintenance.py, observations.py).         *)
(*                                                                         *)
(* A row of fact_observations is a raw source that refers to commits, the  *)
(* scan of a source, a commit-object result with the scans it rests on, or *)
(* a refreshed fact.  Tasks of a population are batches in the code; here  *)
(* a batch holds one source or one commit.  Between two calls the archive  *)
(* is free, and a sync may publish: sources, their scans, commit objects.  *)
(***************************************************************************)
EXTENDS Naturals, Sequences, FiniteSets, FiniteSetsExt

CONSTANTS
    Targets,      \* archived Issues and PRs that may be refreshed
    Commits,      \* object names
    CallerKeys,   \* idempotency keys a caller may supply
    Concurrency,  \* config.concurrency
    MaxRows,      \* bound on the rows a sync publishes
    MaxJobs,      \* bound on the jobs
    MaxStops      \* bound on crashes and failed tasks

ASSUME JobsAssumption ==
    /\ Concurrency \in Nat \ {0}
    /\ MaxRows \in Nat /\ MaxJobs \in Nat /\ MaxStops \in Nat

VARIABLES
    rows,     \* fact_observations in identity order
    jobs,     \* maintenance_jobs in identity order
    tasks,    \* maintenance_tasks
    published,  \* those with a publication under their key
    done,     \* those with completed_at
    asked,    \* what the last call asked for: kind, request, key
    pc,       \* "down", "run" (top of the loop) or "batch" (tasks executing)
    current,  \* the job the call works on
    batch,    \* tasks of the batch still executing
    failed,   \* a task of the batch has failed
    answer,   \* what the last call returned: a job, or 0
    stops     \* crashes and failures so far

durable == <<rows, jobs, tasks, published, done>>
run == <<pc, current, batch, failed>>
asking == <<asked, answer>>
vars == <<durable, run, asking, stops>>

Ids == DOMAIN rows
Source(refs) == [is |-> "source", refs |-> refs]
Scan(i) == [is |-> "scan", source |-> i]
Object(c, scans, j) == [is |-> "object", commit |-> c, scans |-> scans, job |-> j]
Fact(t, j) == [is |-> "fact", target |-> t, job |-> j]

Sources(cutoff) == {i \in Ids : i <= cutoff /\ rows[i].is = "source"}
ScansOf(i) == {s \in Ids : rows[s] = Scan(i)}
Referring(c, cutoff) == {i \in Sources(cutoff) : c \in rows[i].refs}
Referenced(cutoff) == UNION {rows[i].refs : i \in Sources(cutoff)}

(* checked_commits: the commits with an outcome up to the cutoff.          *)
Checked(cutoff) ==
    {c \in Commits : \E i \in Ids : i <= cutoff /\ rows[i].is = "object" /\ rows[i].commit = c}

-----------------------------------------------------------------------------
(* Jobs.                                                                   *)

JobIds == DOMAIN jobs
Job(key, kind, request, cutoff, status) ==
    [key |-> key, kind |-> kind, request |-> request, cutoff |-> cutoff, status |-> status]

Active == {j \in JobIds : jobs[j].status = "active"}
ByKey(key) == {j \in JobIds : jobs[j].key = key}

CallerKey(kind, key) == <<kind, key>>
NoKey == <<"none">>
Ask(kind, request, key) == [kind |-> kind, request |-> request, key |-> key]

Task(j, kind, subject) == [job |-> j, kind |-> kind, subject |-> subject]
TasksOf(j) == {t \in tasks : t.job = j}
Pending(j) == TasksOf(j) \ done

(* Tasks of a refresh: each target is one; commits are not selected here.  *)
RefreshTasks(j, request) == {Task(j, "parent-refresh", t) : t \in request}

(* Tasks of a backfill: sources without a scan, commits without a result.  *)
MissingScans(cutoff) == {i \in Sources(cutoff) : ScansOf(i) = {}}
BackfillTasks(j, cutoff) ==
    {Task(j, "commit-reference-scan-batch", i) : i \in MissingScans(cutoff)}
      \cup {Task(j, "commit-object-batch", c) : c \in Referenced(cutoff) \ Checked(cutoff)}

(* start_maintenance_job: the job and its whole population, one            *)
(* transaction; a job without tasks is complete at once.                   *)
StartJob(key, kind, request, cutoff, population) ==
    /\ Len(jobs) < MaxJobs
    /\ tasks' = tasks \cup population
    /\ jobs' = Append(jobs, Job(key, kind, request, cutoff,
                                IF population = {} THEN "complete" ELSE "active"))
    /\ current' = Len(jobs) + 1
    /\ pc' = "run"
    /\ UNCHANGED <<rows, published, done, batch, failed, stops>>

-----------------------------------------------------------------------------
Init ==
    /\ rows = <<>> /\ jobs = <<>> /\ tasks = {} /\ published = {} /\ done = {}
    /\ pc = "down" /\ current = 0 /\ batch = {} /\ failed = FALSE
    /\ asked = Ask("none", {}, NoKey) /\ answer = 0 /\ stops = 0

(* A sync publishes a source, a scan or a checked commit of its own.       *)
SyncPublishes ==
    /\ pc = "down" /\ Len(rows) < MaxRows
    /\ \/ \E refs \in SUBSET Commits : rows' = Append(rows, Source(refs))
       \/ \E i \in MissingScans(Len(rows)) : rows' = Append(rows, Scan(i))
       \/ \E c \in Commits :
             LET scans == {s \in Ids : rows[s].is = "scan" /\ c \in rows[rows[s].source].refs} IN
             scans # {} /\ rows' = Append(rows, Object(c, scans, 0))
    /\ UNCHANGED <<jobs, tasks, published, done, run, asking, stops>>

(* A mutated form: any active job of the kind is resumed.                  *)
SameKind(j, kind, request, key) == jobs[j].kind = kind

(* The active job is the one this call asks for.                           *)
Resumable(j, kind, request, key) ==
    /\ jobs[j].kind = kind /\ jobs[j].request = request
    /\ key # NoKey => jobs[j].key = CallerKey(kind, key)

(* A call while a job is active resumes that job or is refused.            *)
ResumeJob(kind, request, key) ==
    /\ pc = "down" /\ Active # {}
    /\ asked' = Ask(kind, request, key) /\ answer' = 0
    /\ \E j \in Active :
          \/ /\ Resumable(j, kind, request, key)
             /\ current' = j /\ pc' = "run"
          \/ ~Resumable(j, kind, request, key) /\ UNCHANGED <<current, pc>>
    /\ UNCHANGED <<durable, batch, failed, stops>>

(* A call with a key that names a job already: its result, or a refusal.   *)
Replay(kind, request, key) ==
    /\ pc = "down" /\ Active = {} /\ key # NoKey
    /\ asked' = Ask(kind, request, key)
    /\ \E j \in ByKey(CallerKey(kind, key)) :
          answer' = IF jobs[j].request = request THEN j ELSE 0
    /\ UNCHANGED <<durable, run, stops>>


(* No job has this key.                                                    *)
Unused(kind, key) == key = NoKey \/ ByKey(CallerKey(kind, key)) = {}

StartRefresh(request, key) ==
    /\ pc = "down" /\ Active = {} /\ Unused("refresh", key)
    /\ asked' = Ask("refresh", request, key) /\ answer' = 0
    /\ StartJob(IF key = NoKey THEN <<"refresh", "new", Len(jobs)>>
                               ELSE CallerKey("refresh", key),
                "refresh", request, Len(rows),
                RefreshTasks(Len(jobs) + 1, request))

(* Without a key the frozen scope is the identity: an equal scope that was *)
(* completed is not verified again.                                        *)
StartBackfill(key) ==
    LET cutoff == Len(rows)
        own == <<"backfill", "scope", cutoff>>
    IN  /\ pc = "down" /\ Active = {} /\ Unused("backfill", key)
        /\ asked' = Ask("backfill", {}, key)
        /\ \/ /\ key = NoKey /\ ByKey(own) # {}
              /\ \E j \in ByKey(own) : answer' = j
              /\ UNCHANGED <<durable, run, stops>>
           \/ /\ key # NoKey \/ ByKey(own) = {}
              /\ answer' = 0
              /\ StartJob(IF key = NoKey THEN own ELSE CallerKey("backfill", key),
                          "backfill", {}, cutoff,
                          BackfillTasks(Len(jobs) + 1, cutoff))

-----------------------------------------------------------------------------
(* _run.                                                                   *)

(* A mutated form: tasks are claimed without regard to their stage.        *)
AnyStage(j) == Pending(j)

(* What the next batch is taken from: scans before commits.                *)
Stage(j) ==
    LET scans == {t \in Pending(j) : t.kind = "commit-reference-scan-batch"} IN
    IF scans # {} THEN scans ELSE Pending(j)

TakeTasks ==
    /\ pc = "run" /\ jobs[current].status = "active"
    /\ batch' \in {b \in SUBSET Stage(current) :
                     Cardinality(b) = Min({Cardinality(Stage(current)), Concurrency})}
    /\ pc' = "batch" /\ failed' = FALSE
    /\ UNCHANGED <<durable, current, asking, stops>>

(* iter_commit_references_by_source: the latest scan of every source up to *)
(* the cutoff, whenever the scan was published.                            *)
ScansBySource(c, cutoff) ==
    {Max(ScansOf(i)) : i \in {r \in Referring(c, cutoff) : ScansOf(r) # {}}}

RowOf(t) ==
    CASE t.kind = "commit-reference-scan-batch" -> Scan(t.subject)
      [] t.kind = "commit-object-batch" ->
            Object(t.subject, ScansBySource(t.subject, jobs[t.job].cutoff), t.job)
      [] OTHER -> Fact(t.subject, t.job)

(* publish() under a key of the task: a repeated attempt finds it.          *)
PublishTask(t) ==
    /\ pc = "batch" /\ t \in batch /\ t \notin published
    /\ rows' = Append(rows, RowOf(t))
    /\ published' = published \cup {t}
    /\ UNCHANGED <<jobs, tasks, done, run, asking, stops>>

(* A mutated form: the job is complete when its last batch is claimed.     *)
LastBatch(j) == \A t \in TasksOf(j) : t \in done \/ t \in batch

(* _advance_maintenance_job: all tasks of the job are completed.           *)
AllDone(j) == TasksOf(j) \subseteq done'

(* complete_maintenance_task, and with the last one the job.               *)
CompleteTask(t) ==
    /\ pc = "batch" /\ t \in batch /\ t \in published
    /\ done' = done \cup {t}
    /\ batch' = batch \ {t}
    /\ jobs' = IF AllDone(t.job) THEN [jobs EXCEPT ![t.job].status = "complete"] ELSE jobs
    /\ UNCHANGED <<rows, tasks, published, pc, current, failed, asking, stops>>

(* The task raises; the others of its batch go on.                         *)
FailTask(t) ==
    /\ pc = "batch" /\ t \in batch /\ stops < MaxStops
    /\ stops' = stops + 1
    /\ batch' = batch \ {t}
    /\ failed' = TRUE
    /\ UNCHANGED <<durable, pc, current, asking>>

Gathered ==
    /\ pc = "batch" /\ batch = {}
    /\ pc' = IF failed THEN "down" ELSE "run"
    /\ current' = IF failed THEN 0 ELSE current
    /\ failed' = FALSE
    /\ UNCHANGED <<durable, batch, asking, stops>>

Return ==
    /\ pc = "run" /\ jobs[current].status = "complete"
    /\ answer' = current
    /\ pc' = "down" /\ current' = 0
    /\ UNCHANGED <<durable, batch, failed, asked, stops>>

Crash ==
    /\ pc # "down" /\ stops < MaxStops
    /\ stops' = stops + 1
    /\ pc' = "down" /\ current' = 0 /\ batch' = {} /\ failed' = FALSE
    /\ UNCHANGED <<durable, asking>>

Requests == SUBSET Targets \ {{}}
Keys == CallerKeys \cup {NoKey}

Call ==
    \E key \in Keys :
       \/ ResumeJob("backfill", {}, key) \/ Replay("backfill", {}, key)
       \/ StartBackfill(key)
       \/ \E request \in Requests :
             \/ ResumeJob("refresh", request, key) \/ Replay("refresh", request, key)
             \/ StartRefresh(request, key)

Work ==
    \/ TakeTasks \/ Gathered \/ Return
    \/ \E t \in batch : PublishTask(t) \/ CompleteTask(t) \/ FailTask(t)

Next == SyncPublishes \/ Call \/ Work \/ Crash

Spec == Init /\ [][Next]_vars

-----------------------------------------------------------------------------
TypeOK ==
    /\ \A i \in Ids :
          \/ rows[i].is = "source" /\ rows[i].refs \subseteq Commits
          \/ rows[i].is = "scan" /\ rows[i].source \in Sources(i)
          \/ rows[i].is = "object" /\ rows[i].scans \subseteq 1 .. i - 1
          \/ rows[i].is = "fact" /\ rows[i].target \in Targets
    /\ Cardinality(Active) <= 1
    /\ \A j, k \in JobIds : jobs[j].key = jobs[k].key => j = k
    /\ published \subseteq tasks /\ done \subseteq published /\ batch \subseteq tasks \ done
    /\ pc \in {"down", "run", "batch"} /\ current \in 0 .. Len(jobs)
    /\ failed \in BOOLEAN /\ answer \in 0 .. Len(jobs) /\ stops \in 0 .. MaxStops

(* A job closes only when every task of its frozen population has observed *)
(* what it was to observe and is completed, whatever failed, crashed or    *)
(* was repeated on the way.                                                *)
JobIsWhole ==
    \A j \in JobIds : jobs[j].status = "complete" =>
       \A t \in TasksOf(j) : t \in done /\ t \in published

(* A completed backfill: every commit of the frozen raw sources has an     *)
(* outcome, and each outcome of the job names, for every one of these      *)
(* sources that refers to the commit, a scan, also those published later.  *)
BaselineIsWhole ==
    \A j \in JobIds : jobs[j].kind = "backfill" /\ jobs[j].status = "complete" =>
       \A c \in Referenced(jobs[j].cutoff) :
          /\ c \in Checked(Len(rows))
          /\ \A i \in Ids :
                rows[i].is = "object" /\ rows[i].commit = c /\ rows[i].job = j =>
                   {rows[s].source : s \in rows[i].scans} = Referring(c, jobs[j].cutoff)

(* What a call works on, and what it returns, is what it asked for: never  *)
(* another request, and with a key only the job of that key; what it       *)
(* returns is complete.                                                    *)
AnswersTheCall ==
    \A j \in {answer, current} \ {0} :
       /\ jobs[j].kind = asked.kind /\ jobs[j].request = asked.request
       /\ asked.key # NoKey => jobs[j].key = CallerKey(asked.kind, asked.key)
       /\ j = answer => jobs[j].status = "complete"

=============================================================================
