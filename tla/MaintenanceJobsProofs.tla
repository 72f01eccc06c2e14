------------------------ MODULE MaintenanceJobsProofs ------------------------
(***************************************************************************)
(* Proofs about MaintenanceJobs, for any targets, commits, keys and rows,  *)
(* batches of any size and any number of jobs, crashes and failed tasks.   *)
(***************************************************************************)
EXTENDS MaintenanceJobs, SequenceTheorems, FiniteSetTheorems, WellFoundedInduction, TLAPS

SourceRows == [is : {"source"}, refs : SUBSET Commits]
ScanRows == [is : {"scan"}, source : Nat]
ObjectRows == [is : {"object"}, commit : Commits, scans : SUBSET Nat, job : Nat]
FactRows == [is : {"fact"}, target : Targets, job : Nat]
Rows == SourceRows \union ScanRows \union ObjectRows \union FactRows

Kinds == {"refresh", "backfill"}
JobKeys == {CallerKey(kind, key) : kind \in Kinds, key \in CallerKeys}
             \union {<<"refresh", "new", n>> : n \in Nat} \union {<<"backfill", "scope", n>> : n \in Nat}
JobRecords == [key : JobKeys, kind : Kinds, request : SUBSET Targets, cutoff : Nat, status : {"active", "complete"}]
TaskRecords == [job : Nat, kind : {"parent-refresh", "commit-reference-scan-batch", "commit-object-batch"},
                subject : Targets \union Nat \union Commits]

IsScan(t) == t.kind = "commit-reference-scan-batch"
IsCommit(t) == t.kind = "commit-object-batch"

(* A row refers to rows before it.                                         *)
RowsOK ==
    /\ rows \in Seq(Rows)
    /\ \A i \in Ids : rows[i].is = "scan" => rows[i].source \in Sources(i)
    /\ \A i \in Ids : rows[i].is = "object" => rows[i].scans \subseteq 1 .. i - 1 /\ rows[i].job <= Len(jobs)

(* The key of a job tells its kind, and keys are not used twice.           *)
JobsOK ==
    /\ jobs \in Seq(JobRecords)
    /\ \A j \in JobIds : /\ jobs[j].cutoff <= Len(rows) /\ jobs[j].key[1] = jobs[j].kind
                         /\ jobs[j].kind = "backfill" => jobs[j].request = {}
                         /\ \A n \in Nat : jobs[j].key = <<"refresh", "new", n>> => n < j
    /\ \A j, k \in JobIds : jobs[j].key = jobs[k].key => j = k

OneActive == \A j, k \in Active : j = k

TasksOK ==
    /\ tasks \subseteq TaskRecords
    /\ \A t \in tasks :
          /\ t.job \in JobIds
          /\ IsScan(t) => jobs[t.job].kind = "backfill" /\ t.subject \in Sources(jobs[t.job].cutoff)
          /\ IsCommit(t) => jobs[t.job].kind = "backfill" /\ t.subject \in Commits
          /\ t.kind = "parent-refresh" => t.subject \in Targets
    /\ published \subseteq tasks /\ done \subseteq published

RunOK ==
    /\ pc \in {"down", "run", "batch"} /\ failed \in BOOLEAN
    /\ batch \subseteq tasks \ done /\ (pc # "batch" => batch = {})
    /\ current \in 0 .. Len(jobs) /\ (pc = "down" <=> current = 0) /\ \A t \in batch : t.job = current
    /\ answer \in 0 .. Len(jobs) /\ stops \in 0 .. MaxStops

(* What the frozen scope of a backfill needs has a row or a task.          *)
Population ==
    \A j \in JobIds : jobs[j].kind = "backfill" =>
       /\ \A i \in Sources(jobs[j].cutoff) :
             ScansOf(i) # {} \/ Task(j, "commit-reference-scan-batch", i) \in tasks
       /\ \A c \in Referenced(jobs[j].cutoff) :
             c \in Checked(jobs[j].cutoff) \/ Task(j, "commit-object-batch", c) \in tasks

(* What a task observes has a row.                                         *)
Outcomes ==
    \A t \in published : /\ IsScan(t) => ScansOf(t.subject) # {}
                         /\ IsCommit(t) => t.subject \in Checked(Len(rows))

(* Commits are worked on when all scans of the job are done.               *)
Staged ==
    \A t \in batch \union published : IsCommit(t) => \A u \in TasksOf(t.job) : IsScan(u) => u \in done

(* The outcome of a commit names a scan of every source that refers to it. *)
ScopesWhole ==
    \A i \in Ids : rows[i].is = "object" /\ rows[i].job # 0 =>
       {rows[s].source : s \in rows[i].scans} = Referring(rows[i].commit, jobs[rows[i].job].cutoff)

ArchiveOK ==
    /\ RowsOK /\ JobsOK /\ OneActive /\ TasksOK
    /\ Population /\ Outcomes /\ ScopesWhole /\ JobIsWhole

IInv == ArchiveOK /\ RunOK /\ Staged /\ AnswersTheCall

-----------------------------------------------------------------------------
(* A set of naturals that is not empty has a least element.                *)
LEMMA Least ==
    ASSUME NEW T \in SUBSET Nat, T # {}
    PROVE  \E n \in T : \A m \in T : n <= m
  <1>1. PICK n \in T : \A m \in T : ~(<<m, n>> \in OpToRel(<, Nat))
    BY WFMin, NatLessThanWellFounded
  <1>2. \A m \in T : ~(m < n)
    BY <1>1 DEF OpToRel
  <1> QED
    BY <1>2

(* The greatest of some row identities: the one of which the distance to   *)
(* the end is the least.                                                   *)
LEMMA Greatest ==
    ASSUME NEW n \in Nat, NEW S \in SUBSET (1 .. n), S # {}
    PROVE  Max(S) \in S
  <1> DEFINE Distances == {n - x : x \in S}
  <1>0. \A x \in S : x \in Nat /\ n - x \in Nat
    OBVIOUS
  <1>1. Distances \in SUBSET Nat /\ Distances # {}
    <2>1. PICK x : x \in S
      OBVIOUS
    <2>2. n - x \in Distances
      BY <2>1
    <2>3. \A d \in Distances : d \in Nat
      BY <1>0
    <2> HIDE DEF Distances
    <2> QED
      BY <2>2, <2>3
  <1> HIDE DEF Distances
  <1>2. PICK d \in Distances : \A e \in Distances : d <= e
    BY <1>1, Least
  <1>3. PICK x \in S : d = n - x
    BY DEF Distances
  <1>4. ASSUME NEW y \in S PROVE x >= y
    <2>1. n - y \in Distances
      BY DEF Distances
    <2>2. n - x <= n - y
      BY <1>2, <1>3, <2>1
    <2> QED
      BY <1>0, <2>2
  <1> QED
    BY <1>4 DEF Max

-----------------------------------------------------------------------------
(* Rows. *)

LEMMA RowsAre ==
    ASSUME RowsOK
    PROVE  /\ Ids = 1 .. Len(rows) /\ Len(rows) \in Nat
           /\ \A i \in Ids : rows[i] \in Rows
  BY DEF RowsOK, Ids

LEMMA JobsAre ==
    ASSUME JobsOK
    PROVE  /\ JobIds = 1 .. Len(jobs) /\ Len(jobs) \in Nat
           /\ \A j \in JobIds : jobs[j] \in JobRecords
  BY DEF JobsOK, JobIds

LEMMA Appends ==
    ASSUME RowsOK, NEW r \in Rows, rows' = Append(rows, r)
    PROVE  /\ rows' \in Seq(Rows) /\ Len(rows') = Len(rows) + 1
           /\ Ids' = Ids \union {Len(rows) + 1} /\ Len(rows) + 1 \notin Ids
           /\ rows'[Len(rows) + 1] = r
           /\ \A i \in Ids : rows'[i] = rows[i]
  BY DEF RowsOK, Ids

(* What an archive of n rows holds is not changed by rows after them.      *)
LEMMA FrozenScope ==
    ASSUME RowsOK, NEW r \in Rows, rows' = Append(rows, r)
    PROVE  /\ \A n \in Nat : n <= Len(rows) =>
                 /\ Sources(n)' = Sources(n) /\ Referenced(n)' = Referenced(n) /\ Checked(n)' = Checked(n)
                 /\ \A c : Referring(c, n)' = Referring(c, n)
           /\ \A n \in Nat : Sources(n) \subseteq Sources(n)'
           /\ \A i : ScansOf(i) \subseteq ScansOf(i)'
           /\ \A c : c \in Checked(Len(rows)) => c \in Checked(Len(rows))'
  <1>1. /\ Ids' = Ids \union {Len(rows) + 1} /\ \A i \in Ids : rows'[i] = rows[i]
        /\ Ids = 1 .. Len(rows) /\ Len(rows) \in Nat /\ Len(rows') = Len(rows) + 1
    BY Appends, RowsAre
  <1>2. \A n \in Nat : \A i : n <= Len(rows) => (i \in Ids' /\ i <= n <=> i \in Ids /\ i <= n)
    BY <1>1
  <1>3. ASSUME NEW n \in Nat, n <= Len(rows)
        PROVE  /\ Sources(n)' = Sources(n) /\ Referenced(n)' = Referenced(n) /\ Checked(n)' = Checked(n)
               /\ \A c : Referring(c, n)' = Referring(c, n)
    <2>1. \A i : i \in Sources(n)' <=> i \in Sources(n)
      BY <1>1, <1>2, <1>3 DEF Sources
    <2>2. \A i \in Sources(n) : rows'[i] = rows[i]
      BY <1>1 DEF Sources
    <2>3. Sources(n)' = Sources(n)
      BY <2>1
    <2>4. \A c : Referring(c, n)' = Referring(c, n)
      BY <2>2, <2>3 DEF Referring
    <2>5. Referenced(n)' = Referenced(n)
      <3>1. \A c : c \in Referenced(n)' <=> \E i \in Sources(n) : c \in rows'[i].refs
        BY <2>3 DEF Referenced
      <3>2. \A c : c \in Referenced(n) <=> \E i \in Sources(n) : c \in rows[i].refs
        BY DEF Referenced
      <3> QED
        BY <2>2, <3>1, <3>2
    <2>6. Checked(n)' = Checked(n)
      BY <1>1, <1>2, <1>3 DEF Checked
    <2> QED
      BY <2>3, <2>4, <2>5, <2>6
  <1>4. \A n \in Nat : Sources(n) \subseteq Sources(n)'
    BY <1>1 DEF Sources
  <1>5. \A i : ScansOf(i) \subseteq ScansOf(i)'
    BY <1>1 DEF ScansOf
  <1>6. ASSUME NEW c, c \in Checked(Len(rows)) PROVE c \in Checked(Len(rows))'
    <2>1. PICK i \in Ids : i <= Len(rows) /\ rows[i].is = "object" /\ rows[i].commit = c
      BY <1>6 DEF Checked
    <2>2. i \in Ids' /\ i <= Len(rows') /\ rows'[i] = rows[i]
      BY <1>1, <2>1
    <2> QED
      BY <2>1, <2>2, <1>6 DEF Checked
  <1> QED
    BY <1>3, <1>4, <1>5, <1>6

-----------------------------------------------------------------------------
(* The archive stays, grows by a row, or gets a job. *)

LEMMA DurableStays ==
    ASSUME ArchiveOK, UNCHANGED durable
    PROVE  ArchiveOK'
  <1>0. UNCHANGED <<rows, jobs, tasks, published, done>>
    BY DEF durable
  <1>1. RowsOK'
    BY <1>0 DEF ArchiveOK, RowsOK, Ids, Sources
  <1>2. JobsOK'
    BY <1>0 DEF ArchiveOK, JobsOK, JobIds
  <1>3. OneActive'
    BY <1>0 DEF ArchiveOK, OneActive, Active, JobIds
  <1>4. TasksOK'
    BY <1>0 DEF ArchiveOK, TasksOK, JobIds, Sources, Ids
  <1>5. Population'
    BY <1>0 DEF ArchiveOK, Population, JobIds, Sources, Referenced, ScansOf, Checked, Ids
  <1>6. Outcomes'
    BY <1>0 DEF ArchiveOK, Outcomes, ScansOf, Checked, Ids
  <1>7. ScopesWhole'
    BY <1>0 DEF ArchiveOK, ScopesWhole, Referring, Sources, Ids
  <1>8. JobIsWhole'
    BY <1>0 DEF ArchiveOK, JobIsWhole, JobIds, TasksOf
  <1> QED
    BY <1>1, <1>2, <1>3, <1>4, <1>5, <1>6, <1>7, <1>8 DEF ArchiveOK

LEMMA RowsGrow ==
    ASSUME ArchiveOK, NEW r \in Rows, rows' = Append(rows, r), UNCHANGED <<jobs, tasks, done>>,
           published \subseteq published', published' \subseteq tasks,
           r.is = "scan" => r.source \in Sources(Len(rows)),
           r.is = "object" => /\ r.scans \subseteq 1 .. Len(rows) /\ r.job <= Len(jobs)
                              /\ r.job # 0 => {rows[s].source : s \in r.scans} = Referring(r.commit, jobs[r.job].cutoff),
           \A t \in published' \ published : /\ IsScan(t) => ScansOf(t.subject)' # {}
                                             /\ IsCommit(t) => t.subject \in Checked(Len(rows))'
    PROVE  ArchiveOK'
  <1> DEFINE n == Len(rows) + 1
  <1>1. RowsOK /\ JobsOK /\ TasksOK
    BY DEF ArchiveOK
  <1>2. /\ rows' \in Seq(Rows) /\ Len(rows') = n /\ Ids' = Ids \union {n} /\ n \notin Ids
        /\ rows'[n] = r /\ \A i \in Ids : rows'[i] = rows[i]
        /\ Ids = 1 .. Len(rows) /\ Len(rows) \in Nat
    BY <1>1, Appends, RowsAre
  <1>3. /\ \A m \in Nat : m <= Len(rows) =>
              /\ Sources(m)' = Sources(m) /\ Referenced(m)' = Referenced(m) /\ Checked(m)' = Checked(m)
              /\ \A c : Referring(c, m)' = Referring(c, m)
        /\ \A m \in Nat : Sources(m) \subseteq Sources(m)'
        /\ \A i : ScansOf(i) \subseteq ScansOf(i)'
        /\ \A c : c \in Checked(Len(rows)) => c \in Checked(Len(rows))'
    BY <1>1, FrozenScope
  <1>4. /\ JobIds = 1 .. Len(jobs) /\ Len(jobs) \in Nat
        /\ \A j \in JobIds : jobs[j].cutoff \in Nat /\ jobs[j].cutoff <= Len(rows)
    BY <1>1, JobsAre DEF JobsOK, JobRecords
  <1>5. RowsOK'
    <2>1. ASSUME NEW i \in Ids', rows'[i].is = "scan" PROVE rows'[i].source \in Sources(i)'
      <3>1. CASE i \in Ids
        BY <2>1, <3>1, <1>1, <1>2, <1>3 DEF RowsOK
      <3>2. CASE i = n
        <4>1. rows'[i].source \in Sources(Len(rows))
          BY <2>1, <3>2, <1>2
        <4>2. Sources(Len(rows)) \subseteq Sources(i)'
          BY <3>2, <1>2 DEF Sources
        <4> QED
          BY <4>1, <4>2
      <3> QED
        BY <1>2, <3>1, <3>2
    <2>2. ASSUME NEW i \in Ids', rows'[i].is = "object"
          PROVE  rows'[i].scans \subseteq 1 .. i - 1 /\ rows'[i].job <= Len(jobs)
      <3>1. CASE i \in Ids
        BY <2>2, <3>1, <1>1, <1>2 DEF RowsOK
      <3>2. CASE i = n
        BY <2>2, <3>2, <1>2
      <3> QED
        BY <1>2, <3>1, <3>2
    <2> QED
      BY <2>1, <2>2, <1>2 DEF RowsOK
  <1>6. JobsOK'
    BY <1>1, <1>2, <1>4 DEF JobsOK, JobIds
  <1>7. OneActive'
    BY DEF ArchiveOK, OneActive, Active, JobIds
  <1>8. TasksOK'
    BY <1>1, <1>3, <1>4 DEF TasksOK, JobIds
  <1>9. Population'
    BY <1>3, <1>4 DEF ArchiveOK, Population, JobIds
  <1>10. Outcomes'
    BY <1>3 DEF ArchiveOK, Outcomes
  <1>11. ScopesWhole'
    <2> SUFFICES ASSUME NEW i \in Ids', NEW row, row = rows'[i], row.is = "object", row.job # 0,
                        NEW m, m = jobs[row.job].cutoff
                 PROVE  {rows'[s].source : s \in row.scans} = Referring(row.commit, m)'
      BY DEF ScopesWhole
    <2>1. /\ row \in Rows /\ row.scans \subseteq Ids /\ row.job <= Len(jobs)
          /\ {rows[s].source : s \in row.scans} = Referring(row.commit, jobs[row.job].cutoff)
      <3>1. CASE i \in Ids
        <4>1. row = rows[i] /\ row \in Rows
          BY <3>1, <1>1, <1>2, RowsAre
        <4>2. row.scans \subseteq Ids /\ row.job <= Len(jobs)
          BY <3>1, <4>1, <1>1, <1>2 DEF RowsOK
        <4>3. {rows[s].source : s \in row.scans} = Referring(row.commit, jobs[row.job].cutoff)
          BY <3>1, <4>1 DEF ArchiveOK, ScopesWhole
        <4> QED
          BY <4>1, <4>2, <4>3
      <3>2. CASE i = n
        BY <3>2, <1>2
      <3> QED
        BY <1>2, <3>1, <3>2
    <2>2. row.job \in Nat
      BY <2>1 DEF Rows, SourceRows, ScanRows, ObjectRows, FactRows
    <2>3. row.job \in JobIds
      <3>1. \A k \in Nat : k # 0 /\ k <= Len(jobs) => k \in JobIds
        BY <1>4
      <3>2. row.job <= Len(jobs)
        BY <2>1
      <3> QED
        BY <2>2, <3>1, <3>2
    <2>4. Referring(row.commit, m)' = Referring(row.commit, m)
      BY <2>3, <1>3, <1>4
    <2>5. {rows'[s].source : s \in row.scans} = {rows[s].source : s \in row.scans}
      BY <1>2, <2>1
    <2> QED
      BY <2>1, <2>4, <2>5
  <1>12. JobIsWhole'
    BY DEF ArchiveOK, JobIsWhole, JobIds, TasksOf
  <1> QED
    BY <1>5, <1>6, <1>7, <1>8, <1>9, <1>10, <1>11, <1>12 DEF ArchiveOK

LEMMA AppendsJob ==
    ASSUME JobsOK, NEW job \in JobRecords, jobs' = Append(jobs, job)
    PROVE  /\ jobs' \in Seq(JobRecords) /\ Len(jobs') = Len(jobs) + 1
           /\ JobIds' = JobIds \union {Len(jobs) + 1} /\ Len(jobs) + 1 \notin JobIds
           /\ jobs'[Len(jobs) + 1] = job
           /\ \A j \in JobIds : jobs'[j] = jobs[j]
  BY DEF JobsOK, JobIds

(* What a job may be started with: a key of its kind that no job has, and  *)
(* for a backfill a population that covers its scope.                      *)
Startable(key, kind, request, cutoff, population) ==
    /\ key \in JobKeys /\ kind \in Kinds /\ request \in SUBSET Targets /\ cutoff \in Nat
    /\ key[1] = kind /\ cutoff <= Len(rows) /\ (kind = "backfill" => request = {})
    /\ \A n \in Nat : key = <<"refresh", "new", n>> => n = Len(jobs)
    /\ \A k \in JobIds : jobs[k].key # key
    /\ population \in SUBSET TaskRecords
    /\ \A t \in population :
          /\ t.job = Len(jobs) + 1
          /\ IsScan(t) => kind = "backfill" /\ t.subject \in Sources(cutoff)
          /\ IsCommit(t) => kind = "backfill" /\ t.subject \in Commits
          /\ t.kind = "parent-refresh" => t.subject \in Targets
    /\ kind = "backfill" =>
          /\ \A i \in Sources(cutoff) :
                ScansOf(i) # {} \/ Task(Len(jobs) + 1, "commit-reference-scan-batch", i) \in population
          /\ \A c \in Referenced(cutoff) :
                c \in Checked(cutoff) \/ Task(Len(jobs) + 1, "commit-object-batch", c) \in population

(* A new job and its tasks.                                                *)
LEMMA JobsGrow ==
    ASSUME ArchiveOK, RunOK, Staged, pc = "down", Active = {}, answer' = 0,
           NEW key, NEW kind, NEW request, NEW cutoff, NEW population,
           Startable(key, kind, request, cutoff, population),
           StartJob(key, kind, request, cutoff, population)
    PROVE  /\ ArchiveOK' /\ RunOK' /\ Staged'
           /\ current' \in JobIds' /\ jobs'[current'].kind = kind /\ jobs'[current'].request = request
           /\ jobs'[current'].key = key
  <1>a. /\ key \in JobKeys /\ kind \in Kinds /\ request \in SUBSET Targets /\ cutoff \in Nat
        /\ key[1] = kind /\ cutoff <= Len(rows) /\ (kind = "backfill" => request = {})
        /\ \A k \in Nat : key = <<"refresh", "new", k>> => k = Len(jobs)
        /\ \A k \in JobIds : jobs[k].key # key
    BY DEF Startable
  <1>b. /\ population \in SUBSET TaskRecords
        /\ \A t \in population :
              /\ t.job = Len(jobs) + 1
              /\ IsScan(t) => kind = "backfill" /\ t.subject \in Sources(cutoff)
              /\ IsCommit(t) => kind = "backfill" /\ t.subject \in Commits
              /\ t.kind = "parent-refresh" => t.subject \in Targets
    BY DEF Startable
  <1>c. kind = "backfill" =>
           /\ \A i \in Sources(cutoff) :
                 ScansOf(i) # {} \/ Task(Len(jobs) + 1, "commit-reference-scan-batch", i) \in population
           /\ \A c \in Referenced(cutoff) :
                 c \in Checked(cutoff) \/ Task(Len(jobs) + 1, "commit-object-batch", c) \in population
    BY DEF Startable
  <1> DEFINE n == Len(jobs) + 1
             status == IF population = {} THEN "complete" ELSE "active"
             job == Job(key, kind, request, cutoff, status)
  <1>1. RowsOK /\ JobsOK /\ TasksOK
    BY DEF ArchiveOK
  <1>2. /\ tasks' = tasks \union population /\ jobs' = Append(jobs, job) /\ current' = n /\ pc' = "run"
        /\ UNCHANGED <<rows, published, done, batch, failed, stops>>
    BY DEF StartJob
  <1>3. status \in {"active", "complete"}
    OBVIOUS
  <1>4. job \in JobRecords /\ job.key = key /\ job.kind = kind /\ job.request = request
        /\ job.cutoff = cutoff /\ job.status = status
    BY <1>a, <1>3 DEF Job, JobRecords
  <1>5. status = "complete" => population = {}
    OBVIOUS
  <1> HIDE DEF status, job
  <1>6. /\ JobIds = 1 .. Len(jobs) /\ Len(jobs) \in Nat /\ jobs \in Seq(JobRecords)
        /\ \A j \in JobIds : jobs[j] \in JobRecords
    BY <1>1, JobsAre DEF JobsOK
  <1>7. /\ jobs' \in Seq(JobRecords) /\ Len(jobs') = n /\ JobIds' = JobIds \union {n} /\ n \notin JobIds
        /\ jobs'[n] = job /\ \A j \in JobIds : jobs'[j] = jobs[j]
    BY <1>1, <1>2, <1>4, AppendsJob
  <1>8. n \in Nat /\ n # 0 /\ \A j \in JobIds : j \in Nat /\ j < n /\ j <= Len(jobs)
    BY <1>6
  <1> HIDE DEF n
  <1>9. \A m : /\ Sources(m)' = Sources(m) /\ Referenced(m)' = Referenced(m) /\ Checked(m)' = Checked(m)
               /\ ScansOf(m)' = ScansOf(m) /\ \A c : Referring(c, m)' = Referring(c, m)
    BY <1>2 DEF Sources, Referenced, Checked, ScansOf, Referring, Ids
  <1>10. Ids' = Ids /\ Len(rows') = Len(rows)
    BY <1>2 DEF Ids
  <1>11. RowsOK'
    <2>1. Len(jobs) <= n /\ n = Len(jobs) + 1
      BY <1>6 DEF n
    <2>2. ASSUME NEW i \in Ids, rows[i].is = "object" PROVE rows[i].job <= n
      <3>1. rows[i] \in ObjectRows
        BY <2>2, <1>1, RowsAre DEF Rows, SourceRows, ScanRows, ObjectRows, FactRows
      <3>2. rows[i].job \in Nat /\ rows[i].job <= Len(jobs)
        BY <2>2, <3>1, <1>1 DEF ObjectRows, RowsOK
      <3> QED
        BY <3>2, <2>1, <1>6, <1>8
    <2> QED
      BY <1>1, <1>2, <1>7, <1>9, <1>10, <2>2 DEF RowsOK
  <1>12. JobsOK'
    <2>1. ASSUME NEW j \in JobIds'
          PROVE  /\ jobs'[j].cutoff <= Len(rows) /\ jobs'[j].key[1] = jobs'[j].kind
                 /\ jobs'[j].kind = "backfill" => jobs'[j].request = {}
                 /\ \A m \in Nat : jobs'[j].key = <<"refresh", "new", m>> => m < j
      <3>1. CASE j \in JobIds
        BY <3>1, <1>1, <1>7 DEF JobsOK
      <3>2. CASE j = n
        <4>1. Len(jobs) < n
          BY <1>6 DEF n
        <4> QED
          BY <3>2, <4>1, <1>a, <1>4, <1>7
      <3> QED
        BY <3>1, <3>2, <1>7
    <2>2. ASSUME NEW j \in JobIds', NEW k \in JobIds', jobs'[j].key = jobs'[k].key PROVE j = k
      <3>1. CASE j \in JobIds /\ k \in JobIds
        BY <2>2, <3>1, <1>1, <1>7 DEF JobsOK
      <3>2. CASE j = n \/ k = n
        BY <2>2, <3>2, <1>a, <1>4, <1>7
      <3> QED
        BY <3>1, <3>2, <1>7
    <2> QED
      BY <1>7, <1>10, <2>1, <2>2 DEF JobsOK
  <1>13. OneActive'
    <2>1. \A j \in Active' : j = n
      BY <1>7 DEF Active
    <2> QED
      BY <2>1 DEF OneActive
  <1>14. TasksOK'
    <2>1. ASSUME NEW t \in tasks'
          PROVE  /\ t.job \in JobIds'
                 /\ IsScan(t) => jobs'[t.job].kind = "backfill" /\ t.subject \in Sources(jobs'[t.job].cutoff)
                 /\ IsCommit(t) => jobs'[t.job].kind = "backfill" /\ t.subject \in Commits
                 /\ t.kind = "parent-refresh" => t.subject \in Targets
      <3>1. CASE t \in tasks
        BY <3>1, <1>1, <1>7 DEF TasksOK
      <3>2. CASE t \in population
        BY <3>2, <1>b, <1>4, <1>7 DEF n
      <3> QED
        BY <3>1, <3>2, <1>2
    <2>2. tasks' \subseteq TaskRecords /\ published' \subseteq tasks' /\ done' \subseteq published'
      BY <1>b, <1>1, <1>2 DEF TasksOK
    <2> QED
      BY <1>9, <2>1, <2>2 DEF TasksOK, IsScan, IsCommit
  <1>15. Population'
    <2> SUFFICES ASSUME NEW j \in JobIds', jobs'[j].kind = "backfill"
                 PROVE  /\ \A i \in Sources(jobs'[j].cutoff) :
                              ScansOf(i) # {} \/ Task(j, "commit-reference-scan-batch", i) \in tasks'
                        /\ \A c \in Referenced(jobs'[j].cutoff) :
                              c \in Checked(jobs'[j].cutoff) \/ Task(j, "commit-object-batch", c) \in tasks'
      BY <1>9 DEF Population, Task
    <2>1. CASE j \in JobIds
      BY <2>1, <1>2, <1>7 DEF ArchiveOK, Population
    <2>2. CASE j = n
      BY <2>2, <1>c, <1>2, <1>4, <1>7 DEF n
    <2> QED
      BY <2>1, <2>2, <1>7
  <1>16. Outcomes'
    BY <1>2, <1>9, <1>10 DEF ArchiveOK, Outcomes, IsScan, IsCommit
  <1>17. ScopesWhole'
    <2> SUFFICES ASSUME NEW i \in Ids', NEW row, row = rows'[i], row.is = "object", row.job # 0,
                        NEW m, m = jobs'[row.job].cutoff
                 PROVE  {rows'[s].source : s \in row.scans} = Referring(row.commit, m)'
      BY DEF ScopesWhole
    <2>0. i \in Ids /\ row = rows[i]
      BY <1>2, <1>10
    <2>1. row \in ObjectRows
      BY <1>1, <2>0, RowsAre DEF Rows, SourceRows, ScanRows, ObjectRows, FactRows
    <2>2. row.job \in Nat /\ row.job <= Len(jobs)
      BY <2>0, <2>1, <1>1 DEF ObjectRows, RowsOK
    <2>3. \A k \in Nat : k # 0 /\ k <= Len(jobs) => k \in JobIds
      BY <1>6
    <2>4. jobs'[row.job] = jobs[row.job]
      BY <2>2, <2>3, <1>7
    <2>5. {rows[s].source : s \in row.scans} = Referring(row.commit, m)
      BY <2>0, <2>4 DEF ArchiveOK, ScopesWhole
    <2> QED
      BY <1>2, <1>9, <2>5
  <1>18. \A j \in JobIds : TasksOf(j)' = TasksOf(j)
    BY <1>b, <1>2, <1>8 DEF TasksOf, n
  <1>19. JobIsWhole'
    <2> SUFFICES ASSUME NEW j \in JobIds', jobs'[j].status = "complete", NEW t \in TasksOf(j)'
                 PROVE  t \in done /\ t \in published
      BY <1>2 DEF JobIsWhole
    <2>1. CASE j \in JobIds
      BY <2>1, <1>7, <1>18 DEF ArchiveOK, JobIsWhole
    <2>2. CASE j = n
      <3>1. population = {} /\ t \in tasks /\ t.job = n
        BY <2>2, <1>2, <1>4, <1>5, <1>7 DEF TasksOf
      <3> QED
        BY <3>1, <1>1, <1>7 DEF TasksOK
    <2> QED
      BY <2>1, <2>2, <1>7
  <1>20. ArchiveOK'
    BY <1>11, <1>12, <1>13, <1>14, <1>15, <1>16, <1>17, <1>19 DEF ArchiveOK
  <1>21. batch = {} /\ batch' = {}
    BY <1>2 DEF RunOK
  <1>22. RunOK'
    BY <1>2, <1>7, <1>8, <1>21 DEF RunOK
  <1>23. Staged'
    <2> SUFFICES ASSUME NEW t \in published, IsCommit(t), NEW u \in TasksOf(t.job)', IsScan(u)
                 PROVE  u \in done
      BY <1>2, <1>21 DEF Staged, IsScan, IsCommit
    <2>1. t.job \in JobIds
      BY <1>1 DEF TasksOK
    <2>2. u \in TasksOf(t.job)
      BY <2>1, <1>18
    <2> QED
      BY <2>2 DEF Staged
  <1> QED
    BY <1>2, <1>4, <1>7, <1>20, <1>22, <1>23

-----------------------------------------------------------------------------
(* The actions. *)

LEMMA SyncPublishesKeeps ==
    ASSUME IInv, SyncPublishes
    PROVE  IInv'
  <1>1. UNCHANGED <<jobs, tasks, published, done, pc, current, batch, failed, asked, answer, stops>>
    BY DEF SyncPublishes, run, asking
  <1>2. RowsOK /\ TasksOK /\ Ids = 1 .. Len(rows) /\ Len(rows) \in Nat /\ JobsOK
    BY RowsAre DEF IInv, ArchiveOK
  <1>3. ArchiveOK'
    <2>1. \A t \in published' \ published : FALSE
      BY <1>1
    <2>2. published' \subseteq tasks /\ published \subseteq published'
      BY <1>1, <1>2 DEF TasksOK
    <2>3. ASSUME NEW refs \in SUBSET Commits, rows' = Append(rows, Source(refs)) PROVE ArchiveOK'
      <3>1. Source(refs) \in Rows /\ Source(refs).is = "source"
        BY DEF Source, Rows, SourceRows
      <3> QED
        BY <1>1, <2>1, <2>2, <2>3, <3>1, RowsGrow DEF IInv
    <2>4. ASSUME NEW i \in MissingScans(Len(rows)), rows' = Append(rows, Scan(i)) PROVE ArchiveOK'
      <3>1. i \in Sources(Len(rows)) /\ i \in Nat
        BY <1>2 DEF MissingScans, Sources
      <3>2. Scan(i) \in Rows /\ Scan(i).is = "scan" /\ Scan(i).source = i
        BY <3>1 DEF Scan, Rows, ScanRows
      <3> QED
        BY <1>1, <2>1, <2>2, <2>4, <3>1, <3>2, RowsGrow DEF IInv
    <2>5. ASSUME NEW c \in Commits, NEW scans \in SUBSET Ids, rows' = Append(rows, Object(c, scans, 0))
          PROVE  ArchiveOK'
      <3>1. scans \subseteq 1 .. Len(rows) /\ scans \in SUBSET Nat
        BY <1>2
      <3>2. Object(c, scans, 0) \in Rows /\ Object(c, scans, 0).is = "object"
            /\ Object(c, scans, 0).scans = scans /\ Object(c, scans, 0).job = 0
        BY <3>1 DEF Object, Rows, ObjectRows
      <3>3. 0 <= Len(jobs)
        BY <1>2, JobsAre
      <3> QED
        BY <1>1, <2>1, <2>2, <2>5, <3>1, <3>2, <3>3, RowsGrow DEF IInv
    <2>6. \/ \E refs \in SUBSET Commits : rows' = Append(rows, Source(refs))
          \/ \E i \in MissingScans(Len(rows)) : rows' = Append(rows, Scan(i))
          \/ \E c \in Commits, scans \in SUBSET Ids : rows' = Append(rows, Object(c, scans, 0))
      <3>1. \A c : {s \in Ids : rows[s].is = "scan" /\ c \in rows[rows[s].source].refs} \in SUBSET Ids
        OBVIOUS
      <3> QED
        BY <3>1 DEF SyncPublishes
    <2> QED
      BY <2>3, <2>4, <2>5, <2>6
  <1>4. RunOK'
    BY <1>1 DEF IInv, RunOK
  <1>5. Staged'
    BY <1>1 DEF IInv, Staged, TasksOf
  <1>6. AnswersTheCall'
    BY <1>1 DEF IInv, AnswersTheCall
  <1> QED
    BY <1>3, <1>4, <1>5, <1>6 DEF IInv

(* A call that starts no job.                                              *)
LEMMA CallKeeps ==
    ASSUME IInv, UNCHANGED <<durable, batch, failed, stops>>, pc = "down",
           answer' \in 0 .. Len(jobs), current' \in 0 .. Len(jobs),
           \/ pc' = "down" /\ current' = 0
           \/ pc' = "run" /\ current' # 0,
           AnswersTheCall'
    PROVE  IInv'
  <1>1. ArchiveOK'
    BY DurableStays DEF IInv
  <1>2. RunOK'
    BY DEF IInv, RunOK, durable
  <1>3. Staged'
    BY DEF IInv, Staged, TasksOf, durable
  <1> QED
    BY <1>1, <1>2, <1>3 DEF IInv

LEMMA ResumeJobKeeps ==
    ASSUME IInv, NEW kind \in Kinds, NEW request, NEW key, ResumeJob(kind, request, key)
    PROVE  IInv'
  <1>1. /\ pc = "down" /\ asked' = Ask(kind, request, key) /\ answer' = 0
        /\ UNCHANGED <<durable, batch, failed, stops>> /\ UNCHANGED jobs
    BY DEF ResumeJob, durable
  <1>2. PICK j \in Active : \/ Resumable(j, kind, request, key) /\ current' = j /\ pc' = "run"
                            \/ UNCHANGED <<current, pc>>
    BY DEF ResumeJob
  <1>3. j \in JobIds /\ JobIds = 1 .. Len(jobs) /\ Len(jobs) \in Nat
    BY JobsAre DEF Active, IInv, ArchiveOK
  <1>4. current = 0
    BY <1>1 DEF IInv, RunOK
  <1>5. AnswersTheCall'
    BY <1>1, <1>2, <1>4 DEF AnswersTheCall, Ask, Resumable
  <1>6. answer' \in 0 .. Len(jobs) /\ current' \in 0 .. Len(jobs)
    BY <1>1, <1>2, <1>3, <1>4
  <1>7. \/ pc' = "down" /\ current' = 0
        \/ pc' = "run" /\ current' # 0
    BY <1>1, <1>2, <1>3, <1>4
  <1> QED
    BY <1>1, <1>5, <1>6, <1>7, CallKeeps

(* A job found by a key is complete and of the kind the key tells.         *)
LEMMA FoundByKey ==
    ASSUME IInv, Active = {}, NEW key, NEW j \in ByKey(key)
    PROVE  /\ j \in JobIds /\ j \in 0 .. Len(jobs) /\ jobs[j].status = "complete"
           /\ jobs[j].key = key /\ jobs[j].kind = key[1]
           /\ jobs[j].kind = "backfill" => jobs[j].request = {}
  <1>1. JobsOK /\ JobIds = 1 .. Len(jobs) /\ Len(jobs) \in Nat /\ j \in JobIds /\ jobs[j].key = key
    BY JobsAre DEF IInv, ArchiveOK, ByKey
  <1>2. jobs[j].status \in {"active", "complete"}
    BY <1>1, JobsAre DEF JobRecords
  <1>3. jobs[j].status # "active"
    BY <1>1 DEF Active
  <1>4. jobs[j].key[1] = jobs[j].kind /\ (jobs[j].kind = "backfill" => jobs[j].request = {})
    BY <1>1 DEF JobsOK
  <1> QED
    BY <1>1, <1>2, <1>3, <1>4

LEMMA ReplayKeeps ==
    ASSUME IInv, NEW kind \in Kinds, NEW request, NEW key, Replay(kind, request, key)
    PROVE  IInv'
  <1>1. /\ pc = "down" /\ Active = {} /\ asked' = Ask(kind, request, key)
        /\ UNCHANGED <<durable, pc, current, batch, failed, stops>> /\ UNCHANGED jobs
    BY DEF Replay, durable, run
  <1>2. PICK j \in ByKey(CallerKey(kind, key)) : answer' = IF jobs[j].request = request THEN j ELSE 0
    BY DEF Replay
  <1>3. /\ j \in 0 .. Len(jobs) /\ jobs[j].status = "complete" /\ jobs[j].key = CallerKey(kind, key)
        /\ jobs[j].kind = kind
    BY <1>1, FoundByKey DEF CallerKey
  <1>4. current = 0
    BY <1>1 DEF IInv, RunOK
  <1>5. AnswersTheCall'
    BY <1>1, <1>2, <1>3, <1>4 DEF AnswersTheCall, Ask
  <1>6. answer' \in 0 .. Len(jobs) /\ current' = 0 /\ pc' = "down" /\ 0 \in 0 .. Len(jobs)
    BY <1>1, <1>2, <1>3, <1>4, JobsAre DEF IInv, ArchiveOK
  <1> QED
    BY <1>1, <1>5, <1>6, CallKeeps

LEMMA CallerKeys2 ==
    ASSUME NEW kind, NEW key, NEW a, NEW b, NEW c
    PROVE  CallerKey(kind, key) # <<a, b, c>>
  BY DEF CallerKey

LEMMA StartRefreshKeeps ==
    ASSUME IInv, NEW request \in Requests, NEW key \in Keys, StartRefresh(request, key)
    PROVE  IInv'
  <1> DEFINE own == IF key = NoKey THEN <<"refresh", "new", Len(jobs)>> ELSE CallerKey("refresh", key)
             population == RefreshTasks(Len(jobs) + 1, request)
  <1>1. /\ pc = "down" /\ Active = {} /\ Unused("refresh", key)
        /\ asked' = Ask("refresh", request, key) /\ answer' = 0
        /\ StartJob(own, "refresh", request, Len(rows), population)
    BY DEF StartRefresh
  <1>2. /\ JobsOK /\ JobIds = 1 .. Len(jobs) /\ Len(jobs) \in Nat /\ Len(rows) \in Nat
        /\ ArchiveOK /\ RunOK /\ Staged
    BY JobsAre, RowsAre DEF IInv, ArchiveOK
  <1>3. key # NoKey => key \in CallerKeys
    BY DEF Keys
  <1>4. own \in JobKeys /\ own[1] = "refresh"
    <2>1. CASE key = NoKey
      BY <2>1, <1>2 DEF JobKeys
    <2>2. CASE key # NoKey
      BY <2>2, <1>3 DEF JobKeys, CallerKey, Kinds
    <2> QED
      BY <2>1, <2>2
  <1>5. \A n \in Nat : own = <<"refresh", "new", n>> => n = Len(jobs)
    BY CallerKeys2
  <1>6. \A k \in JobIds : jobs[k].key # own
    <2>1. CASE key = NoKey
      <3>1. \A k \in JobIds : ~(Len(jobs) < k)
        BY <1>2
      <3> QED
        BY <2>1, <3>1, <1>2 DEF JobsOK
    <2>2. CASE key # NoKey
      BY <2>2, <1>1 DEF Unused, ByKey
    <2> QED
      BY <2>1, <2>2
  <1>7. \A t \in population : t.job = Len(jobs) + 1 /\ t.kind = "parent-refresh" /\ t.subject \in Targets
    BY DEF RefreshTasks, Task, Requests
  <1>8. population \in SUBSET TaskRecords
    BY <1>2 DEF RefreshTasks, Task, Requests, TaskRecords
  <1>9. request \in SUBSET Targets /\ "refresh" \in Kinds
    BY DEF Requests, Kinds
  <1> HIDE DEF own, population
  <1>10. /\ ArchiveOK' /\ RunOK' /\ Staged'
         /\ current' \in JobIds' /\ jobs'[current'].kind = "refresh" /\ jobs'[current'].request = request
         /\ jobs'[current'].key = own
    <2>1. Startable(own, "refresh", request, Len(rows), population)
      BY <1>2, <1>4, <1>5, <1>6, <1>7, <1>8, <1>9 DEF Startable, IsScan, IsCommit
    <2> QED
      BY <1>1, <1>2, <2>1, JobsGrow
  <1>11. AnswersTheCall'
    <2>1. key # NoKey => jobs'[current'].key = CallerKey("refresh", key)
      BY <1>10 DEF own
    <2> QED
      BY <1>1, <1>10, <2>1 DEF AnswersTheCall, Ask
  <1> QED
    BY <1>10, <1>11 DEF IInv

(* The population of a backfill covers its scope.                          *)
LEMMA BackfillStartable ==
    ASSUME ArchiveOK, NEW key \in JobKeys, key[1] = "backfill", \A k \in JobIds : jobs[k].key # key,
           \A n \in Nat : key # <<"refresh", "new", n>>
    PROVE  Startable(key, "backfill", {}, Len(rows), BackfillTasks(Len(jobs) + 1, Len(rows)))
  <1> DEFINE n == Len(jobs) + 1
             cutoff == Len(rows)
             scans == {Task(n, "commit-reference-scan-batch", i) : i \in MissingScans(cutoff)}
             commits == {Task(n, "commit-object-batch", c) : c \in Referenced(cutoff) \ Checked(cutoff)}
  <1>1. /\ Len(jobs) \in Nat /\ n \in Nat /\ cutoff \in Nat /\ Ids = 1 .. cutoff
        /\ \A i \in Ids : rows[i] \in Rows
    BY JobsAre, RowsAre DEF ArchiveOK
  <1>2. BackfillTasks(n, cutoff) = scans \union commits
    BY DEF BackfillTasks
  <1>3. Sources(cutoff) \subseteq Nat /\ MissingScans(cutoff) \subseteq Sources(cutoff)
    BY <1>1 DEF Sources, MissingScans
  <1>4. Referenced(cutoff) \subseteq Commits
    <2> SUFFICES ASSUME NEW c \in Referenced(cutoff) PROVE c \in Commits
      OBVIOUS
    <2>1. PICK i \in Sources(cutoff) : c \in rows[i].refs
      BY DEF Referenced
    <2>2. i \in Ids /\ rows[i].is = "source"
      BY <2>1 DEF Sources
    <2>3. rows[i] \in SourceRows
      BY <2>2, <1>1 DEF Rows, ScanRows, ObjectRows, FactRows
    <2> QED
      BY <2>1, <2>3 DEF SourceRows
  <1> HIDE DEF n, cutoff
  <1>5. \A t \in scans : /\ t \in TaskRecords /\ t.job = n /\ t.subject \in Sources(cutoff)
                         /\ IsScan(t) /\ ~IsCommit(t) /\ t.kind # "parent-refresh"
    BY <1>1, <1>3 DEF Task, TaskRecords, IsScan, IsCommit
  <1>6. \A t \in commits : /\ t \in TaskRecords /\ t.job = n /\ t.subject \in Commits
                           /\ ~IsScan(t) /\ IsCommit(t) /\ t.kind # "parent-refresh"
    BY <1>1, <1>4 DEF Task, TaskRecords, IsScan, IsCommit
  <1>7. \A i \in Sources(cutoff) : ScansOf(i) # {} \/ Task(n, "commit-reference-scan-batch", i) \in scans
    BY DEF MissingScans
  <1>8. \A c \in Referenced(cutoff) : c \in Checked(cutoff) \/ Task(n, "commit-object-batch", c) \in commits
    OBVIOUS
  <1> HIDE DEF scans, commits
  <1>9. \A t \in scans \union commits :
           /\ t \in TaskRecords /\ t.job = n
           /\ IsScan(t) => t.subject \in Sources(cutoff)
           /\ IsCommit(t) => t.subject \in Commits
           /\ t.kind = "parent-refresh" => t.subject \in Targets
    BY <1>5, <1>6
  <1>10. cutoff <= Len(rows)
    BY <1>1 DEF cutoff
  <1>11. Startable(key, "backfill", {}, cutoff, scans \union commits)
    BY <1>1, <1>7, <1>8, <1>9, <1>10 DEF Startable, Kinds, n
  <1> QED
    BY <1>2, <1>11 DEF n, cutoff

LEMMA StartBackfillKeeps ==
    ASSUME IInv, NEW key \in Keys, StartBackfill(key)
    PROVE  IInv'
  <1> DEFINE own == <<"backfill", "scope", Len(rows)>>
             used == IF key = NoKey THEN own ELSE CallerKey("backfill", key)
  <1>1. /\ pc = "down" /\ Active = {} /\ Unused("backfill", key) /\ asked' = Ask("backfill", {}, key)
        /\ \/ /\ key = NoKey /\ \E j \in ByKey(own) : answer' = j
              /\ UNCHANGED <<durable, run, stops>>
           \/ /\ key # NoKey \/ ByKey(own) = {}
              /\ answer' = 0
              /\ StartJob(used, "backfill", {}, Len(rows), BackfillTasks(Len(jobs) + 1, Len(rows)))
    BY DEF StartBackfill
  <1>2. CASE key = NoKey /\ (\E j \in ByKey(own) : answer' = j) /\ UNCHANGED <<durable, run, stops>>
    <2>1. PICK j \in ByKey(own) : answer' = j
      BY <1>2
    <2>2. j \in 0 .. Len(jobs) /\ jobs[j].status = "complete" /\ jobs[j].kind = "backfill" /\ jobs[j].request = {}
      BY <1>1, FoundByKey
    <2>3. UNCHANGED <<durable, pc, current, batch, failed, stops, jobs>>
      BY <1>2 DEF run, durable
    <2>4. current' = 0 /\ pc' = "down" /\ 0 \in 0 .. Len(jobs)
      BY <1>1, <2>3, JobsAre DEF IInv, RunOK, ArchiveOK
    <2>5. AnswersTheCall'
      BY <1>1, <1>2, <2>1, <2>2, <2>3, <2>4 DEF AnswersTheCall, Ask
    <2> QED
      BY <1>1, <2>1, <2>2, <2>3, <2>4, <2>5, CallKeeps
  <1>3. CASE /\ key # NoKey \/ ByKey(own) = {}
             /\ answer' = 0
             /\ StartJob(used, "backfill", {}, Len(rows), BackfillTasks(Len(jobs) + 1, Len(rows)))
    <2>1. ArchiveOK /\ RunOK /\ Staged /\ Len(rows) \in Nat
      BY RowsAre DEF IInv, ArchiveOK
    <2>2. used \in JobKeys /\ used[1] = "backfill" /\ \A n \in Nat : used # <<"refresh", "new", n>>
      <3>1. CASE key = NoKey
        <4>1. used = own
          BY <3>1
        <4>2. own \in JobKeys
          BY <2>1 DEF JobKeys
        <4>3. own[1] = "backfill" /\ \A n \in Nat : own # <<"refresh", "new", n>>
          OBVIOUS
        <4> QED
          BY <4>1, <4>2, <4>3
      <3>2. CASE key # NoKey
        <4>1. used = CallerKey("backfill", key) /\ key \in CallerKeys
          BY <3>2 DEF Keys
        <4>2. used \in JobKeys
          BY <4>1 DEF JobKeys, Kinds
        <4>3. used[1] = "backfill"
          BY <4>1 DEF CallerKey
        <4> QED
          BY <4>1, <4>2, <4>3, CallerKeys2
      <3> QED
        BY <3>1, <3>2
    <2>3. \A k \in JobIds : jobs[k].key # used
      BY <1>1, <1>3 DEF Unused, ByKey
    <2> HIDE DEF own, used
    <2>4. Startable(used, "backfill", {}, Len(rows), BackfillTasks(Len(jobs) + 1, Len(rows)))
      BY <2>1, <2>2, <2>3, BackfillStartable
    <2>5. /\ ArchiveOK' /\ RunOK' /\ Staged'
          /\ current' \in JobIds' /\ jobs'[current'].kind = "backfill" /\ jobs'[current'].request = {}
          /\ jobs'[current'].key = used
      BY <1>1, <1>3, <2>1, <2>4, JobsGrow
    <2>6. AnswersTheCall'
      <3>1. key # NoKey => jobs'[current'].key = CallerKey("backfill", key)
        BY <2>5 DEF used
      <3> QED
        BY <1>1, <1>3, <2>5, <3>1 DEF AnswersTheCall, Ask
    <2> QED
      BY <2>5, <2>6 DEF IInv
  <1> QED
    BY <1>1, <1>2, <1>3

LEMMA TakeTasksKeeps ==
    ASSUME IInv, TakeTasks
    PROVE  IInv'
  <1>1. /\ pc = "run" /\ batch' \subseteq Stage(current) /\ pc' = "batch" /\ failed' = FALSE
        /\ UNCHANGED <<durable, current, asked, answer, stops>>
        /\ UNCHANGED <<rows, jobs, tasks, published, done>>
    BY DEF TakeTasks, asking, durable
  <1>2. Stage(current) \subseteq Pending(current)
    BY DEF Stage
  <1>3. ArchiveOK'
    BY <1>1, DurableStays DEF IInv
  <1>4. RunOK'
    <2>1. \A t \in batch' : t \in tasks \ done /\ t.job = current
      BY <1>1, <1>2 DEF Pending, TasksOf
    <2> QED
      BY <1>1, <2>1 DEF IInv, RunOK
  <1>5. Staged'
    <2>1. ASSUME NEW t \in batch', IsCommit(t), NEW u \in TasksOf(t.job), IsScan(u), u \notin done PROVE FALSE
      <3>1. t \in Stage(current) /\ t.job = current
        BY <1>1, <1>2 DEF Pending, TasksOf
      <3>2. u \in {v \in Pending(current) : v.kind = "commit-reference-scan-batch"}
        BY <2>1, <3>1 DEF Pending, IsScan
      <3>3. t.kind = "commit-reference-scan-batch"
        BY <3>1, <3>2 DEF Stage
      <3> QED
        BY <2>1, <3>3 DEF IsCommit
    <2>2. \A j : TasksOf(j)' = TasksOf(j)
      BY <1>1 DEF TasksOf
    <2>3. ASSUME NEW t \in published, IsCommit(t), NEW u \in TasksOf(t.job), IsScan(u) PROVE u \in done
      BY <2>3 DEF IInv, Staged
    <2>4. \A t \in batch' \union published : IsCommit(t) => \A u \in TasksOf(t.job) : IsScan(u) => u \in done
      BY <2>1, <2>3
    <2> QED
      BY <1>1, <2>2, <2>4 DEF Staged, IsScan, IsCommit
  <1>6. AnswersTheCall'
    BY <1>1 DEF IInv, AnswersTheCall
  <1> QED
    BY <1>3, <1>4, <1>5, <1>6 DEF IInv

(* The scans a commit task reads cover the sources of its scope: all scan  *)
(* tasks of the job are done.                                              *)
LEMMA ScansCover ==
    ASSUME IInv, NEW t \in batch, IsCommit(t), NEW cutoff, cutoff = jobs[t.job].cutoff
    PROVE  /\ ScansBySource(t.subject, cutoff) \subseteq Ids
           /\ {rows[s].source : s \in ScansBySource(t.subject, cutoff)} = Referring(t.subject, cutoff)
  <1>1. /\ RowsOK /\ JobsOK /\ TasksOK /\ t \in tasks /\ t.job \in JobIds
        /\ Ids = 1 .. Len(rows) /\ Len(rows) \in Nat /\ jobs[t.job].kind = "backfill"
    BY RowsAre DEF IInv, ArchiveOK, RunOK, TasksOK
  <1>2. ASSUME NEW i \in Sources(cutoff) PROVE ScansOf(i) # {}
    <2>1. ScansOf(i) # {} \/ Task(t.job, "commit-reference-scan-batch", i) \in tasks
      BY <1>1 DEF IInv, ArchiveOK, Population
    <2>2. ASSUME NEW u \in tasks, u = Task(t.job, "commit-reference-scan-batch", i) PROVE ScansOf(i) # {}
      <3>1. u.job = t.job /\ u.subject = i /\ IsScan(u)
        BY <2>2 DEF Task, IsScan
      <3>2. u \in done
        BY <3>1 DEF IInv, Staged, TasksOf
      <3>3. u \in published
        BY <1>1, <3>2 DEF TasksOK
      <3> QED
        BY <3>1, <3>3 DEF IInv, ArchiveOK, Outcomes
    <2> QED
      BY <2>1, <2>2
  <1>3. ASSUME NEW i \in Sources(cutoff)
        PROVE  Max(ScansOf(i)) \in Ids /\ rows[Max(ScansOf(i))].source = i
    <2>1. ScansOf(i) \in SUBSET (1 .. Len(rows)) /\ ScansOf(i) # {}
      BY <1>1, <1>2 DEF ScansOf
    <2>2. Max(ScansOf(i)) \in ScansOf(i)
      BY <1>1, <2>1, Greatest
    <2> QED
      BY <2>2 DEF ScansOf, Scan
  <1> DEFINE referring == Referring(t.subject, cutoff)
  <1>4. referring \subseteq Sources(cutoff)
    BY DEF Referring
  <1>5. ScansBySource(t.subject, cutoff) = {Max(ScansOf(i)) : i \in referring}
    <2>1. referring = {r \in referring : ScansOf(r) # {}}
      BY <1>2, <1>4
    <2> QED
      BY <2>1 DEF ScansBySource
  <1> HIDE DEF referring
  <1>6. \A s \in {Max(ScansOf(i)) : i \in referring} : s \in Ids /\ rows[s].source \in referring
    BY <1>3, <1>4
  <1>7. \A i \in referring : \E s \in {Max(ScansOf(k)) : k \in referring} : rows[s].source = i
    BY <1>3, <1>4
  <1> DEFINE scans == ScansBySource(t.subject, cutoff)
  <1>8. /\ \A s \in scans : s \in Ids /\ rows[s].source \in referring
        /\ \A i \in referring : \E s \in scans : rows[s].source = i
    BY <1>5, <1>6, <1>7
  <1> HIDE DEF scans
  <1>9. {rows[s].source : s \in scans} = referring
    BY <1>8
  <1> QED
    BY <1>8, <1>9 DEF scans, referring

LEMMA PublishTaskKeeps ==
    ASSUME IInv, NEW t \in batch, PublishTask(t)
    PROVE  IInv'
  <1>1. /\ pc = "batch" /\ rows' = Append(rows, RowOf(t)) /\ published' = published \union {t}
        /\ UNCHANGED <<jobs, tasks, done, pc, current, batch, failed, asked, answer, stops>>
    BY DEF PublishTask, run, asking
  <1>2. /\ RowsOK /\ JobsOK /\ TasksOK /\ t \in tasks /\ t \in TaskRecords /\ t.job \in JobIds
        /\ Ids = 1 .. Len(rows) /\ Len(rows) \in Nat /\ JobIds = 1 .. Len(jobs) /\ Len(jobs) \in Nat
    BY RowsAre, JobsAre DEF IInv, ArchiveOK, RunOK, TasksOK
  <1>3. t.job \in Nat /\ t.job <= Len(jobs) /\ jobs[t.job].cutoff \in Nat /\ jobs[t.job].cutoff <= Len(rows)
    BY <1>2, JobsAre DEF JobsOK, JobRecords
  <1>4. published \subseteq published' /\ published' \subseteq tasks /\ \A u \in published' \ published : u = t
    BY <1>1, <1>2 DEF TasksOK
  <1>5. ArchiveOK'
    <2>1. CASE IsScan(t)
      <3>1. RowOf(t) = Scan(t.subject)
        BY <2>1 DEF RowOf, IsScan
      <3>2. t.subject \in Sources(Len(rows)) /\ t.subject \in Nat
        BY <1>2, <1>3, <2>1 DEF TasksOK, Sources
      <3>3. Scan(t.subject) \in Rows /\ Scan(t.subject).is = "scan" /\ Scan(t.subject).source = t.subject
        BY <3>2 DEF Scan, Rows, ScanRows
      <3>4. ScansOf(t.subject)' # {}
        <4>1. Len(rows) + 1 \in Ids' /\ rows'[Len(rows) + 1] = Scan(t.subject)
          BY <1>1, <1>2, <3>1, <3>3, Appends
        <4>2. \A x : x \in Ids' /\ rows'[x] = Scan(t.subject) => x \in ScansOf(t.subject)'
          BY DEF ScansOf, Scan
        <4> QED
          BY <4>1, <4>2
      <3>5. ~IsCommit(t)
        BY <2>1 DEF IsScan, IsCommit
      <3>6. \A u \in published' \ published : /\ IsScan(u) => ScansOf(u.subject)' # {}
                                              /\ IsCommit(u) => u.subject \in Checked(Len(rows))'
        BY <1>4, <3>4, <3>5
      <3> QED
        BY <1>1, <1>4, <3>1, <3>2, <3>3, <3>6, RowsGrow DEF IInv
    <2>2. CASE IsCommit(t)
      <3> DEFINE scans == ScansBySource(t.subject, jobs[t.job].cutoff)
                 r == Object(t.subject, scans, t.job)
      <3>1. RowOf(t) = r
        BY <2>2 DEF RowOf, IsCommit
      <3>2. scans \subseteq Ids /\ {rows[s].source : s \in scans} = Referring(t.subject, jobs[t.job].cutoff)
        BY <2>2, ScansCover
      <3> HIDE DEF scans
      <3>3. t.subject \in Commits
        BY <1>2, <2>2 DEF TasksOK
      <3>4. scans \subseteq 1 .. Len(rows) /\ scans \in SUBSET Nat
        BY <1>2, <3>2
      <3>5. /\ r \in Rows /\ r.is = "object" /\ r.scans = scans /\ r.job = t.job /\ r.commit = t.subject
        BY <1>3, <3>3, <3>4 DEF Object, Rows, ObjectRows
      <3> HIDE DEF r
      <3>6. t.subject \in Checked(Len(rows))'
        <4>1. /\ Len(rows) + 1 \in Ids' /\ Len(rows) + 1 <= Len(rows') /\ rows'[Len(rows) + 1] = r
          BY <1>1, <1>2, <3>1, <3>5, Appends
        <4> QED
          BY <3>3, <3>5, <4>1 DEF Checked
      <3>7. ~IsScan(t)
        BY <2>2 DEF IsScan, IsCommit
      <3>8. \A u \in published' \ published : /\ IsScan(u) => ScansOf(u.subject)' # {}
                                              /\ IsCommit(u) => u.subject \in Checked(Len(rows))'
        BY <1>4, <3>6, <3>7
      <3>9. /\ r.is = "scan" => r.source \in Sources(Len(rows))
            /\ r.is = "object" => /\ r.scans \subseteq 1 .. Len(rows) /\ r.job <= Len(jobs)
                                  /\ r.job # 0 => {rows[s].source : s \in r.scans}
                                                     = Referring(r.commit, jobs[r.job].cutoff)
        BY <1>3, <3>2, <3>4, <3>5
      <3> QED
        BY <1>1, <1>4, <3>1, <3>5, <3>8, <3>9, RowsGrow DEF IInv
    <2>3. CASE ~IsScan(t) /\ ~IsCommit(t)
      <3>1. t.kind = "parent-refresh"
        BY <1>2, <2>3 DEF TaskRecords, IsScan, IsCommit
      <3>2. RowOf(t) = Fact(t.subject, t.job)
        BY <3>1 DEF RowOf
      <3>3. Fact(t.subject, t.job) \in Rows /\ Fact(t.subject, t.job).is = "fact"
        BY <1>2, <1>3, <3>1 DEF TasksOK, Fact, Rows, FactRows
      <3>4. \A u \in published' \ published : /\ IsScan(u) => ScansOf(u.subject)' # {}
                                              /\ IsCommit(u) => u.subject \in Checked(Len(rows))'
        BY <1>4, <2>3
      <3> QED
        BY <1>1, <1>4, <3>2, <3>3, <3>4, RowsGrow DEF IInv
    <2> QED
      BY <2>1, <2>2, <2>3
  <1>6. RunOK'
    BY <1>1 DEF IInv, RunOK
  <1>7. Staged'
    BY <1>1 DEF IInv, Staged, TasksOf
  <1>8. AnswersTheCall'
    BY <1>1 DEF IInv, AnswersTheCall
  <1> QED
    BY <1>5, <1>6, <1>7, <1>8 DEF IInv

(* The last task completes the job.                                        *)
LEMMA CompleteTaskKeeps ==
    ASSUME IInv, NEW t \in batch, CompleteTask(t)
    PROVE  IInv'
  <1>1. /\ pc = "batch" /\ t \in published /\ done' = done \union {t} /\ batch' = batch \ {t}
        /\ jobs' = IF AllDone(t.job) THEN [jobs EXCEPT ![t.job].status = "complete"] ELSE jobs
        /\ UNCHANGED <<rows, tasks, published, pc, current, failed, asked, answer, stops>>
    BY DEF CompleteTask, asking
  <1>2. /\ RowsOK /\ JobsOK /\ TasksOK /\ t \in tasks /\ t.job \in JobIds
        /\ JobIds = 1 .. Len(jobs) /\ Len(jobs) \in Nat /\ jobs \in Seq(JobRecords)
    BY JobsAre DEF IInv, ArchiveOK, RunOK, TasksOK, JobsOK
  <1>3. jobs' \in Seq(JobRecords) /\ JobIds' = JobIds /\ Len(jobs') = Len(jobs)
    <2>1. CASE AllDone(t.job)
      <3>1. jobs' = [jobs EXCEPT ![t.job] = [jobs[t.job] EXCEPT !.status = "complete"]]
        BY <1>1, <2>1
      <3>2. [jobs[t.job] EXCEPT !.status = "complete"] \in JobRecords
        BY <1>2, JobsAre DEF JobRecords
      <3> QED
        BY <1>2, <3>1, <3>2 DEF JobIds
    <2>2. CASE ~AllDone(t.job)
      BY <1>1, <1>2, <2>2 DEF JobIds
    <2> QED
      BY <2>1, <2>2
  <1>4. \A j \in JobIds :
           /\ jobs'[j].key = jobs[j].key /\ jobs'[j].kind = jobs[j].kind
           /\ jobs'[j].request = jobs[j].request /\ jobs'[j].cutoff = jobs[j].cutoff
    <2>1. \A j \in JobIds : jobs[j] \in JobRecords /\ j \in DOMAIN jobs
      BY <1>2, JobsAre DEF JobIds
    <2> QED
      BY <1>1, <1>2, <2>1 DEF JobRecords
  <1>5. \A j \in JobIds : \/ jobs'[j].status = jobs[j].status
                          \/ j = t.job /\ jobs'[j].status = "complete" /\ TasksOf(j) \subseteq done'
    <2>1. \A j \in JobIds : jobs[j] \in JobRecords /\ j \in DOMAIN jobs
      BY <1>2, JobsAre DEF JobIds
    <2> QED
      BY <1>1, <1>2, <2>1 DEF JobRecords, AllDone
  <1>6. \A m : /\ Sources(m)' = Sources(m) /\ Referenced(m)' = Referenced(m) /\ Checked(m)' = Checked(m)
               /\ ScansOf(m)' = ScansOf(m) /\ \A c : Referring(c, m)' = Referring(c, m)
    BY <1>1 DEF Sources, Referenced, Checked, ScansOf, Referring, Ids
  <1>7. Ids' = Ids /\ \A j : TasksOf(j)' = TasksOf(j)
    BY <1>1 DEF Ids, TasksOf
  <1>8. RowsOK'
    BY <1>1, <1>2, <1>3, <1>6, <1>7 DEF RowsOK
  <1>9. JobsOK'
    BY <1>1, <1>2, <1>3, <1>4 DEF JobsOK
  <1>10. OneActive'
    <2>1. \A j \in Active' : j \in Active
      BY <1>3, <1>5 DEF Active
    <2> QED
      BY <2>1 DEF IInv, ArchiveOK, OneActive
  <1>11. TasksOK'
    <2>1. done' \subseteq published' /\ published' \subseteq tasks' /\ tasks' \subseteq TaskRecords
      BY <1>1, <1>2 DEF TasksOK
    <2>2. \A u \in tasks : /\ u.job \in JobIds
                           /\ IsScan(u) => jobs[u.job].kind = "backfill" /\ u.subject \in Sources(jobs[u.job].cutoff)
                           /\ IsCommit(u) => jobs[u.job].kind = "backfill" /\ u.subject \in Commits
                           /\ u.kind = "parent-refresh" => u.subject \in Targets
      BY <1>2 DEF TasksOK
    <2>3. \A u \in tasks' : /\ u.job \in JobIds'
                            /\ IsScan(u) => jobs'[u.job].kind = "backfill" /\ u.subject \in Sources(jobs'[u.job].cutoff)
                            /\ IsCommit(u) => jobs'[u.job].kind = "backfill" /\ u.subject \in Commits
                            /\ u.kind = "parent-refresh" => u.subject \in Targets
      BY <1>1, <1>3, <1>4, <2>2
    <2> QED
      BY <1>6, <2>1, <2>3 DEF TasksOK, IsScan, IsCommit
  <1>12. Population'
    <2> SUFFICES ASSUME NEW j \in JobIds, jobs[j].kind = "backfill"
                 PROVE  /\ \A i \in Sources(jobs[j].cutoff) :
                              ScansOf(i) # {} \/ Task(j, "commit-reference-scan-batch", i) \in tasks
                        /\ \A c \in Referenced(jobs[j].cutoff) :
                              c \in Checked(jobs[j].cutoff) \/ Task(j, "commit-object-batch", c) \in tasks
      BY <1>1, <1>3, <1>4, <1>6 DEF Population, Task
    <2> QED
      BY DEF IInv, ArchiveOK, Population
  <1>13. Outcomes'
    BY <1>1, <1>6 DEF IInv, ArchiveOK, Outcomes, IsScan, IsCommit
  <1>14. ScopesWhole'
    <2> SUFFICES ASSUME NEW i \in Ids', NEW row, row = rows'[i], row.is = "object", row.job # 0,
                        NEW m, m = jobs'[row.job].cutoff
                 PROVE  {rows'[s].source : s \in row.scans} = Referring(row.commit, m)'
      BY DEF ScopesWhole
    <2>1. i \in Ids /\ row = rows[i]
      BY <1>1, <1>7
    <2>2. row \in ObjectRows
      BY <1>2, <2>1, RowsAre DEF Rows, SourceRows, ScanRows, ObjectRows, FactRows
    <2>3. row.job \in Nat /\ row.job <= Len(jobs)
      BY <1>2, <2>1, <2>2 DEF ObjectRows, RowsOK
    <2>4. \A k \in Nat : k # 0 /\ k <= Len(jobs) => k \in JobIds
      BY <1>2
    <2>5. m = jobs[row.job].cutoff
      BY <2>3, <2>4, <1>4
    <2>6. {rows[s].source : s \in row.scans} = Referring(row.commit, m)
      BY <2>1, <2>5 DEF IInv, ArchiveOK, ScopesWhole
    <2> QED
      BY <1>1, <1>6, <2>6
  <1>15. JobIsWhole'
    <2> SUFFICES ASSUME NEW j \in JobIds, jobs'[j].status = "complete", NEW u \in TasksOf(j)
                 PROVE  u \in done' /\ u \in published'
      BY <1>3, <1>7 DEF JobIsWhole
    <2>1. u \in done'
      BY <1>1, <1>5 DEF IInv, ArchiveOK, JobIsWhole
    <2> QED
      BY <2>1, <1>1, <1>2 DEF TasksOK
  <1>16. ArchiveOK'
    BY <1>8, <1>9, <1>10, <1>11, <1>12, <1>13, <1>14, <1>15 DEF ArchiveOK
  <1>17. RunOK'
    BY <1>1, <1>3 DEF IInv, RunOK
  <1>18. Staged'
    BY <1>1, <1>7 DEF IInv, Staged, IsScan, IsCommit
  <1>19. AnswersTheCall'
    <2>1. \A j \in {answer, current} \ {0} : j \in JobIds
      <3>1. answer \in 0 .. Len(jobs) /\ current \in 0 .. Len(jobs)
        BY DEF IInv, RunOK
      <3> QED
        BY <1>2, <3>1
    <2>2. ASSUME NEW j \in {answer, current} \ {0}
          PROVE  /\ jobs'[j].kind = asked.kind /\ jobs'[j].request = asked.request
                 /\ asked.key # NoKey => jobs'[j].key = CallerKey(asked.kind, asked.key)
                 /\ j = answer => jobs'[j].status = "complete"
      BY <1>4, <1>5, <2>1 DEF IInv, AnswersTheCall
    <2> QED
      BY <1>1, <2>2 DEF AnswersTheCall
  <1> QED
    BY <1>16, <1>17, <1>18, <1>19 DEF IInv

(* A step of the run that leaves the archive alone.                        *)
LEMMA RunKeeps ==
    ASSUME IInv, (\E t \in batch : FailTask(t)) \/ Gathered \/ Return \/ Crash
    PROVE  IInv'
  <1>1. UNCHANGED durable /\ batch' \subseteq batch /\ asked' = asked
    BY DEF FailTask, Gathered, Return, Crash, asking
  <1>2. UNCHANGED <<rows, jobs, tasks, published, done>>
    BY <1>1 DEF durable
  <1>3. ArchiveOK'
    BY <1>1, DurableStays DEF IInv
  <1>4. JobIds = 1 .. Len(jobs) /\ Len(jobs) \in Nat
    BY JobsAre DEF IInv, ArchiveOK
  <1>5. Staged'
    BY <1>1, <1>2 DEF IInv, Staged, TasksOf
  <1>6. RunOK' /\ AnswersTheCall'
    <2>1. CASE \E t \in batch : FailTask(t)
      <3>1. /\ pc = "batch" /\ failed' = TRUE /\ stops < MaxStops /\ stops' = stops + 1
            /\ UNCHANGED <<pc, current, answer>>
        BY <2>1 DEF FailTask, asking
      <3>2. RunOK'
        BY <1>1, <1>2, <3>1, JobsAssumption DEF IInv, RunOK
      <3> QED
        BY <1>1, <1>2, <3>1, <3>2 DEF IInv, AnswersTheCall
    <2>2. CASE Gathered
      <3>1. /\ pc = "batch" /\ batch = {} /\ failed' = FALSE /\ UNCHANGED <<batch, answer, stops>>
            /\ pc' = IF failed THEN "down" ELSE "run"
            /\ current' = IF failed THEN 0 ELSE current
        BY <2>2 DEF Gathered, asking
      <3>2. /\ batch' = {} /\ answer' \in 0 .. Len(jobs') /\ stops' \in 0 .. MaxStops
            /\ current \in 0 .. Len(jobs) /\ current # 0
        BY <1>2, <3>1 DEF IInv, RunOK
      <3>3. pc' \in {"down", "run", "batch"} /\ current' \in 0 .. Len(jobs') /\ (pc' = "down" <=> current' = 0)
        <4>1. CASE failed
          BY <1>2, <1>4, <3>1, <3>2, <4>1
        <4>2. CASE ~failed
          BY <1>2, <1>4, <3>1, <3>2, <4>2
        <4> QED
          BY <4>1, <4>2
      <3>4. RunOK'
        BY <3>1, <3>2, <3>3 DEF RunOK
      <3> QED
        BY <1>1, <1>2, <3>1, <3>4 DEF IInv, AnswersTheCall
    <2>3. CASE Return
      <3>1. /\ pc = "run" /\ jobs[current].status = "complete" /\ answer' = current
            /\ pc' = "down" /\ current' = 0 /\ UNCHANGED <<batch, failed, stops>>
        BY <2>3 DEF Return
      <3>2. RunOK'
        BY <1>2, <1>4, <3>1 DEF IInv, RunOK
      <3> QED
        BY <1>1, <1>2, <3>1, <3>2 DEF IInv, AnswersTheCall
    <2>4. CASE Crash
      <3>1. /\ stops < MaxStops /\ stops' = stops + 1 /\ pc' = "down" /\ current' = 0 /\ batch' = {}
            /\ failed' = FALSE /\ UNCHANGED answer
        BY <2>4 DEF Crash, asking
      <3>2. current' \in 0 .. Len(jobs') /\ answer' \in 0 .. Len(jobs')
        BY <1>2, <1>4, <3>1 DEF IInv, RunOK
      <3>3. stops' \in 0 .. MaxStops
        BY <3>1, JobsAssumption DEF IInv, RunOK
      <3>4. RunOK'
        BY <3>1, <3>2, <3>3 DEF RunOK
      <3> QED
        BY <1>1, <1>2, <3>1, <3>4 DEF IInv, AnswersTheCall
    <2> QED
      BY <2>1, <2>2, <2>3, <2>4
  <1> QED
    BY <1>3, <1>5, <1>6 DEF IInv

LEMMA InitIInv ==
    ASSUME Init
    PROVE  IInv
  <1>1. /\ rows = <<>> /\ jobs = <<>> /\ tasks = {} /\ published = {} /\ done = {}
        /\ pc = "down" /\ current = 0 /\ batch = {} /\ failed = FALSE /\ answer = 0 /\ stops = 0
    BY DEF Init
  <1>2. /\ rows \in Seq(Rows) /\ Ids = {} /\ Len(rows) = 0
        /\ jobs \in Seq(JobRecords) /\ JobIds = {} /\ Len(jobs) = 0
    BY <1>1 DEF Ids, JobIds
  <1>3. RowsOK /\ JobsOK /\ Population /\ ScopesWhole /\ JobIsWhole
    BY <1>2 DEF RowsOK, JobsOK, Population, ScopesWhole, JobIsWhole
  <1>4. OneActive /\ TasksOK /\ Outcomes
    BY <1>1, <1>2 DEF OneActive, Active, TasksOK, Outcomes
  <1>5. RunOK
    <2>1. current \in 0 .. Len(jobs) /\ answer \in 0 .. Len(jobs)
      BY <1>1, <1>2
    <2>2. stops \in 0 .. MaxStops
      BY <1>1, JobsAssumption
    <2> QED
      BY <1>1, <2>1, <2>2 DEF RunOK
  <1>6. Staged /\ AnswersTheCall
    BY <1>1 DEF Staged, AnswersTheCall
  <1> QED
    BY <1>3, <1>4, <1>5, <1>6 DEF IInv, ArchiveOK

LEMMA Invariance == Spec => []IInv
  <1>1. Init => IInv
    BY InitIInv
  <1>2. IInv /\ [Next]_vars => IInv'
    <2> SUFFICES ASSUME IInv, [Next]_vars PROVE IInv'
      OBVIOUS
    <2>1. CASE SyncPublishes
      BY <2>1, SyncPublishesKeeps
    <2>2. CASE Call
      <3>1. "refresh" \in Kinds /\ "backfill" \in Kinds
        BY DEF Kinds
      <3>2. PICK key \in Keys :
               \/ ResumeJob("backfill", {}, key) \/ Replay("backfill", {}, key) \/ StartBackfill(key)
               \/ \E request \in Requests :
                     \/ ResumeJob("refresh", request, key) \/ Replay("refresh", request, key)
                     \/ StartRefresh(request, key)
        BY <2>2 DEF Call
      <3> QED
        BY <3>1, <3>2, ResumeJobKeeps, ReplayKeeps, StartBackfillKeeps, StartRefreshKeeps
    <2>3. CASE Work
      BY <2>3, TakeTasksKeeps, RunKeeps, PublishTaskKeeps, CompleteTaskKeeps DEF Work
    <2>4. CASE Crash
      BY <2>4, RunKeeps
    <2>5. CASE UNCHANGED vars
      <3>1. UNCHANGED <<rows, jobs, tasks, published, done, pc, current, batch, failed, asked, answer, stops>>
            /\ UNCHANGED durable
        BY <2>5 DEF vars, durable, run, asking
      <3>2. ArchiveOK'
        BY <3>1, DurableStays DEF IInv
      <3>3. RunOK'
        BY <3>1 DEF IInv, RunOK
      <3>4. Staged'
        BY <3>1 DEF IInv, Staged, TasksOf
      <3>5. AnswersTheCall'
        BY <3>1 DEF IInv, AnswersTheCall
      <3> QED
        BY <3>2, <3>3, <3>4, <3>5 DEF IInv
    <2> QED
      BY <2>1, <2>2, <2>3, <2>4, <2>5 DEF Next
  <1> QED
    BY <1>1, <1>2, PTL DEF Spec

-----------------------------------------------------------------------------
(* The archive, its jobs and the run have their types: a row refers only   *)
(* to rows before it, no two jobs are active, and no key is used twice.    *)
THEOREM MaintenanceJobsTypes == Spec => []TypeOK
  <1>1. IInv => TypeOK
    <2> SUFFICES ASSUME IInv PROVE TypeOK
      OBVIOUS
    <2>1. /\ RowsOK /\ JobsOK /\ TasksOK /\ RunOK /\ OneActive
          /\ Ids = 1 .. Len(rows) /\ Len(rows) \in Nat
      BY RowsAre DEF IInv, ArchiveOK
    <2>2. ASSUME NEW i \in Ids
          PROVE  \/ rows[i].is = "source" /\ rows[i].refs \subseteq Commits
                 \/ rows[i].is = "scan" /\ rows[i].source \in Sources(i)
                 \/ rows[i].is = "object" /\ rows[i].scans \subseteq 1 .. i - 1
                 \/ rows[i].is = "fact" /\ rows[i].target \in Targets
      <3>1. rows[i] \in Rows
        BY <2>1, RowsAre
      <3>2. CASE rows[i] \in SourceRows
        BY <3>2 DEF SourceRows
      <3>3. CASE rows[i] \in ScanRows
        BY <3>3, <2>1 DEF ScanRows, RowsOK
      <3>4. CASE rows[i] \in ObjectRows
        BY <3>4, <2>1 DEF ObjectRows, RowsOK
      <3>5. CASE rows[i] \in FactRows
        BY <3>5 DEF FactRows
      <3> QED
        BY <3>1, <3>2, <3>3, <3>4, <3>5 DEF Rows
    <2>3. Cardinality(Active) <= 1
      <3>1. CASE Active = {}
        BY <3>1, FS_EmptySet
      <3>2. CASE Active # {}
        <4>1. PICK j : j \in Active
          BY <3>2
        <4>2. Active = {j}
          BY <4>1, <2>1 DEF OneActive
        <4>3. Cardinality({j}) = 1
          BY FS_Singleton
        <4> QED
          BY <4>2, <4>3
      <3> QED
        BY <3>1, <3>2
    <2> QED
      BY <2>1, <2>2, <2>3 DEF TypeOK, JobsOK, TasksOK, RunOK
  <1> QED
    BY <1>1, Invariance, PTL

(* A job is complete only when all its tasks have observed and are done.   *)
THEOREM MaintenanceJobsAreWhole == Spec => []JobIsWhole
  BY Invariance, PTL DEF IInv, ArchiveOK

(* A call works on and returns only what it asked for.                     *)
THEOREM MaintenanceJobsAnswerTheCall == Spec => []AnswersTheCall
  BY Invariance, PTL DEF IInv

(* A completed backfill has an outcome for every commit its frozen scope   *)
(* refers to, and each outcome names a scan of every source that refers to *)
(* the commit.                                                             *)
THEOREM MaintenanceJobsBaselineIsWhole == Spec => []BaselineIsWhole
  <1>1. IInv => BaselineIsWhole
    <2> SUFFICES ASSUME IInv, NEW j \in JobIds, jobs[j].kind = "backfill", jobs[j].status = "complete",
                        NEW c \in Referenced(jobs[j].cutoff)
                 PROVE  /\ c \in Checked(Len(rows))
                        /\ \A i \in Ids : rows[i].is = "object" /\ rows[i].commit = c /\ rows[i].job = j =>
                              {rows[s].source : s \in rows[i].scans} = Referring(c, jobs[j].cutoff)
      BY DEF BaselineIsWhole
    <2>1. /\ jobs[j].cutoff \in Nat /\ jobs[j].cutoff <= Len(rows) /\ j # 0
          /\ Ids = 1 .. Len(rows) /\ Len(rows) \in Nat
      BY JobsAre, RowsAre DEF IInv, ArchiveOK, JobsOK, JobRecords
    <2>2. c \in Checked(Len(rows))
      <3>1. CASE c \in Checked(jobs[j].cutoff)
        BY <3>1, <2>1 DEF Checked
      <3>2. ASSUME NEW t \in tasks, t = Task(j, "commit-object-batch", c) PROVE c \in Checked(Len(rows))
        <4>1. t.job = j /\ t.subject = c /\ IsCommit(t)
          BY <3>2 DEF Task, IsCommit
        <4>2. t \in published
          BY <4>1 DEF IInv, ArchiveOK, JobIsWhole, TasksOf
        <4> QED
          BY <4>1, <4>2 DEF IInv, ArchiveOK, Outcomes
      <3> QED
        BY <3>1, <3>2 DEF IInv, ArchiveOK, Population
    <2>3. \A i \in Ids : rows[i].is = "object" /\ rows[i].commit = c /\ rows[i].job = j =>
             {rows[s].source : s \in rows[i].scans} = Referring(c, jobs[j].cutoff)
      BY <2>1 DEF IInv, ArchiveOK, ScopesWhole
    <2> QED
      BY <2>2, <2>3
  <1> QED
    BY <1>1, Invariance, PTL

=============================================================================
