# gh-puller in TLA+

This directory holds the formal model of gh-puller: TLA+ modules translated
from the source, TLC configurations that check them on small instances, and
proofs that TLAPS checks for every instance. Paths are relative to the
repository; `PROJECT.json` maps every definition to the lines it stands for.

## 1. The system

gh-puller archives a GitHub repository as a stream of immutable observations in
SQLite next to a bare Git store (`gh_puller/github`), builds a per-commit graph
archive of a code base (`gh_puller/codebase`), runs coding agents and records
their events (`gh_puller/agent`), and serves a few applications on top
(`gh_puller/deepwiki`, `apps/`).

| Component | State it keeps | Operations | Talks to |
| --- | --- | --- | --- |
| Observation archive (`github/observations.py`, `archive_format.py`) | fact batches and rows, heads, cycles, discovery items and signals, tasks, maintenance jobs and tasks | publish, start/complete cycle, save page, enqueue, take, complete, start job | every writer below, one SQLite connection per call |
| Archive lock (`github/runtime.py`) | an flock on a file beside the database | acquire, release | sync and maintenance calls |
| Sync workflow (`github/syncer.py`) | the page in memory, three asyncio events per drain, one store lock | sync, page loop, API lane, Git lane | archive, collector, client, Git store |
| Fact collector (`github/collector.py`, `github/api_contract.py`) | none of its own: what a task has published is in the archive | one operation per fact family, attempts of a task, commit batches | archive, client, Git store |
| Maintenance (`github/maintenance.py`) | the batch in memory | refresh, backfill, job loop | archive, collector |
| API client (`github/client.py`) | limit deadlines, quota last seen, generation of the HTTP client | get, paginate (REST pages, GraphQL cursors), wait, reset | GitHub |
| Git store (`github/git_store.py`) | mirrored refs, pins and staging refs of a bare repository | mirror upstream, prefetch and capture pulls, retain and repair commits | git, remotes |
| Daemon and monitor (`github/__main__.py`, `monitor.py`, `progress.py`) | a schedule; the monitor only reads | run, status | sync workflow |
| Code-base archive (`codebase/build.py`, `archive.py`, `store.py`, `cbm/`) | work-tree markers, CBM generations, an append-only KGA file | build a commit, record, checkpoint, recover | git, the CBM process |
| Agent events (`agent/events.py`, `sinks.py`) | sequence numbers, sink queues | emit, consume, reconnect | agents, monitor |
| Agent monitor (`apps/agent-monitor`) | event store and subscribers per session, viewer fold | ingest, subscribe, page history, pass on live events, fold | event sinks, browser |
| DeepWiki service (`apps/deepwiki-webui/server`) | task registry, resume files, wiki cache | submit, run, resume, evict | agents |
| MCP service, vLLM adapter, DeepWiki library, benchmark, user interfaces | caches and files derived from the archives | queries and rendering | archives |

### What is hard in it

* **Time and listings.** GitHub stamps what it changes with its own clock while
  a cycle reads pages, feeds and parents at different moments. The next cycle
  asks only for what changed since the checkpoint. An update must not fall
  between the two.
* **Crashes between transactions.** Every durable step is a transaction of its
  own; the process may stop between any two, or end by a failed request, and
  the next call resumes from the archive alone.
* **Coroutines.** The API lane, its parallel tasks and the Git lane share one
  connection, one store lock and three events; the lock is not held everywhere
  the connection is used, and `asyncio.gather` lets work outlive a failure.
* **Processes.** A daemon and manual calls wait for the same lock, may name the
  same database differently, and may race to create it.
* **Three stores.** A build of a graph archive moves an archive file, CBM's
  database and the marks of a work directory forward together, without a
  transaction over them.
* **Retries.** Publications, tasks, pages and jobs are repeated after failures
  whose effect may already be durable.
* **Pages of a moving collection.** A list is read page by page, by number or
  behind a cursor, while its items come, change and go; a count read earlier is
  compared with what is read later, also by a retry that takes the count from
  what it has published.
* **Shared limits.** Coroutines of one client learn from each other's answers,
  which arrive in any order, how long a quota pool is closed, and replace the
  one HTTP client they share when it fails.
* **Refs that move.** A mirror is atomic, but a call fetches many refs one after
  the other; each may move or disappear in between, objects may be damaged, and
  what a fact has named must not be pruned.
* **A lossy stream.** Events reach a viewer over queues that shed, a link that
  loses what it took when it breaks, a hub that restarts, and history pages that
  race with live batches.

The main hazards, each at its line, with the properties that cover it or the
reason why none does, are under `hazards` in `PROJECT.json`. Four more have no
property of a run: `add_requests` in the `finally` of a sync commits on the
shared connection without the store lock (`syncer.py:204`); the start offered
for a cycle is read before the wait for the lock (`syncer.py:164`, stated as
`StartIsActual` of `ArchiveWriters`); whether the archive file exists is read
before it is opened and locked (`codebase/archive.py:472`); and a failure to
delete the CBM project is ignored (`codebase/build.py:557`, the constant
`DeleteFails` of `ArchiveBuild`).

### What makes each component correct

* *Fact store*: a head is what the as-of query answers now; it never goes back;
  a publication key is final.
* *Cycles*: no update is lost; a cycle completes only when it is whole; cycles
  end and the archive converges, unless a pull moved away from its published
  detail.
* *Lanes*: a drain that returns has drained; refs come first; no task is tried
  twice; it ends; nothing runs without the archive lock.
* *Writers*: one per database; all agree on its identity; an interrupted cycle
  keeps its boundary; no caller waits for ever; creation can be resumed.
* *Provenance*: the current commit-object facts name all references, and only
  references that exist.
* *Graph archive*: every commit reproduces the generation captured for it; the
  base of a difference is the generation of the archive's head; no synced
  commit is lost; a build that is run again finishes.
* *Jobs*: a job closes when whole, answers the call that was made, and a
  backfill rests on exactly the sources it froze.
* *API client*: a denial that has arrived is respected by all, up to what GitHub's
  announcements of one window's end differ by; a replaced HTTP client is closed
  once; every call ends.
* *Hydration*: a collection that is published is one the parent had; a counted
  one is current at its last page; a task ends unless the parent moves under it;
  a refresh is complete only if all it selected is.
* *Git store*: what was mirrored or reported as retained stays reachable; a
  commit is given up only if no ref that may reach it did.
* *Event stream*: a viewer never shows a run with a hole, and in the end shows
  all that reached the hub.

## 2. The modules

Order of dependence: abstract specification, component, proofs, MC module.

| Module | Models | Kind |
| --- | --- | --- |
| `FactStore` | `ObservationArchive.publish`, the heads and the read views | component |
| `TaskPool` | what one drain promises | abstract specification |
| `DrainLanes` | `GitHubSyncer._drain`, both lanes, implements `TaskPool` | component |
| `SyncCycle` | `GitHubSyncer.sync` over the archive's cycle and the changing repository | composition |
| `SyncCycleProofs` | | proofs |
| `ArchiveWriters` | `archive_lock`, opening and creating the database, one cycle per call | composition of processes |
| `ObservationArchiveProofs` | about `FactStore`, `ArchiveWriters` and `DrainLanes` | proofs, refinement included |
| `CommitProvenance` | `structured_commits`, `run_commit_batch` and the reads between them | composition of the lanes |
| `CommitProvenanceProofs` | | proofs |
| `MaintenanceJobs` | `refresh`, `backfill`, the job loop and syncs in between | component |
| `MaintenanceJobsProofs` | | proofs |
| `KgaFile` | the frames and trailers of an archive file, its recovery and its trees | operators |
| `ArchiveBuild` | `_build_repository`, `build_commit`, `CBMRunner` and `KGARecorder` across crashes | composition of stores |
| `ArchiveBuildProofs` | about both | proofs |
| `RateLimits` | limits, quota, choice of transport, retries and replacement of the HTTP client in `GitHubClient` | component |
| `CollectionReads` | the pagers of `GitHubClient` over a collection that changes | component |
| `ParentHydration` | the collector at one parent, the families of a refresh; extends `CollectionReads` | composition |
| `ClientProofs` | about `RateLimits`, `CollectionReads` and `ParentHydration` | proofs |
| `GitStore` | `GitObjectStore` with moving remotes, damaged objects and failures | component |
| `GitStoreProofs` | | proofs |
| `MonitorStream` | event bus, hub connection, monitor hub and viewer of one session | composition of processes |
| `MonitorStreamProofs` | | proofs |
| `MC*` | the instances for TLC | model values |

### FactStore

A row of `fact_observations` is a record in the sequence `observations`; its
position is its identity. `heads` is `fact_heads`. `Publish` is `publish()`:
`ValidBatch` its argument checks, `AppendBatch` the transaction of a new key
(rows and `_advance_head` in one step), `Repeat` the call whose key exists. The
transaction is one action because SQLite makes it one and no reader of the
stream shares the connection; the one reader that does is in
`CommitProvenance`. Coverage, payload and origin are left out: nothing in this
table is decided by them. A key that is repeated with other facts is refused,
and one that is repeated with the same facts returns the stored rows: both
leave the state alone.

### TaskPool and DrainLanes

`rows` and `pending` are the cycle's `sync_tasks`, `apiPc` and `gitPc` the
places where the two coroutines await. A stretch from one await to the next is
one action, because asyncio runs it without interruption. `stop`, `api_done`
and `git_ready` are the three events of `_drain`. The store lock is visible
only while `_take_git_tasks` holds it across its awaits (`gitPc = "taken"`).
`ApiRaises` and `GitRaises` are the paths on which a store operation outside a
task's error handling raises: the lane dies, `gather` hands the exception to
`_drain` at once, and `ReleaseArchive` is `sync()` leaving its context managers. The
initial task tables are all those a cycle can have when a drain begins
(`ReachableTable`), so a drain that resumes an interrupted cycle is included.

`DrainLanes` implements `TaskPool` under the mapping that hides the lanes and
reads `faulted` as "a task failed or the drain is stopping".

### SyncCycle

The variables are the repository on GitHub (`root`, `comment`, with the stamp
of the last change), the archive (`checkpoint`, `cycle`, `catalog`, `signals`,
`tasks`, the publications of the cycle and the heads), and the process (`pc`,
and `memory` for what it holds between a read and the transaction that stores
it). Reading is a step apart from storing, so the repository moves and the
process stops in between. A warm listing selects by `updated_at`, a cold one
selects everything; positions on pages are computed when a page is read, so the
listing shifts under the traversal. A parent's facts are reduced to its root
(taken from a stored catalog page, or read) and its comments (read, or derived
from a root that counts none), the two sources of staleness. The tasks of a
pull keep its Git task, the two ways its closing issues are read, and `pull`:
its detail is published under the task's key (`PublishPull`), and so are as many
commits as that detail counts (`PublishCommits`). A change of the root that is a
push may leave the pull with another number of commits, or give the old number
back; while it is another, `check_size` refuses every list (`RefuseCommits`) and
ends `sync()`, and the next call finds the same detail published. The page by page
reading of the list is in `CollectionReads` and `ParentHydration`, where run
`hydration_moved` finds the same. `Stop` is
a crash and also any other failed request or task, which ends `sync()` with the
same durable state. `Refresh` is a targeted refresh by another process while no
sync holds the lock. Parents stay readable in this module: deletion, transfer and
hiding are left out.

### ArchiveWriters

Each process calls `sync()` with a path name and a Git store. The flock belongs
to the name (`holder`), the database to the file behind it (`FileOf`). Creation
runs the script statement by statement, because `executescript` commits as it
goes, and stamps the identity last. `StartCycle` offers the time read before
the wait for the lock. A crash drops the lock and keeps the files.

### CommitProvenance

`rows` includes the row of an open transaction and `durable` counts what is
committed, because `commit_reference_index` reads on the same connection
without the store lock. One action per await: insert, commit or roll back a
scan, enqueue, claim, read the cutoff, read the references, publish an object.

### MaintenanceJobs

`ResumeJob`, `Replay`, `StartRefresh` and `StartBackfill` are what `refresh()`
and `backfill()` do under the archive lock; `TakeTasks` to `Gathered` are
`_run`. Publishing and completing a task are two transactions, so a stop
between them is possible, and a publication that exists is not repeated.
`SyncPublishes` is everything a sync may add between two calls.

### KgaFile and ArchiveBuild

`KgaFile` is a library of operators on a file, a sequence of frames and
trailers in which an offset is a position and a write that was cut short is
`Torn`. `Anchor` is the trailer a writer resumes from (a footer at the end, the
newest checkpoint, an embedded footer, in the order of the code), `Chain` the
walk back over the checkpoints, `Scanned` the scan of an archive older than
checkpoints, `DurableEnd` the place where a resuming writer cuts, `Applied` the
update of a tree. A tree is one page and nodes and edges are one tree: a shard
that did not change is shared by reference, so it is readable where the root
is.

In `ArchiveBuild`, `file` and `synced` are the archive and how much of it fsync
has confirmed, `db` the generation in CBM's database, `current`, `version` and
`pending` the three files of the work directory, and `pc` the stage of the one
running build. `Start` checks the archived prefix and the engine, `Open` and
`SyncAnchor` are the writer's constructor; `Recover` or `RefusePending` decide
about an interrupted commit; `Prepare`, `Begin`, `Index`, `Record`, `SyncCommit`
and the three `Mark` actions are one `build_commit`; `Finalize` to `Finish` the
end, where nothing is removed before the archive passes `VerifyIndex` and
`VerifySnapshot` (the counts and roots a manifest records against the trees they
lead to).
Each action ends at a point where another store has been changed durably, so a
`Crash` falls between any two. `Fail` is an exception, after which
`close_incomplete` flushes and syncs. `LoseScratch` is a lost cache or work
directory, `Ask` a later call for other commits or by another engine.
`captured` in a manifest is a history value: the generation CBM had published
when the commit was recorded. CBM is external: it publishes any graph for a
tree, and reports a no-op only if its database has the same tree by the same
engine. Left out: the magic (an absent file is created in one step), and two
builds at once. A truncation is not undone by a crash, and what survives a
crash counts as synced. An archive without checkpoints, `Legacy`, is any file
that an earlier version can have written (`LegacyAssumption`).

### RateLimits

`call` is what each coroutine is doing; `primary`, `secondary` and `quota` are
the dictionaries the coroutines share, `generation` and `closed` the generations
of the HTTP client. `Begin` is `_either` or a request of one transport, with
`Preferred` the order by remaining quota; `Sleep`, `GiveWay`, `Wake` and `Send`
are `_wait_for_limit` and the request; `Deliver` is everything from an answer to
the next await: `Remembered` merges the quota of every answer that has one,
failures of the server included, `Gate` opens or closes the pool, a denial becomes
a wait or the other transport (`NextAttempt`, by the quota known after this
answer), and any other failure a retry. `TransportFails` counts towards
`ResetClient`, which replaces the client under `_client_lock`; the lock is held
(`Closing`) until `aclose` returns (`Closes`), while others wait for it (`Queued`,
`Acquire`), and a request of a client that was replaced may fail without a further
fault. `window` is GitHub's own count and
`Others` the rest of the account's use. Two constants speak of the ends of
windows: `Tolerance` is the code's `_QUOTA_RESET_JITTER_SECONDS`, up to which two
announced ends are taken for one window, and `Spread` is how far apart GitHub
does announce the end of one window, at most the tolerance. Deadlines are
distances from now, so that `Tick` keeps the state finite: it takes one off all of
them. An answer takes at most `Flight`, and what is long past is kept only as far
as a late answer can be compared with it (`Past`). Left out: a client without
authentication, the backoff's growth, and the response bodies.

### CollectionReads and ParentHydration

`CollectionReads` has GitHub's side of one parent (`site`: the items of each
connection, a set of which each has an identity and a version; `visible`) and one
`read` in progress. Identities are given in order, so that `ByAge` is the order of
every list; `Held` is what one list of REST shows of a parent, where review
comments are in one list and GraphQL has them by thread. Every request is an
action: `ListPage` is a numbered page,
`ValidatePage` one that is asked for by the tag of an earlier fact
(`_paginate_cached`; `Closed` says which tags are kept), `ParentPage`,
`PullPage`, `NodePage`, `RelationsPage` and `ClosingPage` a page of connections
behind a cursor, `ThreadsPage` to `ThreadsEnd` threads with their comments,
`Compare` and `ObjectRead` reads of one request; a comparison may be refused, or
its pages disagree, and GraphQL is tried. `Consistent` is the totals of
`api_contract`, `SizeFits` its `check_size`. A failed read goes to the other
transport and says at the end whether the failure was conclusive
(`missing`). A page is its own entity tag, and a cursor is the last item seen.
`stay`, `ever` and `shifted` are history values of a read that only the
properties use.

`ParentHydration` adds the task, its attempts and the archive's current facts.
`Steps` is the order of `_hydrate_parent` and `_pull_facts`, or of
`_refresh_parent`; `Derive` is a family a count, a thread or a detail answers
without a request, `StartRead` to `PublishRead` one that is read, `ReadFails` an
answer that nothing is there or the end of the attempt. `published` is what the
task has published under its key, which every attempt takes as read. A refresh
selects `Effective` families and its `Outcome` is the worst of them. The
children a task enqueues are the subject of `DrainLanes`; how many reactions a
comment reports is open.

### GitStore

Commits are a small history; `tips` are the remote refs, `native` the mirrored
branches, `pins` the archive's own refs, `staging` and `heads` the refs a call
fetches into. A call is a sequence of Git commands and each is an action, so
that refs `Move`, Git fails (`Fail`) or the process stops (`Restart`) between
any two: `PinBefore`, `Mirror`, `PinAfter`, `SetHead` and `Maintain` are
`_sync_upstream`; `Heads`, `SplitHeads`, `RefreshMissing` and `Snapshot` are
`prefetch` and `capture`; `Retain` to `Return` are `retain_commits`
with its batches, the questions to remotes (`Observe`), refs whose tip is here
by another name (`Equivalent`), attribution of what was found to the refs that
reach it, and the branches as the last resort. `Damage` loses trees or blobs of a
commit between two calls; only a fetch with `--refetch` brings them back.
`once`, `told` and `steady` are there for the properties.

### MonitorStream

An event is its sequence number; `Deltas` are the model deltas that may be shed
and are not kept. `Publish` and `Drain` are the event bus with its two sinks;
`Take`, `Send`, `Lose` and `Connect` the connection to the hub, on which a broken
link is noticed only by the next send; `Ingest`, `Scan`, `ServeSubscribe` and
`ServeHistory` the hub; `Click`, `Reopen`, the `Handle` actions and `Flush` the
viewer, with `Gap` the test of `RunFold.ingestBatch` that makes it load the
session anew. `PutAll` is what the viewer's fold does with a whole batch, event
by event. `Break`, `CutViewer` and `Restart` are the faults.

## 3. The runs

| Run | Instance | Shows |
| --- | --- | --- |
| `fact_store` | two facts, three keys, three rows, windows in 0..2 | every order of closing and publishing, batches of two, repeated keys |
| `drain_lanes` | two parents, a closing-issues task that may hang, refs, one pull, two commits; batches of one | safety, termination and refinement under task failures and store errors |
| `sync_cycle` | two pulls, one there from the start, pages of one entry, time 0..2, lag and overlap 1, two changes in all, two stops, both refreshable, fairness | lost updates, whole cycles, facts that go back; cycles end and the archive converges, unless a pull moved |
| `archive_writers` | two processes, two linked names of one database, two Git stores, two calls each, fairness | one writer per name, agreement, boundary, no endless wait |
| `commit_provenance` | two parents, two sources, two commits, batches of one, one stop, rollbacks | scopes are whole |
| `maintenance_jobs` | two targets, one commit, one key, three rows by syncs, two jobs, two stops | jobs whole, calls answered, baselines whole |
| `archive_build` | two commits with the same files and a third that may replace the second, an engine with coverage and one without, no archive or one older than checkpoints, three crashes, errors or losses, one change of the request, fairness | exact and restorable commits, trusted bases, whole engine boundaries, no lost commit, builds end |
| `rate_limits` | two coroutines, one operation each, two pools of two requests, operations of one pool and of both with a cached answer, tolerance 5, spread 2, one fault or foreign request, fairness | denials respected but in the last second of a window, each replaced HTTP client closed once, every call ends |
| `parent_hydration` | one of five parents (comments and relations; threads and review comments; commits; comments with reactions; reviewers and closing issues in a batch), pages of two, two tasks, two changes, stops or malformed answers, fairness | whole reads, exact counts, tasks that end, whole refreshes |
| `hydration_moved` | the pull with threads and commits, one task, one change | the finding below |
| `git_store` | three commits, all asked for in one call, one branch, two pulls and a fork of the first, batches of two, three moves, losses or failures | nothing let go, nothing overlooked |
| `monitor_stream` | five events, one a delta, batches of two, pages of one, one click, two breaks, restarts or cuts, fairness | no hole, all shown in the end |

*Why the bounds are enough.* Every hazard listed needs at most two actors and
one fault: two pages to see a listing shift or an old page survive a crash, two
roots to see one listed and one only signalled, two facts windows to see them
close out of order, two calls to see one wait for the other. Three time units
order "changed", "read" and "completed" in every way, lag included. In
`archive_build` three faults let a build be interrupted, its recovery be
interrupted, and a store be lost in between. In `rate_limits` two coroutines
exhaust a pool of two together with a foreign request and meet in a wait, a
denial and a failed client; the tolerance is the code's, and a spread of two is the
least at which the second that the code adds does not suffice. In `parent_hydration` two changes shift a list
between two of its pages and back, or come one before and one after a stop; the
second task validates what the first published. In `git_store` three events let
a ref move, an object get lost and a command fail within one history of calls;
the rewritten commit makes a move a forced push. In `monitor_stream` a link can
break and the viewer be cut, in either order, while history of several pages is
read. The bounds
`MaxTime`, `MaxInstant`, `MaxEdits`, `MaxComments`, `MaxChanges`, `MaxStops`, `MaxCalls`,
`MaxRows`, `MaxJobs`, `MaxObservations`, `MaxBatch`, `MaxFaults`, `MaxAsks`,
`MaxReads`, `MaxEvents`, `MaxTasks` and `MaxClicks` are guards of the actions
that count; they stop the environment, never the program. Two bounds keep time
and data finite instead: `Flight` and `Period` of `RateLimits`, and `Inner`
and `Reactions` of `CollectionReads`, the threads and reactions there can be.

*Deadlock.* It is checked where the configuration says nothing else. The
instances with `CHECK_DEADLOCK FALSE` stop by their bounds: no call, row, read,
task or change is left.

*Fairness.* `DrainLanes`: asyncio runs every coroutine that can run, and what a
lane awaits ends, except the requests in `hung`. `SyncCycle`: the scheduler
calls `sync()` again after every return (`_run_schedule`) and a step that stays
possible is taken; failures are bounded by `MaxStops`, which is the assumption
that they stop. `RefuseCommits` is not bounded: a pull that moved is refused at
every call, and `CyclesEnd` and `Converges` therefore hold *or* some pull has moved
for good (`Moved`). `ArchiveWriters`: a waiting caller polls every 0.1 s and a call
that holds the lock ends; polling gets the lock only when it meets it free, so
`CallsEnd` depends on `MaxCalls`: with callers that never stop calling, the code
does not promise it. `ArchiveBuild`: a build that started proceeds and an
interrupted one is run again by its user. `RateLimits`: time passes, the event
loop runs a coroutine that can run, and GitHub answers; a transport failure need
not happen. `ParentHydration`: the scheduler attempts a pending task again, and
an attempt goes on while it can; no change, stop or malformed answer has to
happen. `MonitorStream`: the tasks of the producer, the hub and the viewer run
and a closed socket is opened again; nobody has to click and the hub's scan need
not run. `GitStore`, `FactStore`, `CommitProvenance` and `MaintenanceJobs` are
checked for safety only.

*Assumptions.* `archive_build`: `DeleteFails = FALSE` and `PowerFails = FALSE`,
CBM deletes a project when asked, and files survive a crash of the process in
the order they were written. `sync_cycle`: `OverlapAssumption`
(`Skew <= Overlap`), `overlap_seconds` covers the lag of GitHub's stamps and the
rounding of `since`; with a larger lag `NoLostUpdate` fails, as it must.
`rate_limits`: `LateDenials = FALSE`, a denial arrives before its window has
ended, and `LimitsAssumption` (`Spread <= Tolerance`), the code takes the announced
ends of one window for one window. `monitor_stream`: `Impatient = FALSE` and `LateLoss = FALSE`, a session
is not selected again while it is loaded, and no batch is lost just then. What
happens without them is under the observations.

### Finding

`hydration_moved`: a pull's commits are checked against the count in its detail
(`collector.py:1007`). If commits are pushed between the two reads, the list is
refused and the task is left to a retry; but the detail has been published under
the task's key, so every retry takes it for the size again and none can succeed
before a new cycle, which waits for this task. In `SyncCycle` the same behaviour
keeps the cycle active for ever, which is the exception of `CyclesEnd` and
`Converges`. `docs/github-puller.md:159`:
"Transport errors and detectably malformed or truncated responses do not produce
a fact. They leave a retryable task instead."

### Observations without a run

The first four have a configuration beside the runs; TLC shows the
counterexample with `tlc -config <cfg> <module>`.

* `MCDrainLanesEscape.cfg` (`WorkHoldsLock`): a store error in one lane ends
  `sync()` and releases the archive lock while the other lane, and the tasks
  gathered with the failed one, still run (`syncer.py:319`). `runtime.py:294`:
  "Acquire the single-writer lock for an archive pair."
* `MCArchiveWritersCreation.cfg` (`StoppedCreationResumes`): creation is not
  atomic (`observations.py:1564`); a stop in the middle leaves a database every
  later call refuses, although `docs/github-puller.md:235` says that the next
  call resumes.
* `MCCommitProvenanceRollback.cfg` (`ScopeExists`): the reference index is read
  inside another coroutine's transaction (`collector.py:1533`); if that rolls
  back, a commit-object fact names an observation that does not exist.
* `MCArchiveBuildPower.cfg` (`ArchiveIsExact` with `PowerFails`): the pending
  mark is written without fsync (`codebase/cbm/_runner.py:246`) although its
  docstring says "durably"; if the machine stops and the mark is lost, the next
  build takes the interrupted generation for the base of a difference and the
  archive no longer holds what CBM extracted (`docs/codebase-graph.md:285`).
* The archive lock is named after the path as given (`runtime.py:301`): two
  names of one database are two locks, although `docs/github-puller.md:292`
  promises one writer "per canonical database". `CanonicalWriter` of
  `ArchiveWriters` states the promise; checked on the instance of
  `archive_writers`, whose names are links, it fails. With a single name it is
  theorem `OneWriter`.
* `invoked_at` is read before the wait for the lock (`syncer.py:164`), so a
  queued call can offer a start before the checkpoint, which `start_cycle`
  (`observations.py:252`) refuses. `StartIsActual` states it.
* A commit that was pending when the history was rewritten is refused by every
  later build (`build.py:158`). `BuildsFinish` therefore exempts `Stuck`.
* With `DeleteFails = TRUE`, `MaxFaults = 3` and `MaxAsks = 2`, `BaseIsTrusted`
  fails: `cleanup_work_dir` is interrupted after it removed a stale pending mark
  and before the others, and the project is still in CBM's database.
* `docs/codebase-graph.md` differs from the code in three places that no
  property depends on: line 273 (resume re-materializes the last archived
  commit; `build.py` goes on with the next one and distrusts the database
  instead), line 221 (the old footer remains; `archive.py:500` resumes from the
  newest checkpoint and cuts a later footer that is not at the end) and line 336
  (resume compares `force_full` and the configuration; `build.py:373` compares
  only the engine).
* Limits: with `LateDenials = TRUE` a denial of an earlier window, which arrives
  late, replaces the quota of the present one, and `DenialHolds` fails. A
  secondary denial that reports no remaining quota is recorded as a primary one
  (`client.py:1740`).
* Limits: ends of a window that differ by up to five seconds count as one
  (`_QUOTA_RESET_JITTER_SECONDS`, `client.py:58`), but only one second is added to
  the end a denial announces (`client.py:1757`). If GitHub's announced ends do
  differ by `Spread` seconds, a denied pool can be asked again `Spread - 1` seconds
  before its window ends, and no earlier: this is what `DenialHolds` says. The
  tolerance has no part in it; with `Spread <= 1` no pool is asked early.
* Hydration: when the transport that is asked first is GraphQL, a parent that is
  gone, or a comment withdrawn after it was published, is not a conclusive
  failure (`collector.py:1776`), so the task stays pending where
  `docs/github-puller.md:160` has an `unavailable` observation. This is why
  `TaskEndsUnlessMoved` exempts a parent that is hidden. `CyclesEnd` of
  `SyncCycle` abstracts from such parents: in that module all stay readable.
* Git store: a commit found damaged only during the call, because its damaged
  ancestor was not itself asked for, is reported as partial although its own ref
  still reaches it: that ref is not fetched again (`git_store.py:296`, `355`).
  `NothingOverlooked` is about commits that were damaged when the call began.
* Monitor: with `Impatient = TRUE` a page that answers the earlier selection is
  taken for the present one (`useMonitorSocket.ts:104`), and with
  `LateLoss = TRUE` a batch lost while the history loads goes unnoticed; both
  violate `NoHole`. A broken link is noticed only at the next send, so the first
  batch after a restart of the hub is lost, although the file has it.

## 4. The proofs

All are over arbitrary constants under the named assumptions of the modules.

| Theorem | Statement | Argument |
| --- | --- | --- |
| `ObservationArchiveProofs!HeadsAreAsOfNow` | heads are what the as-of query answers now | see below |
| `ObservationArchiveProofs!HeadsNeverRegress`, `PublicationsAreFinal` | action properties | from the same invariant, action by action |
| `ObservationArchiveProofs!Drained` | a drain that returns has left nothing | the pending tasks are always covered by a lane that will still look |
| `ObservationArchiveProofs!RefsAreFirst`, `AttemptedOnce` | claims | a claim is disjoint from failed tasks because a failure sets `stop` before the next claim |
| `ObservationArchiveProofs!LockCoversWork` | no work without the lock if the store does not fail | `_drain` then ends only after both lanes |
| `ObservationArchiveProofs!LanesImplementPool` | `DrainSpec => PoolSpec` | initial states map to initial states, each action to a pool action or a stutter |
| `SyncCycleProofs!SyncCycleLosesNoUpdate` | `NoLostUpdate`, for any repository, page size, overlap, changes, crashes and refreshes | what is stale when a cycle completes changed after the cycle began, up to the overlap |
| `SyncCycleProofs!SyncCycleIsWhole` | a cycle that completes has archived all it selected | an observed parent has its task, and a finished task its children on the table |
| `SyncCycleProofs!SyncCycleFactsNeverGoBack` | no older version replaces a newer one | facts that were read later are no older |
| `ObservationArchiveProofs!OneWriterByName`, `OneWriter` | one process per name; per database if names do not alias | the holder of a lock is the only connected process of its name |
| `ObservationArchiveProofs!WritersAlwaysAgree` | identities agree, aliased or not | only the process that executed the first statement of the script can stamp |
| `ObservationArchiveProofs!BoundaryIsKept` | the boundary of an interrupted cycle | the checkpoint never exceeds the start of an active cycle |
| `CommitProvenanceProofs!CommitProvenanceScopeIsWhole` | the current facts of commits name all references | see below; rollbacks, failures and crashes included |
| `CommitProvenanceProofs!CommitProvenanceScopeExists` | and only committed facts, unless a publication is rolled back | only `Rollback` makes a row that was read disappear while its reader goes on |
| `MaintenanceJobsProofs!MaintenanceJobsAreWhole`, `MaintenanceJobsAnswerTheCall`, `MaintenanceJobsBaselineIsWhole` | jobs close when whole, answer the call that was made, and a backfill has an outcome for each commit of its frozen scope | see below |
| `ClientProofs!RateLimitsOneClientOpen` | each HTTP client but the present one is closed, or is being closed by one coroutine | a failure replaces the client only under the lock, and if it is the one the request was sent by |
| `ClientProofs!RateLimitsDenialHolds` | `DenialHolds`, if no denial is late: for any tolerance and any spread within it | no answer that is still on its way can reopen a denied pool |
| `ClientProofs!CollectionsAreWhole` | a collection that was read has all that was there throughout, each item once, whatever changes meanwhile; numbered pages only if nothing left the list | see below; for any sizes of pages and collections |
| `ClientProofs!CountsAreCurrent` | at its last page a counted connection has what is there | a full set of distinct items, none of which left, of the size that is counted |
| `ClientProofs!RefreshesAreWhole` | a refresh that is complete has complete facts of all it selected, reactions to each comment it found included | `Effective` adds what a family is read from, and one missing family decides the outcome |
| `GitStoreProofs!GitStoreLetsNothingGo`, `GitStoreHasWhatItRetains` | what was a tip or was reported stays reachable, and is in the store with its history | refs are pinned before the mirror may drop them and before a commit is reported |
| `GitStoreProofs!GitStoreOverlooksNothing` | a commit is given up only if no ref reached it throughout | the batches pass over no ref, and each ref was tried or is still ahead |
| `ArchiveBuildProofs!ArchiveExactness` | every commit of the archive is found and reproduces the generation captured for it, if CBM deletes what it is told to and no power fails | the base of a difference is the generation of the archive's head |
| `ArchiveBuildProofs!TrustedBase` | where the marks say that the database holds the generation of the archive's last commit, it does, likewise | the marks are moved only in an order in which each one in force tells the truth about the database |
| `ArchiveBuildProofs!EngineBoundaries` | a commit by another engine is a snapshot, unconditionally | a build that changes the engine is forced, also when it resumes |
| `ArchiveBuildProofs!CommitsKept` | no synced commit is lost, unconditionally | a writer cuts only behind the last trailer, and what this one leads to is what was recorded |
| `MonitorStreamProofs!MonitorStreamNoHole` | a viewer shows no run with a hole, if a session is not selected again while it loads and no batch is lost just then | see below |
| `MonitorStreamProofs!MonitorStreamFileFirst` | what the hub keeps of a session, and what a viewer has read of its history, is in the file | the file's sink consumes an event before the connection's does |

Most of these modules also prove the types of their components: the theorems
`FactTypes`, `WriterTypes`, `DrainTypes`, `SyncCycleTypes`,
`CommitProvenanceTypes`, `MaintenanceJobsTypes`, `RateLimitsTypes`,
`ArchiveBuildTypes` and `MonitorStreamTypes`; of the reads it is theorem
`ReadsInvariant` that says what their state is.

### Inductive invariants

Hardly any property is inductive as it stands. Each proof has an invariant
(`IInv`; with a name of its own, `FactIInv`, `WriterIInv`, `DrainIInv` or
`ReadsInv`, where a module has several), the
conjunction of named parts, of which TLC found no violation on the
component's instance before it was proved.

*FactStore.* `CurrentIsAsOfNow` says nothing of a head that is not
ranked first because its window lies in the future; the strengthening says that
every window has closed by `now`, that a head is a row of its fact, and that
no row of the fact is ranked after it.

*DrainLanes.* The conjuncts relate program counters, events and task sets:
`api_done` only with the API lane gone, no Git task inserted after that,
`outcome = "returned"` only after both lanes left without failure.

*SyncCycle.* Three ideas carry the proof.
(1) Facts are truthful (`RootsTrue`, `CommentsTrue`): a fact shows a version
there was, and shows the present one if it was read more than `Skew` after the
present one's timestamp; facts that were read later are no older. This covers
the heads, the catalog, the Issue facts and a page that is in memory, and gives
`FactsNeverGoBack`. (2) A cycle only gains ground. The listing is in the order
of creation and under one `since` only grows: an item that is updated enters it
and none leaves. So positions move only toward the back, and a page that shifts
shows again what was seen and skips nothing. `Listed` says that a parent which
the listing has owed since before the start of the cycle, and which is not
catalogued, lies behind the pages that were read or in the page that is in
memory. The comment feed only grows, so what an earlier run of an interrupted
cycle was signalled is in the feed of a later one (`Signalled`, `Noticed`).
Everything the cycle has read is as recent as its start (`Recent`). (3)
`NothingLost` is `NoLostUpdate` without its premise that no cycle is active.
When a cycle completes, `Listed`, `Noticed` and `Parents` say that what it owed
it has read since its start; so what is stale has changed since, and the next
`since` selects it. A refused list only ends the call (`RefuseCommits`), and a parent
is done only with commits that agree with its detail, which `Parents` includes. This is where `OverlapAssumption` is used.

*ArchiveWriters.* The parts say who may hold what: `HoldsLock`
(a connected process holds the lock of its name), `OneCreator` (at most one
process is inside the script of a database), `CreationUnderWay` (the identity is
unbound until the script is executed) and `BoundaryOrdered` (a checkpoint is not
after the start of the active cycle).

*CommitProvenance.* A reference is *settled* when the commit's task for its
parent is done. `PublishedWhole`: the current object fact of a commit names every
settled reference to it. For that, what the Git lane has read must be whole at
each of its awaits (`ReadWhole`): every settled or claimed reference of a commit
in the batch is below the cutoff, and once the references are read, among them.
That no such reference can appear behind the cutoff is `EnqueuedLate` (a
parent's commits are enqueued after all its scans are durable) with `OpenScan`
(only a scan of a parent that is not enqueued can be open, so a rollback takes
nothing that counts).

*MaintenanceJobs.* `Population` (what the frozen scope of a backfill needs has a
row or a task), `Outcomes` (what a published task observes has a row), `Staged`
(commits are worked on when all scans of the job are done) and `ScopesWhole` (an
outcome names a scan of every source that refers to its commit) give
`BaselineIsWhole`; `OneActive` and the bindings of keys give `AnswersTheCall`.

*RateLimits.* `DenialsOK` says of a denied pool that the stored quota is
exhausted, ends with the window up to `Spread`, and closes the pool until a second
after that end; `AnswersOK` says the same of every answer on its way as far as it
can be compared with the window. The *hypothesis* is that no denial arrives after
its window (`~LateDenials`).

*CollectionReads and ParentHydration.* `ReadsInv` has four parts. `SiteOK`:
connections have no item in common, a new item is the newest, and a thread is
listed as long as it has comments. `FactsOK`: the tags of a fact are those of the
pages of its own value (`CacheOK`), or it has none; this is what lets a validated
read keep a page it did not see. `ReadOK` says of a read that runs (`RunOK`) what
it has behind it. Behind a *cursor* everything that is there was read (`Cursors`):
nothing can enter there, since a new item is the newest. Threads have the same for
each comment list they contain, and once they are all listed every list of
comments that stayed is among them (`Nested`). Behind a *page number* there are at
most as many items as the pages had (`Numbered`), for items only leave; and if
none left, they are exactly those that were read. For pages that were *validated*
the same holds of the earlier fact (`Validated`), whose items were seen to be
there when the tag of their page matched. A read that is done gives tags of its
own pages (`DoneOK`), which closes the circle to `FactsOK`. `TaskOK`: what a
refresh selected is closed under what it is read from, and its outcome is not
decided before its end. The two orders of a list, by age and by position, are
joined by lemmas on the rank of an item: the `ByAge` of a finite set is a
sequence of its items, each once, and `i` of them are no newer than the one at
position `i`.

*GitStore.* `Whole` (the store has the history of what it has), `Held` (what was
ever a tip or was promised is the target of a ref), `PinnedFirst` and
`PinnedBeforeTold` for the orders of Git commands. `NothingOverlooked` needs the
bookkeeping of `retain_commits`: the remaining batches are in order and
have every ref that may lead to a pending commit (`TriedOrAhead`,
`BatchesAreComplete`), and a ref that reaches a commit throughout has been
attributed once it was fetched (`SteadyReached`).

*ArchiveBuild.* The file is `Sound` frame by frame: a checkpoint follows its
commit and links to the last trailer before it, a footer follows an index of
exactly what the newest checkpoint before it leads to, a manifest's trees lie
before it and, if the store can be trusted, hold what was captured. Every cut
and every append keeps this, so that recovery needs no case of its own: the
lemmas on `DurableEnd`, `Anchor`, `Chain` and `Scanned` say that they find in any
prefix which ends at a trailer what was `Recorded` in it. `WrittenOK` describes
the one commit that is on its way (`Coming`). `PinnedOK` and `BaseOK` relate the
stores: the marks, the pinned base and the database. The hypotheses
`~DeleteFails` and `~PowerFails` (`Trusted`) guard only what speaks of captured
generations; soundness, boundaries and kept commits hold without them.

*MonitorStream.* The stream is in order at each of its stations. What has left
the bus is `Behind` it; the connection has still to send what is above all live
frames and above what the viewer holds back; and what left the bus and is no delta
is in the file (`Settled`). A viewer that is loading has exactly one request or
one answer on its way (`TokenOK`). `Reach(b, read)` says that from `b` on the
history read so far, the pending events, the live frames and what is unsent are
together all that the file has; `CoverOK` says from where this holds at each
stage of a load, and that the history alone suffices up to the mark the hub
gave with the subscription. A page leaves nothing out above its oldest event
(`PageTop`), so the next page joins on. `Whole` (`TokenOK`, `CoverOK` and
`NoHole`) is needed together and holds for a viewer that is `Patient`, which is
the theorem's hypothesis; the rest is unconditional.

### What is not proved

*Out of the prover's reach*: liveness under fairness and ENABLED, so `Ends`,
`GitKeepsPace`, `Converges`, `CyclesEnd`, `CallsEnd`, `BuildsFinish`,
`TaskEndsUnlessMoved` and `ShownAtLast` are model-checked only. The induction
theorems of the library, which take an operator, cannot be used; where a proof
needs induction (that a history is closed, that the batches miss no ref, that a
set of rows has a newest one) it takes a smallest counterexample, from the
well-founded order of the naturals. No module with a theorem has a RECURSIVE
operator.

All invariants and all action properties that the passing runs check are
theorems; liveness properties are model-checked only, and so is the
counterexample of the run `hydration_moved`. Since the proofs rest on
the models, what an action abstracts from (section 5) they abstract from too, and
the theorems that have a hypothesis say so in the table.

## 5. What is not modelled

The components with status `not_modelled` in `PROJECT.json`, with the reason for
each. Inside modelled components:

* archive and sync: request accounting (`add_requests`), progress, error texts
  and attempt counters, the payloads and coverage records of facts, the deletion
  or transfer of an Issue during a traversal;
* collector: the diff files of a pull, how many reactions a comment reports, a
  team that is asked for a review, and in `ParentHydration` the closing issues of
  several pulls as one task (they are one read of a batch);
* client: unauthenticated use, the growth of the backoff, the response shapes of
  the contract, single objects and counting;
* Git store: tags apart from branches, the default branch, the binding of a store
  to its repository, and the closure checks of a capture (a pull's snapshot is
  judged by the commits it names). That a fetch without `--refetch` sends nothing
  the store has is the worst case, not a promise of Git;
* graph archive: two builds of one archive, the creation of the file, rows and
  pages of a tree in detail;
* event stream: failing writes to the file, deletion of a session, leases, the
  list of sessions, and the export of traces.

## 6. Plan

1. `WikiTasks`: the registry of the DeepWiki service, resume state and cache.
2. `CbmTransport`: request identities, timeouts and the end of the child process.
3. A second process that builds the same graph archive; `GitStore` joined with
   `CommitProvenance`, so that what a fact names is what the store retains.
