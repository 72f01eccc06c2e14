----------------------------- MODULE DrainLanes ------------------------------
(***************************************************************************)
(* GitHubSyncer._drain: the API lane and the Git lane that execute one     *)
(* cycle's pending tasks concurrently, the three asyncio events they       *)
(* share, and the store lock (gh_puller/github/syncer.py).                 *)
(*                                                                         *)
(* A coroutine runs without interruption from one await to the next; each  *)
(* such stretch is one action.  The store lock matters only while the Git  *)
(* lane holds it across awaits (its pc is "taken"): every other stretch    *)
(* that needs the lock takes and releases it inside one action.            *)
(***************************************************************************)
EXTENDS Naturals, FiniteSets

CONSTANTS
    ApiTasks,     \* parent and closing-issues tasks
    RefsTasks,    \* the git-refs task
    PullTasks,    \* pull-git tasks
    CommitTasks,  \* commit-object tasks
    Children,     \* tasks an API task may insert while it runs
    Concurrency,  \* config.concurrency
    GitBatch,     \* config.git_batch_size
    CommitBatch,  \* _COMMIT_BATCH_SIZE
    StoreFails    \* whether a store operation of a lane may raise

GitTasks == RefsTasks \cup PullTasks \cup CommitTasks
Tasks == ApiTasks \cup GitTasks

ASSUME TasksAssumption ==
    /\ ApiTasks \cap GitTasks = {}
    /\ RefsTasks \cap (PullTasks \cup CommitTasks) = {}
    /\ PullTasks \cap CommitTasks = {}
    /\ IsFiniteSet(Tasks)
    /\ Children \in [ApiTasks -> SUBSET (Tasks \ RefsTasks)]

ASSUME BatchAssumption ==
    /\ Concurrency \in Nat \ {0}
    /\ GitBatch \in Nat \ {0}
    /\ CommitBatch \in Nat \ {0}
    /\ StoreFails \in BOOLEAN

VARIABLES
    rows, pending,    \* sync_tasks: all rows, and those without completed_at
    apiPc, apiBatch,  \* API lane: control, claimed tasks still executing
    gitPc, gitBatch,  \* Git lane: control, claimed tasks still executing
    failed,           \* tasks of this drain whose error was recorded
    stop, api_done, git_ready,  \* the three events
    outcome,          \* what _drain did: "running", "returned" or "raised"
    locked            \* sync() holds the archive lock, the archive is open

store == <<rows, pending>>
api == <<apiPc, apiBatch>>
git == <<gitPc, gitBatch>>
events == <<stop, api_done, git_ready>>
drainVars == <<store, api, git, failed, events, outcome, locked>>

Least(a, b) == IF a < b THEN a ELSE b

(* What take_tasks may return: as many of the candidates as the limit      *)
(* allows.  Which ones (the oldest) is left open.                          *)
Claims(candidates, limit) ==
    {batch \in SUBSET candidates :
        Cardinality(batch) = Least(Cardinality(candidates), limit)}

StoreLockFree == gitPc # "taken"

(* Task tables a drain can start from: git-refs is enqueued before         *)
(* anything else, a child only by a parent, and no Git evidence is         *)
(* recorded before the refs are.                                           *)
ReachableTable(all, open) ==
    /\ RefsTasks \subseteq all /\ open \subseteq all
    /\ \A c \in all :
          (\E p \in ApiTasks : c \in Children[p])
             => \E p \in ApiTasks \cap all : c \in Children[p]
    /\ RefsTasks \cap open # {} => all \cap GitTasks \subseteq open

-----------------------------------------------------------------------------
DrainInit ==
    /\ rows \in SUBSET Tasks
    /\ pending \in SUBSET rows
    /\ ReachableTable(rows, pending)
    /\ apiPc = "loop" /\ apiBatch = {}
    /\ gitPc = "loop" /\ gitBatch = {}
    /\ failed = {}
    /\ stop = FALSE /\ api_done = FALSE /\ git_ready = TRUE
    /\ outcome = "running" /\ locked = TRUE

(* The finally clause of the API lane sets both events.                    *)
ApiLeave ==
    /\ apiPc' = "done"
    /\ api_done' = TRUE
    /\ git_ready' = TRUE

(* Top of the loop: test stop, ask for the store lock.                     *)
ApiBegin ==
    /\ apiPc = "loop"
    /\ \/ stop /\ ApiLeave
       \/ ~stop /\ apiPc' = "take" /\ UNCHANGED <<api_done, git_ready>>
    /\ UNCHANGED <<store, apiBatch, git, failed, stop, outcome, locked>>

(* Claim a batch of API tasks and start it, or leave when there is none.   *)
ApiTake ==
    /\ apiPc = "take" /\ StoreLockFree /\ locked
    /\ apiBatch' \in Claims(pending \cap ApiTasks, Concurrency)
    /\ \/ apiBatch' = {} /\ ApiLeave
       \/ apiBatch' # {} /\ apiPc' = "gather" /\ UNCHANGED <<api_done, git_ready>>
    /\ UNCHANGED <<store, git, failed, stop, outcome, locked>>

(* A mutated form: a row that exists is opened again. *)
Reopen(t, new) ==
    /\ t \in apiBatch /\ StoreLockFree /\ locked
    /\ new # {} /\ new \subseteq Children[t]
    /\ pending' = pending \cup new
    /\ UNCHANGED <<rows, api, git, failed, events, outcome, locked>>

(* A running API task inserts further tasks: the enqueue calls of the      *)
(* collector, each one transaction under the store lock.                   *)
ApiEnqueue(t, new) ==
    /\ t \in apiBatch /\ StoreLockFree /\ locked
    /\ new # {} /\ new \subseteq Children[t] \ rows
    /\ rows' = rows \cup new
    /\ pending' = pending \cup new
    /\ UNCHANGED <<api, git, failed, events, outcome, locked>>

(* A task is over: completed, or its error recorded.  Without the archive  *)
(* neither can be stored.                                                  *)
Settle(t) ==
    \/ locked /\ pending' = pending \ {t} /\ UNCHANGED failed
    \/ failed' = failed \cup {t} /\ UNCHANGED pending

(* A mutated form: git_ready is not set. *)
FinishSilently(t) ==
    /\ t \in apiBatch /\ StoreLockFree
    /\ apiBatch' = apiBatch \ {t}
    /\ Settle(t)
    /\ UNCHANGED <<rows, apiPc, git, events, outcome, locked>>

(* run_sync_task ends and _run_api_task sets git_ready.                    *)
ApiFinish(t) ==
    /\ t \in apiBatch /\ StoreLockFree
    /\ apiBatch' = apiBatch \ {t}
    /\ Settle(t)
    /\ git_ready' = TRUE
    /\ UNCHANGED <<rows, apiPc, git, stop, api_done, outcome, locked>>

(* A mutated form: the lane goes on after a failure. *)
KeepGoing ==
    /\ apiPc = "gather" /\ apiBatch = {}
    /\ apiPc' = "loop"
    /\ UNCHANGED <<store, apiBatch, git, failed, events, outcome, locked>>

(* The gather of the batch returns; a failure stops both lanes.            *)
ApiGathered ==
    /\ apiPc = "gather" /\ apiBatch = {}
    /\ apiPc' = "loop"
    /\ stop' = (stop \/ failed \cap ApiTasks # {})
    /\ UNCHANGED <<store, apiBatch, git, failed, api_done, git_ready, outcome, locked>>

-----------------------------------------------------------------------------
(* Top of the Git loop: test stop, clear the wake-up, ask for the lock.    *)
GitBegin ==
    /\ gitPc = "loop"
    /\ \/ stop /\ gitPc' = "done" /\ UNCHANGED git_ready
       \/ ~stop /\ gitPc' = "take" /\ git_ready' = FALSE
    /\ UNCHANGED <<store, api, gitBatch, failed, stop, api_done, outcome, locked>>

(* A mutated form: refs, pulls and commits are claimed alike. *)
TakeAlike ==
    /\ gitPc = "take" /\ locked
    /\ gitPc' = "taken"
    /\ gitBatch' \in Claims(pending \cap GitTasks, GitBatch)
    /\ UNCHANGED <<store, api, failed, events, outcome, locked>>

(* _take_git_tasks under the store lock: a git-refs task alone, else a     *)
(* batch of pulls and a batch of commits.                                  *)
GitTake ==
    /\ gitPc = "take" /\ locked
    /\ gitPc' = "taken"
    /\ \/ /\ pending \cap RefsTasks # {}
          /\ gitBatch' \in Claims(pending \cap RefsTasks, 1)
       \/ /\ pending \cap RefsTasks = {}
          /\ \E pulls \in Claims(pending \cap PullTasks, GitBatch),
                commits \in Claims(pending \cap CommitTasks, CommitBatch) :
                gitBatch' = pulls \cup commits
    /\ UNCHANGED <<store, api, failed, events, outcome, locked>>

(* A mutated form: the lane leaves when it finds nothing to do. *)
LeaveWhenIdle ==
    /\ gitPc = "taken"
    /\ gitPc' = IF gitBatch # {} THEN "run" ELSE "done"
    /\ UNCHANGED <<store, api, gitBatch, failed, events, outcome, locked>>

(* The lock is released and the lane decides without another await: run    *)
(* what it claimed, leave when the API lane is done, otherwise wait.       *)
GitDecide ==
    /\ gitPc = "taken"
    /\ gitPc' = IF gitBatch # {} THEN "run"
                ELSE IF api_done THEN "done" ELSE "wait"
    /\ UNCHANGED <<store, api, gitBatch, failed, events, outcome, locked>>

GitWake ==
    /\ gitPc = "wait" /\ git_ready
    /\ gitPc' = "loop"
    /\ UNCHANGED <<store, api, gitBatch, failed, events, outcome, locked>>

(* The claimed tasks in their order: git-refs, or the pulls and then the   *)
(* commits.  A failed prefetch or commit read fails the tasks one by one.  *)
GitFinish(t) ==
    /\ gitPc = "run" /\ t \in gitBatch
    /\ t \in CommitTasks => gitBatch \cap PullTasks = {}
    /\ gitBatch' = gitBatch \ {t}
    /\ Settle(t)
    /\ UNCHANGED <<rows, api, gitPc, events, outcome, locked>>

GitGathered ==
    /\ gitPc = "run" /\ gitBatch = {}
    /\ gitPc' = "loop"
    /\ stop' = (stop \/ failed \cap GitTasks # {})
    /\ UNCHANGED <<store, api, gitBatch, failed, api_done, git_ready, outcome, locked>>

-----------------------------------------------------------------------------
(* A store operation outside a task's own error handling raises: the lane  *)
(* sets stop and dies, and gather hands the exception to _drain at once.   *)
(* Other tasks the lane had started are not cancelled.                     *)
RaiseNow == outcome' = IF outcome = "running" THEN "raised" ELSE outcome

ApiRaises ==
    /\ StoreFails \/ ~locked
    /\ \/ apiPc = "take" /\ StoreLockFree /\ UNCHANGED apiBatch
       \/ apiPc = "gather" /\ \E t \in apiBatch : apiBatch' = apiBatch \ {t}
    /\ stop' = TRUE
    /\ ApiLeave
    /\ RaiseNow
    /\ UNCHANGED <<store, git, failed, locked>>

GitRaises ==
    /\ StoreFails \/ ~locked
    /\ gitPc \in {"take", "run"}
    /\ stop' = TRUE
    /\ gitPc' = "done" /\ gitBatch' = {}
    /\ RaiseNow
    /\ UNCHANGED <<store, api, failed, api_done, git_ready, locked>>

(* A mutated form: the drain does not wait for the Git lane. *)
EndsWithApi ==
    /\ outcome = "running" /\ apiPc = "done"
    /\ outcome' = IF failed = {} THEN "returned" ELSE "raised"
    /\ UNCHANGED <<store, api, git, failed, events, locked>>

(* Both lanes have returned: the first failure is raised, if there is one. *)
DrainEnds ==
    /\ outcome = "running"
    /\ apiPc = "done" /\ gitPc = "done"
    /\ outcome' = IF failed = {} THEN "returned" ELSE "raised"
    /\ UNCHANGED <<store, api, git, failed, events, locked>>

(* sync() leaves its context managers: the archive is closed and the lock  *)
(* of the archive pair released, whatever is still running.                *)
ReleaseArchive ==
    /\ outcome = "raised" /\ locked
    /\ locked' = FALSE
    /\ UNCHANGED <<store, api, git, failed, events, outcome>>

Quiet == apiPc = "done" /\ apiBatch = {} /\ gitPc = "done"

(* Nothing is left to run.                                                 *)
Finished ==
    /\ Quiet
    /\ outcome = "returned" \/ ~locked
    /\ UNCHANGED drainVars

ApiLane == ApiBegin \/ ApiTake \/ ApiGathered
ApiWork == \E t \in ApiTasks :
              ApiFinish(t) \/ \E new \in SUBSET Children[t] : ApiEnqueue(t, new)
GitLane == GitBegin \/ GitTake \/ GitDecide \/ GitWake \/ GitGathered
GitWork == \E t \in GitTasks : GitFinish(t)

DrainNext ==
    \/ ApiLane \/ ApiWork \/ ApiRaises
    \/ GitLane \/ GitWork \/ GitRaises
    \/ DrainEnds \/ ReleaseArchive \/ Finished

DrainSpec == DrainInit /\ [][DrainNext]_drainVars

(* The event loop runs every coroutine that can run, and the operations a  *)
(* lane awaits end; `hung` are API tasks whose source operation does not.  *)
Fairness(hung) ==
    /\ WF_drainVars(ApiLane) /\ WF_drainVars(GitLane) /\ WF_drainVars(DrainEnds)
    /\ \A t \in ApiTasks \ hung : WF_drainVars(ApiFinish(t))
    /\ \A t \in GitTasks : WF_drainVars(GitFinish(t))

-----------------------------------------------------------------------------
DrainTypeOK ==
    /\ rows \in SUBSET Tasks /\ pending \in SUBSET rows
    /\ apiPc \in {"loop", "take", "gather", "done"}
    /\ gitPc \in {"loop", "take", "taken", "run", "wait", "done"}
    /\ apiBatch \in SUBSET ApiTasks /\ gitBatch \in SUBSET GitTasks
    /\ failed \in SUBSET Tasks
    /\ stop \in BOOLEAN /\ api_done \in BOOLEAN /\ git_ready \in BOOLEAN
    /\ outcome \in {"running", "returned", "raised"} /\ locked \in BOOLEAN

(* A drain that returns has completed every task of the cycle, also those  *)
(* inserted while the Git lane was about to leave: sync() may then fetch   *)
(* the next page or complete the cycle.                                    *)
ReturnMeansDrained == outcome = "returned" => pending = {}

(* Git evidence of pulls and commits is collected only after the upstream  *)
(* refs of the cycle were recorded, also when that attempt fails and the   *)
(* lane goes on with other work.                                           *)
RefsFirst == gitBatch \cap (PullTasks \cup CommitTasks) # {} => pending \cap RefsTasks = {}

(* A failed task is not attempted again by the drain it failed in, so a    *)
(* permanent error ends the drain instead of being retried for ever.       *)
OneAttempt == failed \cap (apiBatch \cup gitBatch) = {}

(* No source read or Git fetch of a drain outlives the single-writer lock. *)
WorkHoldsLock == locked \/ (apiBatch = {} /\ gitPc # "run")

(* The drain ends, unless an API request of its own hangs for ever:        *)
(* neither lane sleeps through its last wake-up, whatever fails.           *)
Ends == <>(outcome # "running") \/ \E t \in ApiTasks : <>[](t \in apiBatch)

(* Git work whose parent is over does not wait for the other API tasks: it *)
(* is claimed even if one of them never ends, unless the drain is stopping. *)
GitKeepsPace ==
    \A t \in GitTasks :
       (t \in pending /\ t \notin UNION {Children[p] : p \in apiBatch})
          ~> (t \notin pending \/ t \in failed \/ stop)

(* The lanes implement the pool of tasks.                                  *)
Pool == INSTANCE TaskPool WITH faulted <- failed # {} \/ stop
PoolSpec == Pool!Spec

=============================================================================
