------------------------------ MODULE SyncCycle ------------------------------
(***************************************************************************)
(* One repository's sync cycles: the durable cycle, its catalog traversal, *)
(* its comment signals and its task table (ObservationArchive in           *)
(* observations.py), the writer process that drives them (GitHubSyncer in  *)
(* syncer.py, parents hydrated by collector.py), and the repository on     *)
(* GitHub, which changes all the time.                                     *)
(*                                                                         *)
(* Each durable step is one SQLite transaction.  The process can stop      *)
(* between any two steps: by a crash, or because a request or a task       *)
(* failed, which ends sync() and leaves the same durable state.            *)
(*                                                                         *)
(* A parent's facts are reduced to two that behave differently: its root,  *)
(* taken from the catalog page when there is one, and its comments, read   *)
(* by their own request or derived from a root that counts none.  Of a     *)
(* pull's own facts there are the two that depend on each other: its       *)
(* detail, and its commits, which are read for the size the detail gives.  *)
(* Parents stay readable, and no comment is withdrawn.                     *)
(***************************************************************************)
EXTENDS Integers, Sequences, FiniteSets, FiniteSetsExt

CONSTANTS
    N,            \* Issue/PR numbers 1 .. N, in creation order
    Existing,     \* the numbers that exist at the start are 1 .. Existing
    Pulls,        \* the numbers that are pull requests
    PageSize,     \* entries on one catalog page
    Overlap,      \* config.overlap_seconds
    Skew,         \* how far GitHub's timestamps lag the writer's clock
    MaxTime,      \* bound on the clock
    MaxEdits,     \* bound on the changes of one root
    MaxComments,  \* bound on the comments of one parent
    MaxChanges,   \* bound on the changes of all of them together
    MaxStops,     \* bound on the number of crashes and failures
    Refreshed     \* the numbers a maintenance job may refresh

Numbers == 1 .. N

(* The overlap covers the lag of the timestamps, rounding included.        *)
ASSUME OverlapAssumption == Skew \in Nat /\ Overlap \in Nat /\ Skew <= Overlap

ASSUME SizeAssumption ==
    /\ N \in Nat /\ Existing \in 0 .. N /\ Pulls \subseteq Numbers /\ Refreshed \subseteq Numbers
    /\ PageSize \in Nat \ {0}
    /\ MaxTime \in Nat /\ MaxEdits \in Nat /\ MaxComments \in Nat
    /\ MaxChanges \in Nat /\ MaxStops \in Nat

Never == -1
Times == 0 .. MaxTime

VARIABLES
    \* the repository on GitHub
    clock,       \* the writer's clock
    root,        \* version and updated_at of each root, version 0: not created
    comment,     \* number of comments of each parent and stamp of the last one
    \* the archive
    checkpoint,  \* archive_meta.discovery_checkpoint
    cycle,       \* the sole active row of sync_cycles, or none
    catalog,     \* discovery_items of the active cycle
    signals,     \* discovery_signals of the active cycle
    tasks,       \* sync_tasks of the active cycle
    issueFact,   \* the "issue" publication of each parent task of the cycle
    commented,   \* the parents whose "issue-comments" publication exists
    pull,        \* how far the "pull" and "pull-commits" publications are
    head,        \* current root and comments fact of each number
    \* the process
    pc,          \* what sync() does next
    memory,      \* what it holds between two steps: feed result or page
    stops        \* crashes and failures so far

github == <<clock, root, comment>>
discovery == <<checkpoint, cycle, catalog, signals>>
work == <<tasks, issueFact, commented, pull, head>>
process == <<pc, memory, stops>>
vars == <<github, discovery, work, process>>

-----------------------------------------------------------------------------
(* Values.                                                                 *)

NoCycle == [active |-> FALSE, start |-> 0, from |-> Never,
            begun |-> FALSE, cursor |-> 0, pages |-> 0]

(* What a read of a root sees: its version and its comment count.          *)
Summary == [root : 0 .. MaxEdits + 1, comments : 0 .. MaxComments, at : Times \cup {Never}]
Unseen == [root |-> 0, comments |-> 0, at |-> Never]
ReadRoot(n) == [root |-> root[n].ver, comments |-> comment[n].ver, at |-> clock]

(* A head: the version a fact shows and the end of its read window.        *)
NoFact == [ver |-> 0, at |-> Never]
Fact(ver, at) == [ver |-> ver, at |-> at]

(* A mutated form: the last publication always becomes current.            *)
LastPublished(current, fact) == fact

(* _advance_head: a window that closed earlier does not replace a later.   *)
Advance(current, fact) == IF fact.at >= current.at THEN fact ELSE current

Refs == <<"git-refs", 0>>
Parent(n) == <<"parent", n>>
ClosingPage(k) == <<"closing", k>>
ClosingSingle(n) == <<"closing:single", n>>
PullGit(n) == <<"pull-git", n>>

Task(key, numbers) == [key |-> key, numbers |-> numbers, done |-> FALSE]
Completed(task) == [task EXCEPT !.done = TRUE]

Row(key) == {t \in tasks : t.key = key}
Pending(key) == \E t \in Row(key) : ~t.done
IsDone(key) == \E t \in Row(key) : t.done
Finish(key) == {IF t.key = key THEN Completed(t) ELSE t : t \in tasks}

(* _insert_task: a key is bound to one definition.                         *)
Conflicts(drafts) ==
    \E d \in drafts, t \in tasks : d.key = t.key /\ d.numbers # t.numbers

Insert(drafts) ==
    tasks \cup {d \in drafts : \A t \in tasks : t.key # d.key}

-----------------------------------------------------------------------------
(* GitHub's listings.                                                      *)

(* A mutated form: the boundary without the overlap.                       *)
SinceCheckpoint == cycle.from

Since == cycle.from - Overlap
Selected(stamp) == cycle.from = Never \/ stamp >= Since

(* The catalog in creation order, filtered by updated_at when warm.        *)
Listing == {n \in Numbers : root[n].ver > 0 /\ Selected(root[n].stamp)}
Position(n) == Cardinality({m \in Listing : m <= n})
PageOf(k) == {n \in Listing : (k - 1) * PageSize < Position(n) /\ Position(n) <= k * PageSize}
HasNext(k) == Cardinality(Listing) > k * PageSize

CommentFeed == {n \in Numbers : comment[n].ver > 0 /\ Selected(comment[n].stamp)}

Stamps == (IF clock > Skew THEN clock - Skew ELSE 0) .. clock

Tick ==
    /\ clock < MaxTime
    /\ clock' = clock + 1
    /\ UNCHANGED <<root, comment, discovery, work, process>>

Changes ==
    FoldSet(LAMBDA n, sum : sum + root[n].ver + comment[n].ver, 0, Numbers)

(* A root is created, after the one before it, or changes; if the change   *)
(* is a push, the pull may no longer have the commits that the detail of   *)
(* it, published before, gives, or have them again.                        *)
ChangeRoot(n) ==
    /\ root[n].ver <= MaxEdits /\ Changes < MaxChanges
    /\ n > 1 => root[n - 1].ver > 0
    /\ \E stamp \in Stamps :
          root' = [root EXCEPT ![n] = [ver |-> @.ver + 1, stamp |-> stamp]]
    /\ IF pull[n] \in {"read", "moved"}
       THEN \E state \in {"read", "moved"} : pull' = [pull EXCEPT ![n] = state]
       ELSE UNCHANGED pull
    /\ UNCHANGED <<clock, comment, discovery, tasks, issueFact, commented, head, process>>

(* A comment is created or edited; GitHub need not touch its root.         *)
ChangeComment(n) ==
    /\ root[n].ver > 0 /\ comment[n].ver < MaxComments /\ Changes < MaxChanges
    /\ \E stamp \in Stamps :
          comment' = [comment EXCEPT ![n] = [ver |-> @.ver + 1, stamp |-> stamp]]
    /\ UNCHANGED <<clock, root, discovery, work, process>>

-----------------------------------------------------------------------------
Init ==
    /\ clock = 0
    /\ root = [n \in Numbers |-> [ver |-> IF n <= Existing THEN 1 ELSE 0, stamp |-> 0]]
    /\ comment = [n \in Numbers |-> [ver |-> 0, stamp |-> 0]]
    /\ checkpoint = Never /\ cycle = NoCycle
    /\ catalog = [n \in Numbers |-> Unseen] /\ signals = {}
    /\ tasks = {}
    /\ issueFact = [n \in Numbers |-> Unseen] /\ commented = {}
    /\ pull = [n \in Numbers |-> "unread"]
    /\ head = [n \in Numbers |-> [root |-> NoFact, comments |-> NoFact]]
    /\ pc = "down" /\ memory = {} /\ stops = 0

(* sync() takes the archive lock; start_cycle resumes the active cycle or  *)
(* freezes the start of a new one.                                         *)
StartCycle ==
    /\ pc = "down"
    /\ IF cycle.active
       THEN /\ pc' = IF cycle.begun THEN "begin" ELSE "feeds"
            /\ UNCHANGED cycle
       ELSE /\ checkpoint <= clock
            /\ cycle' = [NoCycle EXCEPT !.active = TRUE, !.start = clock, !.from = checkpoint]
            /\ pc' = "feeds"
    /\ UNCHANGED <<github, checkpoint, catalog, signals, work, memory, stops>>

(* _comment_signals: on a warm cycle the repository's comment feeds.       *)
ReadFeeds ==
    /\ pc = "feeds"
    /\ IF cycle.from = Never
       THEN pc' = "enqueue" /\ memory' = {}
       ELSE pc' = "signals" /\ memory' = CommentFeed
    /\ UNCHANGED <<github, discovery, work, stops>>

RecordSignals ==
    /\ pc = "signals"
    /\ signals' = signals \cup memory
    /\ pc' = "enqueue"
    /\ UNCHANGED <<github, checkpoint, cycle, catalog, work, memory, stops>>

EnqueueInitial ==
    /\ pc = "enqueue"
    /\ tasks' = Insert({Task(Refs, {})} \cup {Task(Parent(n), {n}) : n \in memory})
    /\ pc' = "begin" /\ memory' = {}
    /\ UNCHANGED <<github, discovery, issueFact, commented, pull, head, stops>>

(* begin_discovery stores the first page request, or returns the stored    *)
(* one; cursor 0 stands for NULL, the terminal page.                       *)
BeginDiscovery ==
    /\ pc = "begin"
    /\ cycle' = IF cycle.begun THEN cycle ELSE [cycle EXCEPT !.begun = TRUE, !.cursor = 1]
    /\ pc' = IF cycle'.cursor = 0 THEN "drain" ELSE "fetch"
    /\ UNCHANGED <<github, checkpoint, catalog, signals, work, memory, stops>>

FetchPage ==
    /\ pc = "fetch"
    /\ memory' = {[number |-> n, summary |-> ReadRoot(n)] : n \in PageOf(cycle.cursor)}
                    \cup {[number |-> 0, more |-> HasNext(cycle.cursor)]}
    /\ pc' = "save"
    /\ UNCHANGED <<github, discovery, work, stops>>

(* save_discovery_page: items, tasks and the next request in one           *)
(* transaction; a definition conflict rolls it back and ends sync().       *)
Page == {entry \in memory : entry.number # 0}
MorePages == \E entry \in memory : entry.number = 0 /\ entry.more

(* A mutated form: every page uses the same closing-issues key.            *)
SamePage == 1

(* The ordinal of the page being saved.                                    *)
PageOrdinal == cycle.pages + 1

PageTasks ==
    LET numbers == {entry.number : entry \in Page} IN
    {Task(Parent(n), {n}) : n \in numbers}
      \cup (IF numbers \cap Pulls = {} THEN {}
            ELSE {Task(ClosingPage(PageOrdinal), numbers \cap Pulls)})

SavePage ==
    /\ pc = "save"
    /\ memory' = {}
    /\ IF Conflicts(PageTasks)
       THEN pc' = "down" /\ UNCHANGED <<discovery, work>>
       ELSE /\ catalog' = [n \in Numbers |->
                  IF \E e \in Page : e.number = n /\ catalog[n].at <= e.summary.at
                  THEN (CHOOSE e \in Page : e.number = n).summary
                  ELSE catalog[n]]
            /\ tasks' = Insert(PageTasks)
            /\ cycle' = [cycle EXCEPT !.pages = @ + 1,
                                      !.cursor = IF MorePages THEN @ + 1 ELSE 0]
            /\ pc' = "drain"
            /\ UNCHANGED <<checkpoint, signals, issueFact, commented, pull, head>>
    /\ UNCHANGED <<github, stops>>

-----------------------------------------------------------------------------
(* Tasks of a drain.  Any of the claimed ones may take its next step; a    *)
(* publication that exists is not repeated.                                *)
Running(key) == pc = "drain" /\ Pending(key)

GitRefs ==
    /\ Running(Refs)
    /\ tasks' = Finish(Refs)
    /\ UNCHANGED <<github, discovery, issueFact, commented, pull, head, process>>

(* issue(): the catalog summary if the page is stored, a request if not.   *)
PublishIssue(n) ==
    /\ Running(Parent(n)) /\ issueFact[n] = Unseen
    /\ LET read == IF catalog[n] # Unseen THEN catalog[n] ELSE ReadRoot(n) IN
          /\ issueFact' = [issueFact EXCEPT ![n] = read]
          /\ head' = [head EXCEPT ![n].root = Advance(@, Fact(read.root, read.at))]
    /\ UNCHANGED <<github, discovery, tasks, commented, pull, process>>

(* issue_comments(): a request, unless the root counts no comment and no   *)
(* feed selected the parent; then empty, with the window of the root.      *)
PublishComments(n) ==
    /\ Running(Parent(n)) /\ issueFact[n] # Unseen /\ n \notin commented
    /\ commented' = commented \cup {n}
    /\ LET fact == IF n \notin signals /\ issueFact[n].comments = 0
                   THEN Fact(0, issueFact[n].at)
                   ELSE Fact(comment[n].ver, clock) IN
          head' = [head EXCEPT ![n].comments = Advance(@, fact)]
    /\ UNCHANGED <<github, discovery, tasks, issueFact, pull, process>>

(* pull(): the detail of the pull, as it is now.                           *)
PublishPull(n) ==
    /\ Running(Parent(n)) /\ n \in Pulls /\ n \in commented /\ pull[n] = "unread"
    /\ pull' = [pull EXCEPT ![n] = "read"]
    /\ UNCHANGED <<github, discovery, tasks, issueFact, commented, head, process>>

(* pull_commits(): as many as the published detail gives.                  *)
PublishCommits(n) ==
    /\ Running(Parent(n)) /\ pull[n] = "read"
    /\ pull' = [pull EXCEPT ![n] = "whole"]
    /\ UNCHANGED <<github, discovery, tasks, issueFact, commented, head, process>>

(* check_size: any other number fails the task and ends sync(); the next   *)
(* call finds the same detail published.                                   *)
RefuseCommits(n) ==
    /\ Running(Parent(n)) /\ pull[n] = "moved"
    /\ pc' = "down" /\ memory' = {}
    /\ UNCHANGED <<github, discovery, work, stops>>

(* A mutated form: the catalog is trusted to list every pull.              *)
NeverSingle(n) == FALSE

(* No stored page covers the closing issues of n.                          *)
NeedsSingle(n) == catalog[n] = Unseen

(* _pull_facts enqueues the Git task, and the closing-issues task of a     *)
(* pull that no catalog page has listed.                                   *)
EnqueueChild(n) ==
    /\ Running(Parent(n)) /\ n \in Pulls /\ pull[n] = "whole"
    /\ \/ /\ Row(PullGit(n)) = {}
          /\ tasks' = Insert({Task(PullGit(n), {n})})
       \/ /\ Row(PullGit(n)) # {} /\ Row(ClosingSingle(n)) = {}
          /\ NeedsSingle(n)
          /\ tasks' = Insert({Task(ClosingSingle(n), {n})})
    /\ UNCHANGED <<github, discovery, issueFact, commented, pull, head, process>>

FinishParent(n) ==
    /\ Running(Parent(n)) /\ n \in commented
    /\ n \in Pulls =>
          /\ pull[n] = "whole" /\ Row(PullGit(n)) # {}
          /\ NeedsSingle(n) => Row(ClosingSingle(n)) # {}
    /\ tasks' = Finish(Parent(n))
    /\ UNCHANGED <<github, discovery, issueFact, commented, pull, head, process>>

(* The Git lane runs git-refs before anything else.                        *)
FinishPullGit(n) ==
    /\ Running(PullGit(n)) /\ IsDone(Refs)
    /\ tasks' = Finish(PullGit(n))
    /\ UNCHANGED <<github, discovery, issueFact, commented, pull, head, process>>

FinishClosing(key) ==
    /\ Running(key) /\ key[1] \in {"closing", "closing:single"}
    /\ tasks' = Finish(key)
    /\ UNCHANGED <<github, discovery, issueFact, commented, pull, head, process>>

AllDone == \A t \in tasks : t.done

(* The drain returns when no task is pending: next page, or completion.    *)
DrainReturns ==
    /\ pc = "drain" /\ AllDone
    /\ pc' = IF cycle.cursor # 0 THEN "fetch" ELSE "complete"
    /\ UNCHANGED <<github, discovery, work, memory, stops>>

(* A mutated form: the checkpoint advances to the end of the cycle.        *)
CompletionTime == clock

(* The discovery boundary a completed cycle leaves, which only advances.   *)
CompletedBoundary == Max({checkpoint, cycle.start})

(* complete_cycle: the checkpoint advances to the start of the cycle.      *)
CompleteCycle ==
    /\ pc = "complete"
    /\ cycle.begun /\ cycle.cursor = 0 /\ \A t \in tasks : t.done
    /\ checkpoint' = CompletedBoundary
    /\ cycle' = NoCycle
    /\ catalog' = [n \in Numbers |-> Unseen] /\ signals' = {}
    /\ tasks' = {} /\ issueFact' = [n \in Numbers |-> Unseen] /\ commented' = {}
    /\ pull' = [n \in Numbers |-> "unread"]
    /\ pc' = "down"
    /\ UNCHANGED <<github, head, memory, stops>>

(* The process crashes, or a failure ends sync(): only the archive is left. *)
Stop ==
    /\ pc # "down" /\ stops < MaxStops
    /\ stops' = stops + 1
    /\ pc' = "down" /\ memory' = {}
    /\ UNCHANGED <<github, discovery, work>>

(* A targeted refresh of one parent, by another process while no sync      *)
(* holds the archive lock.                                                 *)
Refresh(n) ==
    /\ pc = "down" /\ root[n].ver > 0
    /\ head' = [head EXCEPT
          ![n] = [root |-> Advance(@.root, Fact(root[n].ver, clock)),
                  comments |-> Advance(@.comments, Fact(comment[n].ver, clock))]]
    /\ UNCHANGED <<github, discovery, tasks, issueFact, commented, pull, process>>

-----------------------------------------------------------------------------
Environment ==
    \/ Tick \/ Stop
    \/ \E n \in Numbers : ChangeRoot(n) \/ ChangeComment(n)
    \/ \E n \in Refreshed : Refresh(n)

TaskStep ==
    \/ GitRefs
    \/ \E n \in Numbers :
          \/ PublishIssue(n) \/ PublishComments(n)
          \/ PublishPull(n) \/ PublishCommits(n) \/ RefuseCommits(n)
          \/ EnqueueChild(n) \/ FinishParent(n)
          \/ FinishPullGit(n)
    \/ \E t \in tasks : FinishClosing(t.key)

Sync ==
    \/ StartCycle \/ ReadFeeds \/ RecordSignals \/ EnqueueInitial
    \/ BeginDiscovery \/ FetchPage \/ SavePage
    \/ TaskStep \/ DrainReturns \/ CompleteCycle

Next == Environment \/ Sync

Spec == Init /\ [][Next]_vars

(* The daemon calls sync() again after every return, and what sync() does  *)
(* next always happens unless the process stops.                           *)
FairSpec == Spec /\ WF_vars(Sync)

-----------------------------------------------------------------------------
TypeOK ==
    /\ clock \in Times /\ checkpoint \in Times \cup {Never}
    /\ root \in [Numbers -> [ver : 0 .. MaxEdits + 1, stamp : Times]]
    /\ comment \in [Numbers -> [ver : 0 .. MaxComments, stamp : Times]]
    /\ cycle \in [active : BOOLEAN, start : Times, from : Times \cup {Never},
                  begun : BOOLEAN, cursor : Nat, pages : Nat]
    /\ catalog \in [Numbers -> Summary] /\ signals \subseteq Numbers
    /\ \A t \in tasks :
          /\ t.numbers \subseteq Numbers /\ t.done \in BOOLEAN
          /\ Row(t.key) = {t}
    /\ issueFact \in [Numbers -> Summary] /\ commented \subseteq Numbers
    /\ pull \in [Numbers -> {"unread", "read", "moved", "whole"}]
    /\ \A n \in Numbers : \A fact \in {head[n].root, head[n].comments} :
          fact.ver \in Nat /\ fact.at \in Times \cup {Never}
    /\ pc \in {"down", "feeds", "signals", "enqueue", "begin", "fetch",
               "save", "drain", "complete"}
    /\ stops \in 0 .. MaxStops

StaleRoot(n) == head[n].root.ver # root[n].ver
StaleComments(n) == head[n].comments.ver # comment[n].ver

(* Between cycles no change is lost: whatever the archive does not show    *)
(* yet has a timestamp the next cycle's `since` filter still selects,      *)
(* although pages, feeds and parents were read at different moments, from  *)
(* a listing that moved, with crashes in between.                          *)
NoLostUpdate ==
    ~cycle.active /\ checkpoint # Never =>
       \A n \in Numbers :
          /\ StaleRoot(n) => root[n].stamp >= checkpoint - Overlap
          /\ StaleComments(n) => comment[n].stamp >= checkpoint - Overlap

(* A cycle completes only when every parent it selected is archived: every *)
(* catalog entry and every signal, with the Git and closing-issues work of *)
(* each pull, whichever of the two ways its closing issues are read, and   *)
(* with commits that agree with the detail of it.                          *)
CompletedCycleIsWhole ==
    [][cycle.active /\ ~cycle'.active =>
          \A n \in Numbers :
             (catalog[n] # Unseen \/ n \in signals) =>
                /\ IsDone(Parent(n)) /\ n \in commented
                /\ n \in Pulls =>
                      /\ pull[n] = "whole" /\ IsDone(PullGit(n))
                      /\ \E t \in tasks :
                            t.done /\ t.key # Parent(n) /\ t.key # PullGit(n)
                              /\ n \in t.numbers]_vars

(* A fact never goes back to an older version, although a resumed cycle    *)
(* publishes old catalog pages and a refresh may have read the same parent *)
(* in between; only reads of the same instant are not told apart.          *)
GoesBack(old, new) == new.ver < old.ver /\ new.at # old.at

FactsNeverGoBack ==
    [][\A n \in Numbers :
          /\ ~GoesBack(head[n].root, head'[n].root)
          /\ ~GoesBack(head[n].comments, head'[n].comments)]_vars

(* The finding of hydration_moved: the cycle has published the detail of a *)
(* pull, and a push has left the pull with other commits than that.        *)
Moved(n) == pull[n] = "moved"

(* Every cycle ends, whatever was left behind by the runs before, unless   *)
(* the commits of a pull moved between the two publications and never come *)
(* back: then every retry of its task fails.  (Parents stay readable.)     *)
CyclesEnd == []<>(~cycle.active) \/ <>[](\E n \in Numbers : Moved(n))

(* When the repository stops changing and the process stops failing, the   *)
(* archive comes to show every root and every comment, and stays so, with  *)
(* the same exception.                                                     *)
Converges ==
    \/ <>[](\A n \in Numbers : ~StaleRoot(n) /\ ~StaleComments(n))
    \/ <>[](\E n \in Numbers : Moved(n))

=============================================================================
