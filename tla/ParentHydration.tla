--------------------------- MODULE ParentHydration ----------------------------
(***************************************************************************)
(* The collector (collector.py) at one parent: the families of an issue or *)
(* a pull are read one after the other and published one by one, those a   *)
(* count or another fact already answers are derived, and an attempt that  *)
(* stopped is resumed by the facts its task has published.  Tasks of later *)
(* cycles, and of refreshes (maintenance.py), validate what earlier ones   *)
(* have published.                                                         *)
(***************************************************************************)
EXTENDS CollectionReads

CONSTANTS
    Selections, \* sets of families a refresh may ask for
    MaxTasks    \* bound on the tasks of the parent

(* The families of an issue and of a pull, besides the parent itself and   *)
(* the reactions to comments.                                              *)
FamiliesOf(kind) ==
    {"comments", "timeline", "events", "reactions"} \union
    IF kind = "issue" THEN {"relations"}
    ELSE {"reviews", "threads", "review-comments", "commits", "reviewers", "closing"}

(* With a family that is read, those it is read from can be; a refresh     *)
(* asks for the reactions to all comments or to none.                      *)
ASSUME HydrationAssumption ==
    /\ \A k \in Parents :
        /\ k.families \subseteq FamiliesOf(k.kind) \union Reacted
        /\ "review-comments" \in k.families => "threads" \in k.families
        /\ k.families \intersect Reacted # {} =>
              (IF k.kind = "issue" THEN "comments" ELSE "review-comments") \in k.families
    /\ Reacted \intersect (FamiliesOf("issue") \union FamiliesOf("pull") \union {"issue", "pull"}) = {}
    /\ \A selected \in Selections : selected \intersect Reacted \in {{}, Reacted}
    /\ MaxTasks \in Nat /\ None \notin {"complete", "unavailable"}

VARIABLES
    task,       \* number, kind and families of the parent's task, whether it is
                \* pending, its catalog entry, what a refresh came to
    archived,   \* whether the parent was ever read
    attempt,    \* whether an attempt is running
    published,  \* the families this task has published
    root,       \* current fact of the family issue
    detail,     \* current fact of the family pull
    current     \* current facts of the collections

hydration == <<task, archived, attempt, published, root, detail, current>>
vars == <<github, events, read, hydration>>

(* The reactions to the comments of a family, comment by comment; None has *)
(* the place of a comment without any.                                     *)
ReactionsIn(f) ==
    IF f \in published /\ current[f].coverage = "complete"
    THEN [i \in DOMAIN current[f].value |->
            IF current[f].value[i].id \in DOMAIN Reactions
            THEN Reactions[current[f].value[i].id] ELSE None]
    ELSE <<>>

(* _hydrate_parent and _pull_facts, or _refresh_parent and                 *)
(* _refresh_pull_families.  What is enqueued at the end of a task is the   *)
(* subject of DrainLanes, Git and commits are those of GitStore and        *)
(* CommitProvenance.                                                       *)
PullOrder ==
    <<"pull", "reviews", "threads", "review-comments", "commits", "reviewers">> \o
    ReactionsIn("review-comments") \o <<"closing">>
Order ==
    <<"issue", "comments", "timeline", "events", "reactions">> \o ReactionsIn("comments") \o
    (IF parent.kind = "issue" THEN <<"relations">> ELSE PullOrder)
Steps == LET order == Order IN {<<i, order[i]>> : i \in {k \in DOMAIN order : order[k] \in task.families}}

(* _FAMILY_DEPENDENCIES and parent_family_plan: a refresh reads what it is *)
(* asked for and all that this is read from.                               *)
Sources(f) ==
    CASE f \in {"commits", "reviewers"} -> {"pull"}
      [] f = "review-comments" -> {"pull", "threads"}
      [] f \in Reacted -> {IF parent.kind = "issue" THEN "comments" ELSE "review-comments"}
      [] OTHER -> {}
Effective(requested) ==
    LET closed == {e \in SUBSET (parent.families \union {"issue", "pull"}) :
                    /\ requested \union {"issue"} \subseteq e
                    /\ \A f \in e : Sources(f) \subseteq e}
    IN  CHOOSE e \in closed : \A other \in closed : e \subseteq other

IsRead(f) == f \notin {"issue", "pull"}
Snapshot(p) == IF p \in DOMAIN site THEN Cardinality(site[p]) ELSE 0

Init ==
    /\ InitReads
    /\ task = [number |-> 0, kind |-> "sync", state |-> "done", families |-> {}, item |-> None,
              force |-> FALSE, outcome |-> None]
    /\ archived = FALSE /\ attempt = FALSE /\ published = {}
    /\ root = None /\ detail = None
    /\ current = [f \in parent.families |-> None]

-----------------------------------------------------------------------------
(* What an issue and a pull are read with.  GraphQL does not give the      *)
(* number of review comments and who is asked to review.                   *)
Issue == [coverage |-> "complete", comments |-> Snapshot("comments"),
          reactions |-> Snapshot("reactions")]
Pull == [coverage |-> "complete", commits |-> Snapshot("commits"),
         range |-> IF "commits" \in DOMAIN site THEN Listed(site, "commits") ELSE <<>>,
         comments |-> None, reviewers |-> None]
RestPull == [Pull EXCEPT
    !.comments = Cardinality(Held(site, "review-comments")),
    !.reviewers = IF "reviewers" \in DOMAIN site THEN Listed(site, "reviewers") ELSE <<>>]
Unavailable == [coverage |-> "unavailable"]

NewTask(kind, families, item, force) ==
    /\ task.state = "done" /\ task.number < MaxTasks
    /\ task' = [number |-> task.number + 1, kind |-> kind, state |-> "pending",
                families |-> families, item |-> item, force |-> force, outcome |-> None]
    /\ published' = {}
    /\ UNCHANGED <<github, events, read, archived, attempt, root, detail, current>>

(* Discovery selects the parent: by a catalog entry, or by a signal only,  *)
(* which asks for the comments whatever the count says.                    *)
SyncTask ==
    \E item \in {None} \union (IF visible THEN {Issue} ELSE {}), force \in BOOLEAN :
        /\ item = None => force
        /\ NewTask("sync", (parent.families \ {"closing"}) \union {"issue", "pull"}, item, force)

(* refresh: families that apply to the parent, which must be archived. *)
RequireParent == archived
Applicable == {requested \in Selections : requested \subseteq parent.families}
RefreshTask ==
    \E requested \in Applicable :
        /\ RequireParent
        /\ NewTask("refresh", Effective(requested), None, FALSE)

Attempt ==
    /\ task.state = "pending" /\ ~attempt
    /\ attempt' = TRUE
    /\ UNCHANGED <<github, events, read, task, archived, published, root, detail, current>>

(* An error is recorded and the task stays pending; a crash records none.  *)
GiveUp == attempt' = FALSE /\ read' = NoRead
Stop ==
    /\ attempt /\ Event
    /\ GiveUp
    /\ UNCHANGED <<github, task, archived, published, root, detail, current>>

(* Without the fact it is read from a family is passed over: a cycle stops *)
(* at a detail that is missing, a refresh reads all that it still can.     *)
Missing(f) ==
    CASE f = "issue" -> root.coverage # "complete"
      [] f = "pull" -> detail.coverage # "complete"
      [] OTHER -> current[f].coverage # "complete"
PassedOver(f) == Sources(f) # {} /\ \A g \in Sources(f) : g \in published /\ Missing(g)

Left == {step \in Steps : step[2] \notin published /\ ~PassedOver(step[2])}
At(f) ==
    /\ attempt /\ read.state = "none"
    /\ \E step \in Left : step[2] = f /\ \A other \in Left : step[1] <= other[1]

Answered ==
    \/ Left = {}
    \/ "issue" \in published /\ Missing("issue")
    \/ task.kind = "sync" /\ "pull" \in published /\ Missing("pull")

(* A mutated form: as good as the parent itself.                           *)
AsTheRoot == IF Missing("issue") THEN "unavailable" ELSE "complete"

(* _aggregate_coverage: the worst of all families; those passed over are   *)
(* as good as what they are read from.                                     *)
Outcome ==
    IF \E f \in task.families : IF f \in published THEN Missing(f) ELSE PassedOver(f)
    THEN "unavailable" ELSE "complete"

FinishTask(outcome) ==
    /\ attempt /\ read.state = "none" /\ Answered
    /\ task' = [task EXCEPT !.state = "done", !.outcome = outcome] /\ attempt' = FALSE
    /\ UNCHANGED <<github, events, read, archived, published, root, detail, current>>

Finish == task.kind = "sync" /\ FinishTask(None)
FinishRefresh == task.kind = "refresh" /\ FinishTask(Outcome)

-----------------------------------------------------------------------------
(* issue: the catalog entry of discovery, or the issue itself. *)
ReadIssue ==
    /\ At("issue")
    /\ root' = IF task.item # None THEN task.item ELSE IF visible THEN Issue ELSE Unavailable
    /\ published' = published \union {"issue"}
    /\ archived' = (archived \/ root'.coverage = "complete")
    /\ UNCHANGED <<github, events, read, task, attempt, detail, current>>

(* pull, by either transport: only REST says conclusively that there is    *)
(* none, and only if it was asked first.                                   *)
ReadPull ==
    /\ At("pull") /\ ~Answered
    /\ \/ /\ visible /\ detail' \in {RestPull, Pull}
          /\ published' = published \union {"pull"} /\ UNCHANGED <<attempt, read>>
       \/ /\ ~visible /\ detail' = Unavailable
          /\ published' = published \union {"pull"} /\ UNCHANGED <<attempt, read>>
       \/ /\ ~visible /\ GiveUp /\ UNCHANGED <<published, detail>>
    /\ UNCHANGED <<github, events, task, archived, root, current>>

(* The transports of each family.  A REST list is validated if the current *)
(* fact has tags; commits beyond what GitHub lists are compared.           *)
Listing(f) == IF CachedPages(current[f]) # None THEN "validate" ELSE "list"
OneWay(f) == {Listing(f)}
EitherWay(f) == {Listing(f), "connection"}
ReviewWays == EitherWay("reviews")
CommitWays == {IF detail.commits > MaxListed THEN "compare" ELSE Listing("commits"),
               "connection"}
ReviewCommentWays == {Listing("review-comments"), "threads"}
ThreadWays == {"threads"}
RelationWays == {"connection"}
ClosingWays == {"connection"}
ReviewerWays == {"object"}

Ways(f) ==
    CASE f \in {"timeline", "events"} -> OneWay(f)
      [] f \in {"comments", "reactions"} \union Reacted -> EitherWay(f)
      [] f = "relations" -> RelationWays
      [] f = "reviews" -> ReviewWays
      [] f = "threads" -> ThreadWays
      [] f = "review-comments" -> ReviewCommentWays
      [] f = "commits" -> CommitWays
      [] f = "reviewers" -> ReviewerWays
      [] f = "closing" -> ClosingWays

(* The families whose answer is known: a count is zero, the threads have   *)
(* the review comments, the detail the reviewers.  How many reactions a    *)
(* comment has, and whether teams were asked for a review, is open here.   *)
NoComments == root.comments = 0 /\ ~task.force
NoReactions == root.reactions = 0
NoCommits == detail.commits = 0
InThreads == "threads" \in published /\ current["threads"].coverage = "complete"
NoReviewComments == IF InThreads THEN TRUE ELSE detail.comments = 0 /\ ~task.force
CommentSaysNone(f) == f \in Reacted
Embedded(f) == f = "reviewers" /\ detail.reviewers # None

Known(f) ==
    \/ f = "comments" /\ NoComments
    \/ f = "reactions" /\ NoReactions
    \/ f = "commits" /\ NoCommits
    \/ f = "review-comments" /\ NoReviewComments
MayBeKnown(f) == Known(f) \/ CommentSaysNone(f) \/ Embedded(f)

Flat(parts, got) == ByAge(UNION {ToSet(got[c]) : c \in parts \ {"threads"}})
Answer(f) ==
    CASE f = "review-comments" /\ InThreads -> current["threads"].comments
      [] f = "reviewers" -> detail.reviewers
      [] OTHER -> <<>>

Publish(f, fact) ==
    /\ current' = [current EXCEPT ![f] = fact]
    /\ published' = published \union {f}

(* _derived *)
Derive(f) ==
    /\ At(f) /\ IsRead(f) /\ ~Answered /\ MayBeKnown(f)
    /\ Publish(f, [coverage |-> "complete", value |-> Answer(f), cache |-> None])
    /\ UNCHANGED <<github, events, read, task, archived, attempt, root, detail>>

(* The current fact is what a read starts from. *)
StartRead(f) ==
    /\ At(f) /\ IsRead(f) /\ ~Answered /\ ~Known(f)
    /\ \E via \in Ways(f) :
        read' = Reading(f, via, Ways(f) \ {via}, current[f], detail)
    /\ UNCHANGED <<github, events, hydration>>

(* What is published of a read that is whole: the threads of a pull have   *)
(* its review comments, the relations of an issue no use here.             *)
ResourceFact == [coverage |-> "complete", cache |-> read.tags,
                 value |-> IF read.via = "threads" THEN Flat(read.parts, read.got)
                           ELSE read.got[read.family]]
ThreadsFact == [coverage |-> "complete", value |-> <<>>, cache |-> None,
                comments |-> Flat(read.parts, read.got)]
RelationsFact == [coverage |-> "complete", value |-> <<>>, cache |-> None]
ClosingFact == [coverage |-> "complete", value |-> read.got["closing"], cache |-> None]

PublishRead ==
    /\ read.state = "read"
    /\ Publish(read.family,
            CASE read.family = "threads" -> ThreadsFact
              [] read.family = "relations" -> RelationsFact
              [] read.family = "closing" -> ClosingFact
              [] OTHER -> ResourceFact)
    /\ read' = NoRead
    /\ UNCHANGED <<github, events, task, archived, attempt, root, detail>>

(* A conclusive failure is an answer; any other ends the attempt. *)
ReadFails ==
    /\ read.state = "failed"
    /\ \/ /\ read.missing = TRUE /\ Publish(read.family, Unavailable)
          /\ read' = NoRead /\ UNCHANGED attempt
       \/ /\ read.missing # TRUE /\ GiveUp /\ UNCHANGED <<current, published>>
    /\ UNCHANGED <<github, events, task, archived, root, detail>>

Work ==
    \/ Finish \/ FinishRefresh \/ ReadIssue \/ ReadPull
    \/ \E f \in parent.families : Derive(f) \/ StartRead(f)
    \/ ReadStep /\ UNCHANGED hydration
    \/ PublishRead \/ ReadFails

Next ==
    \/ SyncTask \/ RefreshTask \/ Attempt \/ Stop \/ Work
    \/ (GitHubChanges \/ Malformed) /\ UNCHANGED hydration

Spec == Init /\ [][Next]_vars

(* The daemon calls again and again, and a call runs while it can. *)
FairSpec == Spec /\ WF_vars(Attempt) /\ WF_vars(Work)

-----------------------------------------------------------------------------
(* A task that failed is one that a later attempt can complete, as long as *)
(* the parent is there.                                                    *)
TaskEnds == []visible => (task.state = "pending" ~> task.state = "done")

(* It is, unless the parent disappears, or commits are pushed, or taken    *)
(* back, after the task has published the detail they are counted by, or a *)
(* comment is withdrawn after the task has published it.                   *)
Moved ==
    \/ /\ "pull" \in published /\ detail.coverage = "complete"
       /\ "commits" \in DOMAIN site /\ detail.commits # Cardinality(site["commits"])
    \/ /\ "comments" \in published /\ current["comments"].coverage = "complete"
       /\ ~(Ids(ToSet(current["comments"].value)) \subseteq Ids(site["comments"]))
TaskEndsUnlessMoved ==
    (task.state = "pending" ~> task.state = "done") \/ <>[](Moved \/ ~visible)

(* A refresh that comes to complete has a complete fact of its own for     *)
(* every family it was asked for and all that these are read from, and for *)
(* the reactions to every comment it found.                                *)
RefreshIsWhole ==
    [][task.state = "pending" /\ task'.outcome = "complete" =>
        /\ task.families \ Reacted \subseteq published
        /\ \A f \in published : ~Missing(f)
        /\ "comments" \in published /\ task.families \intersect Reacted # {} =>
                \A c \in Ids(ToSet(current["comments"].value)) : ReactionsTo(c) \subseteq published]_task

=============================================================================
