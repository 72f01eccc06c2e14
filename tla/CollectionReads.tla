--------------------------- MODULE CollectionReads ----------------------------
(***************************************************************************)
(* How the client (client.py) reads a collection that changes while it is  *)
(* paged: REST pages by number, validated against the entity tags of an    *)
(* earlier read; GraphQL connections behind a cursor, one at a time, in    *)
(* step, or nested in each other.  GitHub is external: the tag of a page   *)
(* is its content, a cursor is the last item seen, new items go last.      *)
(* Which transport goes first depends on quotas (module RateLimits) and is *)
(* open here.                                                              *)
(***************************************************************************)
EXTENDS Integers, Sequences, SequencesExt, FiniteSets, FiniteSetsExt

CONSTANTS
    Parents,    \* the issue or pull that is read: its connections, at the start and
                \* as sets of identities, those that change, the families that are read
    Inner,      \* the connection of the comments of each review thread
    Reactions,  \* the connection of the reactions to each comment
    PageSize,   \* 100
    MaxListed,  \* 250, the most commits GitHub lists of one pull
    MaxEvents,  \* bound on what happens to a task: changes on GitHub, stops
    None

Threads == DOMAIN Inner
Comments == {Inner[t] : t \in Threads}
ReactionsTo(c) == IF c \in DOMAIN Reactions THEN {Reactions[c]} ELSE {}
Reacted == UNION {ReactionsTo(c) : c \in DOMAIN Reactions}

(* The connections a family is read from. *)
Connections(family) ==
    CASE family \in {"threads", "review-comments"} -> {"threads"} \union Comments
      [] family = "relations" -> {"subIssues", "blockedBy", "blocking"}
      [] family = "closing" -> {"closing", "closing of another"}
      [] OTHER -> {family}

(* An identity is given once, and a thread has its comments.               *)
ASSUME ReadsAssumption ==
    /\ \A k \in Parents :
        /\ k.kind \in {"issue", "pull"} /\ k.changing \subseteq DOMAIN k.initial
        /\ IsFiniteSet(DOMAIN k.initial)
        /\ \A p \in DOMAIN k.initial : k.initial[p] \in SUBSET Nat /\ IsFiniteSet(k.initial[p])
        /\ \A p, q \in DOMAIN k.initial : p # q => k.initial[p] \intersect k.initial[q] = {}
        /\ UNION {Connections(f) : f \in k.families} \subseteq DOMAIN k.initial
        /\ "threads" \in DOMAIN k.initial =>
              k.initial["threads"] =
                  {t \in Threads : Inner[t] \in DOMAIN k.initial /\ k.initial[Inner[t]] # {}}
    /\ DOMAIN Inner \subseteq Nat /\ IsInjective(Inner) /\ DOMAIN Reactions \subseteq Nat
    /\ Comments \intersect {"threads", "review-comments"} = {}
    /\ PageSize \in Nat \ {0} /\ {MaxListed, MaxEvents} \subseteq Nat /\ None \notin Nat

VARIABLES
    parent,   \* the one of Parents
    site,     \* GitHub: the items of each connection
    born,     \* GitHub: the last identity given
    visible,  \* GitHub: whether the parent can be read
    events,   \* what happened so far
    read      \* the read in progress

github == <<parent, site, born, visible>>

Ids(items) == {item.id : item \in items}
Items(ids) == [id : ids, version : {0}]

(* What is listed is listed by age: identities are given in order.         *)
ByAge(items) ==
    [i \in 1 .. Cardinality(items) |->
        CHOOSE item \in items : Cardinality({id \in Ids(items) : id <= item.id}) = i]

(* The review comments of a pull are one list in REST.                     *)
Held(s, p) ==
    IF p = "review-comments" THEN UNION {s[c] : c \in Comments \intersect DOMAIN s} ELSE s[p]
Listed(s, p) == ByAge(Held(s, p))
Tagged(parts, s) == UNION {{<<p, item>> : item \in Held(s, p)} : p \in parts}
Pairs(lists) == UNION {{<<p, item>> : item \in ToSet(lists[p])} : p \in DOMAIN lists}

(* What can not be read: anything of a parent that is hidden, and the      *)
(* reactions to a comment that was withdrawn.                              *)
Gone(p) ==
    \/ ~visible
    \/ \E c \in DOMAIN Reactions : Reactions[c] = p /\ c \notin Ids(site["comments"])

(* What a read has.  The last fields are there for the properties: what    *)
(* was on the site all along, what was there at all, whether any left.     *)
NoRead == [state |-> "none"]
PartsOf(family, via) ==
    IF family = "review-comments" /\ via # "threads" THEN {family} ELSE Connections(family)

Reading(family, via, left, previous, detail) ==
    LET parts == PartsOf(family, via) IN
    [state |-> "running", family |-> family, parts |-> parts, via |-> via, left |-> left,
     missing |-> None, previous |-> previous, detail |-> detail, page |-> 1,
     got |-> [p \in parts |-> <<>>], tags |-> None, total |-> [p \in parts |-> None],
     open |-> {}, queue |-> <<>>,
     stay |-> Tagged(parts, site), ever |-> Tagged(parts, site), shifted |-> FALSE]

InitReads ==
    /\ parent \in Parents
    /\ site = [p \in DOMAIN parent.initial |-> Items(parent.initial[p])]
    /\ born = Max({0} \union UNION {parent.initial[p] : p \in DOMAIN parent.initial})
    /\ visible = TRUE /\ events = 0 /\ read = NoRead

Running(via) == read.state = "running" /\ read.via = via

-----------------------------------------------------------------------------
Event == events < MaxEvents /\ events' = events + 1

(* GitHub changes. *)
Change(new) ==
    /\ Event
    /\ site' = new
    /\ read' = IF read.state # "running" THEN read
               ELSE [read EXCEPT !.stay = @ \cap Tagged(read.parts, new),
                                 !.ever = @ \union Tagged(read.parts, new),
                                 !.shifted = @ \/ \E p \in read.parts :
                                    ~(Ids(Held(site, p)) \subseteq Ids(Held(new, p)))]
    /\ UNCHANGED <<parent, visible>>

Add(p) ==
    LET item == [id |-> born + 1, version |-> 0] IN
    IF p = "threads"
    THEN /\ item.id \in Threads /\ born' = born + 2
         /\ Change([site EXCEPT ![p] = @ \union {item},
                                ![Inner[item.id]] = {[id |-> born + 2, version |-> 0]}])
    ELSE /\ p \in Comments => site[p] # {}
         /\ born' = born + 1 /\ Change([site EXCEPT ![p] = @ \union {item}])

Edit(p) ==
    /\ UNCHANGED born
    /\ \E item \in site[p] :
        Change([site EXCEPT ![p] = (@ \ {item}) \union {[item EXCEPT !.version = @ + 1]}])

(* With the last of its comments a thread goes too, and with a comment the *)
(* reactions to it.                                                        *)
Withdraw(p) ==
    /\ p # "threads" /\ UNCHANGED born
    /\ \E item \in site[p] :
       IF p \in Comments /\ site[p] = {item}
       THEN Change([site EXCEPT ![p] = {}, !["threads"] = {x \in @ : Inner[x.id] # p}])
       ELSE Change([q \in DOMAIN site |->
                IF q = p THEN site[p] \ {item}
                ELSE IF p = "comments" /\ q \in ReactionsTo(item.id) THEN {}
                ELSE site[q]])

HideOrShow ==
    /\ visible' = ~visible
    /\ IF visible THEN Event ELSE UNCHANGED events
    /\ UNCHANGED <<parent, site, born, read>>

GitHubChanges == HideOrShow \/ \E p \in parent.changing : Add(p) \/ Edit(p) \/ Withdraw(p)

-----------------------------------------------------------------------------
(* A mutated form: a full last page is taken for the end.                  *)
AnyPages(tags) == tags # <<>> /\ \A i \in 1 .. Len(tags) - 1 : Len(tags[i]) = PageSize

(* Tags are kept, and used, only if their pages show where the list ends:  *)
(* a page that is not full can not have been followed by another.          *)
Closed(tags) ==
    /\ tags # <<>>
    /\ \A i \in 1 .. Len(tags) - 1 : Len(tags[i]) = PageSize
    /\ Len(Last(tags)) < PageSize

(* _cached_pages: the tags an earlier fact may be validated with, which    *)
(* have as many items as it.                                               *)
Sizes(tags) == (Len(tags) - 1) * PageSize + Len(Last(tags))
CachedPages(fact) ==
    IF fact # None /\ fact.coverage = "complete" /\ fact.cache # None
       /\ Closed(fact.cache) /\ Sizes(fact.cache) = Len(fact.value)
    THEN fact.cache ELSE None

Page(s, n) == SubSeq(s, (n - 1) * PageSize + 1, Min({n * PageSize, Len(s)}))
HasNext(s, n) == Len(s) > n * PageSize

Part == CHOOSE p \in read.parts : TRUE

(* A failed attempt: the other transport is tried, and the first failure   *)
(* is the one that is raised; only some of them say that nothing is there. *)
Failed(conclusive, next) ==
    LET missing == IF read.missing = None THEN conclusive ELSE read.missing IN
    IF read.left = {}
    THEN [read EXCEPT !.state = "failed", !.missing = missing]
    ELSE [next EXCEPT !.missing = missing]

(* _either: the same collection by the other transport, from the start. *)
OtherWay == Reading(read.family, CHOOSE v \in read.left : TRUE, {}, read.previous, read.detail)
NotFound == read' = Failed(TRUE, OtherWay)
Inconsistent == read' = Failed(FALSE, OtherWay)

(* A mutated form: the comments of the threads are counted likewise.       *)
CommentsToo(got) ==
    /\ read.family = "commits" => Len(got["commits"]) = read.detail.commits
    /\ read.family = "threads" /\ read.detail.coverage = "complete" => read.detail.comments =
            Cardinality(UNION {Ids(ToSet(got[c])) : c \in Comments})

(* check_size: as many commits as the detail of the pull gave. *)
SizeFits(got) ==
    read.family = "commits" => Len(got["commits"]) = read.detail.commits

Done(got, tags) ==
    IF SizeFits(got) THEN [read EXCEPT !.state = "read", !.got = got, !.tags = tags, !.open = {}]
    ELSE Failed(FALSE, OtherWay)

(* _paginate_response: one page after the other, and the tags of all. *)
ListPage ==
    LET p == Part
        list == Listed(site, p)
        content == Page(list, read.page)
        got == [read.got EXCEPT ![p] = @ \o content]
        tags == IF read.page = 1 THEN <<content>> ELSE Append(read.tags, content)
    IN  /\ Running("list")
        /\ IF Gone(p) THEN NotFound
           ELSE read' = IF HasNext(list, read.page)
                        THEN [read EXCEPT !.page = @ + 1, !.got = got, !.tags = tags]
                        ELSE Done(got, IF Closed(tags) THEN tags ELSE None)
        /\ UNCHANGED <<github, events>>

(* _paginate_cached: pages are asked for by their tags as long as none has *)
(* changed.  A changed first page begins the list; after another the list  *)
(* is begun anew.                                                          *)
ValidatePage ==
    LET p == Part
        cached == read.previous.cache
        list == Listed(site, p)
        content == Page(list, read.page)
        fresh == [read EXCEPT !.via = "list", !.page = 1]
    IN  /\ Running("validate")
        /\ IF Gone(p) THEN NotFound
           ELSE read' =
                IF content = cached[read.page]
                THEN IF read.page < Len(cached) THEN [read EXCEPT !.page = @ + 1]
                     ELSE Done([read.got EXCEPT ![p] = read.previous.value], cached)
                ELSE IF read.page > 1 THEN fresh
                ELSE IF HasNext(list, 1)
                     THEN [fresh EXCEPT !.page = 2, !.got[p] = content, !.tags = <<content>>]
                     ELSE Done([read.got EXCEPT ![p] = content],
                               IF Closed(<<content>>) THEN <<content>> ELSE None)
        /\ UNCHANGED <<github, events>>

(* _compare_commits: the range between two commits never changes, but one  *)
(* of them may be gone, and pages of it may not agree.                     *)
Compare ==
    /\ Running("compare")
    /\ \/ read' = Done([read.got EXCEPT ![Part] = read.detail.range], None) /\ UNCHANGED events
       \/ Event /\ (NotFound \/ Inconsistent)
    /\ UNCHANGED github

-----------------------------------------------------------------------------
(* One page of a connection behind the items that were read. *)
After(p, items) ==
    LET rest == {item \in site[p] : \A i \in DOMAIN items : items[i].id < item.id}
    IN  [nodes |-> Page(ByAge(rest), 1), more |-> Cardinality(rest) > PageSize,
         total |-> Cardinality(site[p])]

(* A mutated form: the number of items is not compared at the end. *)
CountsUnchecked(total, page, items) == total \in {None, page.total}

(* As every pager has it: the total stays what it was on the first page,   *)
(* and at the end it is the number of items.                               *)
Consistent(total, page, items) ==
    /\ total \in {None, page.total}
    /\ ~page.more => Len(items) = page.total

(* All connections that are open are paged in step: the three relations of *)
(* an issue, the issues closed by each pull of a batch; otherwise one.     *)
Active == IF read.open = {} THEN read.parts ELSE read.open

(* The read behind the next page of the active connections. *)
Appended(page) ==
    [read EXCEPT !.got = [p \in read.parts |-> IF p \in Active THEN @[p] \o page[p].nodes ELSE @[p]],
                 !.total = [p \in read.parts |-> IF p \in Active THEN page[p].total ELSE @[p]],
                 !.open = {p \in Active : page[p].more}]

(* One request of a pager; what it makes of a parent that is not there.    *)
NextPage(families, missing) ==
    LET page == [p \in Active |-> After(p, read.got[p])]
        next == Appended(page)
    IN  /\ Running("connection") /\ read.family \in families
        /\ IF \E p \in Active : Gone(p) THEN missing
           ELSE IF \E p \in Active : ~Consistent(read.total[p], page[p], next.got[p])
           THEN Inconsistent
           ELSE read' = IF next.open = {} THEN Done(next.got, None) ELSE next
        /\ UNCHANGED <<github, events>>

(* _parent_connection, _pull_connection, _node_items, _graphql_issue_relations *)
(* and closing_issue_references.  Only relations whose issue is not found  *)
(* by the first request are known not to be there.                         *)
ParentPage == NextPage({"comments"}, Inconsistent)
PullPage == NextPage({"reviews", "commits"}, Inconsistent)
NodePage == NextPage({"reactions"} \union UNION {ReactionsTo(c) : c \in DOMAIN Reactions}, Inconsistent)
RelationsPage == NextPage({"relations"}, IF read.open = {} THEN NotFound ELSE Inconsistent)
ClosingPage == NextPage({"closing"}, Inconsistent)

(* get_json_cached: one object, validated by its tag if there is one. *)
ObjectRead ==
    LET content == Listed(site, Part) IN
    /\ Running("object")
    /\ IF Gone(Part) THEN NotFound
       ELSE read' = Done([read.got EXCEPT ![Part] =
                IF read.previous # None /\ read.previous.coverage = "complete"
                   /\ read.previous.cache # None /\ read.previous.cache = <<content>>
                THEN read.previous.value ELSE content], <<content>>)
    /\ UNCHANGED <<github, events>>

(* _graphql_review_threads: a page of threads, each with the first page of *)
(* its comments, which are read to their end (_finish_node_connection)     *)
(* before the next page of threads.                                        *)
ThreadsPage ==
    LET page == After("threads", read.got["threads"])
        found == [i \in DOMAIN page.nodes |-> Inner[page.nodes[i].id]]
        first == [p \in ToSet(found) |-> After(p, <<>>)]
    IN  /\ Running("threads") /\ read.queue = <<>>
        /\ read.total["threads"] = None \/ "threads" \in read.open
        /\ IF ~visible THEN read' = Failed(read.family = "threads", OtherWay)
           ELSE IF read.total["threads"] \notin {None, page.total} THEN Inconsistent
           ELSE read' = [read EXCEPT
                !.got = [p \in read.parts |->
                            IF p = "threads" THEN @["threads"] \o page.nodes
                            ELSE IF p \in ToSet(found) THEN first[p].nodes ELSE @[p]],
                !.total = [p \in read.parts |->
                            IF p = "threads" THEN page.total
                            ELSE IF p \in ToSet(found) THEN first[p].total ELSE @[p]],
                !.open = {p \in ToSet(found) : first[p].more}
                            \union (IF page.more THEN {"threads"} ELSE {}),
                !.queue = found]
        /\ UNCHANGED <<github, events>>

CommentsPage ==
    LET p == Head(read.queue)
        page == After(p, read.got[p])
        got == read.got[p] \o page.nodes
    IN  /\ Running("threads") /\ read.queue # <<>> /\ p \in read.open
        /\ IF ~visible \/ site[p] = {} \/ read.total[p] # page.total THEN Inconsistent
           ELSE read' = [read EXCEPT !.got[p] = got,
                                     !.open = IF page.more THEN @ ELSE @ \ {p}]
        /\ UNCHANGED <<github, events>>

ThreadEnds ==
    LET p == Head(read.queue) IN
    /\ Running("threads") /\ read.queue # <<>> /\ p \notin read.open
    /\ IF Len(read.got[p]) # read.total[p] THEN Inconsistent
       ELSE read' = [read EXCEPT !.queue = Tail(@)]
    /\ UNCHANGED <<github, events>>

ThreadsEnd ==
    /\ Running("threads") /\ read.queue = <<>>
    /\ read.total["threads"] # None /\ "threads" \notin read.open
    /\ IF Len(read.got["threads"]) # read.total["threads"] THEN Inconsistent
       ELSE read' = Done(read.got, None)
    /\ UNCHANGED <<github, events>>

(* An answer without the form it must have. *)
MalformedPage ==
    /\ read.state = "running" /\ read.via \in {"list", "validate", "object"}
    /\ Event /\ Inconsistent /\ UNCHANGED github
MalformedConnection ==
    /\ read.state = "running" /\ read.via \in {"connection", "threads"}
    /\ Event /\ Inconsistent /\ UNCHANGED github

Malformed == MalformedPage \/ MalformedConnection

ReadStep == \/ ListPage \/ ValidatePage \/ Compare \/ ObjectRead
            \/ ParentPage \/ PullPage \/ NodePage \/ RelationsPage \/ ClosingPage
            \/ ThreadsPage \/ CommentsPage \/ ThreadEnds \/ ThreadsEnd

-----------------------------------------------------------------------------
Ends == read.state = "running" /\ read'.state = "read"

(* A collection that was read has every item that was there, unchanged,    *)
(* from the first request to the last, each once and nothing that never    *)
(* was there; only the numbered pages of REST may skip one when another    *)
(* leaves the list meanwhile.                                              *)
ReadIsWhole ==
    [][Ends /\ read.via # "compare" =>
        LET items == Pairs(read'.got) IN
        /\ items \subseteq read.ever
        /\ (read.via \in {"list", "validate"} /\ read.shifted) \/ read.stay \subseteq items
        /\ \A p \in read.parts : Cardinality(Ids(ToSet(read'.got[p]))) = Len(read'.got[p])]_read

(* The count GraphQL gives makes a connection exact: at its last page the  *)
(* items that were read are the items that are there.                      *)
InStep == Running("connection") /\ read'.state \in {"running", "read"}
CountedIsCurrent ==
    [][InStep => (read'.via = "connection" =>
        \A p \in read.open \ read'.open : Ids(ToSet(read'.got[p])) = Ids(site[p]))]_read

=============================================================================
