------------------------------- MODULE GitStore -------------------------------
(***************************************************************************)
(* The bare repository beside an archive (git_store.py).  Branches are     *)
(* mirrored and pruned; what a fact has named is kept by refs of its own;  *)
(* commits are looked for at the refs that may reach them.  The remotes    *)
(* are external: their refs move and disappear while a call fetches one    *)
(* after the other.  A lock lets one call run at a time; it may fail, and  *)
(* the process may stop, between two Git commands.                         *)
(*                                                                         *)
(* A fetch brings a commit with all its history.  Trees and blobs of a     *)
(* commit may get lost in the store; commits and root trees do not.  Tags  *)
(* are like branches, and which branch is the default is left out.         *)
(***************************************************************************)
EXTENDS Integers, Sequences, SequencesExt, FiniteSets

CONSTANTS
    Commits, ParentOf,  \* history
    Branches,           \* refs/heads of the upstream repository
    Sources,            \* the other refs, in the order of _source_groups: each with
                        \* its name, kind, remote and the pull it belongs to
    Pulls,              \* numbers of pulls
    Details,            \* base, head and landing commit in the detail of a pull
    NamedBy,            \* the pulls whose facts name a commit
    Requests,           \* the sets of commits asked for in one call
    AtFirst,            \* where the remote refs are at the start
    RefBatchSize, MaxEvents, None

Names == {Sources[i].name : i \in DOMAIN Sources}
Remote == Branches \union Names
IsSource(s) ==
    /\ s.kind \in {"pull-ref", "repository-ref"} /\ s.pull \in Pulls
    /\ s.kind = "pull-ref" => s.remote = "origin"

(* A commit is named by a digest of its content, its parents included.     *)
IsHistory ==
    /\ ParentOf \in [Commits -> Commits \union {None}]
    /\ \E age \in [Commits -> 0 .. Cardinality(Commits)] :
          \A c \in Commits : ParentOf[c] # None => age[ParentOf[c]] < age[c]

ASSUME GitAssumption ==
    /\ None \notin Commits /\ IsHistory
    /\ Len(Sources) \in Nat /\ DOMAIN Sources = 1 .. Len(Sources)
    /\ \A i \in DOMAIN Sources : IsSource(Sources[i])
    /\ \A i, j \in DOMAIN Sources :
          i < j /\ Sources[i].kind = "repository-ref" => Sources[j].kind = "repository-ref"
    /\ {"managed-store", "upstream-refs"} \intersect Names = {}
    /\ \A n \in Pulls : \E i \in DOMAIN Sources : Sources[i].kind = "pull-ref" /\ Sources[i].pull = n
    /\ Requests \subseteq SUBSET Commits /\ Pulls \subseteq Nat
    /\ NamedBy \in [Commits -> SUBSET Pulls]
    /\ Details \in [Pulls -> [base : Commits, head : Commits, landing : Commits \union {None}]]
    /\ AtFirst \in [Remote -> Commits \union {None}]
    /\ RefBatchSize \in Nat \ {0} /\ MaxEvents \in Nat

(* commit_fetch_sources: the ref of each pull that names the commit, and   *)
(* the branch of the fork it comes from.                                   *)
Routes[c \in Commits] == {i \in DOMAIN Sources : Sources[i].pull \in NamedBy[c]}

VARIABLES
    tips,     \* the remote refs
    native,   \* refs/heads of the store
    pins,     \* refs of the archive: upstream, commit and pull refs
    staging,  \* staging refs of sources
    heads,    \* staging refs of pulls
    objects,  \* commits in the store
    broken,   \* those of which trees or blobs are missing
    synced,   \* _upstream_synced
    proven,   \* the archive has a git-refs fact of this cycle
    call,     \* the call that holds the lock
    once,     \* commits that were the tip of a native ref
    told,     \* commits that results, hence facts, say are retained
    events    \* moves of remote refs, losses of objects and failures

store == <<native, pins, staging, heads, objects, broken>>
vars == <<tips, store, synced, proven, call, once, told, events>>

Idle == [step |-> "idle"]
History[c \in Commits] ==
    {c} \union (IF ParentOf[c] = None THEN {} ELSE History[ParentOf[c]])
Reach(refs) == UNION {History[c] : c \in refs \ {None}}
Tip(i) == tips[Sources[i].name]
PullRef(n) == CHOOSE i \in DOMAIN Sources : Sources[i].kind = "pull-ref" /\ Sources[i].pull = n
NativeTips == {native[b] : b \in Branches} \ {None}

Init ==
    /\ tips = AtFirst
    /\ native = [b \in Branches |-> None] /\ pins = {}
    /\ staging = [i \in DOMAIN Sources |-> None] /\ heads = [n \in Pulls |-> None]
    /\ objects = {} /\ broken = {} /\ synced = FALSE /\ proven = FALSE
    /\ call = Idle /\ once = {} /\ told = {} /\ events = 0

Event == events < MaxEvents /\ events' = events + 1

(* A push, a forced push or the deletion of a ref. *)
Move(r) ==
    /\ Event
    /\ \E c \in Commits \union {None} : tips' = [tips EXCEPT ![r] = c]
    /\ call' = IF "steady" \notin DOMAIN call THEN call
               ELSE [call EXCEPT !.steady = {p \in @ : p[1] = r => p[2] \in Reach({tips'[r]})}]
    /\ UNCHANGED <<store, synced, proven, once, told>>

(* Trees or blobs of a commit are lost, between two calls. *)
Damage ==
    /\ call = Idle /\ Event
    /\ \E c \in objects \ broken : broken' = broken \union {c}
    /\ UNCHANGED <<tips, native, pins, staging, heads, objects, synced, proven, call, once, told>>

(* What a fetch brings.  What is here already is sent again only if the    *)
(* call asks for it (--refetch).                                           *)
Brought(commits, refetch) ==
    /\ objects' = objects \union Reach(commits)
    /\ broken' = IF refetch THEN broken \ Reach(commits) ELSE broken

-----------------------------------------------------------------------------
(* The calls. *)
Upstream ==
    /\ call = Idle
    /\ call' = [step |-> "pin", then |-> "maintain", refetch |-> FALSE]
    /\ UNCHANGED <<tips, store, synced, proven, once, told, events>>

(* _sync_upstream is skipped if it ran before. *)
Unless(step) == IF synced THEN step ELSE "pin"

Prefetch(numbers) ==
    /\ call = Idle
    /\ call' = [step |-> Unless("heads"), then |-> "heads", refetch |-> FALSE,
                groups |-> <<SetToSortSeq(numbers, <)>>]
    /\ UNCHANGED <<tips, store, synced, proven, once, told, events>>

Capture(n) ==
    /\ call = Idle
    /\ call' = [step |-> Unless("snapshot"), then |-> "snapshot", refetch |-> FALSE, pull |-> n]
    /\ UNCHANGED <<tips, store, synced, proven, once, told, events>>

(* A Git command fails, or its task is cancelled. *)
Fail ==
    /\ call # Idle /\ Event
    /\ call' = Idle
    /\ UNCHANGED <<tips, store, synced, proven, once, told>>

Restart ==
    /\ Event
    /\ call' = Idle /\ synced' = proven
    /\ UNCHANGED <<tips, store, proven, once, told>>

-----------------------------------------------------------------------------
(* A mutated form: only what the fetch brought is pinned. *)
NotYet == pins

(* _pin_upstream_refs: what the refs name now. *)
WithNative == pins \union NativeTips

PinBefore ==
    /\ call.step = "pin"
    /\ pins' = WithNative
    /\ call' = [call EXCEPT !.step = "fetch"]
    /\ UNCHANGED <<tips, native, staging, heads, objects, broken, synced, proven, once, told, events>>

(* The mirror is atomic; a branch that is gone is pruned. *)
Mirror ==
    /\ call.step = "fetch"
    /\ native' = [b \in Branches |-> tips[b]]
    /\ Brought({tips[b] : b \in Branches}, call.refetch)
    /\ once' = once \union ({tips[b] : b \in Branches} \ {None})
    /\ call' = [call EXCEPT !.step = "pin again"]
    /\ UNCHANGED <<tips, pins, staging, heads, synced, proven, told, events>>

PinAfter ==
    /\ call.step = "pin again"
    /\ pins' = pins \union NativeTips
    /\ call' = [call EXCEPT !.step = "set head"]
    /\ UNCHANGED <<tips, native, staging, heads, objects, broken, synced, proven, once, told, events>>

(* One more question to the remote: if it fails, all is fetched again. *)
SetHead ==
    /\ call.step = "set head"
    /\ synced' = TRUE
    /\ call' = [call EXCEPT !.step = call.then]
    /\ UNCHANGED <<tips, store, proven, once, told, events>>

(* Refs are packed and packs rewritten, but nothing is pruned. *)
Maintain ==
    /\ call.step = "maintain"
    /\ call' = [call EXCEPT !.step = IF "shas" \in DOMAIN call THEN "return" ELSE "observed"]
    /\ UNCHANGED <<tips, store, synced, proven, once, told, events>>

(* sync_upstream returns, and the lane publishes the fact. *)
Observed ==
    /\ call.step = "observed"
    /\ proven' = TRUE /\ told' = told \union NativeTips
    /\ call' = Idle
    /\ UNCHANGED <<tips, store, synced, once, events>>

-----------------------------------------------------------------------------
(* The refs of pulls of which the head is missing, if GitHub still has     *)
(* them.                                                                   *)
FetchHeads(numbers) ==
    LET missing == {n \in Pulls : n \in numbers /\ Details[n].head \notin objects}
        tip == [n \in missing |-> Tip(PullRef(n))] IN
    /\ heads' = [n \in Pulls |-> IF n \in DOMAIN tip /\ tip[n] # None THEN tip[n] ELSE heads[n]]
    /\ Brought({tip[n] : n \in DOMAIN tip}, FALSE)
    /\ UNCHANGED <<tips, native, pins, staging, synced, proven, once, told, events>>

(* _prefetch_git_group: a group of which the fetch fails is split.         *)
Heads ==
    /\ call.step = "heads" /\ call.groups # <<>>
    /\ FetchHeads(ToSet(Head(call.groups)))
    /\ call' = [call EXCEPT !.groups = Tail(@)]

SplitHeads ==
    /\ call.step = "heads" /\ call.groups # <<>>
    /\ LET group == Head(call.groups)
           middle == Len(group) \div 2 IN
       /\ Len(group) > 1
       /\ call' = [call EXCEPT !.groups =
              <<SubSeq(group, 1, middle), SubSeq(group, middle + 1, Len(group))>> \o Tail(@)]
    /\ UNCHANGED <<tips, store, synced, proven, once, told, events>>

Prefetched ==
    /\ call.step = "heads" /\ call.groups = <<>>
    /\ call' = Idle
    /\ UNCHANGED <<tips, store, synced, proven, once, told, events>>

Required == {Details[call.pull].base, Details[call.pull].head}
RefreshMissing ==
    /\ call.step = "snapshot" /\ ~(Required \subseteq objects)
    /\ FetchHeads({call.pull})
    /\ call' = [call EXCEPT !.step = "pin pull"]

(* _pin_snapshot and _pin_partial_snapshot: what is there of base, head    *)
(* and landing commit; the merge base is in their history.                 *)
Snapshot ==
    /\ \/ call.step = "snapshot" /\ Required \subseteq objects
       \/ call.step = "pin pull"
    /\ LET named == (Required \union {Details[call.pull].landing}) \cap objects IN
       /\ pins' = pins \union named
       /\ told' = told \union named
    /\ heads' = [heads EXCEPT ![call.pull] = None]
    /\ call' = Idle
    /\ UNCHANGED <<tips, native, staging, objects, broken, synced, proven, once, events>>

-----------------------------------------------------------------------------
(* retain_commits.  Sources of the commits that are missing or damaged are *)
(* tried in their order, in batches of one kind and remote.                *)
Broken(set) == {c \in set : History[c] \intersect broken # {}}
Outcome(c) ==
    IF c \notin objects THEN "unavailable" ELSE IF Broken({c}) # {} THEN "partial" ELSE "available"
Attempt(c, by, preflight) ==
    [sha |-> c, by |-> by, outcome |-> Outcome(c), preflight |-> preflight]

Targets(i, pending) == {c \in pending : i \in Routes[c]}
Fits(batch, i) ==
    /\ Cardinality(batch) < RefBatchSize
    /\ \A j \in batch : Sources[j].kind = Sources[i].kind /\ Sources[j].remote = Sources[i].remote
Batches(pending) ==
    LET made[i \in 0 .. Len(Sources)] ==
            IF i = 0 THEN <<>>
            ELSE LET last == Len(made[i - 1]) IN
                 IF Targets(i, pending) = {} THEN made[i - 1]
                 ELSE IF last > 0 /\ Fits(made[i - 1][last], i)
                 THEN [made[i - 1] EXCEPT ![last] = @ \union {i}]
                 ELSE Append(made[i - 1], {i})
    IN made[Len(Sources)]

(* steady is there for the properties: the commits a ref reached all along *)
Retain(shas) ==
    /\ call = Idle
    /\ LET pending == {c \in shas : Outcome(c) # "available"} IN
       call' = [step |-> "batch", then |-> "last", shas |-> shas, pending |-> pending,
                queue |-> Batches(pending), seen |-> None, fetch |-> {}, with |-> 0,
                refetch |-> FALSE, got |-> {},
                attempts |-> {Attempt(c, "managed-store", None) : c \in shas},
                steady |-> {p \in Names \X shas : p[2] \in Reach({tips[p[1]]})}]
    /\ UNCHANGED <<tips, store, synced, proven, once, told, events>>

Batch == {i \in DOMAIN Sources : i \in Head(call.queue) /\ Targets(i, call.pending) # {}}

OfRepositories == \E i \in Batch : Sources[i].kind = "repository-ref"

(* The commits that a verification found here, whole or not. *)
Verified == {a.sha : a \in {a \in call.attempts : a.outcome # "unavailable"}}

(* A batch whose commits have been found meanwhile is passed over. *)
PassOver ==
    /\ call.step = "batch" /\ call.queue # <<>> /\ Batch = {}
    /\ call' = [call EXCEPT !.queue = Tail(@)]
    /\ UNCHANGED <<tips, store, synced, proven, once, told, events>>

(* _observe_remote_refs: before the first batch of repository refs.  A     *)
(* question that fails leaves the ref unknown.                             *)
Observe ==
    /\ call.step = "batch" /\ call.queue # <<>> /\ Batch # {}
    /\ OfRepositories /\ call.seen = None
    /\ \E failed \in SUBSET {i \in DOMAIN Sources : Sources[i].kind = "repository-ref"} :
       call' = [call EXCEPT !.seen = [i \in DOMAIN Sources \ failed |-> Tip(i)]]
    /\ UNCHANGED <<tips, store, synced, proven, once, told, events>>

(* A mutated form: the pull's ref stands for the branch it came from.      *)
SamePull(i, j) ==
    /\ Sources[j].kind = "pull-ref" /\ Sources[j].pull = Sources[i].pull
    /\ staging[j] # None

(* _equivalent_pull_ref: the tip of the pull is the one that was observed. *)
Equivalent(i, j) ==
    /\ Sources[j].kind = "pull-ref" /\ Sources[j].pull = Sources[i].pull
    /\ staging[j] # None /\ staging[j] = call.seen[i]

(* The refs of the batch that have to be fetched: not those seen absent,   *)
(* nor those whose tip is here by another name.                            *)
Known(i) == call.seen # None /\ i \in DOMAIN call.seen /\ Sources[i].kind = "repository-ref"
By(i) == {j \in DOMAIN Sources : Known(i) /\ Equivalent(i, j)}
Absent(i) == Known(i) /\ call.seen[i] = None
Preflight(i) ==
    IF call.seen = None \/ Sources[i].kind = "pull-ref" THEN None
    ELSE IF ~Known(i) THEN "inconclusive"
    ELSE IF Absent(i) THEN "absent"
    ELSE IF By(i) # {} THEN "equivalent" ELSE "advertised"

Plan ==
    /\ call.step = "batch" /\ call.queue # <<>> /\ Batch # {}
    /\ OfRepositories => call.seen # None
    /\ LET fetch == {i \in Batch : ~Absent(i) /\ By(i) = {}}
           targets == UNION {Targets(i, call.pending) : i \in Batch} IN
       /\ call' = [call EXCEPT !.step = "fetch sources", !.fetch = fetch,
                               !.with = Cardinality(fetch),
                               !.refetch = targets \intersect Verified # {},
                               !.got = {i \in Batch : By(i) # {}}]
       /\ staging' = [i \in DOMAIN staging |-> IF i \in fetch THEN None ELSE staging[i]]
    /\ UNCHANGED <<tips, native, pins, heads, objects, broken, synced, proven, once, told, events>>

(* _fetch_source_batch: all at once, or, if one is missing or the          *)
(* connection fails, in parts down to one ref.                             *)
Fetched(set) ==
    LET here == {i \in set : Tip(i) # None} IN
    /\ staging' = [i \in DOMAIN staging |-> IF i \in here THEN Tip(i) ELSE staging[i]]
    /\ Brought({Tip(i) : i \in here}, call.refetch)
    /\ call' = [call EXCEPT !.fetch = @ \ set,
                            !.got = @ \union here]
    /\ UNCHANGED <<tips, native, pins, heads, synced, proven, once, told, events>>

FetchSources ==
    /\ call.step = "fetch sources" /\ call.fetch # {}
    /\ \/ (\A i \in call.fetch : Tip(i) # None) /\ Fetched(call.fetch)
       \/ \E i \in call.fetch : (\A j \in call.fetch : i <= j) /\ Fetched({i})

(* What the batch found.  A ref that was fetched among others counts only  *)
(* for the commits it reaches itself.                                      *)
Evidence(i) == IF By(i) # {} THEN staging[CHOOSE j \in By(i) : TRUE] ELSE staging[i]
Candidates(i) ==
    {c \in Targets(i, call.pending) :
        /\ i \in call.got
        /\ (call.with > 1 \/ By(i) # {}) => c \in Reach({Evidence(i)})}

Tried(i) ==
    {[Attempt(c, Sources[i].name, Preflight(i)) EXCEPT
        !.outcome = IF c \in Candidates(i) THEN @ ELSE "unavailable"] : c \in Targets(i, call.pending)}

Attribute ==
    /\ call.step = "fetch sources" /\ call.fetch = {}
    /\ LET tried == UNION {Tried(i) : i \in Batch} IN
       call' = [call EXCEPT
           !.step = "batch", !.queue = Tail(@), !.attempts = @ \union tried,
           !.pending = {c \in @ : \A a \in tried : a.sha = c => a.outcome # "available"}]
    /\ UNCHANGED <<tips, store, synced, proven, once, told, events>>

(* The branches are the last resort, unless they have been fetched, or     *)
(* are fetched again for what is damaged.                                  *)
LastResort ==
    /\ call.step = "batch" /\ call.queue = <<>>
    /\ LET refetch == call.pending \intersect Verified # {} IN
       call' = [call EXCEPT !.refetch = refetch,
                            !.step = IF call.pending = {} THEN "pin commits"
                                     ELSE IF refetch THEN "pin" ELSE Unless("last")]
    /\ UNCHANGED <<tips, store, synced, proven, once, told, events>>

Upmost ==
    /\ call.step = "last"
    /\ call' = [call EXCEPT
           !.step = "pin commits",
           !.attempts = @ \union {Attempt(c, "upstream-refs", None) : c \in call.pending},
           !.pending = {c \in @ : Outcome(c) # "available"}]
    /\ UNCHANGED <<tips, store, synced, proven, once, told, events>>

PinCommits ==
    /\ call.step = "pin commits"
    /\ pins' = pins \union Verified
    /\ call' = [call EXCEPT !.step = "clear"]
    /\ UNCHANGED <<tips, native, staging, heads, objects, broken, synced, proven, once, told, events>>

Clear ==
    /\ call.step = "clear"
    /\ staging' = [i \in DOMAIN Sources |-> None]
    /\ call' = [call EXCEPT !.step = "maintain"]
    /\ UNCHANGED <<tips, native, pins, heads, objects, broken, synced, proven, once, told, events>>

Result(c) ==
    IF c \notin Verified THEN "unavailable" ELSE IF c \in call.pending THEN "partial" ELSE "available"
Return ==
    /\ call.step = "return"
    /\ told' = told \union {c \in call.shas : Result(c) # "unavailable"}
    /\ call' = Idle
    /\ UNCHANGED <<tips, store, synced, proven, once, events>>

Next ==
    \/ \E r \in Remote : Move(r)
    \/ Damage \/ Upstream \/ Fail \/ Restart
    \/ \E numbers \in SUBSET Pulls \ {{}} : Prefetch(numbers)
    \/ \E n \in Pulls : Capture(n)
    \/ \E shas \in Requests : Retain(shas)
    \/ PinBefore \/ Mirror \/ PinAfter \/ SetHead \/ Maintain \/ Observed
    \/ Heads \/ SplitHeads \/ Prefetched \/ RefreshMissing \/ Snapshot
    \/ PassOver \/ Observe \/ Plan \/ FetchSources \/ Attribute
    \/ LastResort \/ Upmost \/ PinCommits \/ Clear \/ Return

Spec == Init /\ [][Next]_vars

-----------------------------------------------------------------------------
(* A commit that once was the tip of a branch, or that a fact says is      *)
(* retained, stays within the history of the store's refs, whatever is     *)
(* pushed, pruned or interrupted.                                          *)
NothingLetGo ==
    once \union told \subseteq Reach(NativeTips \union pins \union {staging[i] : i \in DOMAIN Sources})

(* A commit is given up as unavailable, or one that was damaged before the *)
(* call is left so, only after an attempt at each of its refs, and only if *)
(* none of them reached it from the beginning of the call to its end.      *)
GivenUp ==
    {c \in call.shas :
        \/ Result(c) = "unavailable"
        \/ Result(c) = "partial" /\ \E a \in call.attempts :
               a.sha = c /\ a.by = "managed-store" /\ a.outcome = "partial"}
NothingOverlooked ==
    call.step = "pin commits" => \A c \in GivenUp : \A i \in Routes[c] :
        /\ <<Sources[i].name, c>> \notin call.steady
        /\ \E a \in call.attempts : a.sha = c /\ a.by = Sources[i].name

=============================================================================
