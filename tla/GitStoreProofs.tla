---------------------------- MODULE GitStoreProofs ----------------------------
(***************************************************************************)
(* Proofs about GitStore, for every history, set of refs, batch size and   *)
(* number of events.                                                       *)
(***************************************************************************)
EXTENDS GitStore, SequenceTheorems, WellFoundedInduction, TLAPS

-----------------------------------------------------------------------------
(* The history of a commit. *)

(* The recursive definition has a solution: what every set that holds the  *)
(* commit and is closed under parents has in common.                       *)
LEMMA HistoryUnfolds ==
    \A c \in Commits :
       History[c] = {c} \union (IF ParentOf[c] = None THEN {} ELSE History[ParentOf[c]])
  <1> DEFINE Closed(S) == \A x \in S : ParentOf[x] # None => ParentOf[x] \in S
             Least(c) == {x \in Commits : \A S \in SUBSET Commits : c \in S /\ Closed(S) => x \in S}
             F(h, c) == {c} \union (IF ParentOf[c] = None THEN {} ELSE h[ParentOf[c]])
             h == [c \in Commits |-> Least(c)]
  <1>1. ASSUME NEW c \in Commits PROVE Least(c) = F(h, c)
    <2>1. CASE ParentOf[c] = None
      <3>1. {c} \in SUBSET Commits /\ c \in {c} /\ Closed({c})
        BY <2>1
      <3>2. Least(c) \subseteq {c}
        BY <3>1
      <3> QED
        BY <2>1, <3>2
    <2>2. CASE ParentOf[c] # None
      <3>1. ParentOf[c] \in Commits
        BY <2>2, GitAssumption DEF IsHistory
      <3>2. ASSUME NEW x \in Least(c), x # c PROVE x \in Least(ParentOf[c])
        <4> SUFFICES ASSUME NEW S \in SUBSET Commits, ParentOf[c] \in S, Closed(S) PROVE x \in S
          OBVIOUS
        <4>1. Closed(S \union {c}) /\ S \union {c} \in SUBSET Commits
          OBVIOUS
        <4> QED
          BY <3>2, <4>1
      <3>3. ASSUME NEW x \in Least(ParentOf[c]) PROVE x \in Least(c)
        BY <2>2, <3>1
      <3> QED
        BY <2>2, <3>1, <3>2, <3>3
    <2> QED
      BY <2>1, <2>2
  <1> HIDE DEF Least
  <1>2. h = [c \in Commits |-> F(h, c)]
    BY <1>1
  <1> HIDE DEF h
  <1>3. History = [c \in Commits |-> F(History, c)]
    BY <1>2 DEF History
  <1> QED
    BY <1>3

LEMMA Least == ASSUME NEW T \in SUBSET Nat, T # {} PROVE \E n \in T : \A m \in T : n <= m
  <1>0. T \subseteq Nat
    OBVIOUS
  <1>1. PICK n \in T : \A m \in T : ~(<<m, n>> \in OpToRel(<, Nat))
    BY <1>0, WFMin, NatLessThanWellFounded
  <1>2. \A m \in T : ~(m < n)
    BY <1>0, <1>1 DEF OpToRel
  <1> QED
    BY <1>0, <1>2

(* A set of commits has one of which the parent is not in it: the one of   *)
(* the smallest age.                                                       *)
LEMMA Eldest ==
    ASSUME NEW T \in SUBSET Commits, T # {}
    PROVE  \E c \in T : ParentOf[c] \notin T
  <1>1. PICK age \in [Commits -> 0 .. Cardinality(Commits)] :
             \A c \in Commits : ParentOf[c] # None => age[ParentOf[c]] < age[c]
    BY GitAssumption DEF IsHistory
  <1> DEFINE Ages == {age[c] : c \in T}
  <1>2. Ages \in SUBSET Nat /\ Ages # {}
    OBVIOUS
  <1>3. PICK n \in Ages : \A m \in Ages : n <= m
    BY <1>2, Least
  <1>4. PICK c \in T : age[c] = n
    OBVIOUS
  <1>5. ASSUME ParentOf[c] \in T PROVE FALSE
    <2>1. age[ParentOf[c]] < n /\ age[ParentOf[c]] \in Ages
      BY <1>1, <1>4, <1>5, GitAssumption
    <2> HIDE DEF Ages
    <2>2. n <= age[ParentOf[c]] /\ n \in Nat /\ age[ParentOf[c]] \in Nat
      BY <1>2, <1>3, <2>1
    <2> QED
      BY <2>1, <2>2
  <1> QED
    BY <1>5

(* The history of a commit consists of commits.                            *)
LEMMA HistoryIsCommits == \A c \in Commits : History[c] \subseteq Commits
  <1> DEFINE T == {c \in Commits : ~(History[c] \subseteq Commits)}
  <1> SUFFICES ASSUME T # {} PROVE FALSE
    OBVIOUS
  <1>1. PICK c \in T : ParentOf[c] \notin T
    BY Eldest
  <1>2. ParentOf[c] = None \/ ParentOf[c] \in Commits
    BY GitAssumption DEF IsHistory
  <1> QED
    BY <1>1, <1>2, HistoryUnfolds

(* What is in the history of a commit has its own history there.           *)
LEMMA HistoryIsClosed ==
    \A c \in Commits : \A d \in History[c] : History[d] \subseteq History[c]
  <1> DEFINE T == {c \in Commits : ~(\A d \in History[c] : History[d] \subseteq History[c])}
  <1> SUFFICES ASSUME T # {} PROVE FALSE
    OBVIOUS
  <1>1. PICK c \in T : ParentOf[c] \notin T
    BY Eldest
  <1>2. ParentOf[c] = None \/ ParentOf[c] \in Commits
    BY GitAssumption DEF IsHistory
  <1> QED
    BY <1>1, <1>2, HistoryUnfolds

-----------------------------------------------------------------------------
(* What the store holds. *)

(* Which fields a call has, and where it is in them.                       *)
Retains == "shas" \in DOMAIN call
RetainSteps == {"batch", "fetch sources", "last", "pin commits", "clear", "return"}

Shape ==
    /\ "step" \in DOMAIN call
    /\ call.step # "idle" => "then" \in DOMAIN call
    /\ call.step \in RetainSteps => Retains
    /\ Retains => {"then", "attempts", "pending", "fetch"} \subseteq DOMAIN call
    /\ call.step \in {"snapshot", "pin pull"} => "pull" \in DOMAIN call
    /\ "then" \in DOMAIN call =>
         /\ call.then \in {"maintain", "heads", "snapshot", "last"}
         /\ call.then = "last" <=> Retains
         /\ call.then = "snapshot" => "pull" \in DOMAIN call

TypedCall ==
    /\ "pull" \in DOMAIN call => call.pull \in Pulls
    /\ Retains => /\ call.shas \in SUBSET Commits /\ call.pending \subseteq call.shas
                  /\ call.fetch \subseteq DOMAIN Sources

TypedRefs ==
    /\ tips \in [Remote -> Commits \union {None}]
    /\ native \in [Branches -> Commits \union {None}]
    /\ pins \subseteq Commits /\ objects \subseteq Commits

(* The store has the history of what it has, and has what it refers to.    *)
Whole == \A c \in objects : History[c] \subseteq objects
Here == pins \union NativeTips \subseteq objects

(* What was ever a tip or was ever promised is the target of a ref.        *)
Held == once \union told \subseteq pins \union NativeTips

(* What a call found is in the store.                                      *)
FoundHere == Retains => Verified \subseteq objects

(* The mirror may let go of the branches it has: they are pinned.          *)
PinnedFirst == call.step = "fetch" => NativeTips \subseteq pins

(* What a call will report as retained is pinned once it says so.          *)
PinnedBeforeTold ==
    Retains /\ call.step \in {"clear", "maintain", "return"} => Verified \subseteq pins

StoreInv == TypedRefs /\ Whole /\ Here /\ Held
CallInv == Shape /\ TypedCall /\ FoundHere /\ PinnedFirst /\ PinnedBeforeTold
IInv == StoreInv /\ CallInv

LEMMA BringsWhole ==
    ASSUME Whole, objects \subseteq Commits, NEW set \in SUBSET (Commits \union {None}),
           objects' = objects \union Reach(set)
    PROVE  Whole' /\ objects' \subseteq Commits /\ objects \subseteq objects' /\ set \ {None} \subseteq objects'
  BY HistoryUnfolds, HistoryIsCommits, HistoryIsClosed, GitAssumption DEF Whole, Reach

LEMMA TipIsCommit ==
    ASSUME TypedRefs, NEW i \in DOMAIN Sources PROVE Tip(i) \in Commits \union {None}
  BY DEF TypedRefs, Tip, Remote, Names

LEMMA PullRefIsSource == \A n \in Pulls : PullRef(n) \in DOMAIN Sources
  BY GitAssumption DEF PullRef

(* A step that leaves the store's refs and objects alone.                  *)
LEMMA StoreFrame ==
    ASSUME StoreInv, UNCHANGED <<native, pins, objects, once, told>>,
           tips' \in [Remote -> Commits \union {None}]
    PROVE  StoreInv'
  BY DEF StoreInv, TypedRefs, Whole, Here, Held, NativeTips

(* A step that moves a call on.                                            *)
LEMMA MovesOn ==
    ASSUME CallInv, call.step # "idle", DOMAIN call' = DOMAIN call,
           \A f \in {"then", "pull", "shas"} : f \in DOMAIN call => call'[f] = call[f],
           Retains => call'.pending \subseteq call.pending /\ call'.fetch \subseteq DOMAIN Sources,
           Retains => Verified' \subseteq objects',
           call'.step = "fetch" => NativeTips' \subseteq pins',
           call'.step \in {"snapshot", "pin pull"} => "pull" \in DOMAIN call,
           call'.step \in RetainSteps => Retains,
           Retains /\ call'.step \in {"clear", "maintain", "return"} => Verified' \subseteq pins'
    PROVE  CallInv'
  <1> USE DEF CallInv
  <1>1. Shape'
    BY DEF Shape, Retains
  <1>2. TypedCall'
    BY DEF TypedCall, Shape, Retains
  <1>3. FoundHere' /\ PinnedFirst' /\ PinnedBeforeTold'
    BY DEF FoundHere, PinnedFirst, PinnedBeforeTold, Retains
  <1> QED
    BY <1>1, <1>2, <1>3

(* A call that begins or is over carries nothing that has to be pinned.    *)
LEMMA Begins ==
    ASSUME call'.step \notin {"fetch", "clear", "return"},
           {"step", "then"} \subseteq DOMAIN call' \/ call' = Idle,
           Retains' => call'.step = "batch" /\ Shape' /\ TypedCall' /\ FoundHere',
           ~Retains' /\ call' # Idle =>
             /\ call'.step \notin RetainSteps /\ call'.then \in {"maintain", "heads", "snapshot"}
             /\ "pull" \in DOMAIN call' => call'.pull \in Pulls
             /\ "snapshot" \in {call'.step, call'.then} => "pull" \in DOMAIN call'
             /\ call'.step # "pin pull"
    PROVE  CallInv'
  <1>1. call' = Idle => DOMAIN call' = {"step"} /\ call'.step = "idle"
    BY DEF Idle
  <1>2. Shape' /\ TypedCall' /\ FoundHere'
    BY <1>1 DEF Shape, TypedCall, FoundHere, Retains, RetainSteps
  <1>3. PinnedFirst' /\ PinnedBeforeTold'
    BY <1>1 DEF PinnedFirst, PinnedBeforeTold, Retains
  <1> QED
    BY <1>2, <1>3 DEF CallInv

(* An attempt says unavailable of a commit unless the store has it.        *)
LEMMA AttemptIsHonest ==
    ASSUME NEW c, NEW by, NEW preflight
    PROVE  /\ Attempt(c, by, preflight).sha = c /\ Attempt(c, by, preflight).by = by
           /\ Attempt(c, by, preflight).outcome = Outcome(c)
           /\ Outcome(c) # "unavailable" => c \in objects
  BY DEF Attempt, Outcome

LEMMA TriedIsHonest ==
    ASSUME NEW i, NEW a \in Tried(i)
    PROVE  /\ a.sha \in Targets(i, call.pending) /\ a.by = Sources[i].name
           /\ a.outcome = IF a.sha \in Candidates(i) THEN Outcome(a.sha) ELSE "unavailable"
  <1>1. PICK c \in Targets(i, call.pending) :
           a = [Attempt(c, Sources[i].name, Preflight(i)) EXCEPT
                  !.outcome = IF c \in Candidates(i) THEN @ ELSE "unavailable"]
    BY DEF Tried
  <1>2. /\ a.sha = c /\ a.by = Sources[i].name
        /\ a.outcome = IF c \in Candidates(i) THEN Outcome(c) ELSE "unavailable"
    BY <1>1 DEF Attempt
  <1> QED
    BY <1>2

LEMMA InitIInv == Init => IInv
  <1> SUFFICES ASSUME Init PROVE IInv
    OBVIOUS
  <1>1. DOMAIN call = {"step"} /\ call.step = "idle"
    BY DEF Init, Idle
  <1>2. NativeTips = {}
    BY DEF Init, NativeTips
  <1>3. StoreInv
    BY <1>2, GitAssumption DEF Init, StoreInv, TypedRefs, Whole, Here, Held
  <1>4. CallInv
    BY <1>1
    DEF CallInv, Shape, TypedCall, FoundHere, PinnedFirst, PinnedBeforeTold, Retains, RetainSteps
  <1> QED
    BY <1>3, <1>4 DEF IInv
-----------------------------------------------------------------------------
LEMMA StepStore == IInv /\ [Next]_vars => StoreInv'
  <1> SUFFICES ASSUME IInv, [Next]_vars PROVE StoreInv'
    OBVIOUS
  <1> USE DEF IInv
  <1> DEFINE Kept == UNCHANGED <<native, pins, objects, once, told>>
  <1>1. ASSUME NEW r \in Remote, Move(r) PROVE StoreInv'
    <2>1. Kept /\ tips' \in [Remote -> Commits \union {None}]
      BY <1>1 DEF Move, StoreInv, TypedRefs, store
    <2> QED
      BY <2>1, StoreFrame
  <1>2. ASSUME Kept, UNCHANGED tips PROVE StoreInv'
    BY <1>2, StoreFrame DEF StoreInv, TypedRefs
  <1>3. CASE \/ Damage \/ Upstream \/ Fail \/ Restart \/ SetHead \/ Maintain
             \/ SplitHeads \/ Prefetched \/ UNCHANGED vars
    BY <1>2, <1>3
    DEF Damage, Upstream, Fail, Restart, SetHead, Maintain, SplitHeads, Prefetched, vars, store
  <1>4. CASE \/ \E numbers \in SUBSET Pulls \ {{}} : Prefetch(numbers)
             \/ \E n \in Pulls : Capture(n)
             \/ \E shas \in Requests : Retain(shas)
    BY <1>2, <1>4 DEF Prefetch, Capture, Retain, store
  <1>5. CASE PassOver \/ Observe \/ Plan \/ Attribute \/ LastResort \/ Upmost \/ Clear
    BY <1>2, <1>5 DEF PassOver, Observe, Plan, Attribute, LastResort, Upmost, Clear, store
  <1>6. CASE PinBefore \/ PinAfter
    BY <1>6 DEF PinBefore, PinAfter, WithNative, StoreInv, TypedRefs, Whole, Here, Held, NativeTips
  <1>7. CASE Mirror
    <2> DEFINE set == {tips[b] : b \in Branches}
    <2>1. tips' = tips /\ set \in SUBSET (Commits \union {None})
      BY <1>7 DEF Mirror, StoreInv, TypedRefs, Remote
    <2>2. Whole' /\ objects' \subseteq Commits /\ objects \subseteq objects' /\ set \ {None} \subseteq objects'
      BY <1>7, <2>1, BringsWhole DEF Mirror, Brought, StoreInv, TypedRefs
    <2>3. native' \in [Branches -> Commits \union {None}] /\ NativeTips' = set \ {None}
      BY <1>7, <2>1 DEF Mirror, NativeTips
    <2>4. NativeTips \subseteq pins
      BY <1>7 DEF Mirror, CallInv, PinnedFirst
    <2>5. pins' = pins /\ told' = told /\ once' = once \union (set \ {None})
      BY <1>7 DEF Mirror
    <2>6. TypedRefs'
      BY <2>1, <2>2, <2>3, <2>5 DEF StoreInv, TypedRefs
    <2>7. Here' /\ Held'
      BY <2>2, <2>3, <2>4, <2>5 DEF StoreInv, Here, Held
    <2> QED
      BY <2>2, <2>6, <2>7 DEF StoreInv
  <1>8. CASE Observed
    BY <1>8 DEF Observed, StoreInv, TypedRefs, Whole, Here, Held, NativeTips, store
  <1>9. ASSUME NEW set \in SUBSET (Commits \union {None}), NEW refetch, Brought(set, refetch),
               UNCHANGED <<tips, native, pins, once, told>>
        PROVE  StoreInv'
    <2>1. Whole' /\ objects' \subseteq Commits /\ objects \subseteq objects'
      BY <1>9, BringsWhole DEF Brought, StoreInv, TypedRefs
    <2> QED
      BY <1>9, <2>1 DEF StoreInv, TypedRefs, Here, Held, NativeTips
  <1>10. CASE Heads \/ RefreshMissing
    <2>1. PICK numbers : FetchHeads(numbers)
      BY <1>10 DEF Heads, RefreshMissing
    <2> DEFINE missing == {n \in Pulls : n \in numbers /\ Details[n].head \notin objects}
               set == {Tip(PullRef(n)) : n \in missing}
    <2>2. set \in SUBSET (Commits \union {None})
      BY TipIsCommit, PullRefIsSource DEF StoreInv
    <2>3. Brought(set, FALSE) /\ UNCHANGED <<tips, native, pins, once, told>>
      BY <2>1 DEF FetchHeads
    <2> HIDE DEF set
    <2> QED
      BY <1>9, <2>2, <2>3
  <1>11. CASE Snapshot
    <2> DEFINE named == (Required \union {Details[call.pull].landing}) \intersect objects
    <2>2. /\ pins' = pins \union named /\ told' = told \union named
          /\ UNCHANGED <<tips, native, objects, once>>
      BY <1>11 DEF Snapshot
    <2> QED
      BY <2>2 DEF StoreInv, TypedRefs, Whole, Here, Held, NativeTips
  <1>12. CASE FetchSources
    <2>1. call.fetch \subseteq DOMAIN Sources
      BY <1>12 DEF FetchSources, CallInv, Shape, TypedCall, RetainSteps
    <2>2. PICK part : part \subseteq call.fetch /\ Fetched(part)
      BY <1>12 DEF FetchSources
    <2> DEFINE set == {Tip(i) : i \in {i \in part : Tip(i) # None}}
    <2>3. set \in SUBSET (Commits \union {None})
      BY <2>1, <2>2, TipIsCommit DEF StoreInv
    <2>4. Brought(set, call.refetch) /\ UNCHANGED <<tips, native, pins, once, told>>
      BY <2>2 DEF Fetched
    <2> HIDE DEF set
    <2> QED
      BY <1>9, <2>3, <2>4
  <1>13. CASE PinCommits
    <2>1. Verified \subseteq objects
      BY <1>13 DEF PinCommits, CallInv, Shape, FoundHere, RetainSteps
    <2> QED
      BY <1>13, <2>1 DEF PinCommits, StoreInv, TypedRefs, Whole, Here, Held, NativeTips
  <1>14. CASE Return
    <2>1. Verified \subseteq pins
      BY <1>14 DEF Return, CallInv, Shape, PinnedBeforeTold, RetainSteps
    <2>2. told' \subseteq told \union Verified /\ UNCHANGED <<tips, native, pins, objects, once>>
      BY <1>14 DEF Return, Result, store
    <2> QED
      BY <2>1, <2>2 DEF StoreInv, TypedRefs, Whole, Here, Held, NativeTips
  <1> QED
    BY <1>1, <1>3, <1>4, <1>5, <1>6, <1>7, <1>8, <1>10, <1>11, <1>12, <1>13, <1>14 DEF Next
LEMMA StepCall == IInv /\ [Next]_vars => CallInv'
  <1> SUFFICES ASSUME IInv, [Next]_vars PROVE CallInv'
    OBVIOUS
  <1> USE DEF IInv
  <1>1. ASSUME UNCHANGED <<native, pins, objects>>, DOMAIN call' = DOMAIN call,
               \A f \in DOMAIN call : f # "steady" => call'[f] = call[f]
        PROVE  CallInv'
    <2>1. Shape'
      BY <1>1 DEF CallInv, Shape, Retains
    <2>2. TypedCall'
      BY <1>1 DEF CallInv, Shape, TypedCall, Retains
    <2>3. (Retains => Verified' = Verified) /\ NativeTips' = NativeTips
      BY <1>1 DEF CallInv, Shape, Verified, NativeTips
    <2>4. FoundHere' /\ PinnedFirst' /\ PinnedBeforeTold'
      BY <1>1, <2>3 DEF CallInv, Shape, FoundHere, PinnedFirst, PinnedBeforeTold, Retains
    <2> QED
      BY <2>1, <2>2, <2>4 DEF CallInv
  <1>2. CASE (\E r \in Remote : Move(r)) \/ Damage \/ UNCHANGED vars
    <2>1. UNCHANGED <<native, pins, objects>> /\ DOMAIN call' = DOMAIN call
      BY <1>2 DEF Move, Damage, vars, store
    <2>2. \A f \in DOMAIN call : f # "steady" => call'[f] = call[f]
      BY <1>2 DEF Move, Damage, vars
    <2> QED
      BY <1>1, <2>1, <2>2
  <1>3. CASE Fail \/ Restart \/ Prefetched \/ Observed \/ Snapshot \/ Return
    <2>1. call' = Idle
      BY <1>3 DEF Fail, Restart, Prefetched, Observed, Snapshot, Return
    <2> QED
      BY <2>1, Begins DEF Idle, Retains
  <1>4. CASE Upstream
    <2>1. call' = [step |-> "pin", then |-> "maintain", refetch |-> FALSE]
      BY <1>4 DEF Upstream
    <2> QED
      BY <2>1, Begins DEF Retains, RetainSteps
  <1>5. ASSUME NEW numbers \in SUBSET Pulls \ {{}}, Prefetch(numbers) PROVE CallInv'
    <2>1. /\ DOMAIN call' = {"step", "then", "refetch", "groups"}
          /\ call'.step \in {"pin", "heads"} /\ call'.then = "heads"
      BY <1>5 DEF Prefetch, Unless
    <2>2. ~Retains' /\ call' # Idle
      BY <2>1 DEF Retains, Idle
    <2> QED
      BY <2>1, <2>2, Begins DEF RetainSteps
  <1>6. ASSUME NEW n \in Pulls, Capture(n) PROVE CallInv'
    <2>1. /\ DOMAIN call' = {"step", "then", "refetch", "pull"}
          /\ call'.step \in {"pin", "snapshot"} /\ call'.then = "snapshot" /\ call'.pull = n
      BY <1>6 DEF Capture, Unless
    <2>2. ~Retains' /\ call' # Idle
      BY <2>1 DEF Retains, Idle
    <2> QED
      BY <2>1, <2>2, Begins DEF RetainSteps
  <1>7. ASSUME NEW shas \in Requests, Retain(shas) PROVE CallInv'
    <2>1. /\ {"step", "then", "shas", "pending", "fetch", "attempts"} \subseteq DOMAIN call'
          /\ "pull" \notin DOMAIN call'
          /\ call'.step = "batch" /\ call'.then = "last" /\ call'.shas = shas
          /\ call'.pending \subseteq shas /\ call'.fetch = {} /\ UNCHANGED objects
          /\ call'.attempts = {Attempt(c, "managed-store", None) : c \in shas}
      BY <1>7 DEF Retain, store
    <2>2. Verified' \subseteq objects
      BY <2>1, AttemptIsHonest DEF Verified
    <2>3. Shape' /\ TypedCall' /\ FoundHere'
      BY <2>1, <2>2, GitAssumption DEF Shape, TypedCall, FoundHere, Retains, RetainSteps
    <2> QED
      BY <2>1, <2>3, Begins DEF Retains
  <1> USE DEF CallInv
  <1> DEFINE Same(fields) == \A f \in DOMAIN call \ fields : call'[f] = call[f]
  <1>8. ASSUME UNCHANGED objects, call'.attempts = call.attempts, Retains
        PROVE  Verified' \subseteq objects'
    BY <1>8 DEF FoundHere, Verified
  <1>9. CASE PinBefore
    <2>1. DOMAIN call' = DOMAIN call /\ call'.step = "fetch" /\ Same({"step"})
      BY <1>9 DEF PinBefore, Shape
    <2>2. NativeTips' \subseteq pins' /\ UNCHANGED objects
      BY <1>9 DEF PinBefore, WithNative, NativeTips
    <2>3. call.step # "idle"
      BY <1>9 DEF PinBefore
    <2> QED
      BY <1>8, <2>1, <2>2, <2>3, MovesOn DEF Shape, TypedCall, RetainSteps
  <1>10. CASE Mirror
    <2>1. DOMAIN call' = DOMAIN call /\ call'.step = "pin again" /\ Same({"step"})
      BY <1>10 DEF Mirror, Shape
    <2>2. objects \subseteq objects' /\ call.step # "idle"
      BY <1>10 DEF Mirror, Brought
    <2>3. Retains => Verified' \subseteq objects'
      BY <2>1, <2>2 DEF Shape, FoundHere, Verified
    <2> QED
      BY <2>1, <2>2, <2>3, MovesOn DEF Shape, TypedCall, RetainSteps
  <1>11. CASE PinAfter \/ SetHead \/ PassOver \/ SplitHeads \/ Observe
    <2>1. /\ UNCHANGED objects /\ call.step # "idle" /\ DOMAIN call' = DOMAIN call
          /\ Same({"step", "queue", "groups", "seen"})
      BY <1>11 DEF PinAfter, SetHead, PassOver, SplitHeads, Observe, Shape, store
    <2>2. call'.step = "set head" \/ call'.step = call.then \/ call'.step = call.step
      BY <1>11 DEF PinAfter, SetHead, PassOver, SplitHeads, Observe, Shape
    <2>3. call.step \in {"pin again", "set head", "batch", "heads"}
      BY <1>11 DEF PinAfter, SetHead, PassOver, SplitHeads, Observe
    <2> QED
      BY <1>8, <2>1, <2>2, <2>3, MovesOn DEF Shape, TypedCall, RetainSteps
  <1>12. CASE Heads \/ RefreshMissing
    <2>1. objects \subseteq objects'
      BY <1>12 DEF Heads, RefreshMissing, FetchHeads, Brought
    <2>2. /\ DOMAIN call' = DOMAIN call /\ Same({"step", "groups"})
          /\ \/ call.step = "heads" /\ call'.step = "heads"
             \/ call.step = "snapshot" /\ call'.step = "pin pull"
      BY <1>12 DEF Heads, RefreshMissing, Shape
    <2>3. Retains => Verified' \subseteq objects'
      BY <2>1, <2>2 DEF Shape, FoundHere, Verified
    <2> QED
      BY <2>1, <2>2, <2>3, MovesOn DEF Shape, TypedCall, RetainSteps
  <1>13. CASE Plan
    <2>1. /\ UNCHANGED objects /\ call.step = "batch" /\ DOMAIN call' = DOMAIN call
          /\ call'.step = "fetch sources" /\ Same({"step", "fetch", "with", "refetch", "got"})
      BY <1>13 DEF Plan, Shape
    <2>2. call'.fetch \subseteq DOMAIN Sources
      BY <1>13, <2>1 DEF Plan, Batch, Shape, RetainSteps
    <2> QED
      BY <1>8, <2>1, <2>2, MovesOn DEF Shape, TypedCall, RetainSteps
  <1>14. CASE FetchSources
    <2>1. PICK part \in SUBSET DOMAIN Sources : Fetched(part)
      BY <1>14 DEF FetchSources, Shape, TypedCall, RetainSteps
    <2>2. /\ objects \subseteq objects' /\ call.step = "fetch sources" /\ DOMAIN call' = DOMAIN call
          /\ Same({"fetch", "got"})
      BY <1>14, <2>1 DEF FetchSources, Fetched, Brought, Shape
    <2>3. call'.fetch \subseteq call.fetch
      BY <2>1, <2>2 DEF Fetched, Shape, RetainSteps
    <2>4. Retains => Verified' \subseteq objects'
      BY <2>2 DEF Shape, FoundHere, Verified
    <2> QED
      BY <2>2, <2>3, <2>4, MovesOn DEF Shape, TypedCall, RetainSteps
  <1>15. CASE Attribute
    <2> DEFINE tried == UNION {Tried(i) : i \in Batch}
    <2>1. /\ UNCHANGED objects /\ call.step = "fetch sources" /\ DOMAIN call' = DOMAIN call
          /\ call'.step = "batch" /\ Same({"step", "queue", "attempts", "pending"})
      BY <1>15 DEF Attribute, Shape, store
    <2>2. call'.pending \subseteq call.pending /\ call'.attempts = call.attempts \union tried
      BY <1>15, <2>1 DEF Attribute, Shape, RetainSteps
    <2>3. \A a \in tried : a.outcome # "unavailable" => a.sha \in objects
      BY TriedIsHonest, AttemptIsHonest
    <2>4. Retains => Verified' \subseteq objects'
      BY <2>1, <2>2, <2>3 DEF FoundHere, Verified
    <2> HIDE DEF tried
    <2> QED
      BY <2>1, <2>2, <2>4, MovesOn DEF Shape, TypedCall, RetainSteps
  <1>16. CASE LastResort
    <2>1. /\ UNCHANGED objects /\ call.step = "batch" /\ DOMAIN call' = DOMAIN call
          /\ call'.step \in {"pin commits", "pin", "last"} /\ Same({"step", "refetch"})
      BY <1>16 DEF LastResort, Unless, Shape, store
    <2> QED
      BY <1>8, <2>1, MovesOn DEF Shape, TypedCall, RetainSteps
  <1>17. CASE Upmost
    <2> DEFINE more == {Attempt(c, "upstream-refs", None) : c \in call.pending}
    <2>1. /\ UNCHANGED objects /\ call.step = "last" /\ DOMAIN call' = DOMAIN call
          /\ call'.step = "pin commits" /\ Same({"step", "attempts", "pending"})
      BY <1>17 DEF Upmost, Shape, store
    <2>2. Retains
      BY <2>1 DEF Shape, RetainSteps
    <2>3. call'.pending \subseteq call.pending /\ call'.attempts = call.attempts \union more
      BY <1>17, <2>2 DEF Upmost, Shape
    <2>4. \A a \in more : a.outcome # "unavailable" => a.sha \in objects
      BY AttemptIsHonest
    <2>5. Verified' \subseteq objects'
      BY <2>1, <2>2, <2>3, <2>4 DEF FoundHere, Verified
    <2> HIDE DEF more
    <2> QED
      BY <2>1, <2>2, <2>3, <2>5, MovesOn DEF Shape, TypedCall, RetainSteps
  <1>18. CASE PinCommits
    <2>1. /\ UNCHANGED objects /\ call.step = "pin commits" /\ DOMAIN call' = DOMAIN call
          /\ call'.step = "clear" /\ Same({"step"})
      BY <1>18 DEF PinCommits, Shape
    <2>2. Verified' = Verified /\ pins' = pins \union Verified
      BY <1>18, <2>1 DEF PinCommits, Verified, Shape, RetainSteps
    <2> QED
      BY <1>8, <2>1, <2>2, MovesOn DEF Shape, TypedCall, RetainSteps
  <1>19. CASE Clear \/ Maintain
    <2>1. /\ UNCHANGED <<objects, pins>> /\ DOMAIN call' = DOMAIN call /\ Same({"step"})
          /\ \/ call.step = "clear" /\ call'.step = "maintain"
             \/ call.step = "maintain" /\ call'.step = IF Retains THEN "return" ELSE "observed"
      BY <1>19 DEF Clear, Maintain, Shape, store, Retains
    <2>2. Retains => Verified' = Verified
      BY <2>1 DEF Verified, Shape
    <2> QED
      BY <1>8, <2>1, <2>2, MovesOn DEF Shape, TypedCall, PinnedBeforeTold, RetainSteps
  <1> QED
    BY <1>2, <1>3, <1>4, <1>5, <1>6, <1>7, <1>9, <1>10, <1>11, <1>12, <1>13, <1>14, <1>15,
       <1>16, <1>17, <1>18, <1>19 DEF Next

-----------------------------------------------------------------------------
LEMMA Invariant == Spec => []IInv
  <1>1. IInv /\ [Next]_vars => IInv'
    BY StepStore, StepCall DEF IInv
  <1> QED
    BY <1>1, InitIInv, PTL DEF Spec

(* What was a branch's tip or was said to be retained stays reachable from *)
(* the refs of the store, whatever is pushed, pruned or interrupted, and   *)
(* in whatever order the Git commands of the calls come.                   *)
THEOREM GitStoreLetsNothingGo == Spec => []NothingLetGo
  <1>1. IInv => NothingLetGo
    <2> SUFFICES ASSUME IInv, NEW c \in once \union told
                 PROVE  c \in Reach(NativeTips \union pins \union {staging[i] : i \in DOMAIN Sources})
      BY DEF NothingLetGo
    <2>1. c \in (pins \union NativeTips) \ {None} /\ c \in Commits
      BY GitAssumption DEF IInv, StoreInv, TypedRefs, Held, Here
    <2>2. c \in History[c]
      BY <2>1, HistoryUnfolds
    <2> QED
      BY <2>1, <2>2 DEF Reach
  <1> QED
    BY <1>1, Invariant, PTL

(* What a call has retained once is in the store, with its history.        *)
RetainedIsHere == \A c \in once \union told : c \in objects /\ History[c] \subseteq objects

(* It is not only named by a ref: the store has it, with all its history.  *)
THEOREM GitStoreHasWhatItRetains == Spec => []RetainedIsHere
  <1>1. IInv => RetainedIsHere
    BY DEF IInv, StoreInv, Held, Here, Whole, RetainedIsHere
  <1> QED
    BY <1>1, Invariant, PTL

-----------------------------------------------------------------------------
(* Retention: what a call that retains commits has done and has to do.     *)

Damaged(c) == \E a \in call.attempts : a.sha = c /\ a.by = "managed-store" /\ a.outcome = "partial"
Ahead(i) == \E k \in DOMAIN call.queue : i \in call.queue[k]
Steady(i, c) == <<Sources[i].name, c>> \in call.steady
Sound(c) == c \in objects /\ (Damaged(c) => History[c] \intersect broken = {})

Fields ==
    {"shas", "pending", "queue", "seen", "fetch", "with", "refetch", "got", "attempts", "steady"}
        \subseteq DOMAIN call

(* The batches: each of one kind, those of pulls first.                    *)
InOrder(queue) ==
    /\ queue \in Seq(SUBSET DOMAIN Sources)
    /\ \A k, l \in DOMAIN queue : \A i \in queue[k], j \in queue[l] :
          k <= l /\ Sources[i].kind = "repository-ref" => Sources[j].kind = "repository-ref"
QueueEnds == call.step \notin {"batch", "fetch sources"} => call.queue = <<>>

StagedHere ==
    /\ DOMAIN staging = DOMAIN Sources
    /\ \A i \in DOMAIN Sources : staging[i] \in objects \union {None}

(* A commit is struck off only when it has been found.                     *)
PendingUntilFound == \A c \in call.shas : c \notin Verified => c \in call.pending

(* Of each ref of a commit that is not yet found whole: it is still in the *)
(* queue, or it has been tried, and did not reach the commit all along     *)
(* unless the commit, missing at first, was found in part.                 *)
TriedOrAhead ==
    \A c \in call.pending : \A i \in Routes[c] :
       \/ Ahead(i)
       \/ /\ \E a \in call.attempts : a.sha = c /\ a.by = Sources[i].name
          /\ Steady(i, c) => c \in Verified /\ ~Damaged(c)

(* What a ref reached all along it reaches now, and did when it was seen.  *)
SteadyReached ==
    \A i \in DOMAIN Sources, c \in call.shas : Steady(i, c) =>
       /\ c \in Reach({Tip(i)})
       /\ call.seen # None /\ i \in DOMAIN call.seen => c \in Reach({call.seen[i]})

(* A pull that has been tried does not hold a damaged commit: it would be  *)
(* whole now.  So the pull's ref may stand in for the branch of the fork.  *)
PullsDone ==
    \A c \in call.pending : Damaged(c) =>
       \A j \in Routes[c] :
          Sources[j].kind = "pull-ref" => Ahead(j) \/ c \notin Reach({staging[j]})

(* While a batch is fetched.                                               *)
Fetching ==
    call.step = "fetch sources" =>
       /\ call.queue # <<>> /\ call.fetch \subseteq Batch
       /\ \A i \in call.fetch : By(i) = {} /\ (Sources[i].kind = "pull-ref" => staging[i] = None)
       /\ \A i \in Batch : \A c \in Targets(i, call.pending) :
             /\ Damaged(c) => call.refetch
             /\ Steady(i, c) /\ i \notin call.fetch =>
                  i \in call.got /\ c \in Reach({Evidence(i)}) /\ Sound(c)
             /\ Sources[i].kind = "pull-ref" /\ c \in Reach({staging[i]}) =>
                  i \in call.got /\ Sound(c)

RetainInv ==
    Retains => /\ Fields /\ InOrder(call.queue) /\ QueueEnds /\ PendingUntilFound
               /\ TriedOrAhead /\ SteadyReached /\ PullsDone /\ Fetching

(* The batches that a call makes are in order, and pass over no ref that   *)
(* may have a commit.                                                      *)
LEMMA BatchesAreComplete ==
    ASSUME NEW pending \in SUBSET Commits
    PROVE  /\ InOrder(Batches(pending))
           /\ \A i \in DOMAIN Sources : Targets(i, pending) # {} =>
                \E k \in DOMAIN Batches(pending) : i \in Batches(pending)[k]
  <1> DEFINE N == Len(Sources)
             Step(q, i) ==
                LET last == Len(q) IN
                IF Targets(i, pending) = {} THEN q
                ELSE IF last > 0 /\ Fits(q[last], i) THEN [q EXCEPT ![last] = @ \union {i}]
                ELSE Append(q, {i})
             F(g, i) == IF i = 0 THEN <<>> ELSE Step(g[i - 1], i)
             Solves(g, n) == g = [i \in 0 .. n |-> F(g, i)]
             Good(q, n) ==
                /\ InOrder(q)
                /\ \A k \in DOMAIN q : q[k] \subseteq 1 .. n
                /\ \A i \in 1 .. n : Targets(i, pending) # {} => \E k \in DOMAIN q : i \in q[k]
  <1>1. N \in Nat /\ DOMAIN Sources = 1 .. N
    BY GitAssumption
  <1>2. ASSUME NEW n \in 1 .. N, NEW q, Good(q, n - 1) PROVE Good(Step(q, n), n)
    <2>1. CASE Targets(n, pending) = {}
      BY <1>1, <1>2, <2>1
    <2>2. CASE Targets(n, pending) # {} /\ Len(q) > 0 /\ Fits(q[Len(q)], n)
      <3> DEFINE last == Len(q)
                 more == [q EXCEPT ![last] = @ \union {n}]
      <3>1. q \in Seq(SUBSET DOMAIN Sources) /\ last \in DOMAIN q /\ n \in DOMAIN Sources
        BY <1>1, <1>2, <2>2 DEF InOrder
      <3>2. /\ more \in Seq(SUBSET DOMAIN Sources) /\ DOMAIN more = DOMAIN q
            /\ \A k \in DOMAIN q : more[k] = IF k = last THEN q[k] \union {n} ELSE q[k]
        <4>1. q[last] \union {n} \in SUBSET DOMAIN Sources /\ last \in 1 .. Len(q)
          BY <3>1
        <4> DEFINE joined == q[last] \union {n}
        <4> HIDE DEF last, joined
        <4>2. [q EXCEPT ![last] = joined] \in Seq(SUBSET DOMAIN Sources)
          BY <3>1, <4>1, ExceptSeq DEF joined
        <4> QED
          BY <3>1, <4>2 DEF joined
      <3>3. \A k \in DOMAIN q : k \in Int /\ k <= last
        BY <3>1
      <3>4. \A j \in q[last] : Sources[j].kind = Sources[n].kind
        <4>1. Fits(q[last], n)
          BY <2>2
        <4> QED
          BY <4>1 DEF Fits
      <3>5. \A k \in DOMAIN q : \A i \in q[k] : i \in DOMAIN Sources /\ i < n
        BY <1>1, <1>2, <3>1
      <3> HIDE DEF last, more
      <3>6. InOrder(more)
        <4> SUFFICES ASSUME NEW k \in DOMAIN q, NEW l \in DOMAIN q, NEW i \in more[k],
                            NEW j \in more[l], k <= l, Sources[i].kind = "repository-ref"
                     PROVE  Sources[j].kind = "repository-ref"
          BY <3>2 DEF InOrder
        <4>1. CASE i \in q[k] /\ j \in q[l]
          BY <1>2, <4>1 DEF InOrder
        <4>2. CASE i \in q[k] /\ j = n
          BY <3>1, <3>5, <4>2, GitAssumption
        <4>3. CASE i = n /\ k = last
          BY <1>2, <3>1, <3>2, <3>3, <3>4, <4>3 DEF InOrder
        <4> QED
          BY <3>2, <4>1, <4>2, <4>3
      <3>7. ASSUME NEW i \in 1 .. n, Targets(i, pending) # {}
            PROVE  \E k \in DOMAIN more : i \in more[k]
        <4>1. CASE i = n
          BY <3>1, <3>2, <4>1
        <4>2. CASE i # n
          <5>1. i \in 1 .. (n - 1)
            BY <1>1, <4>2
          <5>2. PICK k \in DOMAIN q : i \in q[k]
            BY <1>2, <3>7, <5>1
          <5> QED
            BY <3>2, <5>2
        <4> QED
          BY <4>1, <4>2
      <3> QED
        BY <1>1, <1>2, <2>2, <3>1, <3>2, <3>6, <3>7 DEF last, more
    <2>3. CASE Targets(n, pending) # {} /\ ~(Len(q) > 0 /\ Fits(q[Len(q)], n))
      <3> DEFINE more == Append(q, {n})
      <3>1. q \in Seq(SUBSET DOMAIN Sources) /\ n \in DOMAIN Sources
        BY <1>1, <1>2 DEF InOrder
      <3>2. /\ more \in Seq(SUBSET DOMAIN Sources) /\ DOMAIN more = 1 .. Len(q) + 1
            /\ \A k \in DOMAIN more : more[k] = IF k = Len(q) + 1 THEN {n} ELSE q[k]
            /\ DOMAIN q = 1 .. Len(q) /\ Len(q) \in Nat
        BY <3>1
      <3>3. \A k \in DOMAIN q : \A i \in q[k] : i \in DOMAIN Sources /\ i < n
        BY <1>1, <1>2, <3>1
      <3> HIDE DEF more
      <3>4. InOrder(more)
        <4> SUFFICES ASSUME NEW k \in DOMAIN more, NEW l \in DOMAIN more, NEW i \in more[k],
                            NEW j \in more[l], k <= l, Sources[i].kind = "repository-ref"
                     PROVE  Sources[j].kind = "repository-ref"
          BY <3>2 DEF InOrder
        <4>1. CASE k \in DOMAIN q /\ l \in DOMAIN q
          BY <1>2, <3>2, <4>1 DEF InOrder
        <4>2. CASE k \in DOMAIN q /\ l = Len(q) + 1
          BY <3>1, <3>2, <3>3, <4>2, GitAssumption
        <4>3. CASE k = Len(q) + 1 /\ l = Len(q) + 1
          BY <3>2, <4>3
        <4> QED
          BY <3>2, <4>1, <4>2, <4>3
      <3>5. \A i \in 1 .. n : Targets(i, pending) # {} => \E k \in DOMAIN more : i \in more[k]
        BY <1>1, <1>2, <3>1, <3>2
      <3>6. \A k \in DOMAIN more : more[k] \subseteq 1 .. n
        BY <1>1, <1>2, <3>2, <3>3
      <3> QED
        BY <2>3, <3>4, <3>5, <3>6 DEF more
    <2> QED
      BY <2>1, <2>2, <2>3
  <1>3. Good(<<>>, 0)
    BY DEF InOrder
  <1> HIDE DEF Good, Step
  <1>4. \E g : Solves(g, N)
    <2> DEFINE T == {n \in 0 .. N : ~\E g : Solves(g, n)}
    <2> SUFFICES ASSUME T # {} PROVE FALSE
      BY <1>1
    <2>1. T \in SUBSET Nat
      BY <1>1
    <2>2. PICK n \in T : \A m \in T : n <= m
      BY <2>1, Least
    <2>3. CASE n = 0
      <3> DEFINE g == [i \in 0 .. 0 |-> <<>>]
      <3>1. g = [i \in 0 .. 0 |-> F(g, i)]
        <4>1. \A i \in 0 .. 0 : F(g, i) = <<>>
          OBVIOUS
        <4> QED
          BY <4>1
      <3>2. Solves(g, n)
        BY <2>3, <3>1
      <3> QED
        BY <2>2, <3>2
    <2>4. CASE n # 0
      <3>1. n \in 1 .. N /\ n - 1 \in 0 .. N
        BY <1>1, <2>2, <2>4
      <3>2. n - 1 \notin T
        <4> HIDE DEF T
        <4> QED
          BY <2>1, <2>2, <3>1
      <3>3. PICK g : Solves(g, n - 1)
        BY <3>1, <3>2
      <3> DEFINE more == [i \in 0 .. n |-> IF i = n THEN Step(g[n - 1], n) ELSE g[i]]
      <3>4. \A i \in 0 .. n : more[i] = F(more, i)
        BY <3>1, <3>3
      <3> QED
        BY <2>2, <3>4
    <2> QED
      BY <2>3, <2>4
  <1>5. ASSUME NEW g, Solves(g, N) PROVE Good(g[N], N)
    <2> DEFINE T == {n \in 0 .. N : ~Good(g[n], n)}
    <2> SUFFICES ASSUME T # {} PROVE FALSE
      BY <1>1
    <2>1. T \in SUBSET Nat
      BY <1>1
    <2>2. PICK n \in T : \A m \in T : n <= m
      BY <2>1, Least
    <2>3. n # 0
      BY <1>1, <1>3, <1>5, <2>2
    <2>4. n \in 1 .. N /\ n - 1 \in 0 .. N /\ n - 1 \notin T
      BY <1>1, <2>1, <2>2, <2>3
    <2>5. g[n] = Step(g[n - 1], n)
      BY <1>5, <2>3, <2>4
    <2> QED
      BY <1>2, <2>2, <2>4, <2>5
  <1> HIDE DEF Solves
  <1>6. Good((CHOOSE h : Solves(h, N))[N], N)
    BY <1>4, <1>5
  <1>7. Batches(pending) = (CHOOSE h : Solves(h, N))[N]
    BY DEF Batches, Solves, Step
  <1> QED
    BY <1>1, <1>6, <1>7 DEF Good

(* When the first batch is over, its refs are those that are not ahead.    *)
LEMMA NextBatches ==
    ASSUME InOrder(call.queue), call.queue # <<>>, call'.queue = Tail(call.queue)
    PROVE  /\ InOrder(call.queue)'
           /\ \A i : Ahead(i) => i \in Head(call.queue) \/ Ahead(i)'
  <1> DEFINE q == call.queue
  <1>1. /\ q \in Seq(SUBSET DOMAIN Sources) /\ Tail(q) \in Seq(SUBSET DOMAIN Sources)
        /\ Head(q) = q[1] /\ DOMAIN Tail(q) = 1 .. Len(q) - 1 /\ DOMAIN q = 1 .. Len(q)
        /\ \A k \in DOMAIN Tail(q) : Tail(q)[k] = q[k + 1]
    BY DEF InOrder
  <1>2. InOrder(Tail(q))
    <2> SUFFICES ASSUME NEW k \in DOMAIN Tail(q), NEW l \in DOMAIN Tail(q), k <= l,
                        NEW i \in Tail(q)[k], NEW j \in Tail(q)[l],
                        Sources[i].kind = "repository-ref"
                 PROVE  Sources[j].kind = "repository-ref"
      BY <1>1 DEF InOrder
    <2>1. k + 1 \in DOMAIN q /\ l + 1 \in DOMAIN q /\ k + 1 <= l + 1
      BY <1>1
    <2> QED
      BY <1>1, <2>1 DEF InOrder
  <1>3. ASSUME NEW i, Ahead(i), i \notin Head(q) PROVE \E k \in DOMAIN Tail(q) : i \in Tail(q)[k]
    <2>1. PICK k \in DOMAIN q : i \in q[k] /\ k # 1
      BY <1>1, <1>3 DEF Ahead
    <2>2. k - 1 \in DOMAIN Tail(q) /\ Tail(q)[k - 1] = q[k]
      BY <1>1, <2>1
    <2> QED
      BY <2>1, <2>2
  <1> QED
    BY <1>2, <1>3 DEF InOrder, Ahead

LEMMA RoutedIsTarget ==
    ASSUME IInv, Retains, NEW c \in call.pending, NEW i \in Routes[c]
    PROVE  i \in DOMAIN Sources /\ c \in Targets(i, call.pending) /\ c \in call.shas /\ c \in Commits
  BY DEF IInv, CallInv, TypedCall, Routes, Targets

LEMMA KindsOfSources ==
    \A i \in DOMAIN Sources : Sources[i].kind # "pull-ref" <=> Sources[i].kind = "repository-ref"
  BY GitAssumption DEF IsSource

(* All refs of a batch are of one kind.                                    *)
LEMMA BatchIsOfOneKind ==
    ASSUME InOrder(call.queue), call.queue # <<>>, NEW i \in Batch
    PROVE  /\ i \in DOMAIN Sources /\ Ahead(i)
           /\ \A j : Ahead(j) /\ Sources[i].kind = "repository-ref" => Sources[j].kind = "repository-ref"
           /\ \A j \in Batch : Sources[j].kind = Sources[i].kind
  <1>1. /\ 1 \in DOMAIN call.queue /\ Head(call.queue) = call.queue[1]
        /\ \A k \in DOMAIN call.queue : 1 <= k
    BY DEF InOrder
  <1>2. \A j \in Batch : j \in DOMAIN Sources /\ j \in call.queue[1]
    BY <1>1 DEF Batch
  <1> QED
    BY <1>1, <1>2, KindsOfSources DEF InOrder, Ahead

(* Only a pull's ref stands in for another, and only for a branch.         *)
LEMMA StandsIn ==
    ASSUME NEW i, NEW j \in By(i)
    PROVE  /\ Sources[i].kind = "repository-ref" /\ i \in DOMAIN call.seen /\ call.seen # None
           /\ j \in DOMAIN Sources /\ Sources[j].kind = "pull-ref"
           /\ Sources[j].pull = Sources[i].pull
           /\ staging[j] # None /\ staging[j] = call.seen[i]
  BY DEF By, Known, Equivalent

LEMMA OutcomeOfFound ==
    ASSUME NEW c \in objects
    PROVE  /\ Outcome(c) # "unavailable"
           /\ History[c] \intersect broken = {} => Outcome(c) = "available"
  BY DEF Outcome, Broken

LEMMA InitRetain == Init => StagedHere /\ RetainInv
  BY DEF Init, StagedHere, RetainInv, Retains, Idle

LEMMA StepStaged == IInv /\ StagedHere /\ [Next]_vars => StagedHere'
  <1> SUFFICES ASSUME IInv, StagedHere, [Next]_vars PROVE StagedHere'
    OBVIOUS
  <1>1. CASE Plan \/ Clear
    <2>1. UNCHANGED objects
      BY <1>1 DEF Plan, Clear
    <2>2. DOMAIN staging' = DOMAIN Sources /\ \A i \in DOMAIN Sources : staging'[i] \in {None, staging[i]}
      BY <1>1 DEF Plan, Clear, StagedHere
    <2> QED
      BY <2>1, <2>2 DEF StagedHere
  <1>2. CASE FetchSources
    <2>1. PICK part : part \subseteq DOMAIN Sources /\ Fetched(part)
      BY <1>2 DEF FetchSources, IInv, CallInv, Shape, TypedCall, RetainSteps
    <2> DEFINE set == {Tip(i) : i \in {i \in part : Tip(i) # None}}
    <2>2. set \in SUBSET (Commits \union {None})
      BY <2>1, TipIsCommit DEF IInv, StoreInv
    <2>3. objects' = objects \union Reach(set)
      BY <2>1 DEF Fetched, Brought
    <2>4. objects \subseteq objects' /\ set \ {None} \subseteq objects'
      BY <2>2, <2>3, BringsWhole DEF IInv, StoreInv, TypedRefs
    <2>5. \A i \in DOMAIN Sources :
             staging'[i] = IF i \in part /\ Tip(i) # None THEN Tip(i) ELSE staging[i]
      BY <2>1 DEF Fetched, StagedHere
    <2>6. DOMAIN staging' = DOMAIN Sources
      BY <2>1 DEF Fetched, StagedHere
    <2> QED
      BY <2>4, <2>5, <2>6 DEF StagedHere
  <1>3. ASSUME UNCHANGED staging, objects \subseteq objects' PROVE StagedHere'
    BY <1>3 DEF StagedHere
  <1>4. CASE Heads \/ RefreshMissing \/ Mirror
    BY <1>3, <1>4 DEF Heads, RefreshMissing, FetchHeads, Mirror, Brought
  <1>5. CASE \/ Damage \/ Upstream \/ Fail \/ Restart \/ SetHead \/ Maintain \/ SplitHeads \/ Prefetched
             \/ PinBefore \/ PinAfter \/ Observed \/ Snapshot \/ PassOver \/ Observe \/ Attribute
             \/ LastResort \/ Upmost \/ PinCommits \/ Return \/ UNCHANGED vars
    BY <1>3, <1>5
    DEF Damage, Upstream, Fail, Restart, SetHead, Maintain, SplitHeads, Prefetched, PinBefore,
        PinAfter, Observed, Snapshot, PassOver, Observe, Attribute, LastResort, Upmost, PinCommits,
        Return, vars, store
  <1>6. CASE \/ \E r \in Remote : Move(r)
             \/ \E numbers \in SUBSET Pulls \ {{}} : Prefetch(numbers)
             \/ \E n \in Pulls : Capture(n)
             \/ \E shas \in Requests : Retain(shas)
    BY <1>3, <1>6 DEF Move, Prefetch, Capture, Retain, store
  <1> QED
    BY <1>1, <1>2, <1>4, <1>5, <1>6 DEF Next

(* A step between the batches, or after the last of them: it may bring     *)
(* objects, clear refs, find and strike off commits.                       *)
LEMMA BetweenBatches ==
    ASSUME IInv, RetainInv, Retains, DOMAIN call' = DOMAIN call,
           \A f \in {"shas", "queue", "seen", "steady"} : call'[f] = call[f],
           call'.pending \subseteq call.pending, call.attempts \subseteq call'.attempts,
           \A a \in call'.attempts \ call.attempts : a.by # "managed-store",
           PendingUntilFound', UNCHANGED tips,
           \A i \in DOMAIN Sources : staging'[i] \in {staging[i], None},
           call'.step # "fetch sources", QueueEnds'
    PROVE  RetainInv'
  <1> USE DEF RetainInv
  <1>1. Fields' /\ InOrder(call.queue)' /\ SteadyReached' /\ Fetching'
    BY DEF Fields, InOrder, SteadyReached, Steady, Tip, Fetching, Reach
  <1>2. /\ \A c : Damaged(c)' <=> Damaged(c)
        /\ \A i : Ahead(i)' <=> Ahead(i)
        /\ \A i, c : Steady(i, c)' <=> Steady(i, c)
        /\ Verified \subseteq Verified'
    BY DEF Damaged, Ahead, Steady, Verified
  <1>3. TriedOrAhead'
    BY <1>2 DEF TriedOrAhead
  <1>4. PullsDone'
    <2>1. \A c \in call.pending : Routes[c] \subseteq DOMAIN Sources
      BY DEF Routes, IInv, CallInv, TypedCall
    <2>2. \A c, j : j \in DOMAIN Sources /\ c \in Reach({staging'[j]}) => c \in Reach({staging[j]})
      BY DEF Reach
    <2> QED
      BY <1>2, <2>1, <2>2 DEF PullsDone
  <1> QED
    BY <1>1, <1>3, <1>4

LEMMA StepRetain == IInv /\ StagedHere /\ RetainInv /\ [Next]_vars => RetainInv'
  <1> SUFFICES ASSUME IInv, StagedHere, RetainInv, [Next]_vars PROVE RetainInv'
    OBVIOUS
  <1> USE DEF IInv
  <1> DEFINE Same(fields) == \A f \in DOMAIN call \ fields : call'[f] = call[f]
  <1>1. ASSUME ~Retains' PROVE RetainInv'
    BY <1>1 DEF RetainInv
  <1>2. CASE Fail \/ Restart \/ Prefetched \/ Observed \/ Snapshot \/ Return
    <2>1. call' = Idle
      BY <1>2 DEF Fail, Restart, Prefetched, Observed, Snapshot, Return
    <2> QED
      BY <1>1, <2>1 DEF Idle, Retains
  <1>3. CASE \/ Upstream
             \/ \E numbers \in SUBSET Pulls \ {{}} : Prefetch(numbers)
             \/ \E n \in Pulls : Capture(n)
    <2>1. "shas" \notin DOMAIN call'
      <3>1. CASE Upstream
        BY <3>1 DEF Upstream
      <3>2. ASSUME NEW numbers \in SUBSET Pulls \ {{}}, Prefetch(numbers)
            PROVE  "shas" \notin DOMAIN call'
        BY <3>2 DEF Prefetch
      <3>3. ASSUME NEW n \in Pulls, Capture(n) PROVE "shas" \notin DOMAIN call'
        BY <3>3 DEF Capture
      <3> QED
        BY <1>3, <3>1, <3>2, <3>3
    <2> QED
      BY <1>1, <2>1 DEF Retains
  <1>4. CASE UNCHANGED vars \/ Damage
    <2>1. CASE Damage
      <3>1. call' = Idle
        BY <2>1 DEF Damage
      <3> QED
        BY <1>1, <3>1 DEF Idle, Retains
    <2>2. CASE UNCHANGED vars
      <3>1. UNCHANGED <<tips, staging, objects, broken, call>>
        BY <2>2 DEF vars, store
      <3>2. Fields' = Fields /\ QueueEnds' = QueueEnds /\ Retains' = Retains
        BY <3>1 DEF Fields, QueueEnds, Retains
      <3>3. PendingUntilFound' = PendingUntilFound /\ InOrder(call.queue)' = InOrder(call.queue)
        BY <3>1 DEF PendingUntilFound, Verified, InOrder
      <3>4. TriedOrAhead' = TriedOrAhead /\ PullsDone' = PullsDone
        BY <3>1 DEF TriedOrAhead, PullsDone, Ahead, Damaged, Steady, Verified
      <3>5. SteadyReached' = SteadyReached
        BY <3>1 DEF SteadyReached, Steady, Tip
      <3>6. Fetching' = Fetching
        BY <3>1 DEF Fetching, Damaged, Steady, Sound, Batch, By, Known, Equivalent, Evidence
      <3> QED
        BY <3>2, <3>3, <3>4, <3>5, <3>6 DEF RetainInv
    <2> QED
      BY <1>4, <2>1, <2>2
  <1>5. ASSUME NEW r \in Remote, Move(r) PROVE RetainInv'
    <2>1. CASE ~Retains
      BY <1>1, <1>5, <2>1 DEF Move, Retains
    <2>2. CASE Retains
      <3>1. RetainInv /\ Fields
        BY <2>2 DEF RetainInv
      <3>2. /\ UNCHANGED <<staging, objects, broken>> /\ DOMAIN call' = DOMAIN call
            /\ Same({"steady"})
            /\ call'.steady = {p \in call.steady : p[1] = r => p[2] \in Reach({tips'[r]})}
        BY <1>5, <3>1 DEF Move, Fields, store
      <3>3. \A n \in Remote : n # r => tips'[n] = tips[n]
        BY <1>5 DEF Move, StoreInv, TypedRefs
      <3>4. \A i, c : Steady(i, c)' => Steady(i, c) /\ (Sources[i].name = r => c \in Reach({tips'[r]}))
        BY <3>2 DEF Steady
      <3>5. Fields' /\ InOrder(call.queue)' /\ QueueEnds'
        <4>1. call'.queue = call.queue /\ call'.step = call.step
          BY <3>1, <3>2 DEF Fields, CallInv, Shape
        <4>2. InOrder(call.queue) /\ QueueEnds
          BY <2>2 DEF RetainInv
        <4>3. InOrder(call.queue)'
          BY <4>1, <4>2 DEF InOrder
        <4> QED
          BY <3>1, <3>2, <4>1, <4>2, <4>3 DEF Fields, QueueEnds
      <3>6. /\ Verified' = Verified /\ \A c : Damaged(c)' = Damaged(c) /\ Sound(c)' = Sound(c)
            /\ \A i : Ahead(i)' = Ahead(i)
        BY <3>1, <3>2 DEF Verified, Damaged, Ahead, Sound, Fields
      <3>7. PendingUntilFound' /\ TriedOrAhead' /\ PullsDone'
        BY <2>2, <3>1, <3>2, <3>4, <3>6
        DEF RetainInv, PendingUntilFound, TriedOrAhead, PullsDone, Fields
      <3>8. \A i \in DOMAIN Sources : Sources[i].name \in Remote
        BY DEF Remote, Names
      <3>9. SteadyReached'
        BY <2>2, <3>1, <3>2, <3>3, <3>4, <3>8 DEF RetainInv, SteadyReached, Fields, Tip
      <3>10. /\ \A i : By(i)' = By(i) /\ Evidence(i)' = Evidence(i)
             /\ Batch' = Batch
        BY <3>1, <3>2 DEF By, Known, Equivalent, Evidence, Batch, Fields
      <3>11. Fetching'
        BY <2>2, <3>1, <3>2, <3>4, <3>6, <3>10 DEF RetainInv, Fetching, Fields, CallInv, Shape
      <3> QED
        BY <3>5, <3>7, <3>9, <3>11 DEF RetainInv
    <2> QED
      BY <2>1, <2>2
  <1>6. ASSUME NEW shas \in Requests, Retain(shas) PROVE RetainInv'
    <2> DEFINE pending == {c \in shas : Outcome(c) # "available"}
    <2>1. /\ Fields' /\ UNCHANGED <<tips, objects>> /\ call'.step = "batch" /\ call'.shas = shas
          /\ call'.pending = pending /\ call'.queue = Batches(pending) /\ call'.seen = None
          /\ call'.attempts = {Attempt(c, "managed-store", None) : c \in shas}
          /\ call'.steady = {p \in Names \X shas : p[2] \in Reach({tips[p[1]]})}
      BY <1>6 DEF Retain, Fields, store
    <2>2. pending \in SUBSET Commits
      BY GitAssumption
    <2> HIDE DEF pending
    <2>3. /\ InOrder(call'.queue)
          /\ \A i \in DOMAIN Sources : Targets(i, pending) # {} => Ahead(i)'
      BY <2>1, <2>2, BatchesAreComplete DEF Ahead
    <2>4. \A c \in pending : \A i \in Routes[c] : Ahead(i)'
      BY <2>2, <2>3 DEF Routes, Targets
    <2>5. TriedOrAhead' /\ PullsDone'
      BY <2>1, <2>4 DEF TriedOrAhead, PullsDone
    <2>6. PendingUntilFound'
      <3> SUFFICES ASSUME NEW c \in shas, c \notin Verified' PROVE c \in pending
        BY <2>1 DEF PendingUntilFound
      <3>1. Outcome(c) = "unavailable"
        BY <2>1, AttemptIsHonest DEF Verified
      <3> QED
        BY <3>1 DEF pending
    <2>7. SteadyReached'
      BY <2>1 DEF SteadyReached, Steady, Tip, Reach
    <2>8. QueueEnds' /\ Fetching'
      BY <2>1 DEF QueueEnds, Fetching
    <2>9. InOrder(call.queue)'
      BY <2>3 DEF InOrder
    <2> QED
      BY <2>1, <2>5, <2>6, <2>7, <2>8, <2>9 DEF RetainInv
  <1>7. ASSUME Retains, call.step # "fetch sources", call'.step \notin {"batch", "fetch sources"},
               call.step = "batch" => call.queue = <<>>,
               DOMAIN call' = DOMAIN call, Same({"step", "refetch", "groups"}), UNCHANGED tips,
               UNCHANGED staging \/ \A i \in DOMAIN Sources : staging'[i] = None
        PROVE  RetainInv'
    <2>1. /\ \A f \in {"shas", "queue", "seen", "steady", "pending", "attempts"} : call'[f] = call[f]
          /\ QueueEnds'
      BY <1>7 DEF RetainInv, Fields, QueueEnds
    <2>2. PendingUntilFound'
      BY <1>7, <2>1 DEF RetainInv, PendingUntilFound, Verified
    <2> QED
      BY <1>7, <2>1, <2>2, BetweenBatches
  <1>8. CASE \/ Heads \/ SplitHeads \/ RefreshMissing
             \/ PinBefore \/ Mirror \/ PinAfter \/ SetHead \/ Maintain
             \/ LastResort \/ PinCommits \/ Clear
    <2>1. DOMAIN call' = DOMAIN call /\ Same({"step", "refetch", "groups"})
      BY <1>8 DEF Heads, SplitHeads, RefreshMissing, PinBefore, Mirror, PinAfter, SetHead,
                  Maintain, LastResort, PinCommits, Clear
    <2>2. /\ UNCHANGED tips
          /\ UNCHANGED staging \/ \A i \in DOMAIN Sources : staging'[i] = None
      BY <1>8 DEF Heads, SplitHeads, RefreshMissing, PinBefore, Mirror, PinAfter, SetHead,
                  Maintain, LastResort, PinCommits, Clear, FetchHeads, store
    <2>3. /\ call.step \in {"heads", "snapshot", "pin", "fetch", "pin again", "set head",
                            "maintain", "batch", "pin commits", "clear"}
          /\ call.step = "batch" => call.queue = <<>>
      BY <1>8 DEF Heads, SplitHeads, RefreshMissing, PinBefore, Mirror, PinAfter, SetHead,
                  Maintain, LastResort, PinCommits, Clear
    <2>4. call'.step \notin {"batch", "fetch sources"}
      BY <1>8 DEF Heads, SplitHeads, RefreshMissing, PinBefore, Mirror, PinAfter, SetHead,
                  Maintain, LastResort, PinCommits, Clear, Unless, CallInv, Shape
    <2>5. CASE Retains
      BY <1>7, <2>1, <2>2, <2>3, <2>4, <2>5
    <2>6. CASE ~Retains
      BY <1>1, <2>1, <2>6 DEF Retains
    <2> QED
      BY <2>5, <2>6
  <1>9. CASE PassOver
    <2>1. /\ UNCHANGED <<tips, staging, objects, broken>> /\ DOMAIN call' = DOMAIN call
          /\ call.step = "batch" /\ call.queue # <<>> /\ Batch = {} /\ Same({"queue"})
      BY <1>9 DEF PassOver, store
    <2>2. Retains /\ RetainInv /\ Fields
      BY <2>1 DEF CallInv, Shape, RetainSteps, RetainInv
    <2>3. call'.queue = Tail(call.queue) /\ call'.step = "batch"
      BY <1>9, <2>1, <2>2 DEF PassOver, Fields, CallInv, Shape
    <2>4. \A c \in call.pending : \A i \in Routes[c] : Ahead(i) => Ahead(i)'
      <3> SUFFICES ASSUME NEW c \in call.pending, NEW i \in Routes[c], Ahead(i), ~Ahead(i)'
                   PROVE  FALSE
        OBVIOUS
      <3>1. i \in Head(call.queue)
        BY <2>1, <2>2, <2>3, NextBatches DEF RetainInv
      <3> QED
        BY <2>1, <2>2, <3>1, RoutedIsTarget DEF Batch
    <2>5. Fields' /\ QueueEnds' /\ Fetching'
      BY <2>1, <2>2, <2>3 DEF Fields, QueueEnds, Fetching
    <2>6. InOrder(call.queue)'
      BY <2>1, <2>2, <2>3, NextBatches DEF RetainInv
    <2>7. Verified' = Verified /\ \A c : Damaged(c)' = Damaged(c) /\ \A i : Steady(i, c)' = Steady(i, c)
      BY <2>1, <2>2 DEF Verified, Damaged, Steady, Fields
    <2>8. PendingUntilFound' /\ TriedOrAhead' /\ PullsDone'
      BY <2>1, <2>2, <2>4, <2>7
      DEF RetainInv, PendingUntilFound, TriedOrAhead, PullsDone, Fields
    <2>9. SteadyReached'
      BY <2>1, <2>2, <2>7 DEF RetainInv, SteadyReached, Fields, Tip
    <2> QED
      BY <2>5, <2>6, <2>8, <2>9 DEF RetainInv
  <1>10. CASE Observe
    <2>1. /\ UNCHANGED <<tips, staging, objects, broken>> /\ DOMAIN call' = DOMAIN call
          /\ call.step = "batch" /\ Same({"seen"})
      BY <1>10 DEF Observe, store
    <2>2. Retains /\ RetainInv /\ Fields
      BY <2>1 DEF CallInv, Shape, RetainSteps, RetainInv
    <2>3. PICK failed : call'.seen = [i \in DOMAIN Sources \ failed |-> Tip(i)]
      BY <1>10, <2>2 DEF Observe, Fields
    <2>4. Fields' /\ QueueEnds' /\ Fetching' /\ InOrder(call.queue)'
      BY <2>1, <2>2 DEF RetainInv, Fields, QueueEnds, Fetching, InOrder, CallInv, Shape
    <2>5. /\ Verified' = Verified /\ \A i : Ahead(i)' = Ahead(i)
          /\ \A c : Damaged(c)' = Damaged(c) /\ \A i : Steady(i, c)' = Steady(i, c)
      BY <2>1, <2>2 DEF Verified, Ahead, Damaged, Steady, Fields
    <2>6. PendingUntilFound' /\ TriedOrAhead' /\ PullsDone'
      BY <2>1, <2>2, <2>5 DEF RetainInv, PendingUntilFound, TriedOrAhead, PullsDone, Fields
    <2>7. SteadyReached'
      <3>1. \A i \in DOMAIN Sources : Tip(i)' = Tip(i)
        BY <2>1 DEF Tip
      <3>2. \A i \in DOMAIN call'.seen : call'.seen[i] = Tip(i)
        BY <2>3
      <3> QED
        BY <2>1, <2>2, <2>5, <3>1, <3>2 DEF RetainInv, SteadyReached, Fields
    <2> QED
      BY <2>4, <2>6, <2>7 DEF RetainInv
  <1>11. CASE Plan
    <2> DEFINE fetch == {i \in Batch : ~Absent(i) /\ By(i) = {}}
    <2>1. /\ UNCHANGED <<tips, objects, broken>> /\ DOMAIN call' = DOMAIN call
          /\ call.step = "batch" /\ call.queue # <<>>
          /\ Same({"step", "fetch", "with", "refetch", "got"})
      BY <1>11 DEF Plan
    <2>2. Retains /\ RetainInv /\ Fields
      BY <2>1 DEF CallInv, Shape, RetainSteps, RetainInv
    <2>3. /\ call'.step = "fetch sources" /\ call'.fetch = fetch
          /\ \A i \in Batch : Targets(i, call.pending) \intersect Verified # {} => call'.refetch
          /\ call'.got = {i \in Batch : By(i) # {}}
      <3> DEFINE targets == UNION {Targets(i, call.pending) : i \in Batch}
                 got == {i \in Batch : By(i) # {}}
      <3>1. call' = [call EXCEPT !.step = "fetch sources", !.fetch = fetch,
                                 !.with = Cardinality(fetch),
                                 !.refetch = targets \intersect Verified # {}, !.got = got]
        BY <1>11 DEF Plan
      <3>2. \A i \in Batch : Targets(i, call.pending) \intersect Verified # {} =>
               targets \intersect Verified # {}
        OBVIOUS
      <3> HIDE DEF fetch, targets, got
      <3>3. /\ call'.step = "fetch sources" /\ call'.fetch = fetch /\ call'.got = got
            /\ call'.refetch = (targets \intersect Verified # {})
        BY <2>2, <3>1 DEF Fields, CallInv, Shape
      <3>4. targets \intersect Verified # {} => call'.refetch
        BY <3>3
      <3> QED
        BY <3>2, <3>3, <3>4 DEF got
    <2>4. \A i \in DOMAIN Sources : staging'[i] = IF i \in fetch THEN None ELSE staging[i]
      BY <1>11 DEF Plan, StagedHere
    <2> HIDE DEF fetch
    <2>5. Fields' /\ QueueEnds' /\ InOrder(call.queue)'
      <3>1. call'.queue = call.queue /\ InOrder(call.queue)
        BY <2>1, <2>2 DEF RetainInv, Fields
      <3>2. InOrder(call.queue)'
        BY <3>1 DEF InOrder
      <3> QED
        BY <2>1, <2>2, <2>3, <3>2 DEF Fields, QueueEnds
    <2>6. /\ Verified' = Verified /\ \A i : Ahead(i)' = Ahead(i) /\ Batch' = Batch
          /\ \A c : Damaged(c)' = Damaged(c) /\ Sound(c)' = Sound(c)
          /\ \A i, c : Steady(i, c)' = Steady(i, c)
      BY <2>1, <2>2 DEF Verified, Ahead, Damaged, Sound, Steady, Batch, Fields
    <2>7. PendingUntilFound' /\ TriedOrAhead'
      BY <2>1, <2>2, <2>6 DEF RetainInv, PendingUntilFound, TriedOrAhead, Fields
    <2>8. SteadyReached'
      BY <2>1, <2>2, <2>6 DEF RetainInv, SteadyReached, Tip, Fields
    <2>9. Reach({None}) = {}
      BY DEF Reach
    <2>10. PullsDone'
      BY <2>1, <2>2, <2>4, <2>6, <2>9, RoutedIsTarget DEF RetainInv, PullsDone, Fields
    <2>11. \A i : By(i)' \subseteq By(i)
      BY <2>1, <2>2, <2>4 DEF By, Known, Equivalent, Fields
    <2>12. ASSUME NEW i \in fetch
           PROVE  By(i)' = {} /\ staging'[i] = None
      BY <2>4, <2>11, <2>12 DEF fetch, Batch
    <2>13. ASSUME NEW i \in Batch, NEW c \in Targets(i, call.pending)
           PROVE  /\ Damaged(c) => call'.refetch
                  /\ Steady(i, c) /\ i \notin fetch =>
                       i \in call'.got /\ c \in Reach({Evidence(i)'}) /\ Sound(c)
                  /\ Sources[i].kind = "pull-ref" /\ c \in Reach({staging'[i]}) =>
                       i \in call'.got /\ Sound(c)
      <3>1. Damaged(c) => call'.refetch
        BY <2>3, <2>13 DEF Damaged, Verified
      <3>2. InOrder(call.queue) /\ SteadyReached /\ PullsDone
        BY <2>2 DEF RetainInv
      <3>3. i \in DOMAIN Sources /\ i \in Routes[c] /\ c \in call.pending
        BY <2>13 DEF Batch, Targets
      <3>4. c \in call.shas /\ c \in Commits
        BY <2>2, <3>3, RoutedIsTarget
      <3>5. CASE By(i) # {}
        <4>1. i \in call'.got /\ i \notin fetch
          BY <2>3, <2>13, <3>5 DEF fetch
        <4>2. PICK j \in By(i) : TRUE
          BY <3>5
        <4>3. /\ Sources[i].kind = "repository-ref" /\ i \in DOMAIN call.seen /\ call.seen # None
              /\ \A k \in By(i) : /\ k \in DOMAIN Sources /\ Sources[k].kind = "pull-ref"
                                  /\ Sources[k].pull = Sources[i].pull
                                  /\ staging[k] # None /\ staging[k] = call.seen[i]
          BY <4>2, StandsIn
        <4>4. \A k \in fetch : Sources[k].kind = "repository-ref"
          BY <2>1, <2>13, <3>2, <4>3, BatchIsOfOneKind DEF fetch
        <4>5. \A k \in By(i) : staging'[k] = staging[k]
          BY <2>4, <4>3, <4>4
        <4>6. Evidence(i)' = call.seen[i]
          <5>1. call'.seen = call.seen
            BY <2>1, <2>2 DEF Fields
          <5>2. \A k : k \in By(i)' <=> k \in By(i)
            BY <2>11, <4>3, <4>5, <5>1 DEF By, Known, Equivalent
          <5>3. By(i)' = By(i)
            BY <5>2
          <5> QED
            BY <3>5, <4>3, <4>5, <5>3 DEF Evidence
        <4>7. ASSUME Steady(i, c) PROVE c \in Reach({call.seen[i]}) /\ Sound(c)
          <5>1. c \in Reach({call.seen[i]})
            BY <3>2, <3>3, <3>4, <4>3, <4>7 DEF SteadyReached
          <5>2. j \in Routes[c] /\ Sources[j].kind = "pull-ref" /\ c \in Reach({staging[j]})
            BY <3>3, <3>4, <4>3, <5>1 DEF Routes
          <5>3. ~Damaged(c)
            <6>1. ~Ahead(j)
              BY <2>1, <2>13, <3>2, <4>3, <5>2, BatchIsOfOneKind
            <6> QED
              BY <3>2, <3>3, <5>2, <6>1 DEF PullsDone
          <5>4. staging[j] \in objects
            BY <4>3 DEF StagedHere
          <5>5. c \in objects
            BY <5>2, <5>4 DEF Reach, StoreInv, Whole
          <5> QED
            BY <5>1, <5>3, <5>5 DEF Sound
        <4> QED
          BY <3>1, <4>1, <4>3, <4>6, <4>7
      <3>6. CASE By(i) = {} /\ Absent(i)
        <4>1. /\ call.seen # None /\ i \in DOMAIN call.seen /\ call.seen[i] = None
              /\ Sources[i].kind = "repository-ref"
          BY <3>6 DEF Absent, Known
        <4>2. ~Steady(i, c)
          BY <2>9, <3>2, <3>3, <3>4, <4>1 DEF SteadyReached
        <4> QED
          BY <3>1, <4>1, <4>2
      <3>7. CASE By(i) = {} /\ ~Absent(i)
        <4>1. i \in fetch
          BY <2>13, <3>7 DEF fetch
        <4> QED
          BY <2>9, <2>12, <3>1, <4>1
      <3> QED
        BY <3>5, <3>6, <3>7
    <2>14. Fetching'
      BY <2>1, <2>2, <2>3, <2>6, <2>12, <2>13 DEF Fetching, Fields, fetch
    <2> QED
      BY <2>5, <2>7, <2>8, <2>10, <2>14 DEF RetainInv
  <1>12. CASE FetchSources
    <2>1. Retains /\ RetainInv /\ Fields /\ Fetching /\ call.step = "fetch sources"
      BY <1>12 DEF FetchSources, CallInv, Shape, RetainSteps, RetainInv
    <2>2. PICK part : part \subseteq call.fetch /\ Fetched(part)
      BY <1>12 DEF FetchSources
    <2> DEFINE here == {i \in part : Tip(i) # None}
               set == {Tip(i) : i \in here}
    <2>3. /\ UNCHANGED tips /\ DOMAIN call' = DOMAIN call /\ Same({"fetch", "got"})
          /\ call'.fetch = call.fetch \ part /\ call'.got = call.got \union here
      BY <2>1, <2>2 DEF Fetched, Fields
    <2>4. \A i \in DOMAIN Sources : staging'[i] = IF i \in here THEN Tip(i) ELSE staging[i]
      BY <2>2 DEF Fetched, StagedHere
    <2>5. /\ objects' = objects \union Reach(set)
          /\ broken' = IF call.refetch THEN broken \ Reach(set) ELSE broken
      BY <2>2 DEF Fetched, Brought
    <2>6. here \subseteq call.fetch /\ call.fetch \subseteq Batch /\ Batch \subseteq DOMAIN Sources
      BY <2>1, <2>2 DEF Fetching, Batch
    <2>7. \A i \in here : Tip(i) \in set /\ Tip(i) # None /\ Tip(i) \in Commits
      BY <2>6, TipIsCommit DEF StoreInv
    <2> HIDE DEF here, set
    <2>8. Fields' /\ QueueEnds' /\ InOrder(call.queue)'
      <3>1. call'.queue = call.queue /\ InOrder(call.queue) /\ call'.step = call.step
        BY <2>1, <2>3 DEF RetainInv, Fields, CallInv, Shape
      <3>2. InOrder(call.queue)'
        BY <3>1 DEF InOrder
      <3> QED
        BY <2>1, <2>3, <3>1, <3>2 DEF Fields, QueueEnds
    <2>9. /\ Verified' = Verified /\ \A i : Ahead(i)' = Ahead(i) /\ Batch' = Batch
          /\ \A c : Damaged(c)' = Damaged(c) /\ \A i : Steady(i, c)' = Steady(i, c)
      BY <2>1, <2>3 DEF Verified, Ahead, Damaged, Steady, Batch, Fields
    <2>10. PendingUntilFound' /\ TriedOrAhead'
      <3>1. PendingUntilFound'
        BY <2>1, <2>3, <2>9 DEF RetainInv, PendingUntilFound, Fields
      <3>2. /\ TriedOrAhead /\ call'.pending = call.pending /\ call'.attempts = call.attempts
            /\ \A i : Ahead(i)' = Ahead(i)
        BY <2>1, <2>3, <2>9 DEF RetainInv, Fields
      <3>3. TriedOrAhead'
        BY <2>9, <3>2 DEF TriedOrAhead
      <3> QED
        BY <3>1, <3>3
    <2>11. SteadyReached'
      BY <2>1, <2>3, <2>9 DEF RetainInv, SteadyReached, Tip, Fields
    <2>12. \A c : Sound(c) => Sound(c)'
      BY <2>5, <2>9 DEF Sound
    <2>13. PullsDone'
      <3> SUFFICES ASSUME NEW c \in call.pending, Damaged(c), NEW j \in Routes[c],
                          Sources[j].kind = "pull-ref", ~Ahead(j)
                   PROVE  c \notin Reach({staging'[j]})
        BY <2>1, <2>3, <2>9 DEF PullsDone, Fields
      <3>1. c \notin Reach({staging[j]}) /\ j \in DOMAIN Sources
        BY <2>1, RoutedIsTarget DEF RetainInv, PullsDone
      <3>2. j \notin here
        BY <2>1, <2>6, BatchIsOfOneKind DEF RetainInv, Fetching
      <3> QED
        BY <2>4, <3>1, <3>2
    <2>14. ASSUME NEW i \in Batch
           PROVE  By(i)' = By(i) /\ (i \notin here => Evidence(i)' = Evidence(i))
      <3>1. call'.seen = call.seen
        BY <2>1, <2>3 DEF Fields
      <3>2. \A j \in here : Sources[j].kind = Sources[i].kind
        BY <2>1, <2>6, <2>14, BatchIsOfOneKind DEF RetainInv, Fetching
      <3>3. Sources[i].kind = "repository-ref" =>
              \A j \in DOMAIN Sources : Sources[j].kind = "pull-ref" => staging'[j] = staging[j]
        BY <2>4, <3>2
      <3>4. By(i)' = By(i)
        BY <3>1, <3>3 DEF By, Known, Equivalent
      <3>5. \A j \in By(i) : staging'[j] = staging[j]
        BY <3>3, StandsIn
      <3>6. i \notin here => staging'[i] = staging[i]
        BY <2>4, <2>6, <2>14
      <3> QED
        BY <3>4, <3>5, <3>6 DEF Evidence
    <2>15. ASSUME NEW i \in here, NEW c \in Reach({Tip(i)}), Damaged(c) => call.refetch
           PROVE  Sound(c)'
      <3>1. History[c] \subseteq Reach(set) /\ c \in Reach(set)
        BY <2>7, <2>15, HistoryIsClosed DEF Reach
      <3> QED
        BY <2>5, <2>9, <2>15, <3>1 DEF Sound
    <2>16. Fetching'
      <3>1. /\ call'.queue = call.queue /\ call'.pending = call.pending
            /\ call'.refetch = call.refetch /\ call'.step = call.step
        BY <2>1, <2>3 DEF Fields, CallInv, Shape
      <3>2. call'.queue # <<>> /\ call'.fetch \subseteq Batch
        BY <2>1, <2>3, <2>6, <3>1 DEF Fetching
      <3>3. ASSUME NEW i \in call'.fetch
            PROVE  By(i)' = {} /\ (Sources[i].kind = "pull-ref" => staging'[i] = None)
        <4>1. i \in call.fetch /\ i \notin here /\ i \in Batch
          BY <2>3, <2>6, <3>3 DEF here
        <4>2. staging'[i] = staging[i]
          BY <2>4, <2>6, <4>1
        <4> QED
          BY <2>1, <2>14, <4>1, <4>2 DEF Fetching
      <3>4. ASSUME NEW i \in Batch, NEW c \in Targets(i, call.pending)
            PROVE  /\ Damaged(c) => call.refetch
                   /\ Steady(i, c) /\ i \notin call'.fetch =>
                        i \in call'.got /\ c \in Reach({Evidence(i)'}) /\ Sound(c)'
                   /\ Sources[i].kind = "pull-ref" /\ c \in Reach({staging'[i]}) =>
                        i \in call'.got /\ Sound(c)'
        <4>1. /\ Damaged(c) => call.refetch
              /\ Steady(i, c) /\ i \notin call.fetch =>
                   i \in call.got /\ c \in Reach({Evidence(i)}) /\ Sound(c)
              /\ Sources[i].kind = "pull-ref" /\ c \in Reach({staging[i]}) =>
                   i \in call.got /\ Sound(c)
          BY <2>1, <3>4 DEF Fetching
        <4>2. CASE i \in here
          <5>1. staging'[i] = Tip(i) /\ i \in call'.got
            BY <2>3, <2>4, <2>6, <4>2
          <5>2. Evidence(i)' = Tip(i)
            <6>1. By(i)' = {}
              BY <2>1, <2>6, <2>14, <3>4, <4>2 DEF Fetching
            <6> QED
              BY <5>1, <6>1 DEF Evidence
          <5>3. Steady(i, c) => c \in Reach({Tip(i)})
            BY <2>1, <2>6, <3>4, <4>2, RoutedIsTarget DEF RetainInv, SteadyReached, Targets
          <5>4. c \in Reach({Tip(i)}) => Sound(c)'
            BY <2>15, <4>1, <4>2
          <5> QED
            BY <4>1, <5>1, <5>2, <5>3, <5>4
        <4>3. CASE i \notin here
          <5>1. staging'[i] = staging[i] /\ Evidence(i)' = Evidence(i)
            BY <2>4, <2>6, <2>14, <3>4, <4>3
          <5>2. ASSUME Steady(i, c), i \notin call'.fetch PROVE i \notin call.fetch
            <6>1. c \in Reach({Tip(i)})
              BY <2>1, <2>6, <3>4, <5>2, RoutedIsTarget DEF RetainInv, SteadyReached, Targets
            <6>2. Tip(i) # None
              BY <6>1 DEF Reach
            <6> QED
              BY <2>3, <4>3, <5>2, <6>2 DEF here
          <5> QED
            BY <2>3, <2>12, <4>1, <5>1, <5>2
        <4> QED
          BY <4>2, <4>3
      <3> QED
        BY <2>9, <3>1, <3>2, <3>3, <3>4 DEF Fetching
    <2> QED
      BY <2>8, <2>10, <2>11, <2>13, <2>16 DEF RetainInv
  <1>13. CASE Attribute
    <2>1. Retains /\ RetainInv /\ Fields /\ Fetching /\ call.step = "fetch sources"
      BY <1>13 DEF Attribute, CallInv, Shape, RetainSteps, RetainInv
    <2> DEFINE tried == UNION {Tried(i) : i \in Batch}
    <2>2. /\ UNCHANGED <<tips, staging, objects, broken>> /\ DOMAIN call' = DOMAIN call
          /\ call.fetch = {} /\ call.queue # <<>>
          /\ Same({"step", "queue", "attempts", "pending"})
      BY <1>13, <2>1 DEF Attribute, Fetching, store
    <2>3. /\ call'.step = "batch" /\ call'.queue = Tail(call.queue)
          /\ call'.attempts = call.attempts \union tried
          /\ call'.pending =
               {c \in call.pending : \A a \in tried : a.sha = c => a.outcome # "available"}
      BY <1>13, <2>1 DEF Attribute, Fields, CallInv, Shape
    <2>4. \A a \in tried : a.by # "managed-store"
      BY TriedIsHonest, GitAssumption DEF Names, Batch
    <2> HIDE DEF tried
    <2>5. /\ InOrder(call.queue)'
          /\ \A i : Ahead(i) => i \in Head(call.queue) \/ Ahead(i)'
      BY <2>1, <2>2, <2>3, NextBatches DEF RetainInv
    <2>6. Fields' /\ QueueEnds' /\ Fetching'
      BY <2>1, <2>2, <2>3 DEF Fields, QueueEnds, Fetching
    <2>7. /\ Verified \subseteq Verified' /\ \A c : Damaged(c)' = Damaged(c)
          /\ \A i, c : Steady(i, c)' = Steady(i, c)
      BY <2>1, <2>2, <2>3, <2>4 DEF Verified, Damaged, Steady, Fields
    <2>8. SteadyReached'
      BY <2>1, <2>2, <2>7 DEF RetainInv, SteadyReached, Tip, Fields
    <2>9. PendingUntilFound'
      <3> SUFFICES ASSUME NEW c \in call.shas, c \notin Verified' PROVE c \in call'.pending
        BY <2>1, <2>2 DEF PendingUntilFound, Fields
      <3>1. c \in call.pending
        BY <2>1, <2>7 DEF RetainInv, PendingUntilFound
      <3>2. \A a \in tried : a.sha = c => a.outcome = "unavailable"
        BY <2>3 DEF Verified
      <3> QED
        BY <2>3, <3>1, <3>2
    <2>10. ASSUME NEW c \in call.pending, NEW i \in Routes[c], i \in Head(call.queue)
           PROVE  i \in Batch /\ c \in Targets(i, call.pending)
      BY <2>1, <2>10, RoutedIsTarget DEF Batch
    <2>11. ASSUME NEW i \in Batch, NEW c \in Targets(i, call.pending)
           PROVE  \E a \in tried : a.sha = c /\ a.by = Sources[i].name
                     /\ a.outcome = IF c \in Candidates(i) THEN Outcome(c) ELSE "unavailable"
      <3> DEFINE a == [Attempt(c, Sources[i].name, Preflight(i)) EXCEPT
                         !.outcome = IF c \in Candidates(i) THEN @ ELSE "unavailable"]
      <3>1. a \in Tried(i)
        BY <2>11 DEF Tried
      <3>2. a.sha = c
        BY DEF Attempt
      <3> HIDE DEF a
      <3> QED
        BY <2>11, <3>1, <3>2, TriedIsHonest DEF tried
    <2>12. ASSUME NEW i \in Batch, NEW c \in Targets(i, call.pending),
                  i \in call.got, c \in Reach({Evidence(i)}), Sound(c)
           PROVE  c \in Verified' /\ (c \in call'.pending => ~Damaged(c))
      <3>1. c \in Candidates(i)
        BY <2>12 DEF Candidates
      <3>2. PICK a \in tried : a.sha = c /\ a.outcome = Outcome(c)
        BY <2>11, <2>12, <3>1
      <3>3. Outcome(c) # "unavailable" /\ (Damaged(c) => Outcome(c) = "available")
        BY <2>12, OutcomeOfFound DEF Sound
      <3> QED
        BY <2>3, <3>2, <3>3 DEF Verified
    <2>13. TriedOrAhead'
      <3> SUFFICES ASSUME NEW c \in call'.pending, NEW i \in Routes[c], ~Ahead(i)'
                   PROVE  /\ \E a \in call'.attempts : a.sha = c /\ a.by = Sources[i].name
                          /\ Steady(i, c)' => c \in Verified' /\ ~Damaged(c)'
        BY DEF TriedOrAhead
      <3>1. c \in call.pending
        BY <2>3
      <3>2. CASE ~Ahead(i)
        <4>1. TriedOrAhead
          BY <2>1 DEF RetainInv
        <4>2. call.attempts \subseteq call'.attempts
          BY <2>3
        <4>3. /\ \E a \in call.attempts : a.sha = c /\ a.by = Sources[i].name
              /\ Steady(i, c) => c \in Verified /\ ~Damaged(c)
          BY <3>1, <3>2, <4>1 DEF TriedOrAhead
        <4>4. \E a \in call'.attempts : a.sha = c /\ a.by = Sources[i].name
          BY <4>2, <4>3
        <4> QED
          BY <2>7, <4>3, <4>4
      <3>3. CASE Ahead(i)
        <4>1. i \in Batch /\ c \in Targets(i, call.pending)
          BY <2>5, <2>10, <3>1, <3>3
        <4>2. \E a \in call'.attempts : a.sha = c /\ a.by = Sources[i].name
          BY <2>3, <2>11, <4>1
        <4>3. Steady(i, c) => i \in call.got /\ c \in Reach({Evidence(i)}) /\ Sound(c)
          BY <2>1, <2>2, <4>1 DEF Fetching
        <4> QED
          BY <2>7, <2>12, <4>1, <4>2, <4>3
      <3> QED
        BY <3>2, <3>3
    <2>14. PullsDone'
      <3> SUFFICES ASSUME NEW c \in call'.pending, Damaged(c), NEW j \in Routes[c],
                          Sources[j].kind = "pull-ref", ~Ahead(j)', c \in Reach({staging[j]})
                   PROVE  FALSE
        BY <2>2, <2>7 DEF PullsDone
      <3>1. c \in call.pending
        BY <2>3
      <3>2. Ahead(j)
        BY <2>1, <3>1 DEF RetainInv, PullsDone
      <3>3. j \in Batch /\ c \in Targets(j, call.pending)
        BY <2>5, <2>10, <3>1, <3>2
      <3>4. j \in call.got /\ Sound(c)
        BY <2>1, <3>3 DEF Fetching
      <3>5. Evidence(j) = staging[j]
        <4>1. By(j) = {}
          BY StandsIn
        <4> QED
          BY <4>1 DEF Evidence
      <3> QED
        BY <2>12, <3>3, <3>4, <3>5
    <2> QED
      BY <2>5, <2>6, <2>8, <2>9, <2>13, <2>14 DEF RetainInv
  <1>14. CASE Upmost
    <2> DEFINE more == {Attempt(c, "upstream-refs", None) : c \in call.pending}
    <2>1. /\ UNCHANGED <<tips, staging, objects, broken>> /\ call.step = "last"
          /\ DOMAIN call' = DOMAIN call /\ call'.step = "pin commits"
          /\ Same({"step", "attempts", "pending"})
      BY <1>14 DEF Upmost, CallInv, Shape, store
    <2>2. Retains /\ RetainInv /\ Fields
      BY <2>1 DEF CallInv, Shape, RetainSteps, RetainInv
    <2>3. /\ call'.attempts = call.attempts \union more
          /\ call'.pending = {c \in call.pending : Outcome(c) # "available"}
      BY <1>14, <2>2 DEF Upmost, Fields
    <2>4. \A a \in more : a.by # "managed-store"
      BY AttemptIsHonest
    <2>5. PendingUntilFound'
      <3> SUFFICES ASSUME NEW c \in call.shas, c \notin Verified' PROVE c \in call'.pending
        BY <2>1, <2>2 DEF PendingUntilFound, Fields
      <3>1. c \notin Verified
        BY <2>3 DEF Verified
      <3>2. c \in call.pending
        BY <2>2, <3>1 DEF RetainInv, PendingUntilFound
      <3>3. Attempt(c, "upstream-refs", None) \in call'.attempts
        BY <2>3, <3>2
      <3>4. Outcome(c) = "unavailable"
        BY <3>3, AttemptIsHonest DEF Verified
      <3> QED
        BY <2>3, <3>2, <3>4
    <2>6. QueueEnds'
      BY <2>1, <2>2 DEF RetainInv, QueueEnds, Fields
    <2> HIDE DEF more
    <2> QED
      BY <2>1, <2>2, <2>3, <2>4, <2>5, <2>6, BetweenBatches DEF Fields
  <1> QED
    BY <1>2, <1>3, <1>4, <1>5, <1>6, <1>7, <1>8, <1>9, <1>10, <1>11, <1>12, <1>13, <1>14
    DEF Next

LEMMA EmptyQueue == \A q : q = <<>> => \A k : k \notin DOMAIN q
  OBVIOUS

LEMMA RetentionInvariant == Spec => [](IInv /\ StagedHere /\ RetainInv)
  <1>1. Init => IInv /\ StagedHere /\ RetainInv
    BY InitIInv, InitRetain
  <1>2. IInv /\ StagedHere /\ RetainInv /\ [Next]_vars => (IInv /\ StagedHere /\ RetainInv)'
    BY StepStore, StepCall, StepStaged, StepRetain DEF IInv
  <1> QED
    BY <1>1, <1>2, PTL DEF Spec

(* retain_commits reports a commit as unavailable, or leaves damaged what  *)
(* it found damaged, only after an attempt at each of its refs, and only   *)
(* if none of them reached it from the beginning of the call to its end.   *)
THEOREM GitStoreOverlooksNothing == Spec => []NothingOverlooked
  <1>1. IInv /\ StagedHere /\ RetainInv => NothingOverlooked
    <2> SUFFICES ASSUME IInv, RetainInv, call.step = "pin commits",
                        NEW c \in GivenUp, NEW i \in Routes[c]
                 PROVE  /\ ~Steady(i, c)
                        /\ \E a \in call.attempts : a.sha = c /\ a.by = Sources[i].name
      BY DEF NothingOverlooked, Steady
    <2>1. Retains
      BY DEF IInv, CallInv, Shape, RetainSteps
    <2>2. QueueEnds /\ PendingUntilFound /\ TriedOrAhead
      BY <2>1 DEF RetainInv
    <2>3. ~Ahead(i)
      <3>1. call.queue = <<>>
        BY <2>2 DEF QueueEnds
      <3>2. \A k : k \notin DOMAIN call.queue
        BY <3>1, EmptyQueue
      <3> QED
        BY <3>2 DEF Ahead
    <2>4. c \in call.shas /\ (c \notin Verified \/ (c \in call.pending /\ Damaged(c)))
      BY DEF GivenUp, Result, Damaged
    <2>5. c \in call.pending
      BY <2>2, <2>4 DEF PendingUntilFound
    <2>6. /\ \E a \in call.attempts : a.sha = c /\ a.by = Sources[i].name
          /\ Steady(i, c) => c \in Verified /\ ~Damaged(c)
      BY <2>2, <2>3, <2>5 DEF TriedOrAhead
    <2> QED
      BY <2>4, <2>6
  <1> QED
    BY <1>1, RetentionInvariant, PTL

===============================================================================
