-------------------------- MODULE SyncCycleProofs --------------------------
(***************************************************************************)
(* Proofs about SyncCycle, for every number of parents, page size, lag of  *)
(* the timestamps, and every number of changes, crashes and refreshes:     *)
(* the types, that a fact never goes back to an older version, that a      *)
(* cycle completes only when all it selected is archived, and that between *)
(* cycles no update of the repository is lost.                             *)
(***************************************************************************)
EXTENDS SyncCycle, FiniteSetTheorems, TLAPS

-----------------------------------------------------------------------------
(* Tasks.                                                                  *)

Has(key) == \E t \in tasks : t.key = key

(* Which numbers a key is bound to.                                        *)
Binding(key, numbers) ==
    \/ key = Refs /\ numbers = {}
    \/ \E n \in Numbers :
          key \in {Parent(n), PullGit(n), ClosingSingle(n)} /\ numbers = {n}
    \/ \E k \in Nat : key = ClosingPage(k) /\ numbers \subseteq Numbers

IsTask(t) ==
    /\ t \in [key : {t.key}, numbers : {t.numbers}, done : BOOLEAN]
    /\ Binding(t.key, t.numbers)

OnePerKey(set) == \A t, u \in set : t.key = u.key => t = u

TasksOK == (\A t \in tasks : IsTask(t)) /\ OnePerKey(tasks)

(* Some page's closing-issues task covers the pull n.                      *)
PageCovers(n) == \E t \in tasks : (\E k \in Nat : t.key = ClosingPage(k)) /\ n \in t.numbers

-----------------------------------------------------------------------------
(* Facts: what the archive and the process have seen of a parent, each a   *)
(* version and the instant it was read.                                    *)

Held(n) == IF pc = "save" THEN {e \in memory : e.number = n} ELSE {}
Seen(n) == {catalog[n], issueFact[n]} \cup {e.summary : e \in Held(n)}

RootFacts(n) == {head[n].root} \cup {Fact(s.root, s.at) : s \in Seen(n)}
CommentFacts(n) == {head[n].comments} \cup {Fact(s.comments, s.at) : s \in Seen(n)}

(* A fact shows a version there was, and the present one if it was read    *)
(* after the present one's timestamp by more than the lag.                 *)
Truthful(facts, thing, now) ==
    \A f \in facts :
       /\ f.ver \in Nat /\ f.at \in Int /\ f.at >= Never
       /\ f.ver <= thing.ver /\ f.at <= now
       /\ f.at > thing.stamp + Skew => f.ver = thing.ver

(* What was read later is no older.                                        *)
InOrder(facts) == \A f, g \in facts : f.at < g.at => f.ver <= g.ver

RootsTrue == \A n \in Numbers : Truthful(RootFacts(n), root[n], clock) /\ InOrder(RootFacts(n))
CommentsTrue ==
    \A n \in Numbers : Truthful(CommentFacts(n), comment[n], clock) /\ InOrder(CommentFacts(n))

-----------------------------------------------------------------------------
(* The parts of the inductive invariant.                                   *)

(* What the phases of sync() and the cycle have to do with each other.     *)
Phases ==
    /\ checkpoint <= clock
    /\ pc # "down" => cycle.active
    /\ cycle.active =>
          cycle.from = checkpoint /\ checkpoint <= cycle.start /\ cycle.start <= clock
    /\ ~cycle.active =>
          /\ signals = {} /\ tasks = {} /\ commented = {}
          /\ \A n \in Numbers : catalog[n] = Unseen /\ issueFact[n] = Unseen
    /\ pc \in {"feeds", "signals", "enqueue"} => ~cycle.begun
    /\ pc \in {"fetch", "save", "drain", "complete"} => cycle.begun
    /\ pc \in {"fetch", "save"} => cycle.cursor # 0

Entry(e) ==
    e.number # 0 =>
       /\ e.number \in Numbers /\ e.summary \in Summary
       /\ e.summary.at >= cycle.start

MemoryOK ==
    /\ pc \in {"signals", "enqueue"} => memory \subseteq Numbers
    /\ pc = "save" => \A e \in memory : Entry(e)

(* A commented root exists.                                                *)
Rooted == \A n \in Numbers : comment[n].ver > 0 => root[n].ver > 0

(* Everything the cycle has read or published is as recent as its start.   *)
Recent ==
    \A n \in Numbers :
       /\ catalog[n] # Unseen => catalog[n].at >= cycle.start
       /\ issueFact[n] # Unseen =>
             issueFact[n].at >= cycle.start /\ head[n].root.at >= cycle.start
       /\ n \in commented => head[n].comments.at >= cycle.start

(* A parent is done after its comments, and its children are on the table. *)
Parents ==
    \A n \in Numbers :
       /\ n \in commented => issueFact[n] # Unseen
       /\ IsDone(Parent(n)) =>
             /\ n \in commented
             /\ n \in Pulls =>
                   /\ pull[n] = "whole" /\ Has(PullGit(n))
                   /\ (catalog[n] # Unseen \/ Has(ClosingSingle(n)))

(* A catalog entry has its tasks.                                          *)
Catalogued ==
    \A n \in Numbers :
       catalog[n] # Unseen => Has(Parent(n)) /\ (n \in Pulls => PageCovers(n))

(* The signals of an earlier run of sync() are those of a later one too,   *)
(* and have their tasks once the feeds are behind.                         *)
Signalled ==
    /\ signals \subseteq CommentFeed
    /\ cycle.from = Never => signals = {}
    /\ pc = "signals" => cycle.from # Never /\ memory \subseteq CommentFeed
    /\ pc \in {"signals", "enqueue"} => signals \subseteq memory
    /\ pc = "begin" \/ cycle.begun => \A n \in signals : Has(Parent(n))

(* A comment feed entry of before the cycle is in every feed of the cycle. *)
Noticed ==
    cycle.active /\ cycle.from # Never =>
       \A n \in Numbers :
          n \in CommentFeed /\ comment[n].stamp + Overlap < cycle.start =>
             /\ pc \in {"signals", "enqueue"} => n \in memory
             /\ pc = "begin" \/ cycle.begun => Has(Parent(n))

(* The parents the traversal must list: in the listing since before the    *)
(* cycle.                                                                  *)
Owed(n) ==
    /\ n \in Listing
    /\ \/ root[n].stamp + Overlap < cycle.start
       \/ cycle.from = Never /\ comment[n].ver > 0 /\ comment[n].stamp + Overlap < cycle.start

(* The listing only grows under the traversal, so what is not listed yet   *)
(* lies behind the pages that were read.                                   *)
Listed ==
    cycle.active /\ cycle.begun =>
       \A n \in Numbers :
          Owed(n) /\ catalog[n] = Unseen =>
             /\ cycle.cursor # 0
             /\ Position(n) > (cycle.cursor - 1) * PageSize
             /\ pc = "save" =>
                   \/ \E e \in memory : e.number = n
                   \/ MorePages /\ Position(n) > cycle.cursor * PageSize

(* NoLostUpdate, also while a cycle is active.                             *)
NothingLost ==
    checkpoint # Never =>
       \A n \in Numbers :
          /\ StaleRoot(n) => root[n].stamp >= checkpoint - Overlap
          /\ StaleComments(n) => comment[n].stamp >= checkpoint - Overlap

Facts == [ver : Nat, at : Times \cup {Never}]
HeadOK == head \in [Numbers -> [root : Facts, comments : Facts]]

IInv ==
    /\ TypeOK /\ HeadOK /\ TasksOK /\ MemoryOK /\ Phases /\ Rooted
    /\ RootsTrue /\ CommentsTrue /\ Recent
    /\ Parents /\ Catalogued /\ Signalled /\ Noticed /\ Listed /\ NothingLost

-----------------------------------------------------------------------------
(* Values. *)

LEMMA KeysDiffer ==
    /\ \A n, m : Parent(n) # PullGit(m) /\ Parent(n) # ClosingSingle(m) /\ Parent(n) # ClosingPage(m)
    /\ \A n, m : PullGit(n) # ClosingSingle(m) /\ PullGit(n) # ClosingPage(m)
    /\ \A n, m : ClosingSingle(n) # ClosingPage(m)
    /\ \A n : Refs # Parent(n) /\ Refs # PullGit(n) /\ Refs # ClosingSingle(n) /\ Refs # ClosingPage(n)
    /\ \A n, m : Parent(n) = Parent(m) => n = m
    /\ \A n, m : PullGit(n) = PullGit(m) => n = m
    /\ \A n, m : ClosingSingle(n) = ClosingSingle(m) => n = m
    /\ \A n, m : ClosingPage(n) = ClosingPage(m) => n = m
  BY DEF Refs, Parent, PullGit, ClosingSingle, ClosingPage

LEMMA KindsDiffer ==
    /\ \A n : Parent(n)[1] = "parent" /\ PullGit(n)[1] = "pull-git"
    /\ \A n : ClosingSingle(n)[1] = "closing:single" /\ ClosingPage(n)[1] = "closing"
    /\ Refs[1] = "git-refs"
  BY DEF Refs, Parent, PullGit, ClosingSingle, ClosingPage

LEMMA NumbersAre == /\ N \in Nat /\ \A n \in Numbers : n \in Nat /\ n # 0
                    /\ MaxTime \in Nat /\ MaxEdits \in Nat /\ MaxComments \in Nat
                    /\ PageSize \in Nat /\ PageSize # 0
                    /\ Skew \in Nat /\ Overlap \in Nat /\ Skew <= Overlap
  BY SizeAssumption, OverlapAssumption DEF Numbers

LEMMA ReadIsSummary ==
    ASSUME TypeOK, NEW n \in Numbers
    PROVE  /\ ReadRoot(n) \in Summary
           /\ ReadRoot(n).root = root[n].ver /\ ReadRoot(n).comments = comment[n].ver
           /\ ReadRoot(n).at = clock /\ ReadRoot(n) # Unseen
  BY NumbersAre DEF TypeOK, ReadRoot, Summary, Unseen, Times, Never

LEMMA UnseenIsSummary ==
    /\ Unseen \in Summary /\ Unseen.root = 0 /\ Unseen.comments = 0 /\ Unseen.at = -1
  BY NumbersAre DEF Unseen, Summary, Never

LEMMA SummaryParts ==
    ASSUME NEW s \in Summary
    PROVE  /\ s.root \in Nat /\ s.comments \in Nat /\ s.at \in Int /\ s.at >= -1
           /\ s.at >= 0 => s # Unseen
  BY NumbersAre, UnseenIsSummary DEF Summary, Times, Never

LEMMA FactParts == \A ver, at : Fact(ver, at).ver = ver /\ Fact(ver, at).at = at
  BY DEF Fact

LEMMA NoFactParts == NoFact.ver = 0 /\ NoFact.at = -1
  BY DEF NoFact, Never

-----------------------------------------------------------------------------
(* What the table becomes.                                                 *)

(* What the table had, it keeps.                                           *)
Kept ==
    \A t \in tasks : \E u \in tasks' :
       u.key = t.key /\ u.numbers = t.numbers /\ (t.done => u.done)

(* What is done was done, or is the task that has just finished.           *)
NoneDoneBut(key) ==
    \A u \in tasks' : u.done => u.key = key \/ \E t \in tasks : t.key = u.key /\ t.done

LEMMA FinishedTable ==
    ASSUME TasksOK, NEW key, tasks' = Finish(key)
    PROVE  TasksOK' /\ Kept /\ NoneDoneBut(key)
PROOF
  <1>1. \A t \in tasks : Completed(t) \in [key : {t.key}, numbers : {t.numbers}, done : {TRUE}]
    BY DEF TasksOK, IsTask, Completed
  <1>2. \A u \in tasks' : \E t \in tasks :
           u = IF t.key = key THEN Completed(t) ELSE t
    BY DEF Finish
  <1>3. \A t \in tasks : (IF t.key = key THEN Completed(t) ELSE t) \in tasks'
    BY DEF Finish
  <1>4. \A t \in tasks : /\ Completed(t).key = t.key /\ Completed(t).numbers = t.numbers
                         /\ Completed(t).done
    BY <1>1
  <1>10. \A t \in tasks : IsTask(Completed(t))
    BY <1>1, <1>4 DEF TasksOK, IsTask
  <1>5. \A u \in tasks' : IsTask(u)
    BY <1>2, <1>10 DEF TasksOK
  <1>6. OnePerKey(tasks')
    BY <1>2, <1>4 DEF TasksOK, OnePerKey
  <1>7. Kept
    BY <1>3, <1>4 DEF Kept
  <1>8. NoneDoneBut(key)
    BY <1>2, <1>4 DEF NoneDoneBut
  <1>. QED  BY <1>5, <1>6, <1>7, <1>8 DEF TasksOK

(* What may be inserted: fresh tasks.                                      *)
Drafts(drafts) ==
    /\ \A d \in drafts : IsTask(d) /\ ~d.done
    /\ OnePerKey(drafts)

LEMMA InsertedTable ==
    ASSUME TasksOK, NEW drafts, Drafts(drafts), tasks' = Insert(drafts), NEW key
    PROVE  /\ TasksOK' /\ Kept /\ NoneDoneBut(key)
           /\ \A d \in drafts : \E u \in tasks' :
                 u.key = d.key /\ (~Conflicts(drafts) => u.numbers = d.numbers)
           /\ \A u \in tasks' : u \in tasks \/ u \in drafts
PROOF
  <1>1. \A u \in tasks' : \/ u \in tasks
                          \/ u \in drafts /\ \A t \in tasks : t.key # u.key
    BY DEF Insert
  <1>2. tasks \subseteq tasks' /\ \A d \in drafts : (\A t \in tasks : t.key # d.key) => d \in tasks'
    BY DEF Insert
  <1>3. \A u \in tasks' : IsTask(u)
    BY <1>1 DEF TasksOK, Drafts
  <1>4. OnePerKey(tasks')
    BY <1>1 DEF TasksOK, Drafts, OnePerKey
  <1>5. Kept
    BY <1>2 DEF Kept
  <1>6. NoneDoneBut(key)
    BY <1>1 DEF NoneDoneBut, Drafts
  <1>7. ASSUME NEW d \in drafts
        PROVE  \E u \in tasks' : u.key = d.key /\ (~Conflicts(drafts) => u.numbers = d.numbers)
    <2>1. CASE \A t \in tasks : t.key # d.key
      BY <1>2, <2>1
    <2>2. CASE \E t \in tasks : t.key = d.key
      BY <1>2, <2>2 DEF Conflicts
    <2>. QED  BY <2>1, <2>2
  <1>. QED  BY <1>1, <1>3, <1>4, <1>5, <1>6, <1>7 DEF TasksOK

LEMMA TaskParts ==
    ASSUME NEW key, NEW numbers
    PROVE  /\ Task(key, numbers).key = key /\ Task(key, numbers).numbers = numbers
           /\ ~Task(key, numbers).done
           /\ Binding(key, numbers) => IsTask(Task(key, numbers))
  BY DEF Task, IsTask

LEMMA InitialDrafts ==
    ASSUME memory \subseteq Numbers
    PROVE  Drafts({Task(Refs, {})} \cup {Task(Parent(n), {n}) : n \in memory})
PROOF
  <1>1. Binding(Refs, {}) /\ \A n \in Numbers : Binding(Parent(n), {n})
    BY DEF Binding
  <1>2. \A n, m : Parent(n) = Parent(m) => n = m
    BY KeysDiffer
  <1>3. \A n : Refs # Parent(n)
    BY KeysDiffer
  <1>4. /\ IsTask(Task(Refs, {})) /\ ~Task(Refs, {}).done /\ Task(Refs, {}).key = Refs
        /\ \A n \in Numbers : /\ IsTask(Task(Parent(n), {n})) /\ ~Task(Parent(n), {n}).done
                              /\ Task(Parent(n), {n}).key = Parent(n)
    BY <1>1, TaskParts
  <1>5. \A d \in {Task(Refs, {})} \cup {Task(Parent(n), {n}) : n \in memory} :
           d = Task(Refs, {}) \/ \E n \in Numbers : d = Task(Parent(n), {n})
    OBVIOUS
  <1>. DEFINE drafts == {Task(Refs, {})} \cup {Task(Parent(n), {n}) : n \in memory}
  <1>. HIDE DEF drafts
  <1>6. \A d \in drafts : IsTask(d) /\ ~d.done
    BY <1>4, <1>5 DEF drafts
  <1>7. ASSUME NEW d \in drafts, NEW e \in drafts, d.key = e.key  PROVE d = e
    <2>1. CASE d = Task(Refs, {}) /\ e = Task(Refs, {})
      BY <2>1
    <2>2. CASE d = Task(Refs, {}) /\ \E n \in Numbers : e = Task(Parent(n), {n})
      BY <2>2, <1>3, <1>4, <1>7
    <2>3. CASE e = Task(Refs, {}) /\ \E n \in Numbers : d = Task(Parent(n), {n})
      BY <2>3, <1>3, <1>4, <1>7
    <2>4. ASSUME NEW n \in Numbers, NEW m \in Numbers,
                 d = Task(Parent(n), {n}), e = Task(Parent(m), {m})
          PROVE  d = e
      BY <2>4, <1>2, <1>4, <1>7
    <2>. QED  BY <2>1, <2>2, <2>3, <2>4, <1>5 DEF drafts
  <1>8. Drafts(drafts)
    BY <1>6, <1>7 DEF Drafts, OnePerKey
  <1>. QED  BY <1>8 DEF drafts

LEMMA ChildDrafts ==
    ASSUME NEW n \in Numbers
    PROVE  Drafts({Task(PullGit(n), {n})}) /\ Drafts({Task(ClosingSingle(n), {n})})
PROOF
  <1>1. Binding(PullGit(n), {n}) /\ Binding(ClosingSingle(n), {n})
    BY DEF Binding
  <1>. QED  BY <1>1, TaskParts DEF Drafts, OnePerKey

LEMMA PageDrafts ==
    ASSUME TypeOK, MemoryOK, pc = "save"
    PROVE  Drafts(PageTasks)
PROOF
  <1>. DEFINE numbers == {entry.number : entry \in Page}
  <1>1. numbers \subseteq Numbers
    BY DEF MemoryOK, Page, Entry
  <1>2. PageOrdinal \in Nat
    BY DEF PageOrdinal, TypeOK
  <1>3. /\ \A n \in numbers : Binding(Parent(n), {n})
        /\ Binding(ClosingPage(PageOrdinal), numbers \cap Pulls)
    BY <1>1, <1>2 DEF Binding
  <1>4. \A d \in PageTasks : \/ \E n \in numbers : d = Task(Parent(n), {n})
                             \/ d = Task(ClosingPage(PageOrdinal), numbers \cap Pulls)
    BY DEF PageTasks
  <1>5. \A n, m : Parent(n) = Parent(m) => n = m
    BY KeysDiffer
  <1>6. \A n : ClosingPage(PageOrdinal) # Parent(n)
    BY KeysDiffer
  <1>. DEFINE closing == Task(ClosingPage(PageOrdinal), numbers \cap Pulls)
  <1>7. /\ IsTask(closing) /\ ~closing.done /\ closing.key = ClosingPage(PageOrdinal)
        /\ \A n \in numbers : /\ IsTask(Task(Parent(n), {n})) /\ ~Task(Parent(n), {n}).done
                              /\ Task(Parent(n), {n}).key = Parent(n)
    BY <1>3, TaskParts
  <1>8. \A d \in PageTasks : d = closing \/ \E n \in numbers : d = Task(Parent(n), {n})
    BY <1>4
  <1>. HIDE DEF numbers, closing
  <1>9. \A d \in PageTasks : IsTask(d) /\ ~d.done
    BY <1>7, <1>8
  <1>10. ASSUME NEW d \in PageTasks, NEW e \in PageTasks, d.key = e.key  PROVE d = e
    <2>1. CASE d = closing /\ e = closing
      BY <2>1
    <2>2. CASE d = closing /\ \E n \in numbers : e = Task(Parent(n), {n})
      BY <2>2, <1>6, <1>7, <1>10
    <2>3. CASE e = closing /\ \E n \in numbers : d = Task(Parent(n), {n})
      BY <2>3, <1>6, <1>7, <1>10
    <2>4. ASSUME NEW n \in numbers, NEW m \in numbers,
                 d = Task(Parent(n), {n}), e = Task(Parent(m), {m})
          PROVE  d = e
      BY <2>4, <1>5, <1>7, <1>10
    <2>. QED  BY <2>1, <2>2, <2>3, <2>4, <1>8
  <1>. QED  BY <1>9, <1>10 DEF Drafts, OnePerKey

(* Consequences of a table that keeps what it had.                         *)
LEMMA KeptKeys ==
    ASSUME Kept
    PROVE  /\ \A key : Has(key) => Has(key)'
           /\ \A n : PageCovers(n) => PageCovers(n)'
  BY DEF Kept, Has, PageCovers

LEMMA KeptSame ==
    ASSUME UNCHANGED tasks
    PROVE  /\ TasksOK => TasksOK'
           /\ \A key : Has(key)' <=> Has(key)
           /\ \A key : IsDone(key)' <=> IsDone(key)
           /\ \A n : PageCovers(n)' <=> PageCovers(n)
  BY DEF TasksOK, OnePerKey, IsTask, Binding, Has, IsDone, Row, PageCovers

LEMMA DoneWas ==
    ASSUME NEW key, NoneDoneBut(key), NEW other, other # key
    PROVE  IsDone(other)' => IsDone(other)
  BY DEF NoneDoneBut, IsDone, Row

-----------------------------------------------------------------------------
(* Types. *)

(* TypeOK without the table.                                               *)
PlainTypes ==
    /\ clock \in Times /\ checkpoint \in Times \cup {Never}
    /\ root \in [Numbers -> [ver : 0 .. MaxEdits + 1, stamp : Times]]
    /\ comment \in [Numbers -> [ver : 0 .. MaxComments, stamp : Times]]
    /\ cycle \in [active : BOOLEAN, start : Times, from : Times \cup {Never},
                  begun : BOOLEAN, cursor : Nat, pages : Nat]
    /\ catalog \in [Numbers -> Summary] /\ signals \subseteq Numbers
    /\ issueFact \in [Numbers -> Summary] /\ commented \subseteq Numbers
    /\ pull \in [Numbers -> {"unread", "read", "moved", "whole"}]
    /\ pc \in {"down", "feeds", "signals", "enqueue", "begin", "fetch",
               "save", "drain", "complete"}
    /\ stops \in 0 .. MaxStops

LEMMA TypesAre ==
    /\ TypeOK => PlainTypes
    /\ PlainTypes /\ HeadOK /\ TasksOK => TypeOK
PROOF
  <1>1. TypeOK => PlainTypes
    BY DEF TypeOK, PlainTypes
  <1>2. ASSUME HeadOK
        PROVE  \A n \in Numbers : \A fact \in {head[n].root, head[n].comments} :
                  fact.ver \in Nat /\ fact.at \in Times \cup {Never}
    BY <1>2 DEF HeadOK, Facts
  <1>3. ASSUME TasksOK, NEW t \in tasks
        PROVE  t.numbers \subseteq Numbers /\ t.done \in BOOLEAN /\ Row(t.key) = {t}
    <2>1. t.numbers \subseteq Numbers /\ t.done \in BOOLEAN
      BY <1>3 DEF TasksOK, IsTask, Binding
    <2>2. Row(t.key) = {t}
      BY <1>3 DEF TasksOK, OnePerKey, Row
    <2>. QED  BY <2>1, <2>2
  <1>4. ASSUME PlainTypes, HeadOK, TasksOK  PROVE TypeOK
    BY <1>2, <1>3, <1>4 DEF TypeOK, PlainTypes
  <1>. QED  BY <1>1, <1>4

LEMMA AdvanceParts ==
    ASSUME NEW current \in Facts, NEW fact \in Facts
    PROVE  /\ Advance(current, fact) \in Facts
           /\ Advance(current, fact) \in {current, fact}
           /\ Advance(current, fact).at >= current.at
           /\ Advance(current, fact).at >= fact.at
  BY NumbersAre DEF Advance, Facts, Times, Never

LEMMA FactTypes ==
    ASSUME NEW ver \in Nat, NEW at \in Times \cup {Never}
    PROVE  Fact(ver, at) \in Facts
  BY DEF Fact, Facts

LEMMA HeadRecord ==
    ASSUME NEW h \in [root : Facts, comments : Facts], NEW fact \in Facts
    PROVE  /\ [h EXCEPT !.root = fact] = [root |-> fact, comments |-> h.comments]
           /\ [h EXCEPT !.comments = fact] = [root |-> h.root, comments |-> fact]
  OBVIOUS

LEMMA InitTypes ==
    ASSUME Init PROVE PlainTypes /\ HeadOK /\ TasksOK
PROOF
  <1>. USE NumbersAre, UnseenIsSummary DEF Init
  <1>0. \A n \in Numbers : (IF n <= Existing THEN 1 ELSE 0) \in 0 .. MaxEdits + 1
    BY SizeAssumption DEF Numbers
  <1>1. PlainTypes
    <2>1. root \in [Numbers -> [ver : 0 .. MaxEdits + 1, stamp : Times]]
      BY <1>0 DEF Times
    <2>2. comment \in [Numbers -> [ver : 0 .. MaxComments, stamp : Times]]
      BY DEF Times
    <2>3. cycle \in [active : BOOLEAN, start : Times, from : Times \cup {Never},
                  begun : BOOLEAN, cursor : Nat, pages : Nat]
      BY DEF NoCycle, Times
    <2>4. stops \in 0 .. MaxStops
      BY SizeAssumption
    <2>. QED  BY <2>1, <2>2, <2>3, <2>4 DEF PlainTypes, Times
  <1>2. HeadOK
    BY DEF HeadOK, Facts, NoFact
  <1>3. TasksOK
    BY DEF TasksOK, OnePerKey
  <1>. QED  BY <1>1, <1>2, <1>3

LEMMA StepPlainTypes ==
    ASSUME PlainTypes, HeadOK, TasksOK, MemoryOK, Phases, [Next]_vars
    PROVE  PlainTypes'
PROOF
  <1>. USE NumbersAre
  <1>. USE DEF PlainTypes, github, discovery, work, process
  <1>t. TypeOK
    BY TypesAre
  <1>1. CASE Tick
    BY <1>1 DEF Tick, Times
  <1>2. CASE Stop
    BY <1>2, SizeAssumption DEF Stop
  <1>3. ASSUME NEW n \in Numbers, ChangeRoot(n)  PROVE PlainTypes'
    <2>1. PICK stamp \in Stamps : root' = [root EXCEPT ![n] = [ver |-> @.ver + 1, stamp |-> stamp]]
      BY <1>3 DEF ChangeRoot
    <2>2. stamp \in Times
      BY DEF Stamps, Times
    <2>3. root[n].ver \in Nat /\ root[n].ver <= MaxEdits
      BY <1>3 DEF ChangeRoot
    <2>4. root[n].ver + 1 \in 0 .. MaxEdits + 1
      BY <2>3
    <2>5. root' \in [Numbers -> [ver : 0 .. MaxEdits + 1, stamp : Times]]
      BY <2>1, <2>2, <2>4
    <2>. QED  BY <2>5, <1>3 DEF ChangeRoot
  <1>4. ASSUME NEW n \in Numbers, ChangeComment(n)  PROVE PlainTypes'
    <2>1. PICK stamp \in Stamps : comment' = [comment EXCEPT ![n] = [ver |-> @.ver + 1, stamp |-> stamp]]
      BY <1>4 DEF ChangeComment
    <2>2. stamp \in Times
      BY DEF Stamps, Times
    <2>3. comment[n].ver \in Nat /\ comment[n].ver < MaxComments
      BY <1>4 DEF ChangeComment
    <2>4. comment[n].ver + 1 \in 0 .. MaxComments
      BY <2>3
    <2>5. comment' \in [Numbers -> [ver : 0 .. MaxComments, stamp : Times]]
      BY <2>1, <2>2, <2>4
    <2>. QED  BY <2>5, <1>4 DEF ChangeComment
  <1>5. ASSUME NEW n \in Refreshed, Refresh(n)  PROVE PlainTypes'
    BY <1>5 DEF Refresh
  <1>6. CASE StartCycle
    <2>1. NoCycle \in [active : BOOLEAN, start : Times, from : Times \cup {Never},
                       begun : BOOLEAN, cursor : Nat, pages : Nat]
      BY DEF NoCycle, Times
    <2>2. [NoCycle EXCEPT !.active = TRUE, !.start = clock, !.from = checkpoint]
             \in [active : BOOLEAN, start : Times, from : Times \cup {Never},
                  begun : BOOLEAN, cursor : Nat, pages : Nat]
      BY <2>1
    <2>3. cycle' \in [active : BOOLEAN, start : Times, from : Times \cup {Never},
                      begun : BOOLEAN, cursor : Nat, pages : Nat]
      BY <2>2, <1>6 DEF StartCycle
    <2>4. pc' \in {"feeds", "begin"}
      BY <1>6 DEF StartCycle
    <2>. QED  BY <2>3, <2>4, <1>6 DEF StartCycle
  <1>7. CASE ReadFeeds
    BY <1>7 DEF ReadFeeds
  <1>8. CASE RecordSignals
    BY <1>8 DEF RecordSignals, MemoryOK
  <1>9. CASE EnqueueInitial
    BY <1>9 DEF EnqueueInitial
  <1>10. CASE BeginDiscovery
    BY <1>10 DEF BeginDiscovery
  <1>11. CASE FetchPage
    BY <1>11 DEF FetchPage
  <1>12. CASE SavePage
    <2>1. CASE Conflicts(PageTasks)
      BY <2>1, <1>12 DEF SavePage
    <2>2. CASE ~Conflicts(PageTasks)
      <3>1. \A n \in Numbers : (\E e \in Page : e.number = n) =>
               (CHOOSE e \in Page : e.number = n).summary \in Summary
        BY <1>12 DEF SavePage, MemoryOK, Entry, Page
      <3>2. catalog' \in [Numbers -> Summary]
        <4>1. ASSUME NEW n \in Numbers
              PROVE  (IF \E e \in Page : e.number = n /\ catalog[n].at <= e.summary.at
                      THEN (CHOOSE e \in Page : e.number = n).summary
                      ELSE catalog[n]) \in Summary
          BY <3>1
        <4>. QED  BY <4>1, <2>2, <1>12 DEF SavePage
      <3>5. cycle.pages + 1 \in Nat /\ (IF MorePages THEN cycle.cursor + 1 ELSE 0) \in Nat
        OBVIOUS
      <3>3. cycle' \in [active : BOOLEAN, start : Times, from : Times \cup {Never},
                  begun : BOOLEAN, cursor : Nat, pages : Nat]
        <4>1. cycle' = [cycle EXCEPT !.pages = cycle.pages + 1,
                                     !.cursor = IF MorePages THEN cycle.cursor + 1 ELSE 0]
          BY <2>2, <1>12 DEF SavePage
        <4>. QED  BY <4>1, <3>5
      <3>. QED  BY <3>2, <3>3, <2>2, <1>12 DEF SavePage
    <2>. QED  BY <2>1, <2>2
  <1>13. CASE GitRefs
    BY <1>13 DEF GitRefs
  <1>14. ASSUME NEW n \in Numbers, PublishIssue(n)  PROVE PlainTypes'
    BY <1>14, <1>t, ReadIsSummary DEF PublishIssue
  <1>15. ASSUME NEW n \in Numbers, PublishComments(n)  PROVE PlainTypes'
    BY <1>15 DEF PublishComments
  <1>16. ASSUME NEW n \in Numbers,
                PublishPull(n) \/ PublishCommits(n) \/ RefuseCommits(n) \/ EnqueueChild(n)
         PROVE  PlainTypes'
    BY <1>16 DEF PublishPull, PublishCommits, RefuseCommits, EnqueueChild
  <1>17. ASSUME NEW n \in Numbers, FinishParent(n) \/ FinishPullGit(n)  PROVE PlainTypes'
    BY <1>17 DEF FinishParent, FinishPullGit
  <1>18. ASSUME NEW t \in tasks, FinishClosing(t.key)  PROVE PlainTypes'
    BY <1>18 DEF FinishClosing
  <1>19. CASE DrainReturns
    BY <1>19 DEF DrainReturns
  <1>20. CASE CompleteCycle
    <2>1. checkpoint' \in Times
      <3>1. cycle.active /\ checkpoint <= cycle.start
        BY <1>20 DEF CompleteCycle, Phases
      <3>2. CompletedBoundary \in {checkpoint, cycle.start} /\ CompletedBoundary = cycle.start
        BY <3>1 DEF CompletedBoundary, Max, Times, Never
      <3>. QED  BY <3>2, <1>20 DEF CompleteCycle
    <2>2. cycle' \in [active : BOOLEAN, start : Times, from : Times \cup {Never},
                  begun : BOOLEAN, cursor : Nat, pages : Nat]
      BY <1>20 DEF CompleteCycle, NoCycle, Times
    <2>3. catalog' \in [Numbers -> Summary] /\ issueFact' \in [Numbers -> Summary]
      BY <1>20, UnseenIsSummary DEF CompleteCycle
    <2>. QED  BY <2>1, <2>2, <2>3, <1>20 DEF CompleteCycle
  <1>21. CASE UNCHANGED vars
    BY <1>21 DEF vars
  <1>. QED  BY <1>1, <1>2, <1>3, <1>4, <1>5, <1>6, <1>7, <1>8, <1>9, <1>10, <1>11, <1>12, <1>13,
               <1>14, <1>15, <1>16, <1>17, <1>18, <1>19, <1>20, <1>21
            DEF Next, Environment, Sync, TaskStep

-----------------------------------------------------------------------------
(* What the actions that publish and that save a page do.                  *)

LEMMA PublishIssueIs ==
    ASSUME PlainTypes, HeadOK, TasksOK, NEW n \in Numbers, PublishIssue(n)
    PROVE  \E read \in Summary :
              /\ read # Unseen /\ read \in {catalog[n], ReadRoot(n)}
              /\ issueFact' = [issueFact EXCEPT ![n] = read]
              /\ Fact(read.root, read.at) \in Facts
              /\ Advance(head[n].root, Fact(read.root, read.at)) \in Facts
              /\ head' = [head EXCEPT ![n] =
                    [root |-> Advance(head[n].root, Fact(read.root, read.at)),
                     comments |-> head[n].comments]]
PROOF
  <1>. DEFINE read == IF catalog[n] # Unseen THEN catalog[n] ELSE ReadRoot(n)
  <1>1. read \in Summary /\ read # Unseen /\ read \in {catalog[n], ReadRoot(n)}
    BY TypesAre, ReadIsSummary DEF PlainTypes
  <1>2. read.root \in Nat /\ read.at \in Times \cup {Never}
    BY <1>1, NumbersAre DEF Summary
  <1>3. Fact(read.root, read.at) \in Facts
    BY <1>2, FactTypes
  <1>4. head[n].root \in Facts /\ head[n].comments \in Facts
    BY DEF HeadOK
  <1>5. Advance(head[n].root, Fact(read.root, read.at)) \in Facts
    BY <1>3, <1>4, AdvanceParts
  <1>6. /\ issueFact' = [issueFact EXCEPT ![n] = read]
        /\ head' = [head EXCEPT ![n].root = Advance(head[n].root, Fact(read.root, read.at))]
    BY DEF PublishIssue, HeadOK
  <1>. HIDE DEF read
  <1>7. head' = [head EXCEPT ![n] = [root |-> Advance(head[n].root, Fact(read.root, read.at)),
                                     comments |-> head[n].comments]]
    <2>1. [head[n] EXCEPT !.root = Advance(head[n].root, Fact(read.root, read.at))]
             = [root |-> Advance(head[n].root, Fact(read.root, read.at)),
                comments |-> head[n].comments]
      BY <1>5, HeadRecord DEF HeadOK
    <2>2. head' = [head EXCEPT ![n] =
             [head[n] EXCEPT !.root = Advance(head[n].root, Fact(read.root, read.at))]]
      BY <1>6
    <2>. QED  BY <2>1, <2>2
  <1>. QED  BY <1>1, <1>3, <1>5, <1>6, <1>7

LEMMA PublishCommentsIs ==
    ASSUME PlainTypes, HeadOK, NEW n \in Numbers, PublishComments(n)
    PROVE  \E fact \in Facts :
              /\ \/ fact = Fact(comment[n].ver, clock)
                 \/ fact = Fact(issueFact[n].comments, issueFact[n].at)
              /\ Advance(head[n].comments, fact) \in Facts
              /\ head' = [head EXCEPT ![n] =
                    [root |-> head[n].root, comments |-> Advance(head[n].comments, fact)]]
PROOF
  <1>. DEFINE fact == IF n \notin signals /\ issueFact[n].comments = 0
                   THEN Fact(0, issueFact[n].at)
                   ELSE Fact(comment[n].ver, clock)
  <1>1. /\ issueFact[n].at \in Times \cup {Never} /\ clock \in Times
        /\ comment[n].ver \in Nat /\ 0 \in Nat
    BY NumbersAre DEF PlainTypes, Summary
  <1>2. fact \in Facts
    BY <1>1, FactTypes
  <1>3. fact = Fact(comment[n].ver, clock) \/ fact = Fact(issueFact[n].comments, issueFact[n].at)
    OBVIOUS
  <1>4. head[n].root \in Facts /\ head[n].comments \in Facts
    BY DEF HeadOK
  <1>5. Advance(head[n].comments, fact) \in Facts
    BY <1>2, <1>4, AdvanceParts
  <1>6. head' = [head EXCEPT ![n].comments = Advance(head[n].comments, fact)]
    BY DEF PublishComments, HeadOK
  <1>. HIDE DEF fact
  <1>7. head' = [head EXCEPT ![n] =
                    [root |-> head[n].root, comments |-> Advance(head[n].comments, fact)]]
    <2>1. [head[n] EXCEPT !.comments = Advance(head[n].comments, fact)]
             = [root |-> head[n].root, comments |-> Advance(head[n].comments, fact)]
      BY <1>5, HeadRecord DEF HeadOK
    <2>2. head' = [head EXCEPT ![n] =
             [head[n] EXCEPT !.comments = Advance(head[n].comments, fact)]]
      BY <1>6
    <2>. QED  BY <2>1, <2>2
  <1>. QED  BY <1>2, <1>3, <1>5, <1>7

LEMMA RefreshIs ==
    ASSUME PlainTypes, HeadOK, NEW n \in Numbers, Refresh(n)
    PROVE  /\ Fact(root[n].ver, clock) \in Facts /\ Fact(comment[n].ver, clock) \in Facts
           /\ Advance(head[n].root, Fact(root[n].ver, clock)) \in Facts
           /\ Advance(head[n].comments, Fact(comment[n].ver, clock)) \in Facts
           /\ head' = [head EXCEPT ![n] =
                 [root |-> Advance(head[n].root, Fact(root[n].ver, clock)),
                  comments |-> Advance(head[n].comments, Fact(comment[n].ver, clock))]]
PROOF
  <1>1. root[n].ver \in Nat /\ comment[n].ver \in Nat /\ clock \in Times
    BY NumbersAre DEF PlainTypes
  <1>2. Fact(root[n].ver, clock) \in Facts /\ Fact(comment[n].ver, clock) \in Facts
    BY <1>1, FactTypes
  <1>3. head[n].root \in Facts /\ head[n].comments \in Facts
    BY DEF HeadOK
  <1>. QED  BY <1>2, <1>3, AdvanceParts DEF Refresh, HeadOK

LEMMA SavePageIs ==
    ASSUME PlainTypes, MemoryOK, Phases, SavePage, ~Conflicts(PageTasks)
    PROVE  /\ \A n \in Numbers :
                 /\ catalog'[n] = catalog[n] \/ \E e \in Held(n) : catalog'[n] = e.summary
                 /\ (\E e \in memory : e.number = n) \/ catalog[n] # Unseen => catalog'[n] # Unseen
                 /\ catalog'[n] # Unseen => catalog[n] # Unseen \/ \E e \in Page : e.number = n
           /\ cycle' = [cycle EXCEPT !.pages = cycle.pages + 1,
                                     !.cursor = IF MorePages THEN cycle.cursor + 1 ELSE 0]
PROOF
  <1>. USE NumbersAre
  <1>1. pc = "save" /\ \A e \in memory : Entry(e)
    BY DEF SavePage, MemoryOK
  <1>2. cycle.start \in Nat
    BY DEF PlainTypes, Times
  <1>3. \A e \in Page : /\ e \in memory /\ e.number \in Numbers /\ e.summary \in Summary
                        /\ e.summary.at >= 0 /\ e.summary # Unseen
    BY <1>1, <1>2, SummaryParts DEF Entry, Page
  <1>4. ASSUME NEW n \in Numbers
        PROVE  /\ catalog'[n] = catalog[n] \/ \E e \in Held(n) : catalog'[n] = e.summary
               /\ (\E e \in memory : e.number = n) \/ catalog[n] # Unseen => catalog'[n] # Unseen
               /\ catalog'[n] # Unseen => catalog[n] # Unseen \/ \E e \in Page : e.number = n
    <2>1. catalog'[n] = IF \E e \in Page : e.number = n /\ catalog[n].at <= e.summary.at
                        THEN (CHOOSE e \in Page : e.number = n).summary
                        ELSE catalog[n]
      BY DEF SavePage
    <2>2. CASE \E e \in Page : e.number = n /\ catalog[n].at <= e.summary.at
      <3>. DEFINE e == CHOOSE d \in Page : d.number = n
      <3>1. e \in Page /\ e.number = n
        BY <2>2
      <3>2. catalog'[n] = e.summary
        BY <2>1, <2>2
      <3>. HIDE DEF e
      <3>3. e \in Held(n)
        BY <1>1, <1>3, <3>1 DEF Held
      <3>. QED  BY <1>3, <3>1, <3>2, <3>3
    <2>3. CASE ~\E e \in Page : e.number = n /\ catalog[n].at <= e.summary.at
      <3>1. catalog'[n] = catalog[n]
        BY <2>1, <2>3
      <3>2. ASSUME NEW d \in memory, d.number = n  PROVE catalog[n] # Unseen
        <4>1. d \in Page
          BY <3>2 DEF Page
        <4>2. ~(catalog[n].at <= d.summary.at) /\ d.summary.at >= 0
          BY <2>3, <1>3, <3>2, <4>1
        <4>3. d.summary.at \in Int /\ catalog[n].at \in Int
          BY <1>3, <4>1, SummaryParts DEF PlainTypes
        <4>. QED  BY <4>2, <4>3, UnseenIsSummary
      <3>. QED  BY <3>1, <3>2
    <2>. QED  BY <2>2, <2>3
  <1>. QED  BY <1>4 DEF SavePage

-----------------------------------------------------------------------------
(* The other types. *)

LEMMA StepHead ==
    ASSUME PlainTypes, HeadOK, TasksOK, [Next]_vars
    PROVE  HeadOK'
PROOF
  <1>0. ASSUME NEW n \in Numbers, NEW r \in Facts, NEW c \in Facts,
               head' = [head EXCEPT ![n] = [root |-> r, comments |-> c]]
        PROVE  HeadOK'
    BY <1>0 DEF HeadOK
  <1>r. \A n \in Numbers : head[n].root \in Facts /\ head[n].comments \in Facts
    BY DEF HeadOK
  <1>1. ASSUME NEW n \in Numbers, Refresh(n)  PROVE HeadOK'
    BY <1>0, <1>1, RefreshIs
  <1>2. ASSUME NEW n \in Numbers, PublishIssue(n)  PROVE HeadOK'
    BY <1>0, <1>2, <1>r, PublishIssueIs
  <1>3. ASSUME NEW n \in Numbers, PublishComments(n)  PROVE HeadOK'
    BY <1>0, <1>3, <1>r, PublishCommentsIs
  <1>4. CASE UNCHANGED head
    BY <1>4 DEF HeadOK
  <1>5. \/ UNCHANGED head
        \/ \E n \in Numbers : Refresh(n) \/ PublishIssue(n) \/ PublishComments(n)
    BY SizeAssumption
       DEF Next, Environment, Sync, TaskStep, vars, github, discovery, work, process, Tick, Stop,
           ChangeRoot, ChangeComment, StartCycle, ReadFeeds, RecordSignals, EnqueueInitial,
           BeginDiscovery, FetchPage, SavePage, GitRefs, PublishPull, PublishCommits, RefuseCommits,
           EnqueueChild, FinishParent,
           FinishPullGit, FinishClosing, DrainReturns, CompleteCycle
  <1>. QED  BY <1>1, <1>2, <1>3, <1>4, <1>5

(* What a step does to the table.                                          *)
LEMMA StepTable ==
    ASSUME TypeOK, MemoryOK, TasksOK, [Next]_vars
    PROVE  /\ TasksOK'
           /\ Kept \/ CompleteCycle
           /\ \A n \in Numbers :
                 IsDone(Parent(n))' => IsDone(Parent(n)) \/ FinishParent(n)
PROOF
  <1>. DEFINE Goal == /\ TasksOK'
                      /\ Kept \/ CompleteCycle
                      /\ \A n \in Numbers :
                            IsDone(Parent(n))' => IsDone(Parent(n)) \/ FinishParent(n)
  <1>0. ASSUME UNCHANGED tasks  PROVE Goal
    <2>1. TasksOK' /\ \A key : IsDone(key)' <=> IsDone(key)
      BY <1>0, KeptSame
    <2>2. Kept
      BY <1>0 DEF Kept
    <2>. QED  BY <2>1, <2>2
  <1>k. \A n \in Numbers : Parent(n) # Refs
    BY KeysDiffer
  <1>1. CASE EnqueueInitial
    <2>1. Drafts({Task(Refs, {})} \cup {Task(Parent(n), {n}) : n \in memory})
      BY <1>1, InitialDrafts DEF EnqueueInitial, MemoryOK
    <2>2. TasksOK' /\ Kept /\ NoneDoneBut(Refs)
      BY <2>1, <1>1, InsertedTable DEF EnqueueInitial
    <2>. QED  BY <2>2, <1>k, DoneWas
  <1>2. CASE SavePage
    <2>1. CASE Conflicts(PageTasks)
      BY <2>1, <1>0, <1>2 DEF SavePage, work
    <2>2. CASE ~Conflicts(PageTasks)
      <3>1. Drafts(PageTasks) /\ tasks' = Insert(PageTasks)
        BY <2>2, <1>2, PageDrafts DEF SavePage
      <3>2. TasksOK' /\ Kept /\ NoneDoneBut(Refs)
        BY <3>1, InsertedTable
      <3>. QED  BY <3>2, <1>k, DoneWas
    <2>. QED  BY <2>1, <2>2
  <1>3. ASSUME NEW n \in Numbers, EnqueueChild(n)  PROVE Goal
    <2>1. \/ tasks' = Insert({Task(PullGit(n), {n})})
          \/ tasks' = Insert({Task(ClosingSingle(n), {n})})
      BY <1>3 DEF EnqueueChild
    <2>2. TasksOK' /\ Kept /\ NoneDoneBut(Refs)
      BY <2>1, ChildDrafts, InsertedTable
    <2>. QED  BY <2>2, <1>k, DoneWas
  <1>4. ASSUME NEW key, tasks' = Finish(key), \A n \in Numbers : key = Parent(n) => FinishParent(n)
        PROVE  Goal
    <2>1. TasksOK' /\ Kept /\ NoneDoneBut(key)
      BY <1>4, FinishedTable
    <2>. QED  BY <2>1, <1>4, DoneWas
  <1>5. CASE GitRefs
    BY <1>5, <1>4, <1>k DEF GitRefs
  <1>6. ASSUME NEW n \in Numbers, FinishParent(n)  PROVE Goal
    <2>1. \A m \in Numbers : Parent(n) = Parent(m) => FinishParent(m)
      BY <1>6, KeysDiffer
    <2>. QED  BY <2>1, <1>6, <1>4 DEF FinishParent
  <1>7. ASSUME NEW n \in Numbers, FinishPullGit(n)  PROVE Goal
    <2>1. \A m \in Numbers : PullGit(n) # Parent(m)
      BY KeysDiffer
    <2>. QED  BY <2>1, <1>7, <1>4 DEF FinishPullGit
  <1>8. ASSUME NEW t \in tasks, FinishClosing(t.key)  PROVE Goal
    <2>1. \A m \in Numbers : t.key # Parent(m)
      BY <1>8, KindsDiffer DEF FinishClosing
    <2>. QED  BY <2>1, <1>8, <1>4 DEF FinishClosing
  <1>9. CASE CompleteCycle
    BY <1>9 DEF CompleteCycle, TasksOK, OnePerKey, IsDone, Row
  <1>10. \/ UNCHANGED tasks \/ EnqueueInitial \/ SavePage \/ GitRefs \/ CompleteCycle
         \/ \E n \in Numbers : EnqueueChild(n) \/ FinishParent(n) \/ FinishPullGit(n)
         \/ \E t \in tasks : FinishClosing(t.key)
    BY DEF Next, Environment, Sync, TaskStep, vars, github, discovery, work, process, Tick, Stop,
           ChangeRoot, ChangeComment, Refresh, StartCycle, ReadFeeds, RecordSignals,
           BeginDiscovery, FetchPage, PublishIssue, PublishComments, PublishPull, PublishCommits,
           RefuseCommits, DrainReturns
  <1>. QED  BY <1>0, <1>1, <1>2, <1>3, <1>5, <1>6, <1>7, <1>8, <1>9, <1>10

LEMMA StepMemory ==
    ASSUME PlainTypes, MemoryOK, Phases, [Next]_vars
    PROVE  MemoryOK'
PROOF
  <1>0. CASE UNCHANGED <<pc, memory, cycle>>
    BY <1>0 DEF MemoryOK, Entry
  <1>1. CASE ReadFeeds
    BY <1>1 DEF ReadFeeds, MemoryOK, CommentFeed
  <1>2. CASE RecordSignals
    BY <1>2 DEF RecordSignals, MemoryOK
  <1>3. CASE FetchPage
    <2>1. \A e \in memory' : \/ e.number = 0
                             \/ \E n \in Numbers : e = [number |-> n, summary |-> ReadRoot(n)]
      BY <1>3 DEF FetchPage, PageOf, Listing
    <2>2. \A n \in Numbers : ReadRoot(n) \in Summary /\ ReadRoot(n).at = clock
      BY NumbersAre DEF PlainTypes, ReadRoot, Summary
    <2>3. clock >= cycle.start /\ cycle' = cycle
      BY <1>3 DEF FetchPage, Phases, discovery
    <2>4. \A e \in memory' : Entry(e)'
      BY <2>1, <2>2, <2>3 DEF Entry
    <2>. QED  BY <2>4, <1>3 DEF FetchPage, MemoryOK
  <1>4. CASE pc' \in {"down", "begin", "drain", "complete", "feeds", "fetch"}
    BY <1>4 DEF MemoryOK
  <1>5. \/ UNCHANGED <<pc, memory, cycle>> \/ ReadFeeds \/ RecordSignals \/ FetchPage
        \/ pc' \in {"down", "begin", "drain", "complete", "feeds", "fetch"}
    BY DEF Next, Environment, Sync, TaskStep, vars, github, discovery, work, process, Tick, Stop,
           ChangeRoot, ChangeComment, Refresh, StartCycle, EnqueueInitial, SavePage,
           BeginDiscovery, GitRefs, PublishIssue, PublishComments,
           PublishPull, PublishCommits, RefuseCommits, EnqueueChild, FinishParent,
           FinishPullGit, FinishClosing, DrainReturns, CompleteCycle
  <1>. QED  BY <1>0, <1>1, <1>2, <1>3, <1>4, <1>5

(* The steps that leave the phase and the cycle as they are.               *)
LEMMA StepPhases ==
    ASSUME PlainTypes, Phases, TasksOK, [Next]_vars
    PROVE  Phases'
PROOF
  <1>. USE NumbersAre DEF github, discovery, work, process
  <1>t. clock \in Int /\ checkpoint \in Int /\ cycle.start \in Int /\ cycle.cursor \in Nat
    BY DEF PlainTypes, Times, Never
  <1>0. CASE UNCHANGED <<clock, checkpoint, cycle, catalog, signals, tasks, issueFact, commented, pc>>
    BY <1>0 DEF Phases
  <1>1. CASE Tick
    BY <1>1, <1>t DEF Tick, Phases
  <1>2. CASE Stop \/ \E n \in Numbers : RefuseCommits(n)
    BY <1>2 DEF Stop, RefuseCommits, Phases
  <1>3. CASE StartCycle
    <2>1. CASE cycle.active
      BY <2>1, <1>3 DEF StartCycle, Phases
    <2>2. CASE ~cycle.active
      <3>1. /\ cycle' = [NoCycle EXCEPT !.active = TRUE, !.start = clock, !.from = checkpoint]
            /\ pc' = "feeds"
        BY <2>2, <1>3 DEF StartCycle
      <3>2. /\ cycle'.active /\ cycle'.start = clock /\ cycle'.from = checkpoint
            /\ ~cycle'.begun
        BY <3>1 DEF NoCycle
      <3>. QED  BY <3>1, <3>2, <1>3, <1>t DEF StartCycle, Phases
    <2>. QED  BY <2>1, <2>2
  <1>4. CASE ReadFeeds \/ RecordSignals \/ EnqueueInitial \/ FetchPage
    BY <1>4 DEF ReadFeeds, RecordSignals, EnqueueInitial, FetchPage, Phases
  <1>5. CASE BeginDiscovery
    <2>1. /\ cycle' = IF cycle.begun THEN cycle ELSE [cycle EXCEPT !.begun = TRUE, !.cursor = 1]
          /\ pc' = IF cycle'.cursor = 0 THEN "drain" ELSE "fetch"
      BY <1>5 DEF BeginDiscovery
    <2>2. /\ cycle'.active = cycle.active /\ cycle'.from = cycle.from
          /\ cycle'.start = cycle.start /\ cycle'.begun
      BY <2>1 DEF PlainTypes
    <2>. QED  BY <2>1, <2>2, <1>5 DEF BeginDiscovery, Phases
  <1>6. CASE SavePage
    <2>1. CASE Conflicts(PageTasks)
      BY <2>1, <1>6 DEF SavePage, Phases
    <2>2. CASE ~Conflicts(PageTasks)
      <3>1. cycle' = [cycle EXCEPT !.pages = @ + 1,
                                   !.cursor = IF MorePages THEN @ + 1 ELSE 0]
        BY <2>2, <1>6 DEF SavePage
      <3>2. /\ cycle'.active = cycle.active /\ cycle'.from = cycle.from
            /\ cycle'.start = cycle.start /\ cycle'.begun = cycle.begun
        BY <3>1 DEF PlainTypes
      <3>. QED  BY <3>2, <2>2, <1>6 DEF SavePage, Phases
    <2>. QED  BY <2>1, <2>2
  <1>7. CASE /\ pc = "drain" /\ pc' = pc
             /\ UNCHANGED <<clock, checkpoint, cycle, catalog, signals>>
    BY <1>7 DEF Phases
  <1>8. CASE DrainReturns
    BY <1>8 DEF DrainReturns, Phases
  <1>9. CASE CompleteCycle
    <2>1. CompletedBoundary = cycle.start
      BY <1>9, <1>t DEF CompleteCycle, CompletedBoundary, Max, Phases
    <2>2. ~cycle'.active
      BY <1>9 DEF CompleteCycle, NoCycle
    <2>3. checkpoint' <= clock' /\ pc' = "down"
      BY <2>1, <1>9 DEF CompleteCycle, Phases
    <2>. QED  BY <2>2, <2>3, <1>9 DEF CompleteCycle, Phases
  <1>10. \/ UNCHANGED <<clock, checkpoint, cycle, catalog, signals, tasks, issueFact, commented, pc>>
         \/ Tick \/ Stop \/ StartCycle \/ ReadFeeds \/ RecordSignals \/ EnqueueInitial
         \/ FetchPage \/ BeginDiscovery \/ SavePage \/ DrainReturns \/ CompleteCycle
         \/ \E n \in Numbers : RefuseCommits(n)
         \/ /\ pc = "drain" /\ pc' = pc
            /\ UNCHANGED <<clock, checkpoint, cycle, catalog, signals>>
    BY DEF Next, Environment, Sync, TaskStep, vars, ChangeRoot, ChangeComment, Refresh,
           GitRefs, PublishIssue, PublishComments, PublishPull, PublishCommits,
           EnqueueChild, FinishParent,
           FinishPullGit, FinishClosing, Running
  <1>. QED  BY <1>0, <1>1, <1>2, <1>3, <1>4, <1>5, <1>6, <1>7, <1>8, <1>9, <1>10

LEMMA StepRooted ==
    ASSUME PlainTypes, Rooted, [Next]_vars
    PROVE  Rooted'
PROOF
  <1>. USE NumbersAre DEF github, discovery, work, process, PlainTypes
  <1>1. ASSUME NEW n \in Numbers, ChangeRoot(n)  PROVE Rooted'
    <2>1. PICK stamp : root' = [root EXCEPT ![n] = [ver |-> root[n].ver + 1, stamp |-> stamp]]
      BY <1>1 DEF ChangeRoot
    <2>2. \A m \in Numbers : root'[m].ver = IF m = n THEN root[n].ver + 1 ELSE root[m].ver
      BY <2>1
    <2>. QED  BY <2>2, <1>1 DEF ChangeRoot, Rooted
  <1>2. ASSUME NEW n \in Numbers, ChangeComment(n)  PROVE Rooted'
    <2>1. PICK stamp : comment' = [comment EXCEPT ![n] = [ver |-> comment[n].ver + 1, stamp |-> stamp]]
      BY <1>2 DEF ChangeComment
    <2>2. \A m \in Numbers : m # n => comment'[m] = comment[m]
      BY <2>1
    <2>. QED  BY <2>2, <1>2 DEF ChangeComment, Rooted
  <1>3. CASE UNCHANGED <<root, comment>>
    BY <1>3 DEF Rooted
  <1>4. \/ UNCHANGED <<root, comment>> \/ \E n \in Numbers : ChangeRoot(n) \/ ChangeComment(n)
    BY DEF Next, Environment, Sync, TaskStep, vars, Tick, Stop, Refresh, StartCycle, ReadFeeds,
           RecordSignals, EnqueueInitial, BeginDiscovery, FetchPage, SavePage,
           GitRefs, PublishIssue, PublishComments, PublishPull, PublishCommits, RefuseCommits,
           EnqueueChild, FinishParent,
           FinishPullGit, FinishClosing, DrainReturns, CompleteCycle
  <1>. QED  BY <1>1, <1>2, <1>3, <1>4

-----------------------------------------------------------------------------
(* Facts. *)

LEMMA GrownFacts ==
    ASSUME NEW facts, NEW thing, NEW now \in Nat, thing.ver \in Nat, thing.stamp \in Nat,
           Truthful(facts, thing, now), InOrder(facts),
           NEW more,
           \A f \in more : \/ f \in facts
                           \/ f.ver = thing.ver /\ f.at = now
                           \/ f.ver = 0 /\ f.at = Never
    PROVE  Truthful(more, thing, now) /\ InOrder(more)
  BY NumbersAre DEF Truthful, InOrder, Never

LEMMA OutdatedFacts ==
    ASSUME NEW facts, NEW old, NEW new, NEW now \in Nat,
           old.ver \in Nat, new.ver = old.ver + 1, new.stamp \in Nat, new.stamp + Skew >= now,
           Truthful(facts, old, now)
    PROVE  Truthful(facts, new, now)
  BY NumbersAre DEF Truthful

LEMMA OlderFacts ==
    ASSUME NEW facts, NEW thing, NEW now \in Nat, Truthful(facts, thing, now)
    PROVE  Truthful(facts, thing, now + 1)
  BY DEF Truthful

(* What is seen after a step was seen before, is read by the step, or is   *)
(* forgotten.                                                              *)
LEMMA StepSeen ==
    ASSUME PlainTypes, HeadOK, TasksOK, MemoryOK, Phases, [Next]_vars, NEW n \in Numbers
    PROVE  \A s \in Seen(n)' : s \in Seen(n) \/ s = Unseen \/ s = ReadRoot(n)
PROOF
  <1>. USE DEF github, discovery, work, process
  <1>s. \A s \in Seen(n)' : \/ s \in {catalog'[n], issueFact'[n]}
                            \/ pc' = "save" /\ \E e \in memory' : e.number = n /\ s = e.summary
    BY DEF Seen, Held
  <1>0. CASE UNCHANGED <<catalog, issueFact>> /\ (pc' = "save" => UNCHANGED <<pc, memory>>)
    BY <1>0 DEF Seen, Held
  <1>1. CASE FetchPage
    <2>1. UNCHANGED <<catalog, issueFact>>
      BY <1>1 DEF FetchPage
    <2>2. \A e \in memory' : e.number = n => e.summary = ReadRoot(n)
      BY <1>1, NumbersAre DEF FetchPage
    <2>. QED  BY <2>1, <2>2, <1>s DEF Seen
  <1>2. CASE SavePage
    <2>1. pc' # "save" /\ UNCHANGED issueFact
      BY <1>2 DEF SavePage
    <2>2. CASE Conflicts(PageTasks)
      BY <2>1, <2>2, <1>2, <1>s DEF SavePage, Seen
    <2>3. CASE ~Conflicts(PageTasks)
      <3>1. catalog'[n] = catalog[n] \/ \E e \in Held(n) : catalog'[n] = e.summary
        BY <2>3, <1>2, SavePageIs
      <3>. QED  BY <3>1, <2>1, <1>s DEF Seen
    <2>. QED  BY <2>2, <2>3
  <1>3. ASSUME NEW m \in Numbers, PublishIssue(m)
        PROVE  \A s \in Seen(n)' : s \in Seen(n) \/ s = ReadRoot(n)
    <2>1. /\ issueFact'[n] \in {issueFact[n], catalog[n], ReadRoot(n)}
          /\ UNCHANGED <<catalog, pc, memory>>
      <3>1. PICK read : /\ read \in {catalog[m], ReadRoot(m)}
                        /\ issueFact' = [issueFact EXCEPT ![m] = read]
        BY <1>3, PublishIssueIs
      <3>. QED  BY <3>1, <1>3 DEF PublishIssue, PlainTypes
    <2>. QED  BY <2>1, <1>s DEF Seen, Held
  <1>4. CASE CompleteCycle
    BY <1>4, <1>s DEF CompleteCycle
  <1>5. \/ UNCHANGED <<catalog, issueFact>> /\ (pc' = "save" => UNCHANGED <<pc, memory>>)
        \/ FetchPage \/ SavePage \/ CompleteCycle \/ \E m \in Numbers : PublishIssue(m)
    BY DEF Next, Environment, Sync, TaskStep, vars, Tick, Stop,
           ChangeRoot, ChangeComment, Refresh, StartCycle, ReadFeeds, RecordSignals,
           EnqueueInitial, BeginDiscovery, GitRefs, PublishComments,
           PublishPull, PublishCommits, RefuseCommits, EnqueueChild,
           FinishParent, FinishPullGit, FinishClosing, DrainReturns, Running
  <1>. QED  BY <1>0, <1>1, <1>2, <1>3, <1>4, <1>5

(* A head moves to what was seen or is read, never to an earlier instant.  *)
Reads(n) == (Seen(n) \ {Unseen}) \cup {ReadRoot(n)}
MovesTo(old, new, reads) ==
    \/ new = old
    \/ new \in reads /\ new.at >= old.at

LEMMA StepHeads ==
    ASSUME PlainTypes, HeadOK, TasksOK, [Next]_vars, NEW n \in Numbers
    PROVE  /\ MovesTo(head[n].root, head'[n].root,
                      {Fact(s.root, s.at) : s \in Reads(n)})
           /\ MovesTo(head[n].comments, head'[n].comments,
                      {Fact(s.comments, s.at) : s \in Reads(n)})
PROOF
  <1>. DEFINE roots == {Fact(s.root, s.at) : s \in Reads(n)}
              comments == {Fact(s.comments, s.at) : s \in Reads(n)}
  <1>. SUFFICES /\ MovesTo(head[n].root, head'[n].root, roots)
                /\ MovesTo(head[n].comments, head'[n].comments, comments)
    OBVIOUS
  <1>r. head[n].root \in Facts /\ head[n].comments \in Facts
    BY DEF HeadOK
  <1>f. Fact(root[n].ver, clock) \in roots /\ Fact(comment[n].ver, clock) \in comments
    <2>1. /\ ReadRoot(n).root = root[n].ver /\ ReadRoot(n).comments = comment[n].ver
          /\ ReadRoot(n).at = clock
      BY DEF ReadRoot
    <2>. QED  BY <2>1 DEF Reads
  <1>s. /\ catalog[n] # Unseen => Fact(catalog[n].root, catalog[n].at) \in roots
        /\ issueFact[n] # Unseen => Fact(issueFact[n].comments, issueFact[n].at) \in comments
    BY DEF Seen, Reads
  <1>. HIDE DEF roots, comments
  <1>0. CASE head'[n] = head[n]
    BY <1>0 DEF MovesTo
  <1>1. CASE Refresh(n)
    <2>1. /\ head'[n].root = Advance(head[n].root, Fact(root[n].ver, clock))
          /\ head'[n].comments = Advance(head[n].comments, Fact(comment[n].ver, clock))
          /\ Fact(root[n].ver, clock) \in Facts /\ Fact(comment[n].ver, clock) \in Facts
      BY <1>1, RefreshIs DEF HeadOK
    <2>2. /\ head'[n].root \in {head[n].root, Fact(root[n].ver, clock)}
          /\ head'[n].root.at >= head[n].root.at
      BY <2>1, <1>r, AdvanceParts
    <2>3. /\ head'[n].comments \in {head[n].comments, Fact(comment[n].ver, clock)}
          /\ head'[n].comments.at >= head[n].comments.at
      BY <2>1, <1>r, AdvanceParts
    <2>. QED  BY <2>2, <2>3, <1>f DEF MovesTo
  <1>2. CASE PublishIssue(n)
    <2>1. PICK read \in Summary :
             /\ read # Unseen /\ read \in {catalog[n], ReadRoot(n)}
             /\ Fact(read.root, read.at) \in Facts
             /\ head'[n].root = Advance(head[n].root, Fact(read.root, read.at))
             /\ head'[n].comments = head[n].comments
      BY <1>2, PublishIssueIs DEF HeadOK
    <2>2. Fact(read.root, read.at) \in roots
      BY <2>1, <1>s, <1>f DEF ReadRoot
    <2>3. /\ head'[n].root \in {head[n].root, Fact(read.root, read.at)}
          /\ head'[n].root.at >= head[n].root.at
      BY <2>1, <1>r, AdvanceParts
    <2>. QED  BY <2>1, <2>2, <2>3 DEF MovesTo
  <1>3. CASE PublishComments(n)
    <2>1. PICK fact \in Facts :
             /\ \/ fact = Fact(comment[n].ver, clock)
                \/ fact = Fact(issueFact[n].comments, issueFact[n].at)
             /\ head'[n].root = head[n].root
             /\ head'[n].comments = Advance(head[n].comments, fact)
      BY <1>3, PublishCommentsIs DEF HeadOK
    <2>2. fact \in comments
      BY <2>1, <1>3, <1>s, <1>f DEF PublishComments
    <2>3. /\ head'[n].comments \in {head[n].comments, fact}
          /\ head'[n].comments.at >= head[n].comments.at
      BY <2>1, <1>r, AdvanceParts
    <2>. QED  BY <2>1, <2>2, <2>3 DEF MovesTo
  <1>4. ASSUME NEW m \in Numbers, m # n, Refresh(m) \/ PublishIssue(m) \/ PublishComments(m)
        PROVE  head'[n] = head[n]
    BY <1>4, RefreshIs, PublishIssueIs, PublishCommentsIs DEF HeadOK
  <1>5. \/ UNCHANGED head
        \/ \E m \in Numbers : Refresh(m) \/ PublishIssue(m) \/ PublishComments(m)
    BY SizeAssumption
       DEF Next, Environment, Sync, TaskStep, vars, github, discovery, work, process, Tick, Stop,
           ChangeRoot, ChangeComment, StartCycle, ReadFeeds, RecordSignals, EnqueueInitial,
           BeginDiscovery, FetchPage, SavePage, GitRefs, PublishPull, PublishCommits, RefuseCommits,
           EnqueueChild, FinishParent,
           FinishPullGit, FinishClosing, DrainReturns, CompleteCycle
  <1>. QED  BY <1>0, <1>1, <1>2, <1>3, <1>4, <1>5

LEMMA ReadParts ==
    ASSUME PlainTypes, NEW n \in Numbers
    PROVE  /\ ReadRoot(n).root = root[n].ver /\ ReadRoot(n).comments = comment[n].ver
           /\ ReadRoot(n).at = clock
           /\ root[n].ver \in Nat /\ root[n].stamp \in Nat
           /\ comment[n].ver \in Nat /\ comment[n].stamp \in Nat /\ clock \in Nat
  BY NumbersAre DEF PlainTypes, ReadRoot, Times

(* A step that leaves the repository alone adds facts read now, or none.   *)
LEMMA StepFacts ==
    ASSUME PlainTypes, HeadOK, TasksOK, MemoryOK, Phases, [Next]_vars, NEW n \in Numbers
    PROVE  /\ \A f \in RootFacts(n)' : \/ f \in RootFacts(n)
                                       \/ f.ver = root[n].ver /\ f.at = clock
                                       \/ f.ver = 0 /\ f.at = Never
           /\ \A f \in CommentFacts(n)' : \/ f \in CommentFacts(n)
                                          \/ f.ver = comment[n].ver /\ f.at = clock
                                          \/ f.ver = 0 /\ f.at = Never
PROOF
  <1>1. \A s \in Seen(n)' : s \in Seen(n) \/ s = Unseen \/ s = ReadRoot(n)
    BY StepSeen
  <1>2. /\ MovesTo(head[n].root, head'[n].root,
                   {Fact(s.root, s.at) : s \in Reads(n)})
        /\ MovesTo(head[n].comments, head'[n].comments,
                   {Fact(s.comments, s.at) : s \in Reads(n)})
    BY StepHeads
  <1>3. ASSUME NEW f \in RootFacts(n)'
        PROVE  \/ f \in RootFacts(n)
               \/ f.ver = root[n].ver /\ f.at = clock
               \/ f.ver = 0 /\ f.at = Never
    <2>1. \/ f \in RootFacts(n)
          \/ \E s \in Seen(n) \cup {Unseen, ReadRoot(n)} : f = Fact(s.root, s.at)
      BY <1>1, <1>2 DEF RootFacts, MovesTo, Reads
    <2>2. ASSUME NEW s \in Seen(n), f = Fact(s.root, s.at)  PROVE f \in RootFacts(n)
      BY <2>2 DEF RootFacts
    <2>3. Fact(Unseen.root, Unseen.at).ver = 0 /\ Fact(Unseen.root, Unseen.at).at = Never
      BY UnseenIsSummary, FactParts DEF Never
    <2>4. /\ Fact(ReadRoot(n).root, ReadRoot(n).at).ver = root[n].ver
          /\ Fact(ReadRoot(n).root, ReadRoot(n).at).at = clock
      BY ReadParts, FactParts
    <2>. QED  BY <2>1, <2>2, <2>3, <2>4
  <1>4. ASSUME NEW f \in CommentFacts(n)'
        PROVE  \/ f \in CommentFacts(n)
               \/ f.ver = comment[n].ver /\ f.at = clock
               \/ f.ver = 0 /\ f.at = Never
    <2>1. \/ f \in CommentFacts(n)
          \/ \E s \in Seen(n) \cup {Unseen, ReadRoot(n)} : f = Fact(s.comments, s.at)
      BY <1>1, <1>2 DEF CommentFacts, MovesTo, Reads
    <2>2. ASSUME NEW s \in Seen(n), f = Fact(s.comments, s.at)  PROVE f \in CommentFacts(n)
      BY <2>2 DEF CommentFacts
    <2>3. Fact(Unseen.comments, Unseen.at).ver = 0 /\ Fact(Unseen.comments, Unseen.at).at = Never
      BY UnseenIsSummary, FactParts DEF Never
    <2>4. /\ Fact(ReadRoot(n).comments, ReadRoot(n).at).ver = comment[n].ver
          /\ Fact(ReadRoot(n).comments, ReadRoot(n).at).at = clock
      BY ReadParts, FactParts
    <2>. QED  BY <2>1, <2>2, <2>3, <2>4
  <1>. QED  BY <1>3, <1>4

LEMMA SameFacts ==
    ASSUME UNCHANGED <<catalog, issueFact, head, pc, memory>>, NEW n \in Numbers
    PROVE  RootFacts(n)' = RootFacts(n) /\ CommentFacts(n)' = CommentFacts(n)
  BY DEF RootFacts, CommentFacts, Seen, Held

LEMMA StampBound ==
    ASSUME PlainTypes, NEW stamp \in Stamps
    PROVE  stamp \in Nat /\ stamp + Skew >= clock /\ stamp <= clock
  BY NumbersAre DEF PlainTypes, Stamps, Times

(* The change of a root, and of a parent's comments.                       *)
LEMMA ChangeRootIs ==
    ASSUME PlainTypes, NEW n \in Numbers, ChangeRoot(n)
    PROVE  /\ root'[n].ver = root[n].ver + 1 /\ root'[n].stamp \in Nat
           /\ root'[n].stamp + Skew >= clock
           /\ \A m \in Numbers : m # n => root'[m] = root[m]
           /\ UNCHANGED <<clock, comment, discovery, tasks, issueFact,
                           commented, head, process>>
PROOF
  <1>1. PICK stamp \in Stamps : root' = [root EXCEPT ![n] = [ver |-> root[n].ver + 1, stamp |-> stamp]]
    BY DEF ChangeRoot
  <1>2. root' [n] = [ver |-> root[n].ver + 1, stamp |-> stamp]
    BY <1>1 DEF PlainTypes
  <1>3. root'[n].stamp \in Nat /\ root'[n].stamp + Skew >= clock
    BY <1>1, <1>2, StampBound
  <1>4. \A m \in Numbers : m # n => root'[m] = root[m]
    BY <1>1 DEF PlainTypes
  <1>5. UNCHANGED <<clock, comment, discovery, tasks, issueFact, commented, head, process>>
    BY DEF ChangeRoot
  <1>. QED  BY <1>1, <1>2, <1>3, <1>4, <1>5

LEMMA ChangeCommentIs ==
    ASSUME PlainTypes, NEW n \in Numbers, ChangeComment(n)
    PROVE  /\ comment'[n].ver = comment[n].ver + 1 /\ comment'[n].stamp \in Nat
           /\ comment'[n].stamp + Skew >= clock
           /\ \A m \in Numbers : m # n => comment'[m] = comment[m]
           /\ root[n].ver > 0
           /\ UNCHANGED <<clock, root, discovery, work, process>>
PROOF
  <1>1. PICK stamp \in Stamps : comment' = [comment EXCEPT ![n] = [ver |-> comment[n].ver + 1, stamp |-> stamp]]
    BY DEF ChangeComment
  <1>2. comment' [n] = [ver |-> comment[n].ver + 1, stamp |-> stamp]
    BY <1>1 DEF PlainTypes
  <1>. QED  BY <1>1, <1>2, StampBound DEF ChangeComment, PlainTypes

LEMMA RepositoryFrame ==
    ASSUME [Next]_vars
    PROVE  \/ UNCHANGED github \/ Tick
           \/ \E n \in Numbers : ChangeRoot(n) \/ ChangeComment(n)
  BY DEF Next, Environment, Sync, TaskStep, vars, github, process, Stop,
         Refresh, StartCycle, ReadFeeds, RecordSignals, EnqueueInitial,
         BeginDiscovery, FetchPage, SavePage, GitRefs, PublishIssue, PublishComments,
         PublishPull, PublishCommits, RefuseCommits, EnqueueChild,
         FinishParent, FinishPullGit, FinishClosing, DrainReturns, CompleteCycle

LEMMA StepTrue ==
    ASSUME PlainTypes, HeadOK, TasksOK, MemoryOK, Phases, RootsTrue, CommentsTrue, [Next]_vars
    PROVE  RootsTrue' /\ CommentsTrue'
PROOF
  <1>. USE DEF github, discovery, work, process
  <1>1. CASE UNCHANGED github
    <2>1. ASSUME NEW n \in Numbers
          PROVE  /\ Truthful(RootFacts(n)', root[n], clock) /\ InOrder(RootFacts(n)')
                 /\ Truthful(CommentFacts(n)', comment[n], clock) /\ InOrder(CommentFacts(n)')
      <3>1. PICK roots, comments : roots = RootFacts(n)' /\ comments = CommentFacts(n)'
        OBVIOUS
      <3>2. /\ \A f \in roots : \/ f \in RootFacts(n)
                                \/ f.ver = root[n].ver /\ f.at = clock
                                \/ f.ver = 0 /\ f.at = Never
            /\ \A f \in comments : \/ f \in CommentFacts(n)
                                   \/ f.ver = comment[n].ver /\ f.at = clock
                                   \/ f.ver = 0 /\ f.at = Never
        BY <3>1, StepFacts
      <3>3. Truthful(roots, root[n], clock) /\ InOrder(roots)
        BY <3>2, ReadParts, GrownFacts DEF RootsTrue
      <3>4. Truthful(comments, comment[n], clock) /\ InOrder(comments)
        BY <3>2, ReadParts, GrownFacts DEF CommentsTrue
      <3>. QED  BY <3>1, <3>3, <3>4
    <2>. QED  BY <2>1, <1>1 DEF RootsTrue, CommentsTrue, Truthful, InOrder
  <1>2. CASE Tick
    <2>1. /\ clock' = clock + 1 /\ UNCHANGED <<root, comment>>
          /\ \A n \in Numbers : RootFacts(n)' = RootFacts(n) /\ CommentFacts(n)' = CommentFacts(n)
      BY <1>2, SameFacts DEF Tick
    <2>2. \A n \in Numbers : /\ Truthful(RootFacts(n), root[n], clock + 1)
                             /\ Truthful(CommentFacts(n), comment[n], clock + 1)
      BY ReadParts, OlderFacts DEF RootsTrue, CommentsTrue
    <2>. QED  BY <2>1, <2>2 DEF RootsTrue, CommentsTrue, Truthful, InOrder
  <1>3. ASSUME NEW m \in Numbers, ChangeRoot(m)  PROVE RootsTrue' /\ CommentsTrue'
    <2>1. /\ UNCHANGED <<clock, comment>>
          /\ \A n \in Numbers : RootFacts(n)' = RootFacts(n) /\ CommentFacts(n)' = CommentFacts(n)
      BY <1>3, SameFacts DEF ChangeRoot
    <2>2. Truthful(RootFacts(m), root'[m], clock)
      BY <1>3, ChangeRootIs, ReadParts, OutdatedFacts DEF RootsTrue
    <2>3. \A n \in Numbers : n # m => root'[n] = root[n]
      BY <1>3, ChangeRootIs
    <2>4. \A n \in Numbers : Truthful(RootFacts(n), root'[n], clock)
      BY <2>2, <2>3 DEF RootsTrue
    <2>. QED  BY <2>1, <2>4 DEF RootsTrue, CommentsTrue, Truthful, InOrder
  <1>4. ASSUME NEW m \in Numbers, ChangeComment(m)  PROVE RootsTrue' /\ CommentsTrue'
    <2>1. /\ UNCHANGED <<clock, root>>
          /\ \A n \in Numbers : RootFacts(n)' = RootFacts(n) /\ CommentFacts(n)' = CommentFacts(n)
      BY <1>4, SameFacts DEF ChangeComment
    <2>2. Truthful(CommentFacts(m), comment'[m], clock)
      BY <1>4, ChangeCommentIs, ReadParts, OutdatedFacts DEF CommentsTrue
    <2>3. \A n \in Numbers : n # m => comment'[n] = comment[n]
      BY <1>4, ChangeCommentIs
    <2>4. \A n \in Numbers : Truthful(CommentFacts(n), comment'[n], clock)
      BY <2>2, <2>3 DEF CommentsTrue
    <2>. QED  BY <2>1, <2>4 DEF RootsTrue, CommentsTrue, Truthful, InOrder
  <1>. QED  BY <1>1, <1>2, <1>3, <1>4, RepositoryFrame

-----------------------------------------------------------------------------
(* The cycle, and the listings under it.                                   *)

LEMMA CycleFrame ==
    ASSUME PlainTypes, Phases, [Next]_vars
    PROVE  \/ cycle.active /\ CompleteCycle
           \/ StartCycle /\ ~cycle.active
           \/ /\ cycle'.active = cycle.active /\ cycle'.start = cycle.start
              /\ cycle'.from = cycle.from /\ (cycle.begun => cycle'.begun)
              /\ checkpoint' = checkpoint
              /\ ~CompleteCycle
PROOF
  <1>. USE DEF github, discovery, work, process
  <1>0. CASE UNCHANGED <<cycle, checkpoint>> /\ ~CompleteCycle
    BY <1>0
  <1>1. CASE StartCycle
    BY <1>1 DEF StartCycle, CompleteCycle
  <1>2. CASE BeginDiscovery
    BY <1>2 DEF BeginDiscovery, PlainTypes, CompleteCycle
  <1>3. CASE SavePage
    BY <1>3 DEF SavePage, PlainTypes, CompleteCycle
  <1>4. CASE CompleteCycle
    BY <1>4 DEF CompleteCycle, Phases
  <1>. QED
    BY <1>0, <1>1, <1>2, <1>3, <1>4
       DEF Next, Environment, Sync, TaskStep, vars, Tick, Stop,
           ChangeRoot, ChangeComment, Refresh, ReadFeeds, RecordSignals,
           EnqueueInitial, FetchPage, GitRefs, PublishIssue, PublishComments,
           PublishPull, PublishCommits, RefuseCommits, EnqueueChild,
           FinishParent, FinishPullGit, FinishClosing, DrainReturns

(* What changes under a cycle comes to be selected.                        *)
LEMMA ChangedSelected ==
    ASSUME PlainTypes, Phases, cycle.active, NEW stamp \in Nat, stamp + Skew >= clock
    PROVE  Selected(stamp) /\ ~(stamp + Overlap < cycle.start)
  BY NumbersAre DEF PlainTypes, Phases, Selected, Since, Times, Never

(* The listings of a cycle only grow, and nothing enters them as settled.  *)
LEMMA StepListings ==
    ASSUME PlainTypes, Phases, Rooted, cycle.active, ~CompleteCycle, [Next]_vars
    PROVE  /\ Listing \subseteq Listing' /\ CommentFeed \subseteq CommentFeed'
           /\ \A n \in Numbers : Owed(n)' => Owed(n)
           /\ \A n \in Numbers : n \in CommentFeed' /\ comment'[n].stamp + Overlap < cycle.start =>
                 n \in CommentFeed /\ comment[n].stamp + Overlap < cycle.start
PROOF
  <1>. USE DEF github, discovery, work, process
  <1>1. cycle'.start = cycle.start /\ cycle'.from = cycle.from
    BY CycleFrame
  <1>2. \A stamp : Selected(stamp)' <=> Selected(stamp)
    BY <1>1 DEF Selected, Since
  <1>3. CASE UNCHANGED <<root, comment>>
    BY <1>1, <1>2, <1>3 DEF Listing, CommentFeed, Owed
  <1>4. ASSUME NEW m \in Numbers, ChangeRoot(m)
        PROVE  /\ Listing \subseteq Listing' /\ CommentFeed \subseteq CommentFeed'
               /\ \A n \in Numbers : Owed(n)' => Owed(n)
               /\ \A n \in Numbers : n \in CommentFeed' /\ comment'[n].stamp + Overlap < cycle.start =>
                     n \in CommentFeed /\ comment[n].stamp + Overlap < cycle.start
    <2>1. /\ comment' = comment /\ root'[m].ver = root[m].ver + 1
          /\ \A n \in Numbers : n # m => root'[n] = root[n]
          /\ Selected(root'[m].stamp) /\ ~(root'[m].stamp + Overlap < cycle.start)
          /\ root[m].ver \in Nat
      BY <1>4, ChangeRootIs, ChangedSelected, ReadParts
    <2>2. Listing \subseteq Listing'
      BY <2>1, <1>2 DEF Listing
    <2>3. CommentFeed' = CommentFeed
      BY <2>1, <1>2 DEF CommentFeed
    <2>4. ASSUME NEW n \in Numbers, Owed(n)'  PROVE Owed(n)
      <3>1. CASE n = m
        <4>1. cycle.from = Never /\ comment[m].ver > 0 /\ comment[m].stamp + Overlap < cycle.start
          BY <3>1, <2>1, <2>4, <1>1 DEF Owed
        <4>2. m \in Listing
          BY <4>1 DEF Listing, Selected, Rooted
        <4>. QED  BY <3>1, <4>1, <4>2 DEF Owed
      <3>2. CASE n # m
        BY <3>2, <2>1, <2>4, <1>1, <1>2 DEF Owed, Listing
      <3>. QED  BY <3>1, <3>2
    <2>. QED  BY <2>1, <2>2, <2>3, <2>4
  <1>5. ASSUME NEW m \in Numbers, ChangeComment(m)
        PROVE  /\ Listing \subseteq Listing' /\ CommentFeed \subseteq CommentFeed'
               /\ \A n \in Numbers : Owed(n)' => Owed(n)
               /\ \A n \in Numbers : n \in CommentFeed' /\ comment'[n].stamp + Overlap < cycle.start =>
                     n \in CommentFeed /\ comment[n].stamp + Overlap < cycle.start
    <2>1. /\ root' = root /\ comment'[m].ver = comment[m].ver + 1
          /\ \A n \in Numbers : n # m => comment'[n] = comment[n]
          /\ Selected(comment'[m].stamp) /\ ~(comment'[m].stamp + Overlap < cycle.start)
          /\ comment[m].ver \in Nat
      BY <1>5, ChangeCommentIs, ChangedSelected, ReadParts
    <2>2. Listing' = Listing
      BY <2>1, <1>2 DEF Listing
    <2>3. CommentFeed \subseteq CommentFeed'
      BY <2>1, <1>2 DEF CommentFeed
    <2>4. \A n \in Numbers : Owed(n)' => Owed(n)
      BY <2>1, <2>2, <1>1 DEF Owed
    <2>5. \A n \in Numbers : n \in CommentFeed' /\ comment'[n].stamp + Overlap < cycle.start =>
                 n \in CommentFeed /\ comment[n].stamp + Overlap < cycle.start
      BY <2>1, <1>2 DEF CommentFeed
    <2>. QED  BY <2>2, <2>3, <2>4, <2>5
  <1>6. Tick => UNCHANGED <<root, comment>>
    BY DEF Tick
  <1>. QED  BY <1>3, <1>4, <1>5, <1>6, RepositoryFrame

(* So positions only grow.                                                 *)
LEMMA NumbersFinite ==
    \A set \in SUBSET Numbers : IsFiniteSet(set) /\ Cardinality(set) \in Nat
PROOF
  <1>1. IsFiniteSet(Numbers)
    BY NumbersAre, FS_Interval DEF Numbers
  <1>. QED  BY <1>1, FS_Subset, FS_CardinalityType

LEMMA Larger ==
    ASSUME NEW large \in SUBSET Numbers, NEW small \in SUBSET large
    PROVE  Cardinality(small) <= Cardinality(large)
  BY NumbersFinite, FS_Subset

LEMMA StepPositions ==
    ASSUME Listing \subseteq Listing', NEW n \in Numbers
    PROVE  Position(n) \in Nat /\ Position(n)' \in Nat /\ Position(n) <= Position(n)'
PROOF
  <1>. DEFINE before == {m \in Listing : m <= n}
  <1>1. PICK after : after = {m \in Listing' : m <= n}
    OBVIOUS
  <1>2. after \in SUBSET Numbers /\ before \in SUBSET after
    BY <1>1 DEF Listing
  <1>3. Cardinality(before) <= Cardinality(after)
    BY <1>2, Larger
  <1>4. Cardinality(before) \in Nat /\ Cardinality(after) \in Nat
    BY <1>2, NumbersFinite
  <1>5. Position(n) = Cardinality(before) /\ Position(n)' = Cardinality(after)
    BY <1>1 DEF Position
  <1>. QED  BY <1>3, <1>4, <1>5

LEMMA PositionBounds ==
    ASSUME NEW n \in Listing
    PROVE  /\ Position(n) \in Nat /\ Cardinality(Listing) \in Nat
           /\ 0 < Position(n) /\ Position(n) <= Cardinality(Listing)
PROOF
  <1>. DEFINE before == {m \in Listing : m <= n}
  <1>1. before \in SUBSET Listing /\ Listing \in SUBSET Numbers
    BY DEF Listing
  <1>2. Cardinality(before) <= Cardinality(Listing)
    BY <1>1, Larger
  <1>3. n \in before /\ n \in Nat
    BY NumbersAre DEF Listing
  <1>4. IsFiniteSet(before) /\ Cardinality(before) \in Nat /\ Cardinality(Listing) \in Nat
    BY <1>1, NumbersFinite
  <1>5. before # {}
    BY <1>3
  <1>. HIDE DEF before
  <1>6. Cardinality(before) # 0
    BY <1>4, <1>5, FS_EmptySet
  <1>. QED  BY <1>2, <1>4, <1>6 DEF Position, before

-----------------------------------------------------------------------------
(* The work of the cycle. *)

LEMMA StepRecent ==
    ASSUME PlainTypes, HeadOK, TasksOK, MemoryOK, Phases, Recent, [Next]_vars
    PROVE  Recent'
PROOF
  <1>. USE DEF github, discovery, work, process
  <1>t. /\ cycle.start \in Nat /\ clock \in Nat
        /\ \A n \in Numbers : /\ head[n].root.at \in Int /\ head[n].comments.at \in Int
                              /\ head[n].root \in Facts /\ head[n].comments \in Facts
    BY NumbersAre DEF PlainTypes, HeadOK, Facts, Times, Never
  <1>h. \A n \in Numbers : /\ head'[n].root.at \in Int /\ head'[n].comments.at \in Int
                           /\ head'[n].root.at >= head[n].root.at
                           /\ head'[n].comments.at >= head[n].comments.at
    <2>1. HeadOK'
      BY StepHead
    <2>2. \A n \in Numbers : head'[n].root.at \in Int /\ head'[n].comments.at \in Int
      BY <2>1, NumbersAre DEF HeadOK, Facts, Times, Never
    <2>. QED  BY <2>2, <1>t, StepHeads DEF MovesTo
  <1>0. ASSUME UNCHANGED <<catalog, issueFact, commented>>, cycle'.start = cycle.start
        PROVE  Recent'
    BY <1>0, <1>h, <1>t DEF Recent
  <1>1. CASE StartCycle
    <2>1. CASE cycle.active
      BY <2>1, <1>0, <1>1 DEF StartCycle
    <2>2. CASE ~cycle.active
      BY <2>2, <1>1 DEF StartCycle, Phases, Recent
    <2>. QED  BY <2>1, <2>2
  <1>2. CASE CompleteCycle
    BY <1>2 DEF CompleteCycle, Recent
  <1>3. CASE SavePage
    <2>1. CASE Conflicts(PageTasks)
      BY <2>1, <1>0, <1>3 DEF SavePage
    <2>2. CASE ~Conflicts(PageTasks)
      <3>1. UNCHANGED <<issueFact, commented, head>> /\ cycle'.start = cycle.start
        BY <2>2, <1>3 DEF SavePage, PlainTypes
      <3>2. \A n \in Numbers : catalog'[n] = catalog[n] \/ \E e \in Held(n) : catalog'[n] = e.summary
        BY <2>2, <1>3, SavePageIs
      <3>3. \A n \in Numbers : \A e \in Held(n) : e.summary.at >= cycle.start
        BY <1>3, NumbersAre DEF SavePage, MemoryOK, Held, Entry
      <3>. QED  BY <3>1, <3>2, <3>3 DEF Recent
    <2>. QED  BY <2>1, <2>2
  <1>4. ASSUME NEW n \in Numbers, PublishIssue(n)  PROVE Recent'
    <2>1. PICK read \in Summary :
              /\ read # Unseen /\ read \in {catalog[n], ReadRoot(n)}
              /\ issueFact' = [issueFact EXCEPT ![n] = read]
              /\ Fact(read.root, read.at) \in Facts
              /\ head'[n].root = Advance(head[n].root, Fact(read.root, read.at))
      BY <1>4, PublishIssueIs DEF HeadOK
    <2>2. clock >= cycle.start
      BY <1>4 DEF PublishIssue, Running, Phases
    <2>3. read.at >= cycle.start /\ read.at \in Int
      BY <2>1, <2>2, <1>t, ReadParts, SummaryParts DEF Recent
    <2>4. head'[n].root.at >= cycle.start
      <3>1. head'[n].root.at >= Fact(read.root, read.at).at
        BY <2>1, <1>t, AdvanceParts
      <3>. QED  BY <3>1, <2>3, <1>t, <1>h, FactParts
    <2>5. issueFact'[n] = read /\ \A m \in Numbers : m # n => issueFact'[m] = issueFact[m]
      BY <2>1 DEF PlainTypes
    <2>6. UNCHANGED <<catalog, commented, cycle>>
      BY <1>4 DEF PublishIssue
    <2>. QED  BY <2>3, <2>4, <2>5, <2>6, <1>h, <1>t DEF Recent
  <1>5. ASSUME NEW n \in Numbers, PublishComments(n)  PROVE Recent'
    <2>1. PICK fact \in Facts :
              /\ \/ fact = Fact(comment[n].ver, clock)
                 \/ fact = Fact(issueFact[n].comments, issueFact[n].at)
              /\ head'[n].comments = Advance(head[n].comments, fact)
      BY <1>5, PublishCommentsIs DEF HeadOK
    <2>2. clock >= cycle.start /\ issueFact[n].at >= cycle.start
      BY <1>5 DEF PublishComments, Running, Phases, Recent
    <2>3. fact.at >= cycle.start /\ fact.at \in Int
      BY <2>1, <2>2, FactParts, NumbersAre DEF Facts, Times, Never
    <2>4. head'[n].comments.at >= cycle.start
      <3>1. head'[n].comments.at >= fact.at
        BY <2>1, <1>t, AdvanceParts
      <3>. QED  BY <3>1, <2>3, <1>t, <1>h
    <2>5. UNCHANGED <<catalog, issueFact, cycle>> /\ commented' = commented \cup {n}
      BY <1>5 DEF PublishComments
    <2>. QED  BY <2>4, <2>5, <1>h, <1>t DEF Recent
  <1>6. \/ UNCHANGED <<catalog, issueFact, commented>> /\ cycle'.start = cycle.start
        \/ StartCycle \/ CompleteCycle \/ SavePage
        \/ \E n \in Numbers : PublishIssue(n) \/ PublishComments(n)
    BY DEF Next, Environment, Sync, TaskStep, vars, PlainTypes, Tick, Stop,
           ChangeRoot, ChangeComment, Refresh, ReadFeeds, RecordSignals, EnqueueInitial,
           BeginDiscovery, FetchPage, GitRefs, PublishPull, PublishCommits, RefuseCommits,
           EnqueueChild,
           FinishParent, FinishPullGit, FinishClosing, DrainReturns
  <1>. QED  BY <1>0, <1>1, <1>2, <1>3, <1>4, <1>5, <1>6

(* What a step does to the catalog and to what has been published.         *)
LEMMA StepPublished ==
    ASSUME PlainTypes, HeadOK, TasksOK, MemoryOK, Phases, [Next]_vars
    PROVE  \/ CompleteCycle
           \/ /\ commented \subseteq commented'
              /\ \A n \in Numbers :
                    /\ catalog[n] # Unseen => catalog'[n] # Unseen
                    /\ issueFact[n] # Unseen => issueFact'[n] # Unseen
                    /\ n \in commented' => n \in commented \/ PublishComments(n)
PROOF
  <1>. USE DEF github, discovery, work, process
  <1>0. CASE UNCHANGED <<catalog, issueFact, commented>>
    BY <1>0
  <1>1. CASE SavePage
    <2>1. CASE Conflicts(PageTasks)
      BY <2>1, <1>1 DEF SavePage
    <2>2. CASE ~Conflicts(PageTasks)
      <3>1. UNCHANGED <<issueFact, commented>>
        BY <2>2, <1>1 DEF SavePage
      <3>. QED  BY <3>1, <2>2, <1>1, SavePageIs
    <2>. QED  BY <2>1, <2>2
  <1>2. ASSUME NEW n \in Numbers, PublishIssue(n)
        PROVE  \A m \in Numbers : issueFact[m] # Unseen => issueFact'[m] # Unseen
    <2>1. PICK read : read # Unseen /\ issueFact' = [issueFact EXCEPT ![n] = read]
      BY <1>2, PublishIssueIs
    <2>. QED  BY <2>1 DEF PlainTypes
  <1>3. ASSUME NEW n \in Numbers, PublishIssue(n)  PROVE UNCHANGED <<catalog, commented>>
    BY <1>3 DEF PublishIssue
  <1>4. ASSUME NEW n \in Numbers, PublishComments(n)
        PROVE  UNCHANGED <<catalog, issueFact>> /\ commented' = commented \cup {n}
    BY <1>4 DEF PublishComments
  <1>5. \/ UNCHANGED <<catalog, issueFact, commented>>
        \/ CompleteCycle \/ SavePage
        \/ \E n \in Numbers : PublishIssue(n) \/ PublishComments(n)
    BY DEF Next, Environment, Sync, TaskStep, vars, Tick, Stop, StartCycle,
           ChangeRoot, ChangeComment, Refresh, ReadFeeds, RecordSignals, EnqueueInitial,
           BeginDiscovery, FetchPage, GitRefs, PublishPull, PublishCommits, RefuseCommits,
           EnqueueChild,
           FinishParent, FinishPullGit, FinishClosing, DrainReturns
  <1>. QED  BY <1>0, <1>1, <1>2, <1>3, <1>4, <1>5

(* Commits that were published stay published until the cycle ends.        *)
LEMMA StepPull ==
    ASSUME PlainTypes, [Next]_vars
    PROVE  CompleteCycle \/ \A n \in Numbers : pull[n] = "whole" => pull'[n] = "whole"
PROOF
  <1>1. CASE UNCHANGED pull
    BY <1>1
  <1>2. ASSUME NEW n \in Numbers, pull[n] # "whole", NEW state, pull' = [pull EXCEPT ![n] = state]
        PROVE  \A m \in Numbers : pull[m] = "whole" => pull'[m] = "whole"
    BY <1>2 DEF PlainTypes
  <1>3. \/ CompleteCycle \/ UNCHANGED pull
        \/ \E n \in Numbers : ChangeRoot(n) \/ PublishPull(n) \/ PublishCommits(n)
    BY DEF Next, Environment, Sync, TaskStep, vars, work, Tick, Stop, StartCycle, ChangeComment,
           Refresh, ReadFeeds, RecordSignals, EnqueueInitial, BeginDiscovery, FetchPage, SavePage,
           GitRefs, PublishIssue, PublishComments, RefuseCommits, EnqueueChild, FinishParent,
           FinishPullGit, FinishClosing, DrainReturns
  <1>4. ASSUME NEW n \in Numbers, ChangeRoot(n) \/ PublishPull(n) \/ PublishCommits(n)
        PROVE  \/ UNCHANGED pull
               \/ pull[n] # "whole" /\ \E state : pull' = [pull EXCEPT ![n] = state]
    BY <1>4 DEF ChangeRoot, PublishPull, PublishCommits
  <1>. QED  BY <1>1, <1>2, <1>3, <1>4

LEMMA StepParents ==
    ASSUME TypeOK, PlainTypes, HeadOK, TasksOK, MemoryOK, Phases, Parents, [Next]_vars
    PROVE  Parents'
PROOF
  <1>1. CASE CompleteCycle
    BY <1>1 DEF CompleteCycle, Parents, IsDone, Row
  <1>2. CASE ~CompleteCycle
    <2>1. /\ \A n \in Numbers : IsDone(Parent(n))' => IsDone(Parent(n)) \/ FinishParent(n)
          /\ \A key : Has(key) => Has(key)'
      BY <1>2, StepTable, KeptKeys
    <2>2. /\ commented \subseteq commented'
          /\ \A n \in Numbers :
                /\ catalog[n] # Unseen => catalog'[n] # Unseen
                /\ issueFact[n] # Unseen => issueFact'[n] # Unseen
                /\ n \in commented' => n \in commented \/ PublishComments(n)
      BY <1>2, StepPublished
    <2>3. ASSUME NEW n \in Numbers, FinishParent(n)
          PROVE  /\ n \in commented
                 /\ n \in Pulls => /\ pull[n] = "whole" /\ Has(PullGit(n))
                                   /\ catalog[n] # Unseen \/ Has(ClosingSingle(n))
      BY <2>3 DEF FinishParent, NeedsSingle, Has, Row
    <2>4. \A n \in Numbers : PublishComments(n) => issueFact[n] # Unseen
      BY DEF PublishComments
    <2>5. \A n \in Numbers : pull[n] = "whole" => pull'[n] = "whole"
      BY <1>2, StepPull
    <2>. QED  BY <2>1, <2>2, <2>3, <2>4, <2>5 DEF Parents
  <1>. QED  BY <1>1, <1>2

LEMMA StepCatalogued ==
    ASSUME TypeOK, PlainTypes, HeadOK, TasksOK, MemoryOK, Phases, Catalogued, [Next]_vars
    PROVE  Catalogued'
PROOF
  <1>1. CASE CompleteCycle
    BY <1>1 DEF CompleteCycle, Catalogued
  <1>2. CASE SavePage /\ ~Conflicts(PageTasks)
    <2>. DEFINE numbers == {entry.number : entry \in Page}
    <2>1. Drafts(PageTasks) /\ tasks' = Insert(PageTasks)
      BY <1>2, PageDrafts DEF SavePage
    <2>2. \A d \in PageTasks : \E u \in tasks' : u.key = d.key /\ u.numbers = d.numbers
      BY <2>1, <1>2, InsertedTable
    <2>3. Kept
      BY <2>1, InsertedTable
    <2>4. /\ \A key : Has(key) => Has(key)'
          /\ \A n : PageCovers(n) => PageCovers(n)'
      BY <2>3, KeptKeys
    <2>5. ASSUME NEW n \in Numbers, n \in numbers
          PROVE  Has(Parent(n))' /\ (n \in Pulls => PageCovers(n)')
      <3>1. Task(Parent(n), {n}) \in PageTasks
        BY <2>5 DEF PageTasks
      <3>2. Has(Parent(n))'
        BY <3>1, <2>2, TaskParts DEF Has
      <3>3. ASSUME n \in Pulls  PROVE PageCovers(n)'
        <4>1. Task(ClosingPage(PageOrdinal), numbers \cap Pulls) \in PageTasks
          BY <2>5, <3>3 DEF PageTasks
        <4>2. PICK u \in tasks' : u.key = ClosingPage(PageOrdinal) /\ u.numbers = numbers \cap Pulls
          BY <4>1, <2>2, TaskParts
        <4>3. PageOrdinal \in Nat /\ n \in u.numbers
          BY <4>2, <2>5, <3>3 DEF PageOrdinal, PlainTypes
        <4>4. \E k \in Nat : u.key = ClosingPage(k)
          BY <4>2, <4>3
        <4>. QED  BY <4>2, <4>3, <4>4 DEF PageCovers, ClosingPage
      <3>. QED  BY <3>2, <3>3
    <2>6. \A n \in Numbers : catalog'[n] # Unseen => catalog[n] # Unseen \/ n \in numbers
      BY <1>2, SavePageIs
    <2>. HIDE DEF numbers
    <2>. QED  BY <2>4, <2>5, <2>6 DEF Catalogued
  <1>3. CASE UNCHANGED catalog /\ ~CompleteCycle
    <2>1. /\ \A key : Has(key) => Has(key)'
          /\ \A n : PageCovers(n) => PageCovers(n)'
      BY <1>3, StepTable, KeptKeys
    <2>. QED  BY <2>1, <1>3 DEF Catalogued
  <1>4. CompleteCycle \/ UNCHANGED catalog \/ (SavePage /\ ~Conflicts(PageTasks))
    BY DEF Next, Environment, Sync, TaskStep, vars, discovery, Tick, Stop, StartCycle,
           ChangeRoot, ChangeComment, Refresh, ReadFeeds, RecordSignals, EnqueueInitial,
           BeginDiscovery, FetchPage, SavePage, GitRefs, PublishIssue, PublishComments,
           PublishPull, PublishCommits, RefuseCommits, EnqueueChild,
           FinishParent, FinishPullGit, FinishClosing, DrainReturns
  <1>. QED  BY <1>1, <1>2, <1>3, <1>4

LEMMA StepSignalled ==
    ASSUME TypeOK, PlainTypes, HeadOK, TasksOK, MemoryOK, Phases, Rooted, Signalled, [Next]_vars
    PROVE  Signalled'
PROOF
  <1>. USE DEF github, discovery, work, process
  <1>1. CASE CompleteCycle
    BY <1>1 DEF CompleteCycle, Signalled, NoCycle
  <1>2. CASE StartCycle /\ ~cycle.active
    <2>1. signals' = {} /\ pc' = "feeds" /\ cycle'.begun = FALSE
      BY <1>2 DEF StartCycle, Phases, NoCycle
    <2>. QED  BY <2>1 DEF Signalled
  <1>3. CASE ~cycle.active /\ ~StartCycle
    <2>1. pc = "down"
      BY <1>3 DEF Phases
    <2>2. pc' = "down" /\ signals' = {} /\ cycle' = cycle
      BY <1>3, <2>1
         DEF Next, Environment, Sync, TaskStep, vars, Tick, Stop, Phases,
             ChangeRoot, ChangeComment, Refresh, ReadFeeds, RecordSignals, EnqueueInitial,
             BeginDiscovery, FetchPage, SavePage, GitRefs, PublishIssue, PublishComments,
             PublishPull, PublishCommits, RefuseCommits,
             EnqueueChild, FinishParent, FinishPullGit, FinishClosing, DrainReturns,
             CompleteCycle, Running
    <2>. QED  BY <2>2 DEF Signalled
  <1>4. CASE cycle.active /\ ~CompleteCycle
    <2>1. /\ CommentFeed \subseteq CommentFeed' /\ cycle'.from = cycle.from
      BY <1>4, StepListings, CycleFrame
    <2>2. \A key : Has(key) => Has(key)'
      BY <1>4, StepTable, KeptKeys
    <2>3. /\ signals' \subseteq CommentFeed'
          /\ cycle'.from = Never => signals' = {}
          /\ pc' = "signals" => cycle'.from # Never /\ memory' \subseteq CommentFeed'
      <3>1. CASE RecordSignals
        BY <3>1, <2>1 DEF RecordSignals, Signalled
      <3>2. CASE ReadFeeds
        BY <3>2, <2>1 DEF ReadFeeds, Signalled
      <3>3. CASE signals' = signals /\ (pc' = "signals" => UNCHANGED <<pc, memory>>)
        BY <3>3, <2>1 DEF Signalled
      <3>. QED
        BY <3>1, <3>2, <3>3, <1>4
           DEF Next, Environment, Sync, TaskStep, vars, Tick, Stop, StartCycle,
               ChangeRoot, ChangeComment, Refresh, EnqueueInitial,
               BeginDiscovery, FetchPage, SavePage, GitRefs, PublishIssue, PublishComments,
               PublishPull, PublishCommits, RefuseCommits,
               EnqueueChild, FinishParent, FinishPullGit, FinishClosing, DrainReturns
    <2>4. /\ pc' \in {"signals", "enqueue"} => signals' \subseteq memory'
          /\ pc' = "begin" \/ cycle'.begun => \A n \in signals' : Has(Parent(n))'
      <3>1. CASE ReadFeeds
        BY <3>1, <2>2 DEF ReadFeeds, Signalled, Phases
      <3>2. CASE RecordSignals
        BY <3>2, <2>2 DEF RecordSignals, Signalled, Phases
      <3>3. CASE EnqueueInitial
        <4>1. Drafts({Task(Refs, {})} \cup {Task(Parent(n), {n}) : n \in memory})
          BY <3>3, InitialDrafts DEF EnqueueInitial, MemoryOK
        <4>2. \A n \in memory : Has(Parent(n))'
          <5>. SUFFICES ASSUME NEW n \in memory  PROVE Has(Parent(n))'
            OBVIOUS
          <5>1. Task(Parent(n), {n}) \in {Task(Refs, {})} \cup {Task(Parent(m), {m}) : m \in memory}
            OBVIOUS
          <5>2. \E u \in tasks' : u.key = Task(Parent(n), {n}).key
            BY <4>1, <5>1, <3>3, InsertedTable DEF EnqueueInitial
          <5>. QED  BY <5>2, TaskParts DEF Has
        <4>. QED  BY <4>2, <3>3 DEF EnqueueInitial, Signalled, Phases
      <3>4. CASE BeginDiscovery
        BY <3>4, <2>2 DEF BeginDiscovery, Signalled
      <3>5. CASE StartCycle
        BY <3>5, <2>2, <1>4 DEF StartCycle, Signalled
      <3>6. CASE /\ signals' = signals /\ pc' # "begin" /\ pc' \notin {"signals", "enqueue"}
                 /\ cycle'.begun = cycle.begun
        BY <3>6, <2>2 DEF Signalled
      <3>7. CASE UNCHANGED <<signals, pc, memory, cycle>>
        BY <3>7, <2>2 DEF Signalled
      <3>8. CASE Stop \/ \E n \in Numbers : RefuseCommits(n)
        BY <3>6, <3>8 DEF Stop, RefuseCommits
      <3>9. CASE TaskStep
        <4>1. \/ UNCHANGED <<signals, pc, memory, cycle>>
              \/ \E n \in Numbers : RefuseCommits(n)
          BY <3>9
             DEF TaskStep, GitRefs, PublishIssue, PublishComments, PublishPull, PublishCommits,
                 EnqueueChild, FinishParent, FinishPullGit, FinishClosing
        <4>. QED  BY <4>1, <3>7, <3>8
      <3>10. CASE Environment
        <4>1. UNCHANGED <<signals, pc, memory, cycle>> \/ Stop
          BY <3>10 DEF Environment, Tick, ChangeRoot, ChangeComment, Refresh
        <4>. QED  BY <4>1, <3>7, <3>8
      <3>11. CASE FetchPage \/ SavePage \/ DrainReturns
        BY <3>6, <3>11 DEF FetchPage, SavePage, DrainReturns, PlainTypes
      <3>. QED
        BY <3>1, <3>2, <3>3, <3>4, <3>5, <3>7, <3>9, <3>10, <3>11, <1>4 DEF Next, Sync, vars
    <2>. QED  BY <2>3, <2>4 DEF Signalled
  <1>. QED  BY <1>1, <1>2, <1>3, <1>4

LEMMA StepNoticed ==
    ASSUME TypeOK, PlainTypes, HeadOK, TasksOK, MemoryOK, Phases, Rooted, Noticed, [Next]_vars
    PROVE  Noticed'
PROOF
  <1>. USE DEF github, discovery, work, process
  <1>1. CASE CompleteCycle
    BY <1>1 DEF CompleteCycle, Noticed, NoCycle
  <1>2. CASE StartCycle /\ ~cycle.active
    <2>1. pc' = "feeds" /\ cycle'.begun = FALSE
      BY <1>2 DEF StartCycle, NoCycle
    <2>. QED  BY <2>1 DEF Noticed
  <1>3. CASE ~cycle.active /\ ~StartCycle
    <2>1. cycle'.active = FALSE
      BY <1>3, CycleFrame DEF PlainTypes
    <2>. QED  BY <2>1 DEF Noticed
  <1>4. CASE cycle.active /\ ~CompleteCycle
    <2>1. /\ cycle'.active /\ cycle'.from = cycle.from /\ cycle'.start = cycle.start
          /\ \A n \in Numbers : n \in CommentFeed' /\ comment'[n].stamp + Overlap < cycle.start =>
                 n \in CommentFeed /\ comment[n].stamp + Overlap < cycle.start
      BY <1>4, StepListings, CycleFrame
    <2>2. \A key : Has(key) => Has(key)'
      BY <1>4, StepTable, KeptKeys
    <2>3. ASSUME cycle.from # Never, NEW n \in Numbers, n \in CommentFeed,
                 comment[n].stamp + Overlap < cycle.start
          PROVE  /\ pc' \in {"signals", "enqueue"} => n \in memory'
                 /\ pc' = "begin" \/ cycle'.begun => Has(Parent(n))'
      <3>0. /\ pc \in {"signals", "enqueue"} => n \in memory
            /\ pc = "begin" \/ cycle.begun => Has(Parent(n))
        BY <2>3, <1>4 DEF Noticed
      <3>1. CASE ReadFeeds
        BY <3>0, <3>1, <2>2, <2>3 DEF ReadFeeds, Phases
      <3>2. CASE RecordSignals
        BY <3>0, <3>2, <2>2 DEF RecordSignals, Phases
      <3>3. CASE EnqueueInitial
        <4>1. Drafts({Task(Refs, {})} \cup {Task(Parent(m), {m}) : m \in memory})
          BY <3>3, InitialDrafts DEF EnqueueInitial, MemoryOK
        <4>2. Has(Parent(n))'
          <5>1. Task(Parent(n), {n}) \in {Task(Refs, {})} \cup {Task(Parent(m), {m}) : m \in memory}
            BY <3>0, <3>3 DEF EnqueueInitial
          <5>2. \E u \in tasks' : u.key = Task(Parent(n), {n}).key
            BY <4>1, <5>1, <3>3, InsertedTable DEF EnqueueInitial
          <5>. QED  BY <5>2, TaskParts DEF Has
        <4>. QED  BY <4>2, <3>3 DEF EnqueueInitial
      <3>4. CASE BeginDiscovery
        BY <3>0, <3>4, <2>2 DEF BeginDiscovery
      <3>5. CASE StartCycle
        BY <3>0, <3>5, <2>2, <1>4 DEF StartCycle
      <3>6. CASE /\ pc' # "begin" /\ pc' \notin {"signals", "enqueue"}
                 /\ cycle'.begun = cycle.begun
        BY <3>0, <3>6, <2>2
      <3>7. CASE UNCHANGED <<pc, memory, cycle>>
        BY <3>0, <3>7, <2>2
      <3>8. CASE Stop \/ \E m \in Numbers : RefuseCommits(m)
        BY <3>6, <3>8 DEF Stop, RefuseCommits
      <3>9. CASE TaskStep
        <4>1. \/ UNCHANGED <<signals, pc, memory, cycle>>
              \/ \E m \in Numbers : RefuseCommits(m)
          BY <3>9
             DEF TaskStep, GitRefs, PublishIssue, PublishComments, PublishPull, PublishCommits,
                 EnqueueChild, FinishParent, FinishPullGit, FinishClosing
        <4>. QED  BY <4>1, <3>7, <3>8
      <3>10. CASE Environment
        <4>1. UNCHANGED <<signals, pc, memory, cycle>> \/ Stop
          BY <3>10 DEF Environment, Tick, ChangeRoot, ChangeComment, Refresh
        <4>. QED  BY <4>1, <3>7, <3>8
      <3>11. CASE FetchPage \/ SavePage \/ DrainReturns
        BY <3>6, <3>11 DEF FetchPage, SavePage, DrainReturns, PlainTypes
      <3>. QED
        BY <3>1, <3>2, <3>3, <3>4, <3>5, <3>7, <3>9, <3>10, <3>11, <1>4 DEF Next, Sync, vars
    <2>. QED  BY <2>1, <2>3 DEF Noticed
  <1>. QED  BY <1>1, <1>2, <1>3, <1>4

(* Arithmetic of pages. *)
LEMMA PageArithmetic ==
    ASSUME NEW k \in Nat
    PROVE  /\ k * PageSize \in Int /\ (k - 1) * PageSize \in Int
           /\ ((k + 1) - 1) * PageSize = k * PageSize
           /\ (1 - 1) * PageSize = 0
PROOF
  <1>1. (k + 1) - 1 = k /\ 1 - 1 = 0
    OBVIOUS
  <1>. QED  BY <1>1, NumbersAre

(* What the traversal still owes a parent it has not catalogued.           *)
Behind(n) ==
    /\ cycle.cursor # 0
    /\ Position(n) > (cycle.cursor - 1) * PageSize
    /\ pc = "save" =>
          \/ \E e \in memory : e.number = n
          \/ MorePages /\ Position(n) > cycle.cursor * PageSize

LEMMA StepListed ==
    ASSUME TypeOK, PlainTypes, HeadOK, TasksOK, MemoryOK, Phases, Rooted, Listed, [Next]_vars
    PROVE  Listed'
PROOF
  <1>. USE DEF github, discovery, work, process
  <1>1. CASE CompleteCycle
    BY <1>1 DEF CompleteCycle, Listed, NoCycle
  <1>2. CASE StartCycle /\ ~cycle.active
    <2>1. cycle'.begun = FALSE
      BY <1>2 DEF StartCycle, NoCycle
    <2>. QED  BY <2>1 DEF Listed
  <1>3. CASE ~cycle.active /\ ~StartCycle
    <2>1. cycle'.active = FALSE
      BY <1>3, CycleFrame DEF PlainTypes
    <2>. QED  BY <2>1 DEF Listed
  <1>4. CASE cycle.active /\ ~CompleteCycle
    <2>1. /\ Listing \subseteq Listing'
          /\ \A n \in Numbers : Owed(n)' => Owed(n)
      BY <1>4, StepListings
    <2>2. \A n \in Numbers : catalog'[n] = Unseen => catalog[n] = Unseen
      BY <1>4, StepPublished
    <2>3. ASSUME cycle'.begun, NEW n \in Numbers, Owed(n), catalog[n] = Unseen, catalog'[n] = Unseen
          PROVE  Behind(n)'
      <3>0. cycle.begun => Behind(n)
        BY <2>3, <1>4 DEF Listed, Behind
      <3>p. Position(n) \in Nat /\ Position(n)' \in Nat /\ Position(n) <= Position(n)'
        BY <2>1, StepPositions
      <3>c. cycle.cursor \in Nat /\ cycle.cursor - 1 \in Int
        BY DEF PlainTypes
      <3>a. /\ cycle.cursor * PageSize \in Int /\ (cycle.cursor - 1) * PageSize \in Int
            /\ ((cycle.cursor + 1) - 1) * PageSize = cycle.cursor * PageSize
            /\ (1 - 1) * PageSize = 0
        BY <3>c, PageArithmetic
      <3>b. 0 < Position(n) /\ Position(n) <= Cardinality(Listing) /\ Cardinality(Listing) \in Nat
        BY <2>3, PositionBounds DEF Owed
      <3>1. CASE BeginDiscovery
        <4>1. CASE cycle.begun
          BY <4>1, <3>0, <3>1, <3>p, <3>a DEF BeginDiscovery, Behind
        <4>2. CASE ~cycle.begun
          <5>1. cycle' = [cycle EXCEPT !.begun = TRUE, !.cursor = 1] /\ pc' # "save"
            BY <4>2, <3>1 DEF BeginDiscovery
          <5>2. cycle'.cursor = 1
            BY <5>1 DEF PlainTypes
          <5>3. Position(n)' > (cycle'.cursor - 1) * PageSize
            BY <5>2, <3>a, <3>b, <3>p
          <5>. QED  BY <5>1, <5>2, <5>3 DEF Behind
        <4>. QED  BY <4>1, <4>2
      <3>2. CASE FetchPage
        <4>1. cycle' = cycle /\ Behind(n)
          BY <3>0, <3>2 DEF FetchPage, Phases
        <4>2. CASE Position(n) <= cycle.cursor * PageSize
          <5>1. n \in PageOf(cycle.cursor)
            BY <4>1, <4>2, <2>3 DEF PageOf, Behind, Owed
          <5>2. \E e \in memory' : e.number = n
            <6>1. [number |-> n, summary |-> ReadRoot(n)] \in memory'
              BY <5>1, <3>2 DEF FetchPage
            <6>. QED  BY <6>1
          <5>. QED  BY <4>1, <5>2, <3>p, <3>a DEF Behind
        <4>3. CASE Position(n) > cycle.cursor * PageSize
          <5>1. HasNext(cycle.cursor)
            BY <4>3, <3>b, <3>a, <3>p DEF HasNext
          <5>2. \E e \in memory' : e.number = 0 /\ e.more
            <6>1. [number |-> 0, more |-> HasNext(cycle.cursor)] \in memory'
              BY <3>2 DEF FetchPage
            <6>2. PICK e : e = [number |-> 0, more |-> HasNext(cycle.cursor)]
              OBVIOUS
            <6>3. e \in memory' /\ e.number = 0 /\ e.more
              BY <5>1, <6>1, <6>2
            <6>. QED  BY <6>3
          <5>3. MorePages'
            BY <5>2 DEF MorePages
          <5>4. Position(n)' > cycle'.cursor * PageSize
            BY <4>1, <4>3, <3>p, <3>a
          <5>. QED  BY <4>1, <5>3, <5>4, <3>p, <3>a DEF Behind
        <4>. QED  BY <4>2, <4>3, <3>p, <3>a
      <3>3. CASE SavePage
        <4>1. pc' # "save" /\ pc = "save" /\ Behind(n)
          BY <3>0, <3>3 DEF SavePage, Phases
        <4>2. CASE Conflicts(PageTasks)
          BY <4>1, <4>2, <3>3, <3>p, <3>a DEF SavePage, Behind
        <4>3. CASE ~Conflicts(PageTasks)
          <5>1. ~\E e \in memory : e.number = n
            BY <4>3, <3>3, <2>3, SavePageIs
          <5>2. MorePages /\ Position(n) > cycle.cursor * PageSize
            BY <4>1, <5>1 DEF Behind
          <5>3. cycle'.cursor = cycle.cursor + 1
            BY <4>3, <5>2, <3>3, SavePageIs DEF PlainTypes
          <5>4. Position(n)' > (cycle'.cursor - 1) * PageSize
            BY <5>2, <5>3, <3>p, <3>a
          <5>. QED  BY <4>1, <5>3, <5>4, <3>c DEF Behind
        <4>. QED  BY <4>2, <4>3
      <3>4. CASE UNCHANGED cycle /\ (pc' = "save" => UNCHANGED <<pc, memory>>)
        BY <3>4, <3>0, <2>3, <3>p, <3>a DEF Behind, MorePages
      <3>5. CASE StartCycle
        <4>1. UNCHANGED cycle /\ pc' # "save"
          BY <3>5, <1>4 DEF StartCycle
        <4>. QED  BY <4>1, <3>4
      <3>. QED
        BY <3>1, <3>2, <3>3, <3>4, <3>5, <1>4
           DEF Next, Environment, Sync, TaskStep, vars, Tick, Stop,
               ChangeRoot, ChangeComment, Refresh, ReadFeeds, RecordSignals, EnqueueInitial,
               GitRefs, PublishIssue, PublishComments,
               PublishPull, PublishCommits, RefuseCommits,
               EnqueueChild, FinishParent, FinishPullGit, FinishClosing, DrainReturns
    <2>. QED  BY <2>1, <2>2, <2>3 DEF Listed, Behind
  <1>. QED  BY <1>1, <1>2, <1>3, <1>4

(* A parent of which the work is done shows what it was at the start, or   *)
(* later.                                                                  *)
LEMMA DoneIsRecent ==
    ASSUME TypeOK, PlainTypes, HeadOK, Phases, RootsTrue, CommentsTrue, Recent, Parents,
           NEW n \in Numbers, Has(Parent(n)), AllDone
    PROVE  /\ StaleRoot(n) => ~(root[n].stamp + Overlap < cycle.start)
           /\ StaleComments(n) => ~(comment[n].stamp + Overlap < cycle.start)
PROOF
  <1>1. IsDone(Parent(n))
    BY DEF Has, AllDone, IsDone, Row
  <1>2. n \in commented /\ issueFact[n] # Unseen
    BY <1>1 DEF Parents
  <1>3. head[n].root.at >= cycle.start /\ head[n].comments.at >= cycle.start
    BY <1>2 DEF Recent
  <1>4. /\ head[n].root.at \in Int /\ head[n].comments.at \in Int /\ cycle.start \in Int
        /\ root[n].stamp \in Nat /\ comment[n].stamp \in Nat
    BY ReadParts, NumbersAre DEF HeadOK, Facts, PlainTypes, Times, Never
  <1>5. Truthful({head[n].root}, root[n], clock) /\ Truthful({head[n].comments}, comment[n], clock)
    BY DEF RootsTrue, CommentsTrue, RootFacts, CommentFacts, Truthful
  <1>. QED  BY <1>3, <1>4, <1>5, NumbersAre DEF Truthful, StaleRoot, StaleComments

(* The whole argument: at the end of a cycle, what is stale has changed    *)
(* since the cycle's start.                                                *)
LEMMA CompletionLosesNothing ==
    ASSUME TypeOK, PlainTypes, HeadOK, TasksOK, Phases, Rooted, RootsTrue, CommentsTrue, Recent,
           Parents, Catalogued, Noticed, Listed, NothingLost, CompleteCycle, NEW n \in Numbers
    PROVE  /\ StaleRoot(n) => root[n].stamp >= cycle.start - Overlap
           /\ StaleComments(n) => comment[n].stamp >= cycle.start - Overlap
PROOF
  <1>0. /\ cycle.active /\ cycle.begun /\ cycle.cursor = 0 /\ AllDone
        /\ cycle.from = checkpoint
    BY DEF CompleteCycle, AllDone, Phases
  <1>1. /\ root[n].stamp \in Nat /\ comment[n].stamp \in Nat
        /\ root[n].ver \in Nat /\ comment[n].ver \in Nat
        /\ cycle.start \in Nat
        /\ Skew \in Nat /\ Overlap \in Nat
        /\ head[n].root.ver \in Nat /\ head[n].comments.ver \in Nat
        /\ checkpoint \in Int
    BY ReadParts, NumbersAre DEF PlainTypes, HeadOK, Facts, Times, Never
  <1>2. /\ head[n].root.ver <= root[n].ver
        /\ head[n].comments.ver <= comment[n].ver
    BY DEF RootsTrue, CommentsTrue, RootFacts, CommentFacts, Truthful
  <1>3. Owed(n) => Has(Parent(n))
    BY <1>0 DEF Listed, Catalogued
  <1>4. ASSUME StaleRoot(n), root[n].stamp + Overlap < cycle.start  PROVE FALSE
    <2>1. root[n].ver > 0
      BY <1>1, <1>2, <1>4 DEF StaleRoot
    <2>2. Selected(root[n].stamp)
      BY <1>0, <1>4 DEF NothingLost, Selected, Since
    <2>3. Owed(n)
      BY <2>1, <2>2, <1>4 DEF Owed, Listing
    <2>. QED  BY <2>3, <1>0, <1>3, <1>4, DoneIsRecent
  <1>5. ASSUME StaleComments(n), comment[n].stamp + Overlap < cycle.start  PROVE FALSE
    <2>1. comment[n].ver > 0 /\ root[n].ver > 0
      BY <1>1, <1>2, <1>5 DEF StaleComments, Rooted
    <2>2. CASE cycle.from = Never
      <3>1. Owed(n)
        BY <2>1, <2>2, <1>5 DEF Owed, Listing, Selected
      <3>. QED  BY <3>1, <1>0, <1>3, <1>5, DoneIsRecent
    <2>3. CASE cycle.from # Never
      <3>1. Selected(comment[n].stamp)
        BY <2>3, <1>0, <1>5 DEF NothingLost, Selected, Since
      <3>2. n \in CommentFeed
        BY <2>1, <3>1 DEF CommentFeed
      <3>3. Has(Parent(n))
        BY <2>3, <3>2, <1>0, <1>5 DEF Noticed
      <3>. QED  BY <3>3, <1>0, <1>5, DoneIsRecent
    <2>. QED  BY <2>2, <2>3
  <1>. QED  BY <1>1, <1>4, <1>5

LEMMA StepNothingLost ==
    ASSUME TypeOK, PlainTypes, HeadOK, TasksOK, MemoryOK, Phases, Rooted, RootsTrue, CommentsTrue,
           Recent, Parents, Catalogued, Noticed, Listed, NothingLost, [Next]_vars
    PROVE  NothingLost'
PROOF
  <1>. USE DEF github, discovery, work, process
  <1>t. /\ checkpoint \in Int /\ cycle.start \in Nat /\ clock \in Nat /\ checkpoint <= clock
        /\ Skew \in Nat /\ Overlap \in Nat /\ Skew <= Overlap
        /\ \A n \in Numbers : root[n].stamp \in Nat /\ comment[n].stamp \in Nat
    BY ReadParts, NumbersAre DEF PlainTypes, Phases, Times, Never
  <1>1. CASE CompleteCycle
    <2>1. CompletedBoundary = cycle.start
      BY <1>1, <1>t DEF CompleteCycle, CompletedBoundary, Max, Phases
    <2>2. checkpoint' = cycle.start /\ UNCHANGED <<head, root, comment>>
      BY <1>1, <2>1 DEF CompleteCycle
    <2>3. \A n \in Numbers : /\ StaleRoot(n) => root[n].stamp >= cycle.start - Overlap
                             /\ StaleComments(n) => comment[n].stamp >= cycle.start - Overlap
      BY <1>1, CompletionLosesNothing
    <2>. QED  BY <2>2, <2>3 DEF NothingLost, StaleRoot, StaleComments
  <1>2. ASSUME NEW m \in Numbers, ChangeRoot(m)  PROVE NothingLost'
    <2>1. /\ UNCHANGED <<checkpoint, head, comment>>
          /\ \A n \in Numbers : n # m => root'[n] = root[n]
          /\ root'[m].stamp >= checkpoint - Overlap
      BY <1>2, <1>t, ChangeRootIs
    <2>. QED  BY <2>1 DEF NothingLost, StaleRoot, StaleComments
  <1>3. ASSUME NEW m \in Numbers, ChangeComment(m)  PROVE NothingLost'
    <2>1. /\ UNCHANGED <<checkpoint, head, root>>
          /\ \A n \in Numbers : n # m => comment'[n] = comment[n]
          /\ comment'[m].stamp >= checkpoint - Overlap
      BY <1>3, <1>t, ChangeCommentIs
    <2>. QED  BY <2>1 DEF NothingLost, StaleRoot, StaleComments
  <1>4. CASE UNCHANGED <<root, comment, checkpoint>>
    <2>. SUFFICES ASSUME checkpoint # Never, NEW n \in Numbers
                  PROVE  /\ head'[n].root.ver # root[n].ver => root[n].stamp >= checkpoint - Overlap
                         /\ head'[n].comments.ver # comment[n].ver =>
                               comment[n].stamp >= checkpoint - Overlap
      BY <1>4 DEF NothingLost, StaleRoot, StaleComments
    <2>0. CASE UNCHANGED head
      BY <2>0 DEF NothingLost, StaleRoot, StaleComments
    <2>1. \A s \in Reads(n) : s.at >= checkpoint /\ s.at \in Int
      <3>1. \A s \in Seen(n) \ {Unseen} : s.at >= checkpoint /\ s.at \in Int
        <4>1. cycle.active => checkpoint <= cycle.start
          BY DEF Phases
        <4>2. CASE ~cycle.active
          BY <4>2 DEF Phases, Seen, Held
        <4>3. CASE cycle.active
          <5>1. \A s \in {catalog[n], issueFact[n]} \ {Unseen} : s.at >= cycle.start /\ s \in Summary
            BY DEF Recent, PlainTypes
          <5>2. \A e \in Held(n) : e.summary.at >= cycle.start /\ e.summary \in Summary
            BY NumbersAre DEF Held, MemoryOK, Entry
          <5>. QED  BY <4>1, <4>3, <5>1, <5>2, <1>t, SummaryParts DEF Seen
        <4>. QED  BY <4>2, <4>3
      <3>. QED  BY <3>1, <1>t, ReadParts DEF Reads
    <2>2. /\ MovesTo(head[n].root, head'[n].root, {Fact(s.root, s.at) : s \in Reads(n)})
          /\ MovesTo(head[n].comments, head'[n].comments, {Fact(s.comments, s.at) : s \in Reads(n)})
      BY StepHeads
    <2>3. ASSUME NEW s \in Reads(n)
          PROVE  /\ s.root # root[n].ver => root[n].stamp >= checkpoint - Overlap
                 /\ s.comments # comment[n].ver => comment[n].stamp >= checkpoint - Overlap
      <3>1. CASE s = ReadRoot(n)
        BY <3>1, ReadParts
      <3>2. CASE s \in Seen(n)
        <4>1. Fact(s.root, s.at) \in RootFacts(n) /\ Fact(s.comments, s.at) \in CommentFacts(n)
          BY <3>2 DEF RootFacts, CommentFacts
        <4>2. /\ s.at > root[n].stamp + Skew => s.root = root[n].ver
              /\ s.at > comment[n].stamp + Skew => s.comments = comment[n].ver
          BY <4>1, FactParts DEF RootsTrue, CommentsTrue, Truthful
        <4>. QED  BY <4>2, <2>1, <1>t
      <3>. QED  BY <3>1, <3>2 DEF Reads
    <2>4. head'[n].root.ver # root[n].ver => root[n].stamp >= checkpoint - Overlap
      BY <2>2, <2>3, FactParts DEF MovesTo, NothingLost, StaleRoot
    <2>5. head'[n].comments.ver # comment[n].ver => comment[n].stamp >= checkpoint - Overlap
      BY <2>2, <2>3, FactParts DEF MovesTo, NothingLost, StaleComments
    <2>. QED  BY <2>4, <2>5
  <1>5. \/ CompleteCycle \/ UNCHANGED <<root, comment, checkpoint>>
        \/ \E n \in Numbers : ChangeRoot(n) \/ ChangeComment(n)
    BY DEF Next, Environment, Sync, TaskStep, vars, Tick, Stop, StartCycle,
           Refresh, ReadFeeds, RecordSignals, EnqueueInitial,
           BeginDiscovery, FetchPage, SavePage, GitRefs, PublishIssue, PublishComments,
           PublishPull, PublishCommits, RefuseCommits, EnqueueChild,
           FinishParent, FinishPullGit, FinishClosing, DrainReturns
  <1>. QED  BY <1>1, <1>2, <1>3, <1>4, <1>5

-----------------------------------------------------------------------------
(* The invariant. *)

LEMMA InitInvariant ==
    ASSUME Init PROVE IInv
PROOF
  <1>1. PlainTypes /\ HeadOK /\ TasksOK /\ TypeOK
    BY InitTypes, TypesAre
  <1>2. MemoryOK
    BY DEF Init, MemoryOK
  <1>3. Phases
    BY DEF Init, Phases, NoCycle, Never
  <1>4. Rooted
    BY DEF Init, Rooted
  <1>5. RootsTrue /\ CommentsTrue
    <2>1. ASSUME NEW n \in Numbers
          PROVE  /\ \A f \in RootFacts(n) : f.ver = 0 /\ f.at = -1
                 /\ \A f \in CommentFacts(n) : f.ver = 0 /\ f.at = -1
      <3>1. /\ head[n].root = NoFact /\ head[n].comments = NoFact
            /\ \A s \in Seen(n) : s = Unseen
        BY DEF Init, Seen, Held
      <3>. QED  BY <3>1, UnseenIsSummary, FactParts, NoFactParts DEF RootFacts, CommentFacts
    <2>2. \A n \in Numbers : /\ root[n].ver \in Nat /\ root[n].stamp \in Nat
                             /\ comment[n].ver \in Nat /\ comment[n].stamp \in Nat /\ clock \in Nat
      BY <1>1, ReadParts
    <2>. QED  BY <2>1, <2>2, NumbersAre DEF RootsTrue, CommentsTrue, Truthful, InOrder, Never
  <1>6. Recent
    BY DEF Init, Recent
  <1>7. Parents /\ Catalogued
    BY DEF Init, Parents, Catalogued, IsDone, Row
  <1>8. Signalled
    BY DEF Init, Signalled, NoCycle
  <1>9. Noticed /\ Listed
    BY DEF Init, Noticed, Listed, NoCycle
  <1>10. NothingLost
    BY DEF Init, NothingLost
  <1>. QED  BY <1>1, <1>2, <1>3, <1>4, <1>5, <1>6, <1>7, <1>8, <1>9, <1>10 DEF IInv

LEMMA StepInvariant ==
    ASSUME IInv, [Next]_vars PROVE IInv'
PROOF
  <1>. USE DEF IInv
  <1>0. PlainTypes
    BY TypesAre
  <1>1. HeadOK' /\ TasksOK' /\ PlainTypes'
    BY <1>0, StepHead, StepTable, StepPlainTypes
  <1>2. TypeOK'
    <2>1. PlainTypes' /\ HeadOK' /\ TasksOK' => TypeOK'
      BY TypesAre, PTL
    <2>. QED  BY <1>1, <2>1
  <1>3. MemoryOK' /\ Phases' /\ Rooted'
    BY <1>0, StepMemory, StepPhases, StepRooted
  <1>4. RootsTrue' /\ CommentsTrue'
    BY <1>0, StepTrue
  <1>5. Recent'
    BY <1>0, StepRecent
  <1>6. Parents' /\ Catalogued'
    BY <1>0, StepParents, StepCatalogued
  <1>7. Signalled' /\ Noticed'
    BY <1>0, StepSignalled, StepNoticed
  <1>8. Listed'
    BY <1>0, StepListed
  <1>9. NothingLost'
    BY <1>0, StepNothingLost
  <1>. QED  BY <1>1, <1>2, <1>3, <1>4, <1>5, <1>6, <1>7, <1>8, <1>9

LEMMA SyncCycleInvariant == Spec => []IInv
  BY InitInvariant, StepInvariant, PTL DEF Spec

(* The durable rows, the process and the repository have their types, and  *)
(* a task key is bound to one row.                                         *)
THEOREM SyncCycleTypes == Spec => []TypeOK
  BY SyncCycleInvariant, PTL DEF IInv

(* Between two cycles, what the archive does not show of a root or of its  *)
(* comments is dated so that the next cycle's `since` filter selects it:   *)
(* whatever the pages, the feeds, the crashes, the resumed cycles and the  *)
(* refreshes, as long as the overlap covers the lag of the timestamps.     *)
THEOREM SyncCycleLosesNoUpdate == Spec => []NoLostUpdate
PROOF
  <1>1. IInv => NoLostUpdate
    BY DEF IInv, NothingLost, NoLostUpdate
  <1>. QED  BY <1>1, SyncCycleInvariant, PTL

(* A publication never replaces a fact by an older version of it, unless   *)
(* both were read at the same instant.                                     *)
THEOREM SyncCycleFactsNeverGoBack == Spec => FactsNeverGoBack
PROOF
  <1>. DEFINE Forward ==
          \A n \in Numbers : /\ ~GoesBack(head[n].root, head'[n].root)
                             /\ ~GoesBack(head[n].comments, head'[n].comments)
  <1>1. ASSUME IInv, [Next]_vars  PROVE Forward
    <2>. SUFFICES ASSUME NEW n \in Numbers
                  PROVE  /\ ~GoesBack(head[n].root, head'[n].root)
                         /\ ~GoesBack(head[n].comments, head'[n].comments)
      OBVIOUS
    <2>0. PlainTypes
      BY <1>1, TypesAre DEF IInv
    <2>1. /\ MovesTo(head[n].root, head'[n].root, {Fact(s.root, s.at) : s \in Reads(n)})
          /\ MovesTo(head[n].comments, head'[n].comments, {Fact(s.comments, s.at) : s \in Reads(n)})
      BY <1>1, <2>0, StepHeads DEF IInv
    <2>2. /\ Truthful(RootFacts(n), root[n], clock) /\ InOrder(RootFacts(n))
          /\ Truthful(CommentFacts(n), comment[n], clock) /\ InOrder(CommentFacts(n))
      BY <1>1 DEF IInv, RootsTrue, CommentsTrue
    <2>3. head[n].root \in RootFacts(n) /\ head[n].comments \in CommentFacts(n)
      BY DEF RootFacts, CommentFacts
    <2>4. ASSUME NEW s \in Reads(n)
          PROVE  /\ s.at >= head[n].root.at =>
                       ~GoesBack(head[n].root, Fact(s.root, s.at))
                 /\ s.at >= head[n].comments.at =>
                       ~GoesBack(head[n].comments, Fact(s.comments, s.at))
      <3>1. CASE s = ReadRoot(n)
        BY <3>1, <2>0, <2>2, <2>3, ReadParts, FactParts DEF Truthful, GoesBack
      <3>2. CASE s \in Seen(n)
        <4>1. Fact(s.root, s.at) \in RootFacts(n) /\ Fact(s.comments, s.at) \in CommentFacts(n)
          BY <3>2 DEF RootFacts, CommentFacts
        <4>. QED  BY <4>1, <2>2, <2>3, FactParts DEF Truthful, InOrder, GoesBack
      <3>. QED  BY <3>1, <3>2 DEF Reads
    <2>5. ~GoesBack(head[n].root, head'[n].root)
      BY <2>1, <2>2, <2>3, <2>4, FactParts DEF MovesTo, GoesBack
    <2>6. ~GoesBack(head[n].comments, head'[n].comments)
      BY <2>1, <2>2, <2>3, <2>4, FactParts DEF MovesTo, GoesBack
    <2>. QED  BY <2>5, <2>6
  <1>. QED  BY <1>1, SyncCycleInvariant, PTL DEF Spec, FactsNeverGoBack

(* A cycle that completes has archived every parent it selected, with its  *)
(* comments, its commits, its Git work and its closing issues.             *)
THEOREM SyncCycleIsWhole == Spec => CompletedCycleIsWhole
PROOF
  <1>. DEFINE Whole ==
          cycle.active /\ ~cycle'.active =>
             \A n \in Numbers :
                (catalog[n] # Unseen \/ n \in signals) =>
                   /\ IsDone(Parent(n)) /\ n \in commented
                   /\ n \in Pulls =>
                         /\ pull[n] = "whole" /\ IsDone(PullGit(n))
                         /\ \E t \in tasks :
                               t.done /\ t.key # Parent(n) /\ t.key # PullGit(n)
                                 /\ n \in t.numbers
  <1>1. ASSUME IInv, [Next]_vars  PROVE Whole
    <2>. SUFFICES ASSUME cycle.active, ~cycle'.active, NEW n \in Numbers,
                         catalog[n] # Unseen \/ n \in signals
                  PROVE  /\ IsDone(Parent(n)) /\ n \in commented
                         /\ n \in Pulls =>
                               /\ pull[n] = "whole" /\ IsDone(PullGit(n))
                               /\ \E t \in tasks :
                                     t.done /\ t.key # Parent(n) /\ t.key # PullGit(n)
                                       /\ n \in t.numbers
      OBVIOUS
    <2>0. PlainTypes
      BY <1>1, TypesAre DEF IInv
    <2>1. CompleteCycle
      <3>1. StartCycle => cycle.active \/ cycle'.active
        BY DEF StartCycle, NoCycle
      <3>. QED  BY <1>1, <2>0, <3>1, CycleFrame DEF IInv
    <2>2. cycle.begun /\ AllDone
      BY <2>1 DEF CompleteCycle, AllDone
    <2>3. \A key : Has(key) => IsDone(key)
      BY <2>2 DEF Has, AllDone, IsDone, Row
    <2>4. Has(Parent(n)) /\ (n \in Pulls /\ catalog[n] # Unseen => PageCovers(n))
      BY <1>1, <2>2 DEF IInv, Catalogued, Signalled
    <2>5. n \in commented /\ (n \in Pulls => /\ pull[n] = "whole" /\ Has(PullGit(n))
                                             /\ catalog[n] # Unseen \/ Has(ClosingSingle(n)))
      BY <1>1, <2>3, <2>4 DEF IInv, Parents
    <2>6. ASSUME n \in Pulls
          PROVE  \E t \in tasks : t.done /\ t.key # Parent(n) /\ t.key # PullGit(n)
                                    /\ n \in t.numbers
      <3>1. CASE PageCovers(n)
        <4>1. PICK t \in tasks : (\E k \in Nat : t.key = ClosingPage(k)) /\ n \in t.numbers
          BY <3>1 DEF PageCovers
        <4>2. t.key # Parent(n) /\ t.key # PullGit(n)
          BY <4>1, KeysDiffer
        <4>. QED  BY <4>1, <4>2, <2>2 DEF AllDone
      <3>2. CASE Has(ClosingSingle(n))
        <4>1. PICK t \in tasks : t.key = ClosingSingle(n)
          BY <3>2 DEF Has
        <4>2. Binding(t.key, t.numbers)
          BY <1>1 DEF IInv, TasksOK, IsTask
        <4>3. n \in t.numbers
          BY <4>1, <4>2, KeysDiffer DEF Binding
        <4>4. t.key # Parent(n) /\ t.key # PullGit(n)
          BY <4>1, KeysDiffer
        <4>. QED  BY <4>3, <4>4, <2>2 DEF AllDone
      <3>. QED  BY <3>1, <3>2, <2>4, <2>5, <2>6
    <2>. QED  BY <2>3, <2>4, <2>5, <2>6
  <1>. QED  BY <1>1, SyncCycleInvariant, PTL DEF Spec, CompletedCycleIsWhole

=============================================================================
