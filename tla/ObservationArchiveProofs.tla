----------------------- MODULE ObservationArchiveProofs -----------------------
(***************************************************************************)
(* Proofs about the observation archive as one call of sync() uses it: the *)
(* facts it publishes (FactStore), the lock and the database it opens      *)
(* (ArchiveWriters) and the drain of its tasks (DrainLanes), for every     *)
(* value of their constants.                                               *)
(***************************************************************************)
EXTENDS FactStore, ArchiveWriters, DrainLanes, FiniteSetTheorems, TLAPS

-----------------------------------------------------------------------------
(* The fact store.                                                         *)

(* The inductive form of CurrentIsAsOfNow: every stored window has closed, *)
(* and the head of a fact is 0 exactly when the fact has no row, and       *)
(* otherwise the last of its rows in the observation order.                *)
WindowsClosed == \A i \in Ids : observations[i].until <= now

HeadIsLast(f) ==
    \/ /\ heads[f] = 0
       /\ \A i \in Ids : observations[i].fact # f
    \/ /\ heads[f] \in Ids
       /\ observations[heads[f]].fact = f
       /\ \A i \in Ids \ {heads[f]} :
             observations[i].fact = f => Before(observations, i, heads[f])

FactIInv ==
    /\ FactTypeOK
    /\ WindowsClosed
    /\ \A f \in Facts : HeadIsLast(f)

-----------------------------------------------------------------------------
(* What appending a batch does to the sequence of rows.                    *)
LEMMA AppendedRows ==
    ASSUME observations \in Seq(Row), NEW batch \in Seq(FactDraft),
           NEW key \in PublicationKeys, NEW owner \in Owners
    PROVE  LET log == observations \o RowsOf(batch, key, owner) IN
           /\ log \in Seq(Row)
           /\ Len(log) = Len(observations) + Len(batch)
           /\ \A i \in Ids : log[i] = observations[i]
           /\ \A i \in 1 .. Len(batch) :
                 log[Len(observations) + i] = RowOf(batch[i], key, owner)
<1> DEFINE new == RowsOf(batch, key, owner)
           log == observations \o new
<1>1. \A i \in 1 .. Len(batch) : RowOf(batch[i], key, owner) \in Row
  <2>1. \A i \in 1 .. Len(batch) : batch[i] \in FactDraft
    OBVIOUS
  <2>2. \A draft \in FactDraft : RowOf(draft, key, owner) \in Row
    BY DEF RowOf, Row, FactDraft
  <2> QED
    BY <2>1, <2>2
<1>2. new \in Seq(Row) /\ Len(new) = Len(batch)
  BY <1>1 DEF RowsOf
<1>3. \A i \in 1 .. Len(batch) : new[i] = RowOf(batch[i], key, owner)
  BY DEF RowsOf
<1>4. log \in Seq(Row) /\ Len(log) = Len(observations) + Len(batch)
  BY <1>2
<1>5. \A i \in Ids : log[i] = observations[i]
  BY <1>2 DEF Ids
<1>6. \A i \in 1 .. Len(batch) : log[Len(observations) + i] = new[i]
  BY <1>2
<1> QED
  BY <1>3, <1>4, <1>5, <1>6

(* The batches the next-state relation draws from are sequences of drafts. *)
LEMMA BatchesAreSequences ==
    ASSUME NEW batch \in Batches
    PROVE  batch \in Seq(FactDraft)
<1>1. PICK n \in 1 .. MaxBatch : batch \in [1 .. n -> FactDraft]
  BY DEF Batches
<1> QED
  BY <1>1, BoundsAssumption

(* A row's place in the order depends on nothing but the two rows.         *)
LEMMA BeforeIsStable ==
    ASSUME NEW log, NEW more, NEW i, NEW j, more[i] = log[i], more[j] = log[j]
    PROVE  Before(more, i, j) <=> Before(log, i, j)
  BY DEF Before

(* The order is transitive and total on distinct rows.                     *)
LEMMA BeforeIsStrictOrder ==
    ASSUME NEW log \in Seq(Row)
    PROVE  /\ \A i, j, k \in 1 .. Len(log) :
                 Before(log, i, j) /\ Before(log, j, k) => Before(log, i, k)
           /\ \A i, j \in 1 .. Len(log) :
                 i # j => (Before(log, i, j) <=> ~Before(log, j, i))
           /\ \A i \in 1 .. Len(log) : ~Before(log, i, i)
<1>1. \A i \in 1 .. Len(log) : log[i].from \in Nat /\ log[i].until \in Nat
  <2>1. \A i \in 1 .. Len(log) : log[i] \in Row
    OBVIOUS
  <2> QED
    BY <2>1, BoundsAssumption DEF Row, Times
<1> QED
  BY <1>1 DEF Before

-----------------------------------------------------------------------------
LEMMA FactInitial == FactInit => FactIInv
<1> SUFFICES ASSUME FactInit
             PROVE  FactIInv
  OBVIOUS
<1>1. FactTypeOK
  BY BoundsAssumption DEF FactInit, FactTypeOK, Times
<1>2. WindowsClosed /\ \A f \in Facts : HeadIsLast(f)
  BY DEF FactInit, WindowsClosed, HeadIsLast, Ids
<1> QED
  BY <1>1, <1>2 DEF FactIInv

(* The step that matters: one transaction appends a batch and moves heads. *)
LEMMA AppendPreservesInvariant ==
    ASSUME FactIInv, NEW key \in PublicationKeys, NEW owner \in Owners,
           NEW batch \in Seq(FactDraft),
           ValidBatch(batch), AppendBatch(key, owner, batch)
    PROVE  FactIInv'
<1> DEFINE n == Len(observations)
           log == observations \o RowsOf(batch, key, owner)
<1>t. FactTypeOK /\ WindowsClosed /\ n \in Nat /\ Len(batch) \in Nat
  BY DEF FactIInv, FactTypeOK
<1>r. /\ observations' = log
      /\ log \in Seq(Row)
      /\ Len(log) = n + Len(batch)
      /\ \A i \in Ids : log[i] = observations[i]
      /\ \A i \in 1 .. Len(batch) : log[n + i] = RowOf(batch[i], key, owner)
  BY <1>t, AppendedRows DEF FactTypeOK, AppendBatch
<1>i. Ids' = 1 .. n + Len(batch) /\ Ids = 1 .. n /\ Ids \subseteq Ids'
  BY <1>t, <1>r DEF Ids
<1>c. now' = now
  BY DEF AppendBatch
<1> HIDE DEF log
<1>1. \A i \in Ids' \ Ids :
         \E k \in 1 .. Len(batch) :
            /\ i = n + k
            /\ log[i].fact = batch[k].fact
            /\ log[i].from = batch[k].from
            /\ log[i].until = batch[k].until
  <2> SUFFICES ASSUME NEW i \in Ids' \ Ids
               PROVE  \E k \in 1 .. Len(batch) :
                         /\ i = n + k
                         /\ log[i].fact = batch[k].fact
                         /\ log[i].from = batch[k].from
                         /\ log[i].until = batch[k].until
    OBVIOUS
  <2>1. i - n \in 1 .. Len(batch) /\ i = n + (i - n)
    BY <1>i, <1>t
  <2>2. log[i] = RowOf(batch[i - n], key, owner)
    BY <2>1, <1>r
  <2> QED
    BY <2>1, <2>2 DEF RowOf
<1>2. WindowsClosed'
  <2> SUFFICES ASSUME NEW i \in Ids'
               PROVE  log[i].until <= now
    BY <1>r, <1>c DEF WindowsClosed
  <2>1. CASE i \in Ids
    BY <2>1, <1>t, <1>r DEF WindowsClosed
  <2>2. CASE i \notin Ids
    BY <2>2, <1>1 DEF ValidBatch
  <2> QED
    BY <2>1, <2>2
<1>3. \A f \in Facts : HeadIsLast(f)' /\ heads'[f] \in Nat
  <2> SUFFICES ASSUME NEW f \in Facts
               PROVE  HeadIsLast(f)' /\ heads'[f] \in Nat
    OBVIOUS
  <2>h. HeadIsLast(f) /\ heads[f] \in Nat /\ 0 \notin Ids
    BY <1>t, <1>i DEF FactIInv, FactTypeOK
  <2>o. /\ \A i, j, k \in Ids' :
               Before(log, i, j) /\ Before(log, j, k) => Before(log, i, k)
        /\ \A i, j \in Ids' : i # j => (Before(log, i, j) <=> ~Before(log, j, i))
        /\ \A i \in Ids' : ~Before(log, i, i)
    BY <1>r, <1>i, BeforeIsStrictOrder
  <2>s. \A i, j \in Ids : Before(log, i, j) <=> Before(observations, i, j)
    BY <1>r, BeforeIsStable
  <2>1. CASE \E k \in 1 .. Len(batch) : batch[k].fact = f
    <3> DEFINE k == CHOOSE k \in 1 .. Len(batch) : batch[k].fact = f
               new == n + k
    <3>1. k \in 1 .. Len(batch) /\ batch[k].fact = f
      BY <2>1
    <3>2. heads'[f] = AdvanceHead(log, heads[f], new)
      BY <2>1, <1>r DEF AppendBatch
    <3> HIDE DEF k
    <3>3. new \in Ids' /\ new \notin Ids /\ log[new].fact = f /\ new \in Nat
      <4>1. new \in Ids' /\ new \notin Ids /\ new \in Nat
        BY <3>1, <1>i, <1>t
      <4>2. log[new] = RowOf(batch[k], key, owner)
        BY <3>1, <1>r
      <4> QED
        BY <4>1, <4>2, <3>1 DEF RowOf
    <3>4. \A i \in Ids' \ Ids : log[i].fact = f => i = new
      <4> SUFFICES ASSUME NEW i \in Ids' \ Ids, log[i].fact = f
                   PROVE  i = new
        OBVIOUS
      <4>1. PICK m \in 1 .. Len(batch) : i = n + m /\ batch[m].fact = f
        BY <1>1
      <4>2. m = k
        <5>1. m \in DOMAIN batch /\ k \in DOMAIN batch
          BY <3>1
        <5> QED
          BY <5>1, <4>1, <3>1 DEF ValidBatch
      <4> QED
        BY <4>1, <4>2
    <3> HIDE DEF new
    <3>5. CASE heads[f] = 0
      <4>1. heads'[f] = new
        BY <3>2, <3>5 DEF AdvanceHead
      <4>2. \A i \in Ids : log[i].fact # f
        BY <2>h, <3>5, <1>r DEF HeadIsLast
      <4> QED
        BY <4>1, <4>2, <3>3, <3>4, <1>r DEF HeadIsLast
    <3>6. CASE heads[f] # 0
      <4>1. /\ heads[f] \in Ids
            /\ log[heads[f]].fact = f
            /\ \A i \in Ids \ {heads[f]} :
                  log[i].fact = f => Before(log, i, heads[f])
        BY <2>h, <3>6, <1>r, <2>s DEF HeadIsLast
      <4>2. CASE Before(log, heads[f], new)
        <5>1. heads'[f] = new
          BY <3>2, <4>2 DEF AdvanceHead
        <5>2. \A i \in Ids : log[i].fact = f => Before(log, i, new)
          BY <4>1, <4>2, <2>o, <3>3, <1>i
        <5> QED
          BY <5>1, <5>2, <3>3, <3>4, <1>r DEF HeadIsLast
      <4>3. CASE ~Before(log, heads[f], new)
        <5>1. heads'[f] = heads[f]
          BY <3>2, <3>6, <4>3 DEF AdvanceHead
        <5>2. Before(log, new, heads[f])
          BY <4>1, <4>3, <2>o, <3>3, <1>i
        <5> QED
          BY <5>1, <5>2, <4>1, <3>3, <3>4, <1>r, <1>i, <2>h DEF HeadIsLast
      <4> QED
        BY <4>2, <4>3
    <3> QED
      BY <3>5, <3>6
  <2>2. CASE ~\E k \in 1 .. Len(batch) : batch[k].fact = f
    <3>1. heads'[f] = heads[f]
      BY <2>2 DEF AppendBatch
    <3>2. \A i \in Ids' \ Ids : log[i].fact # f
      BY <2>2, <1>1
    <3> QED
      BY <3>1, <3>2, <2>h, <2>s, <1>r, <1>i DEF HeadIsLast
  <2> QED
    BY <2>1, <2>2
<1>4. FactTypeOK'
  <2>1. heads' \in [Facts -> Nat]
    <3>1. heads' = [f \in Facts |-> heads'[f]]
      BY DEF AppendBatch
    <3> QED
      BY <3>1, <1>3
  <2> QED
    BY <2>1, <1>t, <1>r, <1>c DEF FactTypeOK
<1> QED
  BY <1>2, <1>3, <1>4 DEF FactIInv

LEMMA FactStep == FactIInv /\ [FactNext]_factVars => FactIInv'
<1> SUFFICES ASSUME FactIInv, [FactNext]_factVars
             PROVE  FactIInv'
  OBVIOUS
<1>1. CASE FactTick
  <2>1. FactTypeOK' /\ now <= now' /\ now \in Nat /\ now' \in Nat
    BY <1>1, BoundsAssumption DEF FactIInv, FactTypeOK, FactTick, Times
  <2>2. Ids' = Ids /\ observations' = observations /\ heads' = heads
    BY <1>1 DEF FactTick, Ids
  <2>3. WindowsClosed'
    <3>1. \A i \in Ids : observations[i] \in Row
      BY DEF FactIInv, FactTypeOK, Ids
    <3>2. \A i \in Ids : observations[i].until \in Nat
      BY <3>1, BoundsAssumption DEF Row, Times
    <3> QED
      BY <2>1, <2>2, <3>2 DEF FactIInv, WindowsClosed
  <2>4. \A f \in Facts : HeadIsLast(f)'
    BY <2>2 DEF FactIInv, HeadIsLast
  <2> QED
    BY <2>1, <2>3, <2>4 DEF FactIInv
<1>2. ASSUME NEW key \in PublicationKeys, NEW owner \in Owners,
             NEW batch \in Batches, Publish(key, owner, batch)
      PROVE  FactIInv'
  <2>1. CASE AppendBatch(key, owner, batch)
    BY <1>2, <2>1, BatchesAreSequences, AppendPreservesInvariant DEF Publish
  <2>2. CASE Repeat(key)
    BY <2>2 DEF Repeat, factVars, FactIInv, FactTypeOK, WindowsClosed, HeadIsLast, Ids
  <2> QED
    BY <1>2, <2>1, <2>2 DEF Publish
<1>3. CASE UNCHANGED factVars
  BY <1>3 DEF factVars, FactIInv, FactTypeOK, WindowsClosed, HeadIsLast, Ids
<1> QED
  BY <1>1, <1>2, <1>3 DEF FactNext

(* Every reachable state satisfies the inductive invariant.                *)
THEOREM FactInvariance == FactSpec => []FactIInv
  BY FactInitial, FactStep, PTL DEF FactSpec

(* The columns of the tables keep their types, whatever is published.      *)
THEOREM FactTypes == FactSpec => []FactTypeOK
<1>1. FactIInv => FactTypeOK
  BY DEF FactIInv
<1> QED
  BY <1>1, FactInvariance, PTL

(* A late publication never takes a head back: the current row of a fact   *)
(* changes only to a row later in the observation order.                   *)
THEOREM HeadsNeverRegress == FactSpec => CurrentNeverRegresses
<1> DEFINE Forward ==
             \A f \in Facts : heads[f] # 0 =>
                \/ heads'[f] = heads[f]
                \/ Before(observations', heads[f], heads'[f])
<1>1. FactIInv /\ [FactNext]_factVars => [Forward]_factVars
  <2> SUFFICES ASSUME FactNext, NEW f \in Facts, heads[f] # 0
               PROVE  \/ heads'[f] = heads[f]
                      \/ Before(observations', heads[f], heads'[f])
    BY DEF factVars
  <2>1. CASE FactTick \/ \E key \in PublicationKeys : Repeat(key)
    BY <2>1 DEF FactTick, Repeat, factVars
  <2>2. ASSUME NEW key \in PublicationKeys, NEW owner \in Owners,
               NEW batch \in Batches, AppendBatch(key, owner, batch)
        PROVE  \/ heads'[f] = heads[f]
               \/ Before(observations', heads[f], heads'[f])
    BY <2>2 DEF AppendBatch, AdvanceHead
  <2> QED
    BY <2>1, <2>2 DEF FactNext, Publish
<1> QED
  BY <1>1, FactInvariance, PTL DEF FactSpec, CurrentNeverRegresses

(* A publication key names one batch for ever, however often it is retried. *)
THEOREM PublicationsAreFinal == FactSpec => PublicationIsFinal
<1> DEFINE Final ==
             \A key \in PublicationKeys :
                Published(key) # {} =>
                   /\ Published(key)' = Published(key)
                   /\ \A i \in Published(key) : observations'[i] = observations[i]
<1>1. FactIInv /\ [FactNext]_factVars => [Final]_factVars
  <2> SUFFICES ASSUME FactIInv, FactNext, NEW key \in PublicationKeys, Published(key) # {}
               PROVE  /\ Published(key)' = Published(key)
                      /\ \A i \in Published(key) : observations'[i] = observations[i]
    BY DEF factVars
  <2>1. CASE observations' = observations
    BY <2>1 DEF Published, Ids
  <2>2. ASSUME NEW k \in PublicationKeys, NEW owner \in Owners,
               NEW batch \in Batches, AppendBatch(k, owner, batch)
        PROVE  /\ Published(key)' = Published(key)
               /\ \A i \in Published(key) : observations'[i] = observations[i]
    <3>b. batch \in Seq(FactDraft) /\ observations \in Seq(Row)
      BY BatchesAreSequences DEF FactIInv, FactTypeOK
    <3>r. /\ Len(observations') = Len(observations) + Len(batch)
          /\ \A i \in Ids : observations'[i] = observations[i]
          /\ \A i \in 1 .. Len(batch) :
                observations'[Len(observations) + i] = RowOf(batch[i], k, owner)
      BY <3>b, <2>2, AppendedRows DEF AppendBatch
    <3>1. k # key
      BY <2>2 DEF AppendBatch
    <3>2. \A i \in Ids' \ Ids : observations'[i].key # key
      <4> SUFFICES ASSUME NEW i \in Ids' \ Ids
                   PROVE  observations'[i].key # key
        OBVIOUS
      <4>1. /\ i - Len(observations) \in 1 .. Len(batch)
            /\ i = Len(observations) + (i - Len(observations))
        BY <3>b, <3>r DEF Ids
      <4>2. observations'[i] = RowOf(batch[i - Len(observations)], k, owner)
        BY <4>1, <3>r
      <4> QED
        BY <4>2, <3>1 DEF RowOf
    <3>3. Ids \subseteq Ids'
      BY <3>b, <3>r DEF Ids
    <3>4. Published(key)' = {i \in Ids' : observations'[i].key = key}
      BY DEF Published
    <3>5. Published(key) = {i \in Ids : observations[i].key = key}
      BY DEF Published
    <3> QED
      BY <3>2, <3>3, <3>4, <3>5, <3>r
  <2> QED
    BY <2>1, <2>2 DEF FactNext, Publish, FactTick, Repeat, factVars
<1> QED
  BY <1>1, FactInvariance, PTL DEF FactSpec, PublicationIsFinal

(* The head table and the ranking query agree: the heads iter_current_facts *)
(* joins name the rows iter_facts_as_of ranks first at the present time.    *)
THEOREM HeadsAreAsOfNow == FactSpec => []CurrentIsAsOfNow
<1>1. FactIInv => CurrentIsAsOfNow
  <2> SUFFICES ASSUME FactIInv, NEW f \in Facts
               PROVE  heads[f] = AsOf(now, f)
    BY DEF CurrentIsAsOfNow
  <2>1. HeadIsLast(f) /\ 0 \notin Ids
    BY DEF FactIInv, FactTypeOK, Ids
  <2>2. ClosedBy(now, f) = {i \in Ids : observations[i].fact = f}
    BY DEF FactIInv, WindowsClosed, ClosedBy
  <2>3. CASE heads[f] = 0
    BY <2>1, <2>2, <2>3 DEF HeadIsLast, AsOf
  <2>4. CASE heads[f] # 0
    <3> DEFINE Last(i) == \A j \in ClosedBy(now, f) \ {i} : Before(observations, j, i)
    <3>1. heads[f] \in ClosedBy(now, f) /\ Last(heads[f])
      BY <2>1, <2>2, <2>4 DEF HeadIsLast
    <3>2. \A i \in ClosedBy(now, f) : Last(i) => i = heads[f]
      <4> SUFFICES ASSUME NEW i \in ClosedBy(now, f), Last(i), i # heads[f]
                   PROVE  FALSE
        OBVIOUS
      <4>1. Before(observations, i, heads[f]) /\ Before(observations, heads[f], i)
        BY <3>1
      <4>2. i \in 1 .. Len(observations) /\ heads[f] \in 1 .. Len(observations)
        BY <3>1, <2>2 DEF Ids
      <4> QED
        BY <4>1, <4>2, BeforeIsStrictOrder DEF FactIInv, FactTypeOK
    <3> QED
      BY <3>1, <3>2 DEF AsOf
  <2> QED
    BY <2>3, <2>4
<1> QED
  BY <1>1, FactInvariance, PTL

-----------------------------------------------------------------------------
(* The lock and the database.                                              *)

(* What a call past its wait holds, and what a creation under way means.   *)
HoldsLock ==
    \A p \in Processes : pc[p] \notin {"idle", "waiting"} => holder[name[p]] = p

OneCreator ==
    \A p, q \in Processes :
       pc[p] \in {"script", "stamp"} /\ pc[q] \in {"script", "stamp"} /\ Db(p) = Db(q)
          => p = q

CreationUnderWay ==
    \A p \in Processes :
       /\ pc[p] = "script" => tables[Db(p)] > 0 /\ identity[Db(p)] = Unbound
       /\ pc[p] = "stamp" => tables[Db(p)] = Tables /\ identity[Db(p)] = Unbound

BoundaryOrdered == \A d \in Databases : active[d] # Never => checkpoint[d] <= active[d]

WriterIInv ==
    TypeOK /\ HoldsLock /\ OneCreator /\ CreationUnderWay /\ WritersAgree /\ BoundaryOrdered

LEMMA WriterInitial == Init => WriterIInv
  <1> SUFFICES ASSUME Init PROVE WriterIInv
    OBVIOUS
  <1> USE WritersAssumption, NobodyAssumption
  <1>1. TypeOK
    BY DEF Init, TypeOK
  <1> QED
    BY <1>1 DEF Init, WriterIInv, HoldsLock, OneCreator, CreationUnderWay, WritersAgree, BoundaryOrdered, Never

(* The step of process p leaves the call of every other process alone.     *)
LEMMA WriterStep == WriterIInv /\ [Next]_vars => WriterIInv'
  <1> SUFFICES ASSUME WriterIInv, [Next]_vars PROVE WriterIInv'
    OBVIOUS
  <1> USE WritersAssumption, NobodyAssumption
  <1> USE DEF WriterIInv, Moves, Db, files, call
  <1>1. TypeOK
    OBVIOUS
  <1>2. CASE Tick
    BY <1>1, <1>2 DEF Tick, TypeOK, HoldsLock, OneCreator, CreationUnderWay, WritersAgree, BoundaryOrdered
  <1>3. ASSUME NEW p \in Processes, NEW n \in Names, NEW s \in Settings, Call(p, n, s)
        PROVE WriterIInv'
    <2>1. TypeOK'
      BY <1>1, <1>3 DEF Call, TypeOK
    <2> QED
      BY <1>1, <1>3, <2>1
      DEF Call, TypeOK, HoldsLock, OneCreator, CreationUnderWay, WritersAgree, BoundaryOrdered
  <1>4. ASSUME NEW p \in Processes, Acquire(p) PROVE WriterIInv'
    <2>1. TypeOK'
      BY <1>1, <1>4 DEF Acquire, TypeOK
    <2>2. HoldsLock'
      BY <1>1, <1>4 DEF Acquire, LockFree, TypeOK, HoldsLock
    <2> QED
      BY <1>1, <1>4, <2>1, <2>2
      DEF Acquire, TypeOK, OneCreator, CreationUnderWay, WritersAgree, BoundaryOrdered
  <1>5. ASSUME NEW p \in Processes, Open(p) PROVE WriterIInv'
    <2>1. TypeOK'
      BY <1>1, <1>5 DEF Open, TypeOK
    <2>2. HoldsLock'
      BY <1>1, <1>5 DEF Open, TypeOK, HoldsLock
    <2>3. WritersAgree'
      BY <1>1, <1>5 DEF Open, Matches, TypeOK, WritersAgree
    <2> QED
      BY <1>1, <1>5, <2>1, <2>2, <2>3 DEF Open, TypeOK, OneCreator, CreationUnderWay, BoundaryOrdered
  <1>6. ASSUME NEW p \in Processes, NEW k \in 1 .. Tables, CreateTable(p, k) PROVE WriterIInv'
    <2>1. TypeOK'
      BY <1>1, <1>6 DEF CreateTable, TypeOK
    <2>2. HoldsLock'
      BY <1>1, <1>6 DEF CreateTable, TypeOK, HoldsLock
    <2>3. identity[Db(p)] = Unbound \/ UNCHANGED tables
      BY <1>1, <1>6 DEF CreateTable, TypeOK, CreationUnderWay, WritersAgree
    <2>4. ASSUME NEW q \in Processes, q # p, Db(q) = Db(p), pc[q] \in {"script", "stamp"}
          PROVE UNCHANGED tables /\ pc'[p] = "leaving"
      <3>1. tables[Db(p)] > 0 /\ pc[p] # "script"
        BY <1>1, <2>4 DEF TypeOK, CreationUnderWay, OneCreator
      <3> QED
        BY <1>1, <1>6, <3>1 DEF CreateTable, TypeOK
    <2>5. OneCreator'
      BY <1>1, <1>6, <2>4 DEF CreateTable, TypeOK, OneCreator
    <2>6. CreationUnderWay'
      <3> SUFFICES ASSUME NEW q \in Processes
                   PROVE /\ pc'[q] = "script"
                              => tables'[Db(q)] > 0 /\ identity[Db(q)] = Unbound
                         /\ pc'[q] = "stamp"
                              => tables'[Db(q)] = Tables /\ identity[Db(q)] = Unbound
        BY <1>6 DEF CreateTable, CreationUnderWay
      <3>1. CASE q = p
        BY <1>1, <1>6, <2>3, <3>1 DEF CreateTable, TypeOK, CreationUnderWay
      <3>2. CASE q # p /\ Db(q) # Db(p)
        BY <1>1, <1>6, <3>2 DEF CreateTable, TypeOK, CreationUnderWay
      <3>3. CASE q # p /\ Db(q) = Db(p)
        BY <1>1, <1>6, <2>4, <3>3 DEF CreateTable, TypeOK, CreationUnderWay
      <3> QED
        BY <3>1, <3>2, <3>3
    <2>7. WritersAgree'
      BY <1>1, <1>6, <2>3 DEF CreateTable, TypeOK, WritersAgree
    <2> QED
      BY <1>1, <1>6, <2>1, <2>2, <2>5, <2>6, <2>7 DEF CreateTable, TypeOK, BoundaryOrdered
  <1>7. ASSUME NEW p \in Processes, Stamp(p) PROVE WriterIInv'
    <2>1. TypeOK'
      BY <1>1, <1>7 DEF Stamp, TypeOK
    <2>2. HoldsLock'
      BY <1>1, <1>7 DEF Stamp, TypeOK, HoldsLock
    <2>3. OneCreator'
      BY <1>1, <1>7 DEF Stamp, TypeOK, OneCreator
    <2>4. CreationUnderWay'
      BY <1>1, <1>7 DEF Stamp, TypeOK, OneCreator, CreationUnderWay
    <2>5. WritersAgree'
      BY <1>1, <1>7 DEF Stamp, TypeOK, CreationUnderWay, WritersAgree
    <2> QED
      BY <1>1, <1>7, <2>1, <2>2, <2>3, <2>4, <2>5 DEF Stamp, TypeOK, BoundaryOrdered
  <1>8. ASSUME NEW p \in Processes, StartCycle(p) PROVE WriterIInv'
    <2>1. TypeOK'
      BY <1>1, <1>8 DEF StartCycle, TypeOK
    <2>2. BoundaryOrdered'
      BY <1>1, <1>8 DEF StartCycle, TypeOK, BoundaryOrdered
    <2> QED
      BY <1>1, <1>8, <2>1, <2>2
      DEF StartCycle, TypeOK, HoldsLock, OneCreator, CreationUnderWay, WritersAgree
  <1>9. ASSUME NEW p \in Processes, CompleteCycle(p) PROVE WriterIInv'
    <2>1. TypeOK'
      BY <1>1, <1>9 DEF CompleteCycle, Boundary, TypeOK
    <2>2. BoundaryOrdered'
      BY <1>1, <1>9 DEF CompleteCycle, TypeOK, BoundaryOrdered
    <2> QED
      BY <1>1, <1>9, <2>1, <2>2
      DEF CompleteCycle, TypeOK, HoldsLock, OneCreator, CreationUnderWay, WritersAgree
  <1>10. ASSUME NEW p \in Processes, Fail(p) PROVE WriterIInv'
    <2>1. TypeOK'
      BY <1>1, <1>10 DEF Fail, TypeOK
    <2> QED
      BY <1>1, <1>10, <2>1
      DEF Fail, TypeOK, HoldsLock, OneCreator, CreationUnderWay, WritersAgree, BoundaryOrdered
  <1>11. ASSUME NEW p \in Processes, Release(p) PROVE WriterIInv'
    <2>1. TypeOK'
      BY <1>1, <1>11 DEF Release, TypeOK
    <2>2. HoldsLock'
      BY <1>1, <1>11 DEF Release, TypeOK, HoldsLock
    <2> QED
      BY <1>1, <1>11, <2>1, <2>2
      DEF Release, TypeOK, OneCreator, CreationUnderWay, WritersAgree, BoundaryOrdered
  <1>12. ASSUME NEW p \in Processes, Crash(p) PROVE WriterIInv'
    <2>1. TypeOK'
      BY <1>1, <1>12 DEF Crash, TypeOK
    <2>2. HoldsLock'
      BY <1>1, <1>12 DEF Crash, TypeOK, HoldsLock
    <2> QED
      BY <1>1, <1>12, <2>1, <2>2
      DEF Crash, TypeOK, OneCreator, CreationUnderWay, WritersAgree, BoundaryOrdered
  <1>13. CASE UNCHANGED vars
    BY <1>1, <1>13
    DEF vars, TypeOK, HoldsLock, OneCreator, CreationUnderWay, WritersAgree, BoundaryOrdered
  <1> QED
    BY <1>2, <1>3, <1>4, <1>5, <1>6, <1>7, <1>8, <1>9, <1>10, <1>11, <1>12, <1>13
    DEF Next, Step

(* Who holds which lock, who is inside the script that creates a database, *)
(* and how its boundary is ordered: what all the theorems below rest on.   *)
THEOREM WriterInvariance == Spec => []WriterIInv
  BY WriterInitial, WriterStep, PTL DEF Spec

(* Every reachable state is well-typed (the states of an archive and of    *)
(* the calls on it).                                                       *)
THEOREM WriterTypes == Spec => []TypeOK
  BY WriterInvariance, PTL DEF WriterIInv

(* archive_lock admits one connected process per path name.                *)
THEOREM OneWriterByName == Spec => []SingleWriter
  <1>1. WriterIInv => SingleWriter
    BY DEF WriterIInv, TypeOK, HoldsLock, SingleWriter, Connected
  <1> QED
    BY <1>1, WriterInvariance, PTL

(* archive_lock keeps each database single-writer, provided no two path    *)
(* names in use lead to one database.                                      *)
THEOREM OneWriter ==
  ASSUME \A m, n \in Names : FileOf[m] = FileOf[n] => m = n
  PROVE  Spec => []CanonicalWriter
  <1>1. WriterIInv => CanonicalWriter
    BY DEF WriterIInv, TypeOK, HoldsLock, CanonicalWriter, Connected, Db
  <1> QED
    BY <1>1, WriterInvariance, PTL

(* _initialize never lets a call write a database of another repository or *)
(* Git store, whether or not the path names share a lock.                  *)
THEOREM WritersAlwaysAgree == Spec => []WritersAgree
  BY WriterInvariance, PTL DEF WriterIInv

(* start_cycle and complete_cycle keep the boundary of an active cycle     *)
(* until the checkpoint takes it.                                          *)
THEOREM BoundaryIsKept == Spec => BoundaryKept
  <1> DEFINE Kept ==
        \A d \in Databases :
           active[d] # Never =>
              \/ active'[d] = active[d] /\ checkpoint'[d] = checkpoint[d]
              \/ active'[d] = Never /\ checkpoint'[d] = active[d]
  <1>1. WriterIInv /\ [Next]_vars => Kept
    <2> SUFFICES ASSUME WriterIInv, [Next]_vars PROVE Kept
      OBVIOUS
    <2> USE DEF files, call, Moves, Db
    <2>1. CASE \E p \in Processes : CompleteCycle(p)
      BY <2>1, WritersAssumption DEF CompleteCycle, Boundary, WriterIInv, TypeOK, BoundaryOrdered
    <2>2. CASE \E p \in Processes : StartCycle(p)
      BY <2>2, WritersAssumption DEF StartCycle, WriterIInv, TypeOK
    <2>3. CASE UNCHANGED <<active, checkpoint>>
      BY <2>3
    <2> QED
      BY <2>1, <2>2, <2>3
      DEF Next, Step, Tick, Call, Acquire, Open, CreateTable, Stamp, Fail, Release, Crash, vars
  <1> QED
    BY <1>1, WriterInvariance, PTL DEF Spec, BoundaryKept

-----------------------------------------------------------------------------
(* The drain.                                                              *)

(* Which batch and which event belong to which control state.              *)
ControlInv ==
    /\ apiPc \in {"loop", "take"} => apiBatch = {}
    /\ gitPc \in {"loop", "take", "wait", "done"} => gitBatch = {}
    /\ api_done <=> apiPc = "done"
    /\ locked \/ outcome = "raised"

(* A lane that may claim has seen no failure of its own, or is stopped.    *)
AttemptInv ==
    /\ failed \cap (apiBatch \cup gitBatch) = {}
    /\ apiPc = "loop" => stop \/ failed \cap ApiTasks = {}
    /\ apiPc = "take" => failed \cap ApiTasks = {}
    /\ gitPc = "loop" => stop \/ failed \cap GitTasks = {}
    /\ gitPc \in {"take", "taken", "wait"} => failed \cap GitTasks = {}

Clean == outcome # "raised" /\ failed = {}

(* A lane that left without a failure left no task of its kinds, and what  *)
(* the Git lane read under the lock is still so when it decides.           *)
DrainInv ==
    /\ stop => ~Clean
    /\ apiPc = "done" /\ Clean => apiBatch = {} /\ pending \cap ApiTasks = {}
    /\ gitPc = "taken" /\ gitBatch = {} => pending \cap GitTasks = {}
    /\ gitPc = "done" /\ Clean => apiPc = "done" /\ pending \cap GitTasks = {}
    /\ outcome = "returned" => Clean /\ apiPc = "done" /\ gitPc = "done"

DrainIInv == DrainTypeOK /\ ControlInv /\ AttemptInv /\ DrainInv /\ RefsFirst

-----------------------------------------------------------------------------
(* A claim is a set of candidates, and is empty only when there are none.  *)
LEMMA ClaimsTakeSome ==
    ASSUME NEW candidates, IsFiniteSet(candidates), NEW limit \in Nat \ {0},
           NEW batch \in Claims(candidates, limit)
    PROVE  batch \subseteq candidates /\ (batch = {} => candidates = {})
<1>1. batch \subseteq candidates
  BY DEF Claims
<1>2. ASSUME batch = {} PROVE candidates = {}
  <2>1. Cardinality(batch) = 0
    BY <1>2, FS_EmptySet
  <2>2. Cardinality(candidates) \in Nat
    BY FS_CardinalityType
  <2>3. Cardinality(candidates) = 0
    BY <2>1, <2>2 DEF Claims, Least
  <2> QED
    BY <2>3, FS_EmptySet
<1> QED
  BY <1>1, <1>2

(* Every selection of tasks is finite.                                     *)
LEMMA FiniteSelections == \A s \in SUBSET Tasks : IsFiniteSet(s)
  BY TasksAssumption, FS_Subset

LEMMA DrainInitial == DrainInit => DrainIInv
  BY DEF DrainInit, ReachableTable, DrainIInv, DrainTypeOK, ControlInv, AttemptInv, DrainInv, RefsFirst, Clean

LEMMA DrainStep == DrainIInv /\ [DrainNext]_drainVars => DrainIInv'
<1> SUFFICES ASSUME DrainIInv, [DrainNext]_drainVars
             PROVE  DrainIInv'
  OBVIOUS
<1> USE DEF DrainIInv, DrainTypeOK, ControlInv, AttemptInv, DrainInv, RefsFirst, Clean,
            store, api, git, events
<1>k. /\ ApiTasks \subseteq Tasks /\ GitTasks \subseteq Tasks
      /\ ApiTasks \cap GitTasks = {}
      /\ RefsTasks \subseteq GitTasks /\ PullTasks \subseteq GitTasks
      /\ CommitTasks \subseteq GitTasks
      /\ RefsTasks \cap (PullTasks \cup CommitTasks) = {}
      /\ Tasks = ApiTasks \cup RefsTasks \cup PullTasks \cup CommitTasks
  BY TasksAssumption DEF Tasks, GitTasks
<1>1. CASE ApiBegin
  <2>1. CASE stop
    <3>1. api_done' = TRUE /\ git_ready' = TRUE /\ apiPc' = "done"
      BY <1>1, <2>1 DEF ApiBegin, ApiLeave
    <3> QED
      BY <1>1, <2>1, <3>1 DEF ApiBegin
  <2>2. CASE ~stop
    BY <1>1, <2>2 DEF ApiBegin
  <2> QED
    BY <2>1, <2>2
<1>2. CASE ApiTake
  <2>1. apiBatch' \subseteq pending \cap ApiTasks
        /\ (apiBatch' = {} => pending \cap ApiTasks = {})
    <3>1. IsFiniteSet(pending \cap ApiTasks)
      BY <1>k, FiniteSelections
    <3> QED
      BY <1>2, <3>1, ClaimsTakeSome, BatchAssumption DEF ApiTake
  <2>2. CASE apiBatch' = {}
    <3>1. api_done' = TRUE /\ git_ready' = TRUE /\ apiPc' = "done"
      BY <1>2, <2>2 DEF ApiTake, ApiLeave
    <3> QED
      BY <1>2, <1>k, <2>1, <2>2, <3>1 DEF ApiTake
  <2>3. CASE apiBatch' # {}
    BY <1>2, <1>k, <2>1, <2>3 DEF ApiTake
  <2> QED
    BY <2>2, <2>3
<1>3. CASE ApiGathered
  BY <1>3 DEF ApiGathered
<1>4. ASSUME NEW t \in ApiTasks, ApiFinish(t)
      PROVE  DrainIInv'
  BY <1>4, <1>k DEF ApiFinish, Settle, StoreLockFree
<1>5. ASSUME NEW t \in ApiTasks, NEW new \in SUBSET Children[t], ApiEnqueue(t, new)
      PROVE  DrainIInv'
  <2>1. new \subseteq Tasks \ RefsTasks
    BY TasksAssumption
  <2>2. ~(apiPc = "done" /\ Clean) /\ apiBatch # {}
    BY <1>5 DEF ApiEnqueue
  <2>3. DrainTypeOK' /\ ControlInv' /\ AttemptInv'
    BY <1>5, <2>1, <1>k DEF ApiEnqueue
  <2>4. DrainInv'
    BY <1>5, <2>1, <2>2, <1>k DEF ApiEnqueue, StoreLockFree
  <2>5. RefsFirst'
    BY <1>5, <2>1, <1>k DEF ApiEnqueue
  <2> QED
    BY <2>3, <2>4, <2>5
<1>6. CASE ApiRaises
  BY <1>6 DEF ApiRaises, ApiLeave, RaiseNow, StoreLockFree
<1>7. CASE GitBegin
  BY <1>7 DEF GitBegin
<1>8. CASE GitTake
  <2>1. CASE pending \cap RefsTasks # {}
    <3>1. IsFiniteSet(pending \cap RefsTasks)
      BY <1>k, FiniteSelections
    <3>2. gitBatch' \subseteq pending \cap RefsTasks /\ gitBatch' # {}
      BY <1>8, <2>1, <3>1, ClaimsTakeSome DEF GitTake
    <3> QED
      BY <1>8, <1>k, <3>2 DEF GitTake
  <2>2. CASE pending \cap RefsTasks = {}
    <3>1. IsFiniteSet(pending \cap PullTasks) /\ IsFiniteSet(pending \cap CommitTasks)
      BY <1>k, FiniteSelections
    <3>2. PICK pulls \in Claims(pending \cap PullTasks, GitBatch),
               commits \in Claims(pending \cap CommitTasks, CommitBatch) :
             gitBatch' = pulls \cup commits
      BY <1>8, <2>2 DEF GitTake
    <3>3. /\ pulls \subseteq pending \cap PullTasks
          /\ pulls = {} => pending \cap PullTasks = {}
      BY <3>1, ClaimsTakeSome, BatchAssumption
    <3>4. /\ commits \subseteq pending \cap CommitTasks
          /\ commits = {} => pending \cap CommitTasks = {}
      BY <3>1, ClaimsTakeSome, BatchAssumption
    <3>5. gitBatch' = {} => pending \cap GitTasks = {}
      BY <2>2, <3>2, <3>3, <3>4 DEF GitTasks
    <3> QED
      BY <1>8, <1>k, <2>2, <3>2, <3>3, <3>4, <3>5 DEF GitTake
  <2> QED
    BY <2>1, <2>2
<1>9. CASE GitDecide
  BY <1>9 DEF GitDecide
<1>10. CASE GitWake
  BY <1>10 DEF GitWake
<1>11. CASE GitGathered
  BY <1>11 DEF GitGathered
<1>12. ASSUME NEW t \in GitTasks, GitFinish(t)
       PROVE  DrainIInv'
  BY <1>12, <1>k DEF GitFinish, Settle
<1>13. CASE GitRaises
  BY <1>13 DEF GitRaises, RaiseNow
<1>14. CASE DrainEnds
  BY <1>14 DEF DrainEnds
<1>15. CASE ReleaseArchive
  BY <1>15 DEF ReleaseArchive
<1>16. CASE Finished \/ UNCHANGED drainVars
  BY <1>16 DEF Finished, drainVars
<1> QED
  BY <1>1, <1>2, <1>3, <1>4, <1>5, <1>6, <1>7, <1>8, <1>9, <1>10, <1>11, <1>12,
     <1>13, <1>14, <1>15, <1>16
  DEF DrainNext, ApiLane, ApiWork, GitLane, GitWork

(* How program counters, events and the task sets of the two lanes go      *)
(* together: what all the theorems below rest on.                          *)
THEOREM DrainInvariance == DrainSpec => []DrainIInv
  BY DrainInitial, DrainStep, PTL DEF DrainSpec

(* The control states, batches and events keep their types.                *)
THEOREM DrainTypes == DrainSpec => []DrainTypeOK
<1>1. DrainIInv => DrainTypeOK
  BY DEF DrainIInv
<1> QED
  BY <1>1, DrainInvariance, PTL

LEMMA ReturnedIsDrained == DrainIInv => ReturnMeansDrained
  BY DEF DrainIInv, DrainTypeOK, DrainInv, Clean, ReturnMeansDrained, Tasks

(* A drain that returns leaves no pending task, for every task table.      *)
THEOREM Drained == DrainSpec => []ReturnMeansDrained
  BY ReturnedIsDrained, DrainInvariance, PTL

(* Pull and commit evidence always follows the upstream refs.              *)
THEOREM RefsAreFirst == DrainSpec => []RefsFirst
<1>1. DrainIInv => RefsFirst
  BY DEF DrainIInv
<1> QED
  BY <1>1, DrainInvariance, PTL

(* No task is claimed again in the drain in which it failed.               *)
THEOREM AttemptedOnce == DrainSpec => []OneAttempt
<1>1. DrainIInv => OneAttempt
  BY DEF DrainIInv, AttemptInv, OneAttempt
<1> QED
  BY <1>1, DrainInvariance, PTL

-----------------------------------------------------------------------------
(* While the store does not fail, a drain raises only after both lanes     *)
(* have ended, so no work outlives the archive lock.                       *)
RaisedInv ==
    /\ apiPc = "done" => apiBatch = {}
    /\ outcome = "raised" => Quiet
    /\ locked \/ outcome = "raised"

(* If the store does not fail, the archive lock is held for as long as any *)
(* task of either lane is in progress.                                     *)
THEOREM LockCoversWork == ASSUME StoreFails = FALSE PROVE DrainSpec => []WorkHoldsLock
<1>1. DrainInit => RaisedInv
  BY DEF DrainInit, RaisedInv
<1>2. DrainIInv /\ RaisedInv /\ [DrainNext]_drainVars => RaisedInv'
  <2> SUFFICES ASSUME DrainIInv, RaisedInv, [DrainNext]_drainVars
               PROVE  RaisedInv'
    OBVIOUS
  <2> USE DEF RaisedInv, Quiet, store, api, git, events
  <2>1. CASE ApiBegin
    BY <2>1 DEF ApiBegin, DrainIInv, ControlInv
  <2>2. CASE ApiTake \/ ApiGathered
    BY <2>2 DEF ApiTake, ApiGathered, ApiLeave
  <2>3. CASE ApiWork
    BY <2>3 DEF ApiWork, ApiFinish, ApiEnqueue
  <2>4. CASE GitLane
    BY <2>4 DEF GitLane, GitBegin, GitTake, GitDecide, GitWake, GitGathered
  <2>5. CASE GitWork
    BY <2>5 DEF GitWork, GitFinish
  <2>6. CASE ApiRaises \/ GitRaises
    BY <2>6, StoreFails = FALSE DEF ApiRaises, GitRaises
  <2>7. CASE DrainEnds \/ ReleaseArchive
    BY <2>7 DEF DrainEnds, ReleaseArchive
  <2>8. CASE Finished \/ UNCHANGED drainVars
    BY <2>8 DEF Finished, drainVars
  <2> QED
    BY <2>1, <2>2, <2>3, <2>4, <2>5, <2>6, <2>7, <2>8 DEF DrainNext, ApiLane
<1>3. RaisedInv => WorkHoldsLock
  BY DEF RaisedInv, Quiet, WorkHoldsLock
<1> QED
  BY <1>1, <1>2, <1>3, DrainInvariance, PTL DEF DrainSpec

-----------------------------------------------------------------------------
LEMMA PoolInit == DrainInit => Pool!Init
  BY DEF DrainInit, Pool!Init

LEMMA PoolStep == DrainIInv /\ DrainIInv' /\ [DrainNext]_drainVars => [Pool!Next]_(Pool!vars)
<1> SUFFICES ASSUME DrainIInv, DrainIInv', [DrainNext]_drainVars
             PROVE  Pool!Next \/ UNCHANGED Pool!vars
  OBVIOUS
<1> USE DEF store, api, git, events, Pool!vars
<1>r. outcome = "returned" => apiBatch = {} /\ gitBatch = {} /\ apiPc = "done"
                              /\ gitPc = "done" /\ failed = {} /\ ~stop
  BY DEF DrainIInv, ControlInv, DrainInv, Clean
<1>1. CASE ApiBegin \/ ApiTake \/ GitBegin \/ GitTake \/ GitDecide \/ GitWake
  BY <1>1 DEF ApiBegin, ApiTake, GitBegin, GitTake, GitDecide, GitWake
<1>2. CASE ApiGathered \/ GitGathered
  <2>1. /\ UNCHANGED <<rows, pending, failed, outcome>>
        /\ \/ stop' = (stop \/ failed \cap ApiTasks # {})
           \/ stop' = (stop \/ failed \cap GitTasks # {})
    BY <1>2 DEF ApiGathered, GitGathered
  <2>2. (failed # {} \/ stop)' = (failed # {} \/ stop)
    BY <2>1
  <2> QED
    BY <2>1, <2>2
<1>3. ASSUME NEW t \in ApiTasks \cup GitTasks, ApiFinish(t) \/ GitFinish(t)
      PROVE  Pool!Next \/ UNCHANGED Pool!vars
  <2>1. outcome # "returned" /\ UNCHANGED <<rows, outcome, stop>> /\ Settle(t)
    BY <1>3, <1>r DEF ApiFinish, GitFinish
  <2>2. CASE pending' = pending \ {t} /\ UNCHANGED failed
    <3>1. CASE t \in pending
      BY <2>1, <2>2, <3>1 DEF Pool!Next, Pool!Complete
    <3>2. CASE t \notin pending
      BY <2>1, <2>2, <3>2
    <3> QED
      BY <3>1, <3>2
  <2>3. CASE failed' = failed \cup {t} /\ UNCHANGED pending
    <3>1. (failed # {} \/ stop)' = TRUE
      BY <2>3
    <3> QED
      BY <2>1, <2>3, <3>1 DEF Pool!Next, Pool!Fault
  <2> QED
    BY <2>1, <2>2, <2>3 DEF Settle
<1>4. ASSUME NEW t \in ApiTasks, NEW new \in SUBSET Children[t], ApiEnqueue(t, new)
      PROVE  Pool!Next \/ UNCHANGED Pool!vars
  <2>1. new \in SUBSET (Tasks \ rows)
    BY <1>4, TasksAssumption DEF ApiEnqueue
  <2>2. outcome # "returned"
    BY <1>4, <1>r DEF ApiEnqueue
  <2> QED
    BY <1>4, <2>1, <2>2 DEF ApiEnqueue, Pool!Next, Pool!Insert
<1>5. CASE ApiRaises \/ GitRaises
  <2>1. /\ outcome # "returned" /\ stop' = TRUE /\ UNCHANGED <<rows, pending>>
        /\ outcome' \in {outcome, "raised"}
    BY <1>5, <1>r DEF ApiRaises, GitRaises, RaiseNow
  <2>2. (failed # {} \/ stop)' = TRUE
    BY <2>1
  <2> QED
    BY <2>1, <2>2 DEF Pool!Next, Pool!Fault
<1>6. CASE DrainEnds
  <2>0. UNCHANGED <<rows, pending, failed, stop>> /\ outcome = "running"
    BY <1>6 DEF DrainEnds
  <2>1. CASE failed = {}
    <3>1. outcome' = "returned"
      BY <1>6, <2>1 DEF DrainEnds
    <3>2. pending = {} /\ ~stop
      <4>1. ~stop /\ pending \cap ApiTasks = {} /\ pending \cap GitTasks = {}
        BY <1>6, <2>0, <2>1 DEF DrainEnds, DrainIInv, DrainInv, Clean
      <4> QED
        BY <4>1 DEF DrainIInv, DrainTypeOK, Tasks
    <3> QED
      BY <2>0, <2>1, <3>1, <3>2 DEF Pool!Next, Pool!Return
  <2>2. CASE failed # {}
    <3>1. outcome' = "raised"
      BY <1>6, <2>2 DEF DrainEnds
    <3> QED
      BY <2>0, <2>2, <3>1 DEF Pool!Next, Pool!Raise
  <2> QED
    BY <2>1, <2>2
<1>7. CASE ReleaseArchive \/ Finished \/ UNCHANGED drainVars
  BY <1>7 DEF ReleaseArchive, Finished, drainVars
<1> QED
  BY <1>1, <1>2, <1>3, <1>4, <1>5, <1>6, <1>7
  DEF DrainNext, ApiLane, ApiWork, GitLane, GitWork

(* The two lanes implement the pool of tasks: whatever they interleave,    *)
(* the drain completes tasks one by one and returns only when none is left. *)
THEOREM LanesImplementPool == DrainSpec => PoolSpec
  BY PoolInit, PoolStep, DrainInvariance, PTL DEF DrainSpec, PoolSpec, Pool!Spec

=============================================================================
