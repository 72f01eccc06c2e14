------------------------ MODULE CommitProvenanceProofs ------------------------
(***************************************************************************)
(* Proofs about CommitProvenance, for any parents, sources, references and *)
(* commits, batches of any size and any number of crashes.                 *)
(***************************************************************************)
EXTENDS CommitProvenance, SequenceTheorems, TLAPS

References == [family : {"commit-references"}, parent : Parents, source : Sources]
Objects == [family : {"commit-object"}, commit : Commits, ids : SUBSET Nat]

RowsOK ==
    /\ rows \in Seq(References \union Objects)
    /\ durable \in Nat /\ durable <= Len(rows) /\ Len(rows) <= durable + 1

GitOK ==
    /\ tasks \subseteq Commits \X Parents /\ batch \subseteq tasks /\ enqueued \subseteq Parents
    /\ lane \in {"idle", "cutoff", "references", "publish"}
    /\ cutoff \in Nat /\ cutoff <= durable + 1
    /\ found \subseteq Commits \X (1 .. cutoff) /\ (lane # "publish" => found = {})
    /\ stops \in 0 .. MaxStops

(* Only the scan of a parent that is not over may be rolled back.          *)
OpenScan ==
    \A i \in DOMAIN rows : i > durable => IsReference(i) /\ rows[i].parent \notin enqueued

(* The commits of a parent are enqueued once all its scans are durable.    *)
EnqueuedLate ==
    /\ \A p \in enqueued : FullyScanned(p)
    /\ \A t \in tasks : t[2] \in enqueued

(* A reference of which the commit has been published, or is in the batch. *)
Settled(i, c) == Names(i, c) /\ rows[i].parent \in enqueued /\ <<c, rows[i].parent>> \notin tasks
Claimed(i, c) == Names(i, c) /\ <<c, rows[i].parent>> \in batch
InBatch(c) == \E t \in batch : t[1] = c

(* What the Git lane has read is whole for the commits of its batch: for   *)
(* the tasks of the batch and for all that were published before.          *)
ReadWhole ==
    \A i \in DOMAIN rows, c \in Commits :
       InBatch(c) /\ (Settled(i, c) \/ Claimed(i, c)) =>
          /\ lane \in {"references", "publish"} => i <= cutoff
          /\ lane = "publish" => <<c, i>> \in found

Current(j, c) == IsObject(j, c) /\ \A k \in DOMAIN rows : IsObject(k, c) => k <= j
PublishedWhole ==
    \A i \in DOMAIN rows, c \in Commits :
       Settled(i, c) => \E j \in DOMAIN rows : Current(j, c) /\ i \in rows[j].ids

ScopesExist == \A j \in DOMAIN rows : rows[j].family = "commit-object" => rows[j].ids \subseteq 1 .. j

IInv ==
    RowsOK /\ GitOK /\ OpenScan /\ EnqueuedLate /\ ReadWhole /\ PublishedWhole /\ ScopesExist

-----------------------------------------------------------------------------
(* Rows. *)

LEMMA RowsAre ==
    ASSUME RowsOK
    PROVE  /\ DOMAIN rows = 1 .. Len(rows) /\ Len(rows) \in Nat
           /\ \A i \in DOMAIN rows : rows[i] \in References \union Objects
  BY DEF RowsOK

(* A row is a reference or an object, and not both.                        *)
LEMMA NamesAre ==
    ASSUME RowsOK, NEW i, NEW c, Names(i, c)
    PROVE  /\ i \in DOMAIN rows /\ rows[i] \in References /\ ~\E d : IsObject(i, d)
           /\ rows[i].parent \in Parents /\ rows[i].source \in Sources
           /\ c \in Refers[rows[i].parent][rows[i].source] /\ c \in Commits
  <1>1. i \in DOMAIN rows /\ rows[i].family = "commit-references"
        /\ c \in Refers[rows[i].parent][rows[i].source]
    BY DEF Names, IsReference
  <1>2. rows[i] \in References
    BY <1>1, RowsAre DEF Objects
  <1>3. rows[i].parent \in Parents /\ rows[i].source \in Sources
    BY <1>2 DEF References
  <1> QED
    BY <1>1, <1>2, <1>3, ProvenanceAssumption DEF IsObject

LEMMA SameRow ==
    ASSUME NEW i \in DOMAIN rows, i \in DOMAIN rows', rows'[i] = rows[i], NEW c
    PROVE  /\ Names(i, c)' <=> Names(i, c)
           /\ IsObject(i, c)' <=> IsObject(i, c)
           /\ IsReference(i)' <=> IsReference(i)
  BY DEF Names, IsObject, IsReference

LEMMA Truncates ==
    ASSUME RowsOK, OpenScan, rows' = SubSeq(rows, 1, durable), durable' = durable
    PROVE  /\ RowsOK' /\ DOMAIN rows' \subseteq DOMAIN rows
           /\ \A i \in DOMAIN rows' : rows'[i] = rows[i] /\ i <= durable
           /\ \A i \in DOMAIN rows : i <= durable => i \in DOMAIN rows'
           /\ \A i, c : IsObject(i, c) => i <= durable
  <1>1. DOMAIN rows = 1 .. Len(rows) /\ Len(rows) \in Nat
        /\ \A i \in 1 .. Len(rows) : rows[i] \in References \union Objects
    BY RowsAre
  <1>2. durable \in Nat /\ durable <= Len(rows)
    BY DEF RowsOK
  <1>3. \A i \in 1 .. durable : rows[i] \in References \union Objects
    BY <1>1, <1>2
  <1>4. /\ rows' \in Seq(References \union Objects)
        /\ Len(rows') = IF 1 <= durable THEN durable - 1 + 1 ELSE 0
        /\ \A i \in 1 .. durable - 1 + 1 : rows'[i] = rows[1 + i - 1]
    BY <1>2, <1>3, SubSeqProperties
  <1>5. Len(rows') = durable /\ DOMAIN rows' = 1 .. durable /\ \A i \in 1 .. durable : rows'[i] = rows[i]
    BY <1>2, <1>4
  <1>6. ASSUME NEW i, NEW c, IsObject(i, c), ~(i <= durable) PROVE FALSE
    <2>1. i \in DOMAIN rows /\ i > durable /\ rows[i].family = "commit-object"
      BY <1>1, <1>2, <1>6 DEF IsObject
    <2> QED
      BY <2>1 DEF OpenScan, IsReference
  <1> QED
    BY <1>1, <1>2, <1>4, <1>5, <1>6 DEF RowsOK

LEMMA Appends ==
    ASSUME RowsOK, NEW row \in References \union Objects, rows' = Append(rows, row), durable = Len(rows)
    PROVE  /\ rows' \in Seq(References \union Objects) /\ Len(rows') = Len(rows) + 1
           /\ DOMAIN rows' = DOMAIN rows \union {Len(rows) + 1} /\ Len(rows) + 1 \notin DOMAIN rows
           /\ rows'[Len(rows) + 1] = row
           /\ \A i \in DOMAIN rows : rows'[i] = rows[i] /\ i <= durable
  BY DEF RowsOK

-----------------------------------------------------------------------------
(* A step at the end of the rows: it adds, or rolls back, scans of parents *)
(* that are not over.  The Git lane goes on, or gives up its batch.        *)
LEMMA AtTheEnd ==
    ASSUME IInv, RowsOK', UNCHANGED <<durable, tasks, enqueued>>, batch' \subseteq batch,
           UNCHANGED <<lane, cutoff, found>> \/ lane' = "idle",
           \A i \in DOMAIN rows : (i \in DOMAIN rows' /\ rows'[i] = rows[i]) \/ (i > durable /\ i \notin DOMAIN rows'),
           \A i \in DOMAIN rows' : i \in DOMAIN rows \/ (rows'[i] \in References /\ rows'[i].parent \notin enqueued)
    PROVE  EnqueuedLate' /\ ReadWhole' /\ PublishedWhole' /\ ScopesExist'
  <1> USE DEF IInv
  <1>0. \A i \in DOMAIN rows' : i \in DOMAIN rows => rows'[i] = rows[i]
    OBVIOUS
  <1>1. \A i, c : Names(i, c)' /\ (rows'[i].parent \in enqueued \/ <<c, rows'[i].parent>> \in batch) =>
           /\ i \in DOMAIN rows /\ i \in DOMAIN rows' /\ rows'[i] = rows[i] /\ Names(i, c) /\ c \in Commits
    <2> SUFFICES ASSUME NEW i, NEW c, Names(i, c)',
                        rows'[i].parent \in enqueued \/ <<c, rows'[i].parent>> \in batch
                 PROVE  /\ i \in DOMAIN rows /\ i \in DOMAIN rows' /\ rows'[i] = rows[i]
                        /\ Names(i, c) /\ c \in Commits
      OBVIOUS
    <2>1. i \in DOMAIN rows'
      BY DEF Names, IsReference
    <2>2. \A t \in batch : t[2] \in enqueued
      BY DEF GitOK, EnqueuedLate
    <2>3. rows'[i].parent \in enqueued
      <3>1. <<c, rows'[i].parent>>[2] = rows'[i].parent
        OBVIOUS
      <3> QED
        BY <2>2, <3>1
    <2>4. i \in DOMAIN rows /\ rows'[i] = rows[i]
      BY <1>0, <2>1, <2>3
    <2>5. Names(i, c)
      BY <2>1, <2>4, SameRow
    <2> QED
      BY <2>1, <2>4, <2>5, NamesAre
  <1>2. \A i, c : /\ Settled(i, c)' => Settled(i, c) /\ i \in DOMAIN rows /\ c \in Commits
                  /\ Claimed(i, c)' => Claimed(i, c) /\ i \in DOMAIN rows /\ c \in Commits
    BY <1>1 DEF Settled, Claimed
  <1>3. \A c : InBatch(c)' => InBatch(c)
    BY DEF InBatch
  <1>4. ReadWhole'
    BY <1>2, <1>3 DEF ReadWhole
  <1>5. \A j \in DOMAIN rows : \A c : IsObject(j, c) => j \in DOMAIN rows' /\ rows'[j] = rows[j] /\ IsObject(j, c)'
    <2> SUFFICES ASSUME NEW j \in DOMAIN rows, NEW c, IsObject(j, c)
                 PROVE  j \in DOMAIN rows' /\ rows'[j] = rows[j] /\ IsObject(j, c)'
      OBVIOUS
    <2>1. ~(j > durable)
      BY DEF IsObject, OpenScan, IsReference
    <2>2. j \in DOMAIN rows' /\ rows'[j] = rows[j]
      BY <2>1
    <2> QED
      BY <2>2, SameRow
  <1>6. \A j \in DOMAIN rows' : rows'[j].family = "commit-object" => j \in DOMAIN rows /\ rows'[j] = rows[j]
    BY <1>0 DEF References
  <1>7. EnqueuedLate'
    <2>1. ASSUME NEW i \in 1 .. durable PROVE i \in DOMAIN rows /\ i \in DOMAIN rows' /\ rows'[i] = rows[i]
      <3>1. i \in DOMAIN rows /\ ~(i > durable)
        BY DEF RowsOK
      <3> QED
        BY <3>1
    <2>2. \A p, s : Scanned(p, s) => Scanned(p, s)'
      BY <2>1 DEF Scanned, IsReference
    <2> QED
      BY <2>2 DEF EnqueuedLate, FullyScanned
  <1>8. PublishedWhole'
    <2> SUFFICES ASSUME NEW i \in DOMAIN rows', NEW c \in Commits, Settled(i, c)'
                 PROVE  \E j \in DOMAIN rows' : Current(j, c)' /\ i \in rows'[j].ids
      BY DEF PublishedWhole
    <2>1. PICK j \in DOMAIN rows : Current(j, c) /\ i \in rows[j].ids
      BY <1>2 DEF PublishedWhole
    <2>2. j \in DOMAIN rows' /\ rows'[j] = rows[j] /\ IsObject(j, c)'
      BY <2>1, <1>5 DEF Current
    <2>3. ASSUME NEW k \in DOMAIN rows', IsObject(k, c)' PROVE k <= j
      <3>1. k \in DOMAIN rows /\ rows'[k] = rows[k]
        BY <2>3, <1>6 DEF IsObject
      <3>2. IsObject(k, c)
        BY <2>3, <3>1, SameRow
      <3> QED
        BY <2>1, <3>1, <3>2 DEF Current
    <2> QED
      BY <2>1, <2>2, <2>3 DEF Current
  <1>9. ScopesExist'
    BY <1>6 DEF ScopesExist
  <1> QED
    BY <1>4, <1>7, <1>8, <1>9

-----------------------------------------------------------------------------
(* The actions. *)

LEMMA NoTransaction ==
    ASSUME RowsOK, ~InTransaction
    PROVE  durable = Len(rows)
  BY DEF RowsOK, InTransaction

LEMMA InsertScanKeeps ==
    ASSUME IInv, NEW p \in Parents, NEW s \in Sources, InsertScan(p, s)
    PROVE  IInv'
  <1> DEFINE row == Reference(p, s)
  <1>1. RowsOK /\ GitOK /\ OpenScan /\ EnqueuedLate
    BY DEF IInv
  <1>2. durable = Len(rows) /\ ~Scanned(p, s) /\ rows' = Append(rows, row)
        /\ UNCHANGED <<durable, tasks, enqueued, lane, batch, cutoff, found, stops>>
    BY <1>1, NoTransaction DEF InsertScan, git
  <1>3. row \in References /\ row.parent = p
    BY DEF Reference, References
  <1>4. p \notin enqueued
    BY <1>1, <1>2 DEF EnqueuedLate, FullyScanned
  <1> HIDE DEF row
  <1>5. /\ rows' \in Seq(References \union Objects) /\ Len(rows') = Len(rows) + 1
        /\ DOMAIN rows' = DOMAIN rows \union {Len(rows) + 1} /\ Len(rows) + 1 \notin DOMAIN rows
        /\ rows'[Len(rows) + 1] = row
        /\ \A i \in DOMAIN rows : rows'[i] = rows[i] /\ i <= durable
    BY <1>1, <1>2, <1>3, Appends
  <1>6. RowsOK'
    BY <1>1, <1>2, <1>5 DEF RowsOK
  <1>7. EnqueuedLate' /\ ReadWhole' /\ PublishedWhole' /\ ScopesExist'
    BY <1>2, <1>3, <1>4, <1>5, <1>6, AtTheEnd
  <1>8. OpenScan'
    <2> SUFFICES ASSUME NEW i \in DOMAIN rows', i > durable
                 PROVE  IsReference(i)' /\ rows'[i].parent \notin enqueued
      BY <1>2 DEF OpenScan
    <2>1. i = Len(rows) + 1
      BY <1>2, <1>5, RowsAre, <1>1
    <2> QED
      BY <2>1, <1>3, <1>4, <1>5 DEF IsReference, References
  <1>9. GitOK'
    BY <1>1, <1>2 DEF GitOK
  <1> QED
    BY <1>6, <1>7, <1>8, <1>9 DEF IInv

LEMMA CommitScanKeeps ==
    ASSUME IInv, CommitScan
    PROVE  IInv'
  <1>1. /\ durable < Len(rows) /\ durable' = Len(rows)
        /\ UNCHANGED <<rows, tasks, enqueued, lane, batch, cutoff, found, stops>>
    BY DEF CommitScan, InTransaction, git
  <1>2. RowsOK'
    BY <1>1 DEF IInv, RowsOK
  <1>3. GitOK'
    BY <1>1 DEF IInv, GitOK, RowsOK
  <1>4. OpenScan'
    BY <1>1 DEF OpenScan, IInv, RowsOK
  <1>5. EnqueuedLate'
    <2>1. \A i \in 1 .. durable : i \in 1 .. durable'
      BY <1>1 DEF IInv, RowsOK
    <2>2. \A p, s : Scanned(p, s) => Scanned(p, s)'
      BY <1>1, <2>1 DEF Scanned, IsReference
    <2> QED
      BY <1>1, <2>2 DEF IInv, EnqueuedLate, FullyScanned
  <1>6. ReadWhole'
    BY <1>1 DEF IInv, ReadWhole, InBatch, Settled, Claimed, Names, IsReference
  <1>7. PublishedWhole'
    BY <1>1 DEF IInv, PublishedWhole, Settled, Names, IsReference, Current, IsObject
  <1>8. ScopesExist'
    BY <1>1 DEF IInv, ScopesExist
  <1> QED
    BY <1>2, <1>3, <1>4, <1>5, <1>6, <1>7, <1>8 DEF IInv

LEMMA RollbackScanKeeps ==
    ASSUME IInv, RollbackScan
    PROVE  IInv'
  <1>1. rows' = SubSeq(rows, 1, durable)
        /\ UNCHANGED <<durable, tasks, enqueued, lane, batch, cutoff, found, stops>>
    BY DEF RollbackScan, git
  <1>2. RowsOK /\ OpenScan
    BY DEF IInv
  <1>3. /\ RowsOK' /\ DOMAIN rows' \subseteq DOMAIN rows
        /\ \A i \in DOMAIN rows' : rows'[i] = rows[i] /\ i <= durable
        /\ \A i \in DOMAIN rows : i <= durable => i \in DOMAIN rows'
    BY <1>1, <1>2, Truncates
  <1>4. DOMAIN rows \subseteq Nat /\ durable \in Nat
    BY <1>2, RowsAre DEF RowsOK
  <1>5. EnqueuedLate' /\ ReadWhole' /\ PublishedWhole' /\ ScopesExist'
    BY <1>1, <1>3, <1>4, AtTheEnd
  <1>6. OpenScan'
    BY <1>1, <1>3, <1>4 DEF OpenScan
  <1>7. GitOK'
    BY <1>1 DEF IInv, GitOK
  <1> QED
    BY <1>3, <1>5, <1>6, <1>7 DEF IInv

LEMMA EnqueueCommitsKeeps ==
    ASSUME IInv, NEW p \in Parents, EnqueueCommits(p)
    PROVE  IInv'
  <1>1. /\ ~InTransaction /\ FullyScanned(p) /\ enqueued' = enqueued \union {p}
        /\ tasks' = tasks \union {<<c, p>> : c \in UNION {Refers[p][s] : s \in Sources}}
        /\ UNCHANGED <<rows, durable, lane, batch, cutoff, found, stops>>
    BY DEF EnqueueCommits, AllScanned, git
  <1>2. RowsOK /\ durable = Len(rows)
    BY <1>1, NoTransaction DEF IInv
  <1>3. \A i, c : Settled(i, c)' => Settled(i, c)
    <2> SUFFICES ASSUME NEW i, NEW c, Settled(i, c)'
                 PROVE  Settled(i, c)
      OBVIOUS
    <2>1. Names(i, c) /\ rows[i].parent \in enqueued' /\ <<c, rows[i].parent>> \notin tasks'
      BY <1>1 DEF Settled, Names, IsReference
    <2>2. rows[i].source \in Sources /\ c \in Refers[rows[i].parent][rows[i].source]
      BY <2>1, <1>2, NamesAre
    <2>3. rows[i].parent # p
      <3> SUFFICES ASSUME rows[i].parent = p PROVE FALSE
        OBVIOUS
      <3>1. c \in UNION {Refers[p][s] : s \in Sources}
        BY <2>2
      <3> QED
        BY <2>1, <3>1, <1>1
    <2> QED
      BY <2>1, <2>3, <1>1 DEF Settled
  <1>4. RowsOK'
    BY <1>1, <1>2 DEF RowsOK
  <1>5. GitOK'
    <2>1. UNION {Refers[p][s] : s \in Sources} \subseteq Commits
      BY ProvenanceAssumption
    <2>2. {<<c, p>> : c \in UNION {Refers[p][s] : s \in Sources}} \subseteq Commits \X Parents
      BY <2>1
    <2> QED
      BY <1>1, <2>2 DEF IInv, GitOK
  <1>6. OpenScan'
    BY <1>1, <1>2, RowsAre DEF OpenScan
  <1>7. EnqueuedLate'
    <2>1. \A q : FullyScanned(q)' <=> FullyScanned(q)
      BY <1>1 DEF FullyScanned, Scanned, IsReference
    <2>2. \A t \in tasks' : t \in tasks \/ t[2] = p
      BY <1>1
    <2> QED
      BY <1>1, <2>1, <2>2 DEF IInv, EnqueuedLate
  <1>8. ReadWhole'
    BY <1>1, <1>3 DEF IInv, ReadWhole, InBatch, Claimed, Names, IsReference
  <1>9. PublishedWhole'
    <2>1. \A j, c : Current(j, c)' <=> Current(j, c)
      BY <1>1 DEF Current, IsObject
    <2> QED
      BY <1>1, <1>3, <2>1 DEF IInv, PublishedWhole
  <1>10. ScopesExist'
    BY <1>1 DEF IInv, ScopesExist
  <1> QED
    BY <1>4, <1>5, <1>6, <1>7, <1>8, <1>9, <1>10 DEF IInv

(* A step of the Git lane that reads: the archive stays.                   *)
LEMMA Reading ==
    ASSUME IInv, UNCHANGED <<rows, durable, tasks, enqueued>>
    PROVE  RowsOK' /\ OpenScan' /\ EnqueuedLate' /\ PublishedWhole' /\ ScopesExist'
           /\ \A i, c : Names(i, c)' <=> Names(i, c)
  <1>1. RowsOK'
    BY DEF IInv, RowsOK
  <1>2. OpenScan'
    BY DEF IInv, OpenScan, IsReference
  <1>3. EnqueuedLate'
    BY DEF IInv, EnqueuedLate, FullyScanned, Scanned, IsReference
  <1>4. PublishedWhole'
    BY DEF IInv, PublishedWhole, Settled, Names, IsReference, Current, IsObject
  <1>5. ScopesExist'
    BY DEF IInv, ScopesExist
  <1>6. \A i, c : Names(i, c)' <=> Names(i, c)
    BY DEF Names, IsReference
  <1> QED
    BY <1>1, <1>2, <1>3, <1>4, <1>5, <1>6

LEMMA GitLaneKeeps ==
    ASSUME IInv, ClaimCommits \/ ReadCutoff \/ ReadReferences
    PROVE  IInv'
  <1>1. UNCHANGED <<rows, durable, tasks, enqueued, stops>>
    BY DEF ClaimCommits, ReadCutoff, ReadReferences, archive
  <1>2. /\ RowsOK' /\ OpenScan' /\ EnqueuedLate' /\ PublishedWhole' /\ ScopesExist'
        /\ \A i, c : Names(i, c)' <=> Names(i, c)
    BY <1>1, Reading
  <1>3. RowsOK /\ DOMAIN rows = 1 .. Len(rows) /\ Len(rows) \in Nat
    BY RowsAre DEF IInv
  <1>4. CASE ClaimCommits
    <2>1. lane = "idle" /\ lane' = "cutoff" /\ batch' \subseteq tasks /\ UNCHANGED <<cutoff, found>>
      BY <1>4 DEF ClaimCommits
    <2>2. GitOK'
      BY <1>1, <2>1 DEF IInv, GitOK
    <2>3. ReadWhole'
      BY <2>1 DEF ReadWhole
    <2> QED
      BY <1>2, <2>2, <2>3 DEF IInv
  <1>5. CASE ReadCutoff
    <2>1. lane = "cutoff" /\ lane' = "references" /\ cutoff' = Len(rows) /\ UNCHANGED <<batch, found>>
      BY <1>5 DEF ReadCutoff
    <2>2. GitOK'
      <3>1. found = {}
        BY <2>1 DEF IInv, GitOK
      <3> QED
        BY <1>1, <1>3, <2>1, <3>1 DEF IInv, GitOK, RowsOK
    <2>3. ReadWhole'
      BY <1>1, <1>3, <2>1 DEF ReadWhole
    <2> QED
      BY <1>2, <2>2, <2>3 DEF IInv
  <1>6. CASE ReadReferences
    <2>1. /\ lane = "references" /\ lane' = "publish" /\ UNCHANGED <<batch, cutoff>>
          /\ found' = UNION {{<<t[1], i>> : i \in Indexed(t[1])} : t \in batch}
      BY <1>6 DEF ReadReferences
    <2>2. cutoff \in Nat /\ batch \subseteq Commits \X Parents
      BY DEF IInv, GitOK
    <2>3. found' \subseteq Commits \X (1 .. cutoff)
      <3> SUFFICES ASSUME NEW f \in found' PROVE f \in Commits \X (1 .. cutoff)
        OBVIOUS
      <3>1. PICK t \in batch : f \in {<<t[1], i>> : i \in Indexed(t[1])}
        BY <2>1
      <3>2. PICK i \in Indexed(t[1]) : f = <<t[1], i>>
        BY <3>1
      <3>3. i \in 1 .. cutoff
        BY <3>2 DEF Indexed
      <3>4. t[1] \in Commits
        BY <2>2
      <3> QED
        BY <3>2, <3>3, <3>4
    <2>4. GitOK'
      BY <1>1, <2>1, <2>3 DEF IInv, GitOK
    <2>5. ReadWhole'
      <3> SUFFICES ASSUME NEW i \in DOMAIN rows', NEW c \in Commits,
                          InBatch(c)', Settled(i, c)' \/ Claimed(i, c)'
                   PROVE  i <= cutoff' /\ <<c, i>> \in found'
        BY DEF ReadWhole
      <3>1. InBatch(c) /\ (Settled(i, c) \/ Claimed(i, c)) /\ Names(i, c) /\ i \in DOMAIN rows
        BY <1>1, <1>2, <2>1 DEF InBatch, Settled, Claimed
      <3>2. i <= cutoff
        BY <3>1, <2>1 DEF IInv, ReadWhole
      <3>3. PICK t \in batch : t[1] = c
        BY <3>1 DEF InBatch
      <3>4. i \in Indexed(t[1])
        BY <3>1, <3>2, <3>3, <1>3, <2>2 DEF Indexed
      <3> QED
        BY <2>1, <3>2, <3>3, <3>4
    <2> QED
      BY <1>2, <2>4, <2>5 DEF IInv
  <1> QED
    BY <1>4, <1>5, <1>6

(* The batch is given up.                                                  *)
LEMMA FailBatchKeeps ==
    ASSUME IInv, FailBatch
    PROVE  IInv'
  <1>1. /\ UNCHANGED <<rows, durable, tasks, enqueued>> /\ stops < MaxStops /\ stops' = stops + 1
        /\ lane' = "idle" /\ batch' = {} /\ cutoff' = 0 /\ found' = {}
    BY DEF FailBatch, archive
  <1>2. RowsOK' /\ OpenScan' /\ EnqueuedLate' /\ PublishedWhole' /\ ScopesExist'
    BY <1>1, Reading
  <1>3. GitOK'
    BY <1>1, ProvenanceAssumption DEF IInv, GitOK, RowsOK
  <1>4. ReadWhole'
    BY <1>1 DEF ReadWhole
  <1> QED
    BY <1>2, <1>3, <1>4 DEF IInv

LEMMA CrashKeeps ==
    ASSUME IInv, Crash
    PROVE  IInv'
  <1>1. /\ rows' = SubSeq(rows, 1, durable) /\ stops < MaxStops /\ stops' = stops + 1
        /\ lane' = "idle" /\ batch' = {} /\ cutoff' = 0 /\ found' = {}
        /\ UNCHANGED <<durable, tasks, enqueued>>
    BY DEF Crash
  <1>2. RowsOK /\ OpenScan
    BY DEF IInv
  <1>3. /\ RowsOK' /\ DOMAIN rows' \subseteq DOMAIN rows
        /\ \A i \in DOMAIN rows' : rows'[i] = rows[i] /\ i <= durable
        /\ \A i \in DOMAIN rows : i <= durable => i \in DOMAIN rows'
    BY <1>1, <1>2, Truncates
  <1>4. DOMAIN rows \subseteq Nat /\ durable \in Nat
    BY <1>2, RowsAre DEF RowsOK
  <1>5. EnqueuedLate' /\ ReadWhole' /\ PublishedWhole' /\ ScopesExist'
    BY <1>1, <1>3, <1>4, AtTheEnd
  <1>6. OpenScan'
    BY <1>1, <1>3, <1>4 DEF OpenScan
  <1>7. GitOK'
    BY <1>1, <1>4, ProvenanceAssumption DEF IInv, GitOK
  <1> QED
    BY <1>3, <1>5, <1>6, <1>7 DEF IInv

(* The new row is the current fact of the commit, and names all that was   *)
(* found: every reference that this or a former publication settles.       *)
LEMMA PublishObjectKeeps ==
    ASSUME IInv, NEW t \in batch, PublishObject(t)
    PROVE  IInv'
  <1> DEFINE row == Object(t[1], Scope(t[1]))
             n == Len(rows) + 1
  <1>1. /\ lane = "publish" /\ ~InTransaction /\ rows' = Append(rows, row) /\ durable' = Len(rows')
        /\ tasks' = tasks \ {t} /\ batch' = batch \ {t} /\ UNCHANGED <<enqueued, stops>>
        /\ lane' = IF batch' = {} THEN "idle" ELSE "publish"
        /\ found' = IF batch' = {} THEN {} ELSE found
        /\ cutoff' = IF batch' = {} THEN 0 ELSE cutoff
    BY DEF PublishObject
  <1>2. RowsOK /\ durable = Len(rows) /\ durable \in Nat
    BY <1>1, NoTransaction DEF IInv, RowsOK
  <1>3. t \in Commits \X Parents /\ t = <<t[1], t[2]>> /\ t \in tasks
    BY DEF IInv, GitOK
  <1>4. Scope(t[1]) \subseteq 1 .. cutoff /\ cutoff \in Nat /\ cutoff <= durable + 1
    <2>1. found \subseteq Commits \X (1 .. cutoff) /\ cutoff \in Nat /\ cutoff <= durable + 1
      BY DEF IInv, GitOK
    <2> QED
      BY <2>1 DEF Scope
  <1>5. row \in Objects /\ row.commit = t[1] /\ row.ids = Scope(t[1]) /\ row.family = "commit-object"
    BY <1>3, <1>4 DEF Object, Objects
  <1> HIDE DEF row
  <1>6. /\ rows' \in Seq(References \union Objects) /\ Len(rows') = n
        /\ DOMAIN rows' = DOMAIN rows \union {n} /\ n \notin DOMAIN rows
        /\ rows'[n] = row
        /\ \A i \in DOMAIN rows : rows'[i] = rows[i] /\ i <= durable
    BY <1>1, <1>2, <1>5, Appends
  <1>7. n = durable + 1 /\ n \in Nat /\ durable' = n
    BY <1>1, <1>2, <1>6
  <1> HIDE DEF n
  <1>8. \A i, c : Names(i, c)' => Names(i, c) /\ i \in DOMAIN rows /\ c \in Commits /\ rows'[i] = rows[i]
    <2> SUFFICES ASSUME NEW i, NEW c, Names(i, c)'
                 PROVE  Names(i, c) /\ i \in DOMAIN rows /\ c \in Commits /\ rows'[i] = rows[i]
      OBVIOUS
    <2>1. i \in DOMAIN rows' /\ rows'[i].family = "commit-references"
      BY DEF Names, IsReference
    <2>2. i # n
      BY <2>1, <1>5, <1>6
    <2>3. i \in DOMAIN rows /\ rows'[i] = rows[i]
      BY <2>1, <2>2, <1>6
    <2>4. Names(i, c)
      BY <2>1, <2>3, SameRow
    <2> QED
      BY <2>3, <2>4, <1>2, NamesAre
  <1>9. \A i, c : /\ Claimed(i, c)' => Claimed(i, c)
                  /\ Settled(i, c)' => Settled(i, c) \/ (Claimed(i, c) /\ c = t[1])
    <2>1. ASSUME NEW i, NEW c, Claimed(i, c)' PROVE Claimed(i, c)
      BY <2>1, <1>1, <1>8 DEF Claimed
    <2>2. ASSUME NEW i, NEW c, Settled(i, c)', ~Settled(i, c) PROVE Claimed(i, c) /\ c = t[1]
      <3>1. Names(i, c) /\ rows[i].parent \in enqueued /\ <<c, rows[i].parent>> \notin tasks'
        BY <2>2, <1>1, <1>8 DEF Settled
      <3>2. <<c, rows[i].parent>> = t
        BY <2>2, <3>1, <1>1 DEF Settled
      <3> QED
        BY <3>1, <3>2, <1>3 DEF Claimed
    <2> QED
      BY <2>1, <2>2
  <1>10. RowsOK'
    BY <1>1, <1>6, <1>7 DEF RowsOK
  <1>11. GitOK'
    <2>1. tasks' \subseteq Commits \X Parents /\ batch' \subseteq tasks' /\ enqueued' \subseteq Parents
      BY <1>1 DEF IInv, GitOK
    <2>2. lane' \in {"idle", "cutoff", "references", "publish"}
      BY <1>1
    <2>3. cutoff' \in Nat /\ cutoff' <= durable' + 1
      BY <1>1, <1>4, <1>7
    <2>4. found' \subseteq Commits \X (1 .. cutoff') /\ (lane' # "publish" => found' = {})
      <3>1. found \subseteq Commits \X (1 .. cutoff)
        BY DEF IInv, GitOK
      <3>2. CASE batch' = {}
        BY <3>2, <1>1
      <3>3. CASE batch' # {}
        BY <3>1, <3>3, <1>1
      <3> QED
        BY <3>2, <3>3
    <2>5. stops' \in 0 .. MaxStops
      BY <1>1 DEF IInv, GitOK
    <2> QED
      BY <2>1, <2>2, <2>3, <2>4, <2>5 DEF GitOK
  <1>12. OpenScan'
    BY <1>6, <1>7, <1>2 DEF OpenScan
  <1>13. EnqueuedLate'
    <2>1. ASSUME NEW p, NEW s, Scanned(p, s) PROVE Scanned(p, s)'
      <3>1. PICK i \in 1 .. durable : IsReference(i) /\ rows[i].parent = p /\ rows[i].source = s
        BY <2>1 DEF Scanned
      <3>2. i \in DOMAIN rows /\ i \in DOMAIN rows' /\ rows'[i] = rows[i] /\ i \in 1 .. durable'
        BY <3>1, <1>2, <1>6, <1>7 DEF IsReference
      <3> QED
        BY <3>1, <3>2 DEF Scanned, IsReference
    <2> QED
      BY <1>1, <2>1 DEF IInv, EnqueuedLate, FullyScanned
  <1>14. ReadWhole'
    <2> SUFFICES ASSUME NEW i \in DOMAIN rows', NEW c \in Commits, InBatch(c)', Settled(i, c)' \/ Claimed(i, c)'
                 PROVE  i <= cutoff' /\ <<c, i>> \in found'
      BY DEF ReadWhole
    <2>1. batch' # {} /\ InBatch(c) /\ cutoff' = cutoff /\ found' = found
      BY <1>1 DEF InBatch
    <2>2. Settled(i, c) \/ Claimed(i, c)
      BY <1>9
    <2>3. i \in DOMAIN rows
      BY <2>2 DEF Settled, Claimed, Names, IsReference
    <2> QED
      BY <1>1, <2>1, <2>2, <2>3 DEF IInv, ReadWhole
  <1>15. PublishedWhole'
    <2> SUFFICES ASSUME NEW i \in DOMAIN rows', NEW c \in Commits, Settled(i, c)'
                 PROVE  \E j \in DOMAIN rows' : Current(j, c)' /\ i \in rows'[j].ids
      BY DEF PublishedWhole
    <2>1. i \in DOMAIN rows
      BY <1>8 DEF Settled
    <2>2. CASE c = t[1]
      <3>1. InBatch(c) /\ (Settled(i, c) \/ Claimed(i, c))
        BY <2>2, <1>9 DEF InBatch
      <3>2. <<c, i>> \in found
        BY <3>1, <2>1, <1>1 DEF IInv, ReadWhole
      <3>3. i \in Scope(t[1])
        BY <3>2, <2>2 DEF Scope
      <3>4. PICK m : m = n
        OBVIOUS
      <3>5. m \in DOMAIN rows' /\ rows'[m] = row /\ i \in rows'[m].ids
        BY <3>3, <3>4, <1>5, <1>6
      <3>6. IsObject(m, c)'
        BY <2>2, <3>5, <1>5 DEF IsObject
      <3>7. \A k \in DOMAIN rows' : k <= m
        BY <3>4, <1>6, <1>7, <1>2, RowsAre
      <3> QED
        BY <3>5, <3>6, <3>7 DEF Current
    <2>3. CASE c # t[1]
      <3>1. Settled(i, c)
        BY <2>3, <1>9
      <3>2. PICK j \in DOMAIN rows : Current(j, c) /\ i \in rows[j].ids
        BY <3>1, <2>1 DEF IInv, PublishedWhole
      <3>3. j \in DOMAIN rows' /\ rows'[j] = rows[j]
        BY <1>6
      <3>4. IsObject(j, c)'
        BY <3>2, <3>3, SameRow DEF Current
      <3>5. ASSUME NEW k \in DOMAIN rows', IsObject(k, c)' PROVE k <= j
        <4>1. k # n
          BY <3>5, <2>3, <1>5, <1>6 DEF IsObject
        <4>2. k \in DOMAIN rows /\ rows'[k] = rows[k]
          BY <4>1, <1>6
        <4>3. IsObject(k, c)
          BY <3>5, <4>2, SameRow
        <4> QED
          BY <3>2, <4>2, <4>3 DEF Current
      <3> QED
        BY <3>2, <3>3, <3>4, <3>5 DEF Current
    <2> QED
      BY <2>2, <2>3
  <1>16. ScopesExist'
    <2> SUFFICES ASSUME NEW j \in DOMAIN rows', rows'[j].family = "commit-object"
                 PROVE  rows'[j].ids \subseteq 1 .. j
      BY DEF ScopesExist
    <2>1. CASE j \in DOMAIN rows
      BY <2>1, <1>6 DEF IInv, ScopesExist
    <2>2. CASE j = n
      BY <2>2, <1>4, <1>5, <1>6, <1>7
    <2> QED
      BY <2>1, <2>2, <1>6
  <1> QED
    BY <1>10, <1>11, <1>12, <1>13, <1>14, <1>15, <1>16 DEF IInv

LEMMA InitIInv ==
    ASSUME Init
    PROVE  IInv
  <1>1. /\ rows = <<>> /\ durable = 0 /\ tasks = {} /\ enqueued = {} /\ lane = "idle"
        /\ batch = {} /\ cutoff = 0 /\ found = {} /\ stops = 0
    BY DEF Init
  <1>2. Len(rows) = 0 /\ DOMAIN rows = {} /\ rows \in Seq(References \union Objects)
    BY <1>1
  <1>3. RowsOK
    BY <1>1, <1>2 DEF RowsOK
  <1>4. GitOK
    BY <1>1, ProvenanceAssumption DEF GitOK
  <1>5. OpenScan /\ ReadWhole /\ PublishedWhole /\ ScopesExist
    BY <1>2 DEF OpenScan, ReadWhole, PublishedWhole, ScopesExist
  <1>6. EnqueuedLate
    BY <1>1 DEF EnqueuedLate
  <1> QED
    BY <1>3, <1>4, <1>5, <1>6 DEF IInv

LEMMA Invariance == Spec => []IInv
  <1>1. Init => IInv
    BY InitIInv
  <1>2. IInv /\ [Next]_vars => IInv'
    <2> SUFFICES ASSUME IInv, [Next]_vars PROVE IInv'
      OBVIOUS
    <2>1. ASSUME NEW p \in Parents, EnqueueCommits(p) PROVE IInv'
      BY <2>1, EnqueueCommitsKeeps
    <2>2. ASSUME NEW p \in Parents, NEW s \in Sources, InsertScan(p, s) PROVE IInv'
      BY <2>2, InsertScanKeeps
    <2>3. CASE CommitScan
      BY <2>3, CommitScanKeeps
    <2>4. CASE RollbackScan
      BY <2>4, RollbackScanKeeps
    <2>5. CASE ClaimCommits \/ ReadCutoff \/ ReadReferences
      BY <2>5, GitLaneKeeps
    <2>6. ASSUME NEW t \in batch, PublishObject(t) PROVE IInv'
      BY <2>6, PublishObjectKeeps
    <2>7. CASE FailBatch
      BY <2>7, FailBatchKeeps
    <2>8. CASE Crash
      BY <2>8, CrashKeeps
    <2>9. CASE UNCHANGED vars
      <3>1. UNCHANGED <<rows, durable, tasks, enqueued, lane, batch, cutoff, found, stops>>
        BY <2>9 DEF vars, archive, git
      <3>2. RowsOK' /\ OpenScan' /\ EnqueuedLate' /\ PublishedWhole' /\ ScopesExist'
        BY <3>1, Reading
      <3>3. GitOK'
        BY <3>1 DEF IInv, GitOK
      <3>4. ReadWhole'
        BY <3>1 DEF IInv, ReadWhole, InBatch, Settled, Claimed, Names, IsReference
      <3> QED
        BY <3>2, <3>3, <3>4 DEF IInv
    <2> QED
      BY <2>1, <2>2, <2>3, <2>4, <2>5, <2>6, <2>7, <2>8, <2>9 DEF Next
  <1> QED
    BY <1>1, <1>2, PTL DEF Spec

-----------------------------------------------------------------------------
(* The archive and the Git lane have their types.                          *)
THEOREM CommitProvenanceTypes == Spec => []TypeOK
  <1>1. IInv => TypeOK
    <2> SUFFICES ASSUME IInv PROVE TypeOK
      OBVIOUS
    <2>1. RowsOK /\ GitOK /\ ScopesExist
      BY DEF IInv
    <2>2. ASSUME NEW i \in DOMAIN rows
          PROVE  \/ \E p \in Parents, s \in Sources : rows[i] = Reference(p, s)
                 \/ \E c \in Commits : IsObject(i, c) /\ rows[i].ids \subseteq 1 .. Len(rows)
      <3>1. rows[i] \in References \union Objects /\ i \in 1 .. Len(rows) /\ Len(rows) \in Nat
        BY <2>1, RowsAre
      <3>2. CASE rows[i] \in References
        <4>1. rows[i].parent \in Parents /\ rows[i].source \in Sources
              /\ rows[i] = Reference(rows[i].parent, rows[i].source)
          BY <3>2 DEF References, Reference
        <4> QED
          BY <4>1
      <3>3. CASE rows[i] \in Objects
        <4>1. rows[i].family = "commit-object" /\ rows[i].commit \in Commits
          BY <3>3 DEF Objects
        <4>2. rows[i].ids \subseteq 1 .. i
          BY <2>1, <4>1 DEF ScopesExist
        <4> QED
          BY <3>1, <4>1, <4>2 DEF IsObject
      <3> QED
        BY <3>1, <3>2, <3>3
    <2>3. Len(rows) - durable \in {0, 1}
      BY <2>1 DEF RowsOK
    <2>4. cutoff \in Nat /\ found \subseteq Commits \X Nat
      BY <2>1 DEF GitOK
    <2> QED
      BY <2>1, <2>2, <2>3, <2>4 DEF TypeOK, GitOK
  <1> QED
    BY <1>1, Invariance, PTL

(* Once no commit task is pending, the current fact of every commit names  *)
(* every reference to it, for batches that are read while the API lane     *)
(* publishes, and whatever was rolled back, failed or lost in a crash.     *)
THEOREM CommitProvenanceScopeIsWhole == Spec => []CurrentScopeIsWhole
  <1>1. IInv => CurrentScopeIsWhole
    <2> SUFFICES ASSUME IInv, Drained, NEW i \in DOMAIN rows, NEW c \in Commits, Names(i, c)
                 PROVE  /\ {j \in DOMAIN rows : IsObject(j, c)} # {}
                        /\ i \in rows[Max({j \in DOMAIN rows : IsObject(j, c)})].ids
      BY DEF CurrentScopeIsWhole
    <2> DEFINE current == {j \in DOMAIN rows : IsObject(j, c)}
    <2>1. RowsOK /\ DOMAIN rows = 1 .. Len(rows) /\ Len(rows) \in Nat
      BY RowsAre DEF IInv
    <2>2. Settled(i, c)
      <3>1. rows[i].parent \in Parents
        BY <2>1, NamesAre
      <3> QED
        BY <3>1 DEF Settled, Drained
    <2>3. PICK j \in DOMAIN rows : Current(j, c) /\ i \in rows[j].ids
      BY <2>2 DEF IInv, PublishedWhole
    <2>4. j \in current /\ \A k \in current : j >= k
      BY <2>1, <2>3 DEF Current
    <2>5. current \subseteq Nat
      BY <2>1
    <2> HIDE DEF current
    <2>6. Max(current) \in current /\ \A k \in current : Max(current) >= k
      BY <2>4 DEF Max
    <2>7. Max(current) = j
      BY <2>4, <2>5, <2>6
    <2> QED
      BY <2>3, <2>4, <2>7 DEF current
  <1> QED
    BY <1>1, Invariance, PTL

-----------------------------------------------------------------------------
(* What is named exists.                                                   *)

FoundNames == \A f \in found : Names(f[2], f[1])
ScopesName ==
    \A j \in DOMAIN rows, c \in Commits : IsObject(j, c) => \A i \in rows[j].ids : Names(i, c)

NInv == FoundNames /\ ScopesName

LEMMA RowsStay ==
    ASSUME NInv, UNCHANGED rows, found' \subseteq found
    PROVE  NInv'
  <1>1. FoundNames'
    BY DEF NInv, FoundNames, Names, IsReference
  <1>2. ScopesName'
    BY DEF NInv, ScopesName, Names, IsReference, IsObject
  <1> QED
    BY <1>1, <1>2 DEF NInv

(* A row is appended that names, if it is a commit-object, found references. *)
LEMMA RowsGrow ==
    ASSUME IInv, NInv, NEW row \in References \union Objects, rows' = Append(rows, row), durable = Len(rows),
           found' \subseteq found,
           row \in Objects => \A i \in row.ids : <<row.commit, i>> \in found
    PROVE  NInv'
  <1>1. /\ DOMAIN rows' = DOMAIN rows \union {Len(rows) + 1}
        /\ rows'[Len(rows) + 1] = row
        /\ \A i \in DOMAIN rows : rows'[i] = rows[i]
    BY Appends DEF IInv
  <1>2. \A i, c : Names(i, c) => Names(i, c)'
    BY <1>1 DEF Names, IsReference
  <1>3. FoundNames'
    BY <1>2 DEF NInv, FoundNames
  <1>4. ScopesName'
    <2> SUFFICES ASSUME NEW j \in DOMAIN rows', NEW c \in Commits, IsObject(j, c)', NEW i \in rows'[j].ids
                 PROVE  Names(i, c)'
      BY DEF ScopesName
    <2>1. CASE j \in DOMAIN rows
      <3>1. IsObject(j, c) /\ i \in rows[j].ids
        BY <2>1, <1>1, SameRow
      <3> QED
        BY <2>1, <3>1, <1>2 DEF NInv, ScopesName
    <2>2. CASE j \notin DOMAIN rows
      <3>1. rows'[j] = row /\ row.family = "commit-object" /\ row.commit = c
        BY <2>2, <1>1 DEF IsObject
      <3>2. row \in Objects
        BY <3>1 DEF References
      <3>3. <<c, i>> \in found /\ <<c, i>>[1] = c /\ <<c, i>>[2] = i
        BY <3>1, <3>2
      <3> QED
        BY <3>3, <1>2 DEF NInv, FoundNames
    <2> QED
      BY <2>1, <2>2
  <1> QED
    BY <1>3, <1>4 DEF NInv

(* Unless a publication fails inside its transaction, every reference that *)
(* a commit-object fact names is a committed fact about that commit: what  *)
(* the Git lane read from an open transaction is committed, or lost with   *)
(* the reader, before it is published.                                     *)
THEOREM CommitProvenanceScopeExists ==
    ASSUME ~Rollbacks
    PROVE  Spec => []ScopeExists
  <1>1. Init => NInv
    BY DEF Init, NInv, FoundNames, ScopesName
  <1>2. IInv /\ NInv /\ [Next]_vars => NInv'
    <2> SUFFICES ASSUME IInv, NInv, [Next]_vars PROVE NInv'
      OBVIOUS
    <2>1. ASSUME NEW p \in Parents, EnqueueCommits(p) PROVE NInv'
      BY <2>1, RowsStay DEF EnqueueCommits, git
    <2>2. ASSUME NEW p \in Parents, NEW s \in Sources, InsertScan(p, s) PROVE NInv'
      <3>1. durable = Len(rows) /\ rows' = Append(rows, Reference(p, s)) /\ found' = found
        BY <2>2, NoTransaction DEF IInv, InsertScan, git
      <3>2. Reference(p, s) \in References /\ Reference(p, s) \notin Objects
        BY DEF Reference, References, Objects
      <3> QED
        BY <3>1, <3>2, RowsGrow
    <2>3. CASE CommitScan \/ ClaimCommits \/ ReadCutoff \/ UNCHANGED vars
      BY <2>3, RowsStay DEF CommitScan, ClaimCommits, ReadCutoff, vars, archive, git
    <2>4. CASE ReadReferences
      <3>1. UNCHANGED rows /\ found' = UNION {{<<t[1], i>> : i \in Indexed(t[1])} : t \in batch}
        BY <2>4 DEF ReadReferences, archive
      <3>2. FoundNames'
        <4> SUFFICES ASSUME NEW f \in found' PROVE Names(f[2], f[1])
          BY <3>1 DEF FoundNames, Names, IsReference
        <4>1. PICK t \in batch : f \in {<<t[1], i>> : i \in Indexed(t[1])}
          BY <3>1
        <4>2. PICK i \in Indexed(t[1]) : f = <<t[1], i>>
          BY <4>1
        <4> QED
          BY <4>2 DEF Indexed
      <3>3. ScopesName'
        BY <3>1 DEF NInv, ScopesName, Names, IsReference, IsObject
      <3> QED
        BY <3>2, <3>3 DEF NInv
    <2>5. ASSUME NEW t \in batch, PublishObject(t) PROVE NInv'
      <3> DEFINE row == Object(t[1], Scope(t[1]))
      <3>1. durable = Len(rows) /\ rows' = Append(rows, row) /\ found' \subseteq found
        BY <2>5, NoTransaction DEF IInv, PublishObject
      <3>2. t[1] \in Commits /\ found \subseteq Commits \X (1 .. cutoff) /\ cutoff \in Nat
        BY DEF IInv, GitOK
      <3>3. \A i \in Scope(t[1]) : <<t[1], i>> \in found
        <4> SUFFICES ASSUME NEW i \in Scope(t[1]) PROVE <<t[1], i>> \in found
          OBVIOUS
        <4>1. PICK f \in found : f[1] = t[1] /\ f[2] = i
          BY DEF Scope
        <4>2. f = <<f[1], f[2]>>
          BY <3>2
        <4> QED
          BY <4>1, <4>2
      <3>4. Scope(t[1]) \subseteq Nat
        BY <3>2 DEF Scope
      <3>5. row \in Objects /\ row.commit = t[1] /\ row.ids = Scope(t[1])
        BY <3>2, <3>4 DEF Object, Objects
      <3> HIDE DEF row
      <3> QED
        BY <3>1, <3>3, <3>5, RowsGrow
    <2>6. CASE FailBatch
      BY <2>6, RowsStay DEF FailBatch, archive
    <2>7. CASE Crash
      <3>1. rows' = SubSeq(rows, 1, durable) /\ durable' = durable /\ found' = {}
        BY <2>7 DEF Crash
      <3>2. /\ DOMAIN rows' \subseteq DOMAIN rows
            /\ \A i \in DOMAIN rows' : rows'[i] = rows[i] /\ i <= durable
            /\ \A i \in DOMAIN rows : i <= durable => i \in DOMAIN rows'
        BY <3>1, Truncates DEF IInv
      <3>3. ScopesName'
        <4> SUFFICES ASSUME NEW j \in DOMAIN rows', NEW c \in Commits, IsObject(j, c)', NEW i \in rows'[j].ids
                     PROVE  Names(i, c)'
          BY DEF ScopesName
        <4>1. j \in DOMAIN rows /\ rows'[j] = rows[j] /\ j <= durable /\ IsObject(j, c)
          BY <3>2, SameRow
        <4>2. Names(i, c) /\ i \in DOMAIN rows
          BY <4>1 DEF NInv, ScopesName, Names, IsReference
        <4>3. i \in 1 .. j /\ j \in Nat /\ durable \in Nat
          BY <4>1, RowsAre DEF IInv, ScopesExist, IsObject, RowsOK
        <4>4. i \in DOMAIN rows' /\ rows'[i] = rows[i]
          BY <3>2, <4>1, <4>2, <4>3
        <4> QED
          BY <4>2, <4>4, SameRow
      <3> QED
        BY <3>1, <3>3 DEF NInv, FoundNames
    <2> QED
      BY <2>1, <2>2, <2>3, <2>4, <2>5, <2>6, <2>7 DEF Next, RollbackScan
  <1>3. IInv /\ NInv => ScopeExists
    <2> SUFFICES ASSUME IInv, NInv, NEW j \in 1 .. durable, NEW c \in Commits, IsObject(j, c), NEW i \in rows[j].ids
                 PROVE  i <= durable /\ Names(i, c)
      BY DEF ScopeExists
    <2>1. j \in DOMAIN rows /\ rows[j].family = "commit-object" /\ durable \in Nat
      BY DEF IsObject, IInv, RowsOK
    <2>2. i \in 1 .. j
      BY <2>1 DEF IInv, ScopesExist
    <2> QED
      BY <2>1, <2>2 DEF NInv, ScopesName
  <1> QED
    BY <1>1, <1>2, <1>3, Invariance, PTL DEF Spec

=============================================================================
