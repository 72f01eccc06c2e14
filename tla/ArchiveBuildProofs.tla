-------------------------- MODULE ArchiveBuildProofs --------------------------
(***************************************************************************)
(* Proofs about ArchiveBuild and the files of KgaFile, for every history,  *)
(* set of rows, set of engines, archive without checkpoints and number of  *)
(* faults.                                                                 *)
(***************************************************************************)
EXTENDS ArchiveBuild, FiniteSetTheorems, SequenceTheorems, WellFoundedInduction, TLAPS

-----------------------------------------------------------------------------
(* Files. *)

Checkpoints == [kind : {"checkpoint"}, previous : Nat]
Frames == Trees \union CommitFrames \union Indexes \union Checkpoints \union {Footer, Torn}

Trailer(f, i) == i \in DOMAIN f /\ f[i].kind \in {"checkpoint", "footer"}

(* What has been recorded exactly as long as nothing is lost that was not  *)
(* asked for.                                                              *)
Trusted == ~DeleteFails /\ ~PowerFails

(* The manifests that a frame at n may hold.                               *)
Fits(f, n) == {m \in Records : Rooted(f, m, n) /\ (Trusted => Exact(f, m))}

(* No link leads forward, and no trailer comes first.                      *)
Linked(f) ==
    \A i \in DOMAIN f :
        /\ f[i].kind = "checkpoint" => f[i].previous \in 0 .. i - 1
        /\ Trailer(f, i) => i > 1

(* A checkpoint follows its commit and links to the trailer before it.     *)
CheckpointOK(f, i) ==
    /\ i > 1 /\ f[i - 1].kind = "commit"
    /\ f[i].previous \in 0 .. i - 2 /\ (f[i].previous # 0 => Trailer(f, f[i].previous))
    /\ \A j \in f[i].previous + 1 .. i - 1 : ~Trailer(f, j)

(* A footer follows its index, which holds what the checkpoint before it   *)
(* leads to.                                                               *)
FooterOK(f, i) ==
    /\ i > 1 /\ f[i - 1].kind = "index"
    /\ \A c \in 1 .. i - 1 :
          f[c].kind = "checkpoint" /\ (\A j \in c + 1 .. i - 1 : f[j].kind # "checkpoint")
             => f[i - 1].commits = Chain(f)[c]

FrameOK(f, i) ==
    /\ f[i].kind = "commit" => f[i].manifest \in Fits(f, i)
    /\ f[i].kind = "index" => f[i].commits \in Seq(Fits(f, i))
    /\ f[i].kind = "checkpoint" => CheckpointOK(f, i)
    /\ f[i].kind = "footer" => FooterOK(f, i)

Sound(f) == f \in Seq(Frames) /\ \A i \in DOMAIN f : FrameOK(f, i)

(* A commit may be appended: nothing lies behind the last trailer.         *)
Ready(f) == f = <<>> \/ Trailer(f, Len(f))

-----------------------------------------------------------------------------
(* The parts of the inductive invariant. *)

ShasOf(commits) == [i \in DOMAIN commits |-> commits[i].sha]

(* What of the file is not synced yet.                                     *)
Synced == {"idle", "open", "ready", "prepared", "begun", "indexed",
           "mark_current", "mark_version", "mark_pending", "finalized", "removing"}

FileOK ==
    /\ Sound(file) /\ synced \in 0 .. Len(file)
    /\ pc \in Synced => synced = Len(file)
    /\ pc \notin {"idle", "open", "anchor"} => Ready(Durable)
    /\ pc \in {"anchor", "finalizing"} =>
          /\ Len(file) = synced + 2
          /\ file[synced + 1] = FinalIndex(Recorded) /\ file[synced + 2] = Footer

(* The commit that is written and not synced.                              *)
Coming == file[Len(file) - 1].manifest
Changes == Recorded # <<>> /\ Tip.engine # engine

WrittenOK ==
    pc = "written" =>
       /\ Len(file) >= synced + 2
       /\ \A i \in synced + 1 .. Len(file) - 2 : file[i].kind = "page"
       /\ file[Len(file) - 1].kind = "commit" /\ file[Len(file)] = Checkpoint(synced)
       /\ Coming.sha = Target /\ Coming.captured = db /\ Coming.engine = engine
       /\ Changes => Coming.snapshot

StateOK ==
    /\ {db, pinned} \subseteq Published \union {None}
    /\ {current, pending} \subseteq Commits \union {None}
    /\ version \in BOOLEAN /\ force \in BOOLEAN
    /\ pc \in Stages /\ route \in {"none", "built", "noop"}
    /\ history \in Histories /\ engine \in Engines
    /\ faults \in 0 .. MaxFaults /\ asks \in 0 .. MaxAsks

(* What the running build knows of the archive.                            *)
BuildOK ==
    /\ pc # "idle" => IsPrefix(ShasOf(Recorded), history)
    /\ pc # "idle" /\ Changes => force
    /\ WholeAtBoundaries(Recorded)
    /\ pc \in {"prepared", "begun", "indexed", "written"} => ~AllRecorded
    /\ pc = "prepared" => pending \in {None, Target}
    /\ pc \in {"begun", "indexed", "written"} => pending = Target
    /\ pc \in {"indexed", "written"} => db \in Published

(* The base of a difference is the generation of the archive's head.       *)
PinnedOK ==
    pc \in {"prepared", "begun", "indexed"} /\ pinned # None =>
       /\ ~force /\ Recorded # <<>>
       /\ Trusted => pinned = Tip.captured
       /\ pc # "indexed" \/ route = "noop" => db = pinned

(* When the database holds the generation of the archive's head.           *)
Holds == db # None => db = Tip.captured
BaseOK ==
    Trusted =>
       /\ pending # None /\ pending = Tip.sha => Holds
       /\ Aligned => Holds
       /\ pc \in {"mark_current", "mark_version", "mark_pending"} => Holds
       /\ pc = "removing" => db = None

IInv == FileOK /\ WrittenOK /\ StateOK /\ BuildOK /\ PinnedOK /\ BaseOK

-----------------------------------------------------------------------------
(* Numbers. *)

LEMMA Least ==
    ASSUME NEW T \in SUBSET Nat, T # {} PROVE \E n \in T : \A m \in T : n <= m
  <1>1. PICK n \in T : \A m \in T : ~(<<m, n>> \in OpToRel(<, Nat))
    BY WFMin, NatLessThanWellFounded
  <1>2. \A m \in T : ~(m < n)
    BY <1>1 DEF OpToRel
  <1> QED
    BY <1>2

(* The greatest of some positions: that of which the distance to the end   *)
(* is the least.                                                           *)
LEMMA Greatest ==
    ASSUME NEW n \in Nat, NEW S \in SUBSET (1 .. n), S # {}
    PROVE  Max(S) \in S /\ \A y \in S : y <= Max(S)
  <1> DEFINE Distances == {n - x : x \in S}
  <1>0. \A x \in S : x \in Nat /\ n - x \in Nat
    OBVIOUS
  <1>1. Distances \in SUBSET Nat /\ Distances # {}
    <2>1. PICK x : x \in S
      OBVIOUS
    <2>2. n - x \in Distances
      BY <2>1
    <2>3. \A d \in Distances : d \in Nat
      BY <1>0
    <2> HIDE DEF Distances
    <2> QED
      BY <2>2, <2>3
  <1> HIDE DEF Distances
  <1>2. PICK d \in Distances : \A e \in Distances : d <= e
    BY <1>1, Least
  <1>3. PICK x \in S : d = n - x
    BY DEF Distances
  <1>4. ASSUME NEW y \in S PROVE x >= y
    <2>1. n - y \in Distances
      BY DEF Distances
    <2>2. n - x <= n - y
      BY <1>2, <1>3, <2>1
    <2> QED
      BY <1>0, <2>2
  <1>5. Max(S) \in S /\ \A y \in S : Max(S) >= y
    BY <1>4 DEF Max
  <1> QED
    BY <1>0, <1>5

-----------------------------------------------------------------------------
(* Frames and positions. *)

LEMMA FramesAre ==
    ASSUME NEW x \in Frames
    PROVE  /\ x.kind = "commit" => x.manifest \in Records
           /\ x.kind = "index" => x.commits \in Seq(Records)
           /\ x.kind = "checkpoint" => x.previous \in Nat
           /\ x.kind = "page" => x.rows \in SUBSET (Rows \union CovRows)
           /\ x.kind \in {"page", "commit", "index", "checkpoint", "footer", "torn"}
  BY DEF Frames, Trees, CommitFrames, Indexes, Checkpoints, Footer, Torn

LEMMA FileIs ==
    ASSUME NEW f \in Seq(Frames)
    PROVE  DOMAIN f = 1 .. Len(f) /\ Len(f) \in Nat /\ \A i \in DOMAIN f : f[i] \in Frames
  OBVIOUS

LEMMA LatestIs ==
    ASSUME NEW f \in Seq(Frames), NEW k
    PROVE  /\ LatestOf(f, k) \in 0 .. Len(f)
           /\ LatestOf(f, k) # 0 => f[LatestOf(f, k)].kind = k
           /\ \A j \in LatestOf(f, k) + 1 .. Len(f) : f[j].kind # k
  <1> DEFINE S == {i \in 1 .. Len(f) : f[i].kind = k}
  <1>1. LatestOf(f, k) = IF S # {} THEN Max(S) ELSE 0
    BY DEF LatestOf, SelectLastInSeq
  <1>2. CASE S = {}
    BY <1>1, <1>2
  <1>3. CASE S # {}
    <2>0. S \in SUBSET (1 .. Len(f)) /\ Len(f) \in Nat
      OBVIOUS
    <2>1. Max(S) \in S /\ \A y \in S : y <= Max(S)
      <3> HIDE DEF S
      <3> QED
        BY <1>3, <2>0, Greatest
    <2>2. LatestOf(f, k) = Max(S)
      BY <1>1, <1>3
    <2>3. \A j \in 1 .. Len(f) : f[j].kind = k => j <= Max(S)
      BY <2>1
    <2> HIDE DEF S
    <2>4. Max(S) \in 1 .. Len(f) /\ f[Max(S)].kind = k
      BY <2>1 DEF S
    <2> QED
      BY <2>2, <2>3, <2>4
  <1> QED
    BY <1>2, <1>3

(* The files have the same first n frames. *)
Agree(f, g, n) ==
    n \in Nat /\ n <= Len(f) /\ n <= Len(g) /\ \A i \in 1 .. n : f[i] = g[i]

LEMMA AgreeIs ==
    ASSUME NEW f \in Seq(Frames), NEW g \in Seq(Frames), NEW n, Agree(f, g, n)
    PROVE  /\ \A i \in 1 .. n : i \in DOMAIN f /\ i \in DOMAIN g /\ f[i] = g[i]
           /\ Agree(g, f, n) /\ \A m \in 0 .. n : Agree(f, g, m)
  BY DEF Agree

LEMMA CutAgrees ==
    ASSUME NEW f \in Seq(Frames), NEW n \in 0 .. Len(f)
    PROVE  /\ SubSeq(f, 1, n) \in Seq(Frames) /\ Len(SubSeq(f, 1, n)) = n
           /\ Agree(f, SubSeq(f, 1, n), n)
  BY DEF Agree

LEMMA AppendAgrees ==
    ASSUME NEW f \in Seq(Frames), NEW x \in Frames
    PROVE  /\ Append(f, x) \in Seq(Frames) /\ Len(Append(f, x)) = Len(f) + 1
           /\ Append(f, x)[Len(f) + 1] = x /\ Agree(f, Append(f, x), Len(f))
  BY DEF Agree

-----------------------------------------------------------------------------
(* The recursive functions on files have the values their definitions ask  *)
(* for.                                                                    *)

ChainStep(f, h, i) ==
    IF i = 0 THEN <<>>
    ELSE IF f[i].kind = "footer" THEN f[i - 1].commits
    ELSE IF f[i].kind = "checkpoint" THEN Append(h[f[i].previous], f[i - 1].manifest)
    ELSE <<>>

ScanStep(f, h, i) ==
    IF i = 0 THEN <<>>
    ELSE IF f[i].kind = "commit" THEN Append(h[i - 1], f[i].manifest)
    ELSE h[i - 1]

LEMMA ChainUnfolds ==
    ASSUME NEW f \in Seq(Frames), Linked(f)
    PROVE  \A i \in 0 .. Len(f) : Chain(f)[i] = ChainStep(f, Chain(f), i)
  <1> DEFINE Solves(h, n) == h = [i \in 0 .. n |-> ChainStep(f, h, i)]
             T == {n \in 0 .. Len(f) : ~\E h : Solves(h, n)}
  <1>1. T = {}
    <2> SUFFICES ASSUME T # {} PROVE FALSE
      OBVIOUS
    <2>1. PICK n \in T : \A m \in T : n <= m
      <3>1. T \in SUBSET Nat
        OBVIOUS
      <3> QED
        BY <3>1, Least
    <2>2. CASE n = 0
      <3> DEFINE h == [i \in 0 .. 0 |-> <<>>]
      <3>1. Solves(h, 0)
        BY DEF ChainStep
      <3> QED
        BY <2>2, <3>1
    <2>3. CASE n # 0
      <3>1. n \in 1 .. Len(f) /\ n - 1 \in 0 .. Len(f) /\ n - 1 \notin T
        BY <2>1, <2>3
      <3>2. PICK h : Solves(h, n - 1)
        BY <3>1
      <3> DEFINE more == [i \in 0 .. n |-> ChainStep(f, h, i)]
      <3>3. \A i \in 0 .. n - 1 : more[i] = h[i]
        <4> HIDE DEF T
        <4>1. n \in Nat /\ n - 1 \in Nat
          BY <3>1
        <4>2. \A i \in 0 .. n - 1 : h[i] = ChainStep(f, h, i)
          BY <3>2
        <4>3. \A i \in 0 .. n : more[i] = ChainStep(f, h, i)
          OBVIOUS
        <4> HIDE DEF more, Solves
        <4> QED
          BY <4>1, <4>2, <4>3
      <3>4. ASSUME NEW i \in 0 .. n PROVE ChainStep(f, more, i) = ChainStep(f, h, i)
        <4>1. CASE i = 0
          BY <4>1 DEF ChainStep
        <4>2. CASE i # 0 /\ f[i].kind = "checkpoint"
          <5>1. i \in DOMAIN f /\ f[i].previous \in 0 .. n - 1
            BY <3>1, <4>2 DEF Linked
          <5> HIDE DEF more
          <5> QED
            BY <3>3, <4>2, <5>1 DEF ChainStep
        <4>3. CASE f[i].kind # "checkpoint"
          BY <4>3 DEF ChainStep
        <4> QED
          BY <4>1, <4>2, <4>3
      <3>5. Solves(more, n)
        BY <3>4
      <3> QED
        BY <3>5
    <2> QED
      BY <2>2, <2>3
  <1>2. Len(f) \in Nat
    OBVIOUS
  <1>3. \E h : Solves(h, Len(f))
    BY <1>1, <1>2
  <1>4. Chain(f) = CHOOSE h : Solves(h, Len(f))
    BY DEF Chain, ChainStep
  <1>5. Solves(Chain(f), Len(f))
    BY <1>3, <1>4
  <1> QED
    BY <1>5

LEMMA ScanUnfolds ==
    ASSUME NEW f \in Seq(Frames)
    PROVE  \A i \in 0 .. Len(f) : Scan(f)[i] = ScanStep(f, Scan(f), i)
  <1> DEFINE Solves(h, n) == h = [i \in 0 .. n |-> ScanStep(f, h, i)]
             T == {n \in 0 .. Len(f) : ~\E h : Solves(h, n)}
  <1>1. T = {}
    <2> SUFFICES ASSUME T # {} PROVE FALSE
      OBVIOUS
    <2>1. PICK n \in T : \A m \in T : n <= m
      <3>1. T \in SUBSET Nat
        OBVIOUS
      <3> QED
        BY <3>1, Least
    <2>2. CASE n = 0
      <3> DEFINE h == [i \in 0 .. 0 |-> <<>>]
      <3>1. Solves(h, 0)
        BY DEF ScanStep
      <3> QED
        BY <2>2, <3>1
    <2>3. CASE n # 0
      <3>1. n \in 1 .. Len(f) /\ n - 1 \in 0 .. Len(f) /\ n - 1 \notin T
        BY <2>1, <2>3
      <3>2. PICK h : Solves(h, n - 1)
        BY <3>1
      <3> DEFINE more == [i \in 0 .. n |-> ScanStep(f, h, i)]
      <3>3. \A i \in 0 .. n - 1 : more[i] = h[i]
        <4> HIDE DEF T
        <4>1. n \in Nat /\ n - 1 \in Nat
          BY <3>1
        <4>2. \A i \in 0 .. n - 1 : h[i] = ScanStep(f, h, i)
          BY <3>2
        <4>3. \A i \in 0 .. n : more[i] = ScanStep(f, h, i)
          OBVIOUS
        <4> HIDE DEF more, Solves
        <4> QED
          BY <4>1, <4>2, <4>3
      <3>4. \A i \in 0 .. n : i # 0 => i - 1 \in 0 .. n - 1
        OBVIOUS
      <3>5. \A i \in 0 .. n : ScanStep(f, more, i) = ScanStep(f, h, i)
        <4> HIDE DEF more
        <4> QED
          BY <3>3, <3>4 DEF ScanStep
      <3>6. Solves(more, n)
        BY <3>5
      <3> QED
        BY <3>6
    <2> QED
      BY <2>2, <2>3
  <1>2. Len(f) \in Nat
    OBVIOUS
  <1>3. \E h : Solves(h, Len(f))
    BY <1>1, <1>2
  <1>4. Scan(f) = CHOOSE h : Solves(h, Len(f))
    BY DEF Scan, ScanStep
  <1>5. Solves(Scan(f), Len(f))
    BY <1>3, <1>4
  <1> QED
    BY <1>5

(* They depend on the frames before only. *)
LEMMA ChainAgrees ==
    ASSUME NEW f \in Seq(Frames), NEW g \in Seq(Frames), Linked(f), Linked(g),
           NEW n, Agree(f, g, n)
    PROVE  \A i \in 0 .. n : Chain(f)[i] = Chain(g)[i]
  <1> DEFINE T == {i \in 0 .. n : Chain(f)[i] # Chain(g)[i]}
  <1> SUFFICES ASSUME T # {} PROVE FALSE
    OBVIOUS
  <1>1. n \in Nat /\ n <= Len(f) /\ n <= Len(g)
    BY DEF Agree
  <1>2. PICK i \in T : \A m \in T : i <= m
    <2>1. T \in SUBSET Nat
      BY <1>1
    <2> QED
      BY <2>1, Least
  <1>3. i \in 0 .. Len(f) /\ i \in 0 .. Len(g)
    BY <1>1
  <1>4. CASE i = 0
    BY <1>3, <1>4, ChainUnfolds DEF ChainStep
  <1>5. CASE i # 0
    <2>1. i \in DOMAIN f /\ i \in DOMAIN g /\ i \in 1 .. n /\ f[i] = g[i]
      BY <1>1, <1>5, AgreeIs
    <2>2. f[i].kind = "checkpoint" => Chain(f)[f[i].previous] = Chain(g)[f[i].previous]
      <3>1. \A m \in 0 .. i - 1 : m \in 0 .. n /\ m \notin T
        BY <1>1, <1>2, <2>1
      <3>2. \A m \in 0 .. i - 1 : Chain(f)[m] = Chain(g)[m]
        BY <3>1
      <3> QED
        BY <2>1, <3>2 DEF Linked
    <2>3. f[i].kind \in {"checkpoint", "footer"} => f[i - 1] = g[i - 1]
      BY <1>1, <2>1, AgreeIs DEF Linked, Trailer
    <2> QED
      BY <1>2, <1>3, <1>5, <2>1, <2>2, <2>3, ChainUnfolds DEF ChainStep
  <1> QED
    BY <1>4, <1>5

LEMMA ScanAgrees ==
    ASSUME NEW f \in Seq(Frames), NEW g \in Seq(Frames), NEW n, Agree(f, g, n)
    PROVE  \A i \in 0 .. n : Scan(f)[i] = Scan(g)[i]
  <1> DEFINE T == {i \in 0 .. n : Scan(f)[i] # Scan(g)[i]}
  <1> SUFFICES ASSUME T # {} PROVE FALSE
    OBVIOUS
  <1>1. n \in Nat /\ n <= Len(f) /\ n <= Len(g)
    BY DEF Agree
  <1>2. PICK i \in T : \A m \in T : i <= m
    <2>1. T \in SUBSET Nat
      BY <1>1
    <2> QED
      BY <2>1, Least
  <1>3. i \in 0 .. Len(f) /\ i \in 0 .. Len(g)
    BY <1>1
  <1>4. CASE i = 0
    BY <1>3, <1>4, ScanUnfolds DEF ScanStep
  <1>5. CASE i # 0
    <2>1. i \in 1 .. n /\ i - 1 \in 0 .. n /\ f[i] = g[i]
      BY <1>1, <1>5, AgreeIs
    <2>2. i - 1 \notin T
      BY <1>1, <1>2, <2>1
    <2>3. Scan(f)[i - 1] = Scan(g)[i - 1]
      BY <2>1, <2>2
    <2> QED
      BY <1>2, <1>3, <1>5, <2>1, <2>3, ScanUnfolds DEF ScanStep
  <1> QED
    BY <1>4, <1>5

-----------------------------------------------------------------------------
(* Soundness is kept by cutting a file and by adding sound frames. *)

LEMMA ExactAgrees ==
    ASSUME NEW f, NEW g, NEW n \in Nat, Agree(f, g, n), NEW m, Rooted(f, m, n)
    PROVE  Rooted(g, m, n) /\ (Exact(f, m) <=> Exact(g, m))
  <1>1. \A root : IsRoot(f, root, n) => IsRoot(g, root, n) /\ RowsAt(f, root) = RowsAt(g, root)
    BY DEF IsRoot, RowsAt, Agree
  <1>2. Rooted(g, m, n) /\ RowsAt(f, m.nodes) = RowsAt(g, m.nodes)
        /\ (m.coverage # None => RowsAt(f, m.coverage) = RowsAt(g, m.coverage))
    BY <1>1 DEF Rooted
  <1>3. VerifySnapshot(f, m) <=> VerifySnapshot(g, m)
    BY <1>2 DEF VerifySnapshot, LoadCoverage
  <1> QED
    BY <1>2, <1>3 DEF Exact

LEMMA FitsAgree ==
    ASSUME NEW f \in Seq(Frames), NEW g \in Seq(Frames), NEW n, Agree(f, g, n)
    PROVE  Fits(f, n) = Fits(g, n)
  <1>1. n \in Nat /\ Agree(g, f, n)
    BY AgreeIs DEF Agree
  <1> QED
    BY <1>1, ExactAgrees DEF Fits

LEMMA FitsGrow ==
    ASSUME NEW f, NEW i \in Nat, NEW j \in Nat, i <= j
    PROVE  Fits(f, i) \subseteq Fits(f, j)
  BY DEF Fits, Rooted, IsRoot

LEMMA SoundIsLinked ==
    ASSUME NEW f, Sound(f) PROVE f \in Seq(Frames) /\ Linked(f)
  BY DEF Sound, Linked, FrameOK, CheckpointOK, FooterOK, Trailer

LEMMA FrameAgrees ==
    ASSUME NEW f \in Seq(Frames), NEW g \in Seq(Frames), Linked(f), Linked(g),
           NEW n, Agree(f, g, n), NEW i \in 1 .. n, FrameOK(f, i)
    PROVE  FrameOK(g, i)
  <1>1. n \in Nat /\ \A j \in 1 .. n : j \in DOMAIN f /\ j \in DOMAIN g /\ f[j] = g[j]
    BY AgreeIs DEF Agree
  <1>2. \A j \in 1 .. n : Trailer(f, j) <=> Trailer(g, j)
    BY <1>1 DEF Trailer
  <1>3. Fits(f, i) = Fits(g, i)
    <2>1. Agree(f, g, i)
      BY <1>1, AgreeIs
    <2> QED
      BY <2>1, FitsAgree
  <1>4. f[i].kind = "checkpoint" => CheckpointOK(g, i)
    <2> SUFFICES ASSUME f[i].kind = "checkpoint" PROVE CheckpointOK(g, i)
      OBVIOUS
    <2>1. CheckpointOK(f, i)
      BY DEF FrameOK
    <2>2. f[i] = g[i] /\ f[i - 1] = g[i - 1]
      BY <1>1, <2>1 DEF CheckpointOK
    <2>3. \A j \in 1 .. i - 1 : Trailer(f, j) <=> Trailer(g, j)
      BY <1>1, <1>2
    <2>4. i > 1 /\ f[i - 1].kind = "commit" /\ f[i].previous \in 0 .. i - 2
          /\ (f[i].previous # 0 => Trailer(f, f[i].previous))
          /\ \A j \in f[i].previous + 1 .. i - 1 : ~Trailer(f, j)
      BY <2>1 DEF CheckpointOK
    <2>5. f[i].previous # 0 => Trailer(g, f[i].previous)
      BY <1>1, <2>3, <2>4
    <2>6. \A j \in f[i].previous + 1 .. i - 1 : ~Trailer(g, j)
      BY <1>1, <2>3, <2>4
    <2> QED
      BY <2>2, <2>4, <2>5, <2>6 DEF CheckpointOK
  <1>5. f[i].kind = "footer" => FooterOK(g, i)
    <2> SUFFICES ASSUME f[i].kind = "footer" PROVE FooterOK(g, i)
      OBVIOUS
    <2>1. FooterOK(f, i)
      BY DEF FrameOK
    <2>2. f[i] = g[i] /\ f[i - 1] = g[i - 1] /\ \A j \in 1 .. i - 1 : f[j] = g[j]
      BY <1>1, <2>1 DEF FooterOK
    <2>3. \A j \in 1 .. i - 1 : Chain(f)[j] = Chain(g)[j]
      <3>1. \A j \in 0 .. n : Chain(f)[j] = Chain(g)[j]
        BY ChainAgrees
      <3> QED
        BY <1>1, <3>1
    <2>4. i > 1 /\ f[i - 1].kind = "index"
      BY <2>1 DEF FooterOK
    <2>5. ASSUME NEW c \in 1 .. i - 1, g[c].kind = "checkpoint",
                 \A j \in c + 1 .. i - 1 : g[j].kind # "checkpoint"
          PROVE  g[i - 1].commits = Chain(g)[c]
      <3>1. f[c].kind = "checkpoint" /\ \A j \in c + 1 .. i - 1 : f[j].kind # "checkpoint"
        BY <1>1, <2>2, <2>5
      <3>2. f[i - 1].commits = Chain(f)[c]
        BY <2>1, <3>1 DEF FooterOK
      <3> QED
        BY <2>2, <2>3, <3>2
    <2> QED
      BY <2>2, <2>4, <2>5 DEF FooterOK
  <1> QED
    BY <1>1, <1>3, <1>4, <1>5 DEF FrameOK

LEMMA SoundCut ==
    ASSUME NEW f, Sound(f), NEW n \in 0 .. Len(f)
    PROVE  Sound(SubSeq(f, 1, n))
  <1> DEFINE g == SubSeq(f, 1, n)
  <1>1. f \in Seq(Frames) /\ Linked(f)
    BY SoundIsLinked
  <1>2. g \in Seq(Frames) /\ Len(g) = n /\ Agree(f, g, n)
    BY <1>1, CutAgrees
  <1> HIDE DEF g
  <1>3. DOMAIN g = 1 .. n /\ DOMAIN f = 1 .. Len(f) /\ n \in Nat /\ n <= Len(f)
    BY <1>1, <1>2, FileIs
  <1>4. Linked(g)
    BY <1>1, <1>2, <1>3 DEF Linked, Agree, Trailer
  <1>5. ASSUME NEW i \in 1 .. n PROVE FrameOK(g, i)
    <2>1. FrameOK(f, i)
      BY <1>3 DEF Sound
    <2> QED
      BY <1>1, <1>2, <1>4, <2>1, FrameAgrees
  <1>6. Sound(g)
    BY <1>2, <1>3, <1>5 DEF Sound
  <1> QED
    BY <1>6 DEF g

LEMMA SoundExtends ==
    ASSUME NEW f, Sound(f), NEW g \in Seq(Frames), Agree(f, g, Len(f)), Linked(g),
           \A i \in Len(f) + 1 .. Len(g) : FrameOK(g, i)
    PROVE  Sound(g)
  <1>1. f \in Seq(Frames) /\ Linked(f)
    BY SoundIsLinked
  <1>2. DOMAIN f = 1 .. Len(f) /\ DOMAIN g = 1 .. Len(g) /\ Len(f) \in Nat /\ Len(g) \in Nat
    BY <1>1, FileIs
  <1>3. ASSUME NEW i \in 1 .. Len(f) PROVE FrameOK(g, i)
    <2>1. FrameOK(f, i)
      BY <1>2 DEF Sound
    <2> QED
      BY <1>1, <2>1, FrameAgrees
  <1> QED
    BY <1>2, <1>3 DEF Sound

-----------------------------------------------------------------------------
(* What a reader finds is made of manifests that fit. *)

LEMMA ChainFits ==
    ASSUME NEW f, Sound(f)
    PROVE  \A i \in 0 .. Len(f) : Chain(f)[i] \in Seq(Fits(f, i))
  <1>1. f \in Seq(Frames) /\ Linked(f)
    BY SoundIsLinked
  <1>2. DOMAIN f = 1 .. Len(f) /\ Len(f) \in Nat
    BY <1>1, FileIs
  <1> DEFINE T == {i \in 0 .. Len(f) : Chain(f)[i] \notin Seq(Fits(f, i))}
  <1> SUFFICES ASSUME T # {} PROVE FALSE
    OBVIOUS
  <1>3. PICK i \in T : \A m \in T : i <= m
    <2>1. T \in SUBSET Nat
      BY <1>2
    <2> QED
      BY <2>1, Least
  <1>4. \A m \in 0 .. i - 1 : Chain(f)[m] \in Seq(Fits(f, m))
    BY <1>2, <1>3
  <1>5. i \in 0 .. Len(f) /\ Chain(f)[i] \notin Seq(Fits(f, i))
    OBVIOUS
  <1> HIDE DEF T
  <1>6. Chain(f)[i] = ChainStep(f, Chain(f), i)
    BY <1>1, <1>5, ChainUnfolds
  <1>7. \A m \in 0 .. i : Seq(Fits(f, m)) \subseteq Seq(Fits(f, i))
    <2>1. \A m \in 0 .. i : Fits(f, m) \subseteq Fits(f, i)
      BY <1>2, <1>5, FitsGrow
    <2> QED
      BY <2>1, SeqMonotonic
  <1>8. <<>> \in Seq(Fits(f, i))
    OBVIOUS
  <1>9. CASE i = 0
    BY <1>5, <1>6, <1>8, <1>9 DEF ChainStep
  <1>10. CASE i # 0
    <2>1. i \in DOMAIN f /\ FrameOK(f, i) /\ i - 1 \in 0 .. i
      BY <1>2, <1>5, <1>10 DEF Sound
    <2>2. CASE f[i].kind = "footer"
      <3>1. i > 1 /\ f[i - 1].kind = "index"
        BY <2>1, <2>2 DEF FrameOK, FooterOK
      <3>2. FrameOK(f, i - 1)
        BY <1>2, <2>1, <3>1 DEF Sound
      <3>3. f[i - 1].commits \in Seq(Fits(f, i - 1))
        BY <3>1, <3>2 DEF FrameOK
      <3>4. f[i - 1].commits \in Seq(Fits(f, i))
        BY <1>7, <2>1, <3>3
      <3> QED
        BY <1>5, <1>6, <1>10, <2>2, <3>4 DEF ChainStep
    <2>3. CASE f[i].kind = "checkpoint"
      <3>1. i > 1 /\ f[i - 1].kind = "commit" /\ f[i].previous \in 0 .. i - 2
        BY <2>1, <2>3 DEF FrameOK, CheckpointOK
      <3>2. FrameOK(f, i - 1)
        BY <1>2, <2>1, <3>1 DEF Sound
      <3>3. f[i - 1].manifest \in Fits(f, i - 1)
        BY <3>1, <3>2 DEF FrameOK
      <3>4. f[i - 1].manifest \in Fits(f, i)
        BY <1>5, <2>1, <3>1, <3>3, FitsGrow
      <3>5. f[i].previous \in 0 .. i - 1 /\ f[i].previous \in 0 .. i
        BY <1>5, <3>1
      <3>6. Chain(f)[f[i].previous] \in Seq(Fits(f, i))
        BY <1>4, <1>7, <3>5
      <3>7. Append(Chain(f)[f[i].previous], f[i - 1].manifest) \in Seq(Fits(f, i))
        BY <3>4, <3>6
      <3> QED
        BY <1>5, <1>6, <1>10, <2>3, <3>7 DEF ChainStep
    <2>4. CASE f[i].kind \notin {"footer", "checkpoint"}
      BY <1>5, <1>6, <1>8, <1>10, <2>4 DEF ChainStep
    <2> QED
      BY <2>2, <2>3, <2>4
  <1> QED
    BY <1>9, <1>10

LEMMA ScanFits ==
    ASSUME NEW f, Sound(f)
    PROVE  \A i \in 0 .. Len(f) : Scan(f)[i] \in Seq(Fits(f, i))
  <1>1. f \in Seq(Frames)
    BY SoundIsLinked
  <1>2. DOMAIN f = 1 .. Len(f) /\ Len(f) \in Nat
    BY <1>1, FileIs
  <1> DEFINE T == {i \in 0 .. Len(f) : Scan(f)[i] \notin Seq(Fits(f, i))}
  <1> SUFFICES ASSUME T # {} PROVE FALSE
    OBVIOUS
  <1>3. PICK i \in T : \A m \in T : i <= m
    <2>1. T \in SUBSET Nat
      BY <1>2
    <2> QED
      BY <2>1, Least
  <1>4. \A m \in 0 .. i - 1 : Scan(f)[m] \in Seq(Fits(f, m))
    BY <1>2, <1>3
  <1>5. i \in 0 .. Len(f) /\ Scan(f)[i] \notin Seq(Fits(f, i))
    OBVIOUS
  <1> HIDE DEF T
  <1>6. Scan(f)[i] = ScanStep(f, Scan(f), i)
    BY <1>1, <1>5, ScanUnfolds
  <1>7. CASE i = 0
    BY <1>5, <1>6, <1>7 DEF ScanStep
  <1>8. CASE i # 0
    <2>1. i \in DOMAIN f /\ FrameOK(f, i) /\ i - 1 \in 0 .. i - 1 /\ i - 1 \in Nat /\ i \in Nat
      BY <1>2, <1>5, <1>8 DEF Sound
    <2>2. Fits(f, i - 1) \subseteq Fits(f, i)
      BY <2>1, FitsGrow
    <2>3. Scan(f)[i - 1] \in Seq(Fits(f, i))
      BY <1>4, <2>1, <2>2, SeqMonotonic
    <2>4. f[i].kind = "commit" => f[i].manifest \in Fits(f, i)
      BY <2>1 DEF FrameOK
    <2>5. f[i].kind = "commit" => Append(Scan(f)[i - 1], f[i].manifest) \in Seq(Fits(f, i))
      BY <2>3, <2>4
    <2> QED
      BY <1>5, <1>6, <1>8, <2>3, <2>5 DEF ScanStep
  <1> QED
    BY <1>7, <1>8

-----------------------------------------------------------------------------
(* The trailers of a file. *)

(* Nothing behind t is a trailer; t is one, or the file has none.          *)
LastTrailer(f, t) ==
    /\ t \in 0 .. Len(f) /\ (t # 0 => Trailer(f, t))
    /\ \A j \in t + 1 .. Len(f) : ~Trailer(f, j)

LEMMA CompleteIs ==
    ASSUME NEW f \in Seq(Frames)
    PROVE  Complete(f) <=> Len(f) # 0 /\ f[Len(f)].kind = "footer"
  BY DEF Complete, Last

LEMMA AnchorIs ==
    ASSUME NEW f \in Seq(Frames)
    PROVE  /\ Anchor(f) \in 0 .. Len(f)
           /\ Anchor(f) # 0 => Trailer(f, Anchor(f))
           /\ Anchor(f) = 0 => \A j \in 1 .. Len(f) : ~Trailer(f, j)
  <1>1. DOMAIN f = 1 .. Len(f) /\ Len(f) \in Nat
    BY FileIs
  <1>2. CASE Complete(f)
    BY <1>1, <1>2, CompleteIs DEF Anchor, Trailer
  <1>3. CASE ~Complete(f) /\ LatestOf(f, "checkpoint") # 0
    BY <1>1, <1>3, LatestIs DEF Anchor, Trailer
  <1>4. CASE ~Complete(f) /\ LatestOf(f, "checkpoint") = 0
    <2>1. Anchor(f) = LatestOf(f, "footer")
      BY <1>4 DEF Anchor
    <2>2. \A j \in 1 .. Len(f) : f[j].kind # "checkpoint"
      BY <1>4, LatestIs
    <2> QED
      BY <1>1, <2>1, <2>2, LatestIs DEF Trailer
  <1> QED
    BY <1>2, <1>3, <1>4

LEMMA LastTrailerExists ==
    ASSUME NEW f \in Seq(Frames) PROVE \E t : LastTrailer(f, t)
  <1> DEFINE c == LatestOf(f, "checkpoint")
             d == LatestOf(f, "footer")
  <1>1. DOMAIN f = 1 .. Len(f) /\ Len(f) \in Nat /\ c \in 0 .. Len(f) /\ d \in 0 .. Len(f)
        /\ (c # 0 => Trailer(f, c)) /\ (d # 0 => Trailer(f, d))
    BY FileIs, LatestIs DEF Trailer
  <1>2. /\ \A j \in c + 1 .. Len(f) : f[j].kind # "checkpoint"
        /\ \A j \in d + 1 .. Len(f) : f[j].kind # "footer"
    BY LatestIs
  <1> HIDE DEF c, d
  <1>3. CASE c <= d
    <2>1. LastTrailer(f, d)
      BY <1>1, <1>2, <1>3 DEF LastTrailer, Trailer
    <2> QED
      BY <2>1
  <1>4. CASE d <= c
    <2>1. LastTrailer(f, c)
      BY <1>1, <1>2, <1>4 DEF LastTrailer, Trailer
    <2> QED
      BY <2>1
  <1> QED
    BY <1>1, <1>3, <1>4

(* An embedded footer holds what the checkpoint before it leads to: the    *)
(* last trailer of either kind leads to what the reader finds.             *)
LEMMA LogIs ==
    ASSUME NEW f, Sound(f), NEW t, LastTrailer(f, t)
    PROVE  Manifests(f) = IF t = 0 THEN Scanned(f) ELSE Chain(f)[t]
  <1>1. f \in Seq(Frames) /\ Linked(f)
    BY SoundIsLinked
  <1>2. DOMAIN f = 1 .. Len(f) /\ Len(f) \in Nat
    BY <1>1, FileIs
  <1>3. t \in 0 .. Len(f) /\ (t # 0 => Trailer(f, t)) /\ \A j \in t + 1 .. Len(f) : ~Trailer(f, j)
    BY DEF LastTrailer
  <1>4. t = 0 => Anchor(f) = 0
    BY <1>1, <1>3, AnchorIs
  <1>5. CASE t = 0
    BY <1>4, <1>5 DEF Manifests
  <1>6. CASE t # 0
    <2>1. Anchor(f) # 0
      <3>1. Anchor(f) = 0 => ~Trailer(f, t)
        BY <1>1, <1>2, <1>3, <1>6, AnchorIs
      <3> QED
        BY <1>3, <1>6, <3>1
    <2>2. Anchor(f) \in 1 .. t /\ Trailer(f, Anchor(f))
      <3>1. Anchor(f) \in 1 .. Len(f) /\ Trailer(f, Anchor(f))
        BY <1>1, <1>2, <2>1, AnchorIs
      <3> QED
        BY <1>2, <1>3, <3>1
    <2>3. CASE Anchor(f) = t
      BY <1>6, <2>3 DEF Manifests
    <2>4. CASE Anchor(f) # t
      <3>1. ~Complete(f)
        <4>1. Complete(f) => Anchor(f) = Len(f)
          BY DEF Anchor
        <4> QED
          BY <1>2, <1>3, <2>2, <2>4, <4>1
      <3>2. LatestOf(f, "checkpoint") # 0 /\ Anchor(f) = LatestOf(f, "checkpoint")
        <4>1. CASE LatestOf(f, "checkpoint") = 0
          <5>1. Anchor(f) = LatestOf(f, "footer")
            BY <3>1, <4>1 DEF Anchor
          <5>2. f[t].kind # "footer"
            BY <1>1, <1>2, <1>3, <2>2, <2>4, <5>1, LatestIs
          <5>3. f[t].kind # "checkpoint"
            BY <1>1, <1>2, <1>3, <1>6, <4>1, LatestIs
          <5> QED
            BY <1>3, <1>6, <5>2, <5>3 DEF Trailer
        <4>2. CASE LatestOf(f, "checkpoint") # 0
          BY <3>1, <4>2 DEF Anchor
        <4> QED
          BY <4>1, <4>2
      <3>3. f[Anchor(f)].kind = "checkpoint"
            /\ \A j \in Anchor(f) + 1 .. Len(f) : f[j].kind # "checkpoint"
        BY <1>1, <3>2, LatestIs
      <3>4. f[t].kind = "footer"
        BY <1>2, <1>3, <1>6, <2>2, <2>4, <3>3 DEF Trailer
      <3>5. FooterOK(f, t)
        BY <1>2, <1>3, <1>6, <3>4 DEF Sound, FrameOK
      <3>6. Anchor(f) \in 1 .. t - 1 /\ \A j \in Anchor(f) + 1 .. t - 1 : f[j].kind # "checkpoint"
        BY <1>2, <1>3, <2>2, <2>4, <3>3
      <3>7. f[t - 1].commits = Chain(f)[Anchor(f)]
        BY <3>3, <3>5, <3>6 DEF FooterOK
      <3>8. Chain(f)[t] = f[t - 1].commits
        BY <1>1, <1>3, <1>6, <3>4, ChainUnfolds DEF ChainStep
      <3> QED
        BY <1>6, <2>1, <3>7, <3>8 DEF Manifests
    <2> QED
      BY <2>3, <2>4
  <1> QED
    BY <1>5, <1>6

LEMMA LogFits ==
    ASSUME NEW f, Sound(f)
    PROVE  Manifests(f) \in Seq(Fits(f, Len(f)))
  <1>1. f \in Seq(Frames) /\ Len(f) \in Nat /\ Anchor(f) \in 0 .. Len(f)
    BY SoundIsLinked, FileIs, AnchorIs
  <1>2. CASE Anchor(f) = 0
    BY <1>1, <1>2, ScanFits DEF Manifests, Scanned
  <1>3. CASE Anchor(f) # 0
    <2>1. Chain(f)[Anchor(f)] \in Seq(Fits(f, Anchor(f)))
      BY <1>1, ChainFits
    <2>2. Fits(f, Anchor(f)) \subseteq Fits(f, Len(f))
      BY <1>1, FitsGrow
    <2>3. Chain(f)[Anchor(f)] \in Seq(Fits(f, Len(f)))
      BY <2>1, <2>2, SeqMonotonic
    <2> QED
      BY <1>3, <2>3 DEF Manifests
  <1> QED
    BY <1>2, <1>3

LEMMA Appended ==
    ASSUME NEW S, NEW s \in Seq(S), NEW x
    PROVE  Append(s, x) # <<>>
  <1>1. Len(Append(s, x)) = Len(s) + 1 /\ Len(s) \in Nat
    OBVIOUS
  <1>2. Len(<<>>) = 0
    OBVIOUS
  <1> QED
    BY <1>1, <1>2

(* Frames that are no commit do not change what a scan finds.              *)
LEMMA ScanStays ==
    ASSUME NEW f \in Seq(Frames), NEW n \in Nat, NEW k \in n .. Len(f),
           \A i \in n + 1 .. k : f[i].kind # "commit"
    PROVE  Scan(f)[k] = Scan(f)[n]
  <1>1. Len(f) \in Nat /\ k \in Nat
    OBVIOUS
  <1> DEFINE T == {i \in n .. k : Scan(f)[i] # Scan(f)[n]}
  <1>2. T = {}
    <2> SUFFICES ASSUME T # {} PROVE FALSE
      OBVIOUS
    <2>1. PICK i \in T : \A m \in T : i <= m
      <3>1. T \in SUBSET Nat
        BY <1>1
      <3> QED
        BY <3>1, Least
    <2>2. i \in n + 1 .. k /\ i - 1 \in n .. k /\ i \in 0 .. Len(f) /\ i - 1 \notin T
      BY <1>1, <2>1
    <2>3. Scan(f)[i - 1] = Scan(f)[n] /\ Scan(f)[i] # Scan(f)[n]
      BY <2>2
    <2> HIDE DEF T
    <2> QED
      BY <1>1, <2>2, <2>3, ScanUnfolds DEF ScanStep
  <1> QED
    BY <1>1, <1>2

(* A file in which a scan finds nothing holds no commit.                   *)
LEMMA NothingScanned ==
    ASSUME NEW f, Sound(f), Scanned(f) = <<>>
    PROVE  \A i \in 1 .. Len(f) : f[i].kind # "commit"
  <1>1. f \in Seq(Frames)
    BY SoundIsLinked
  <1>2. Len(f) \in Nat
    BY <1>1
  <1> SUFFICES ASSUME NEW j \in 1 .. Len(f), f[j].kind = "commit" PROVE FALSE
    OBVIOUS
  <1> DEFINE T == {i \in j .. Len(f) : Scan(f)[i] = <<>>}
  <1>3. \A i \in 1 .. Len(f) : f[i].kind = "commit" => Scan(f)[i] # <<>>
    <2> SUFFICES ASSUME NEW i \in 1 .. Len(f), f[i].kind = "commit" PROVE Scan(f)[i] # <<>>
      OBVIOUS
    <2> HIDE DEF T
    <2>0. i \in 0 .. Len(f) /\ i - 1 \in 0 .. Len(f) /\ i # 0
      BY <1>2
    <2>1. Scan(f)[i - 1] \in Seq(Fits(f, i - 1))
      BY <2>0, ScanFits
    <2>2. Scan(f)[i] = Append(Scan(f)[i - 1], f[i].manifest)
      BY <1>1, <2>0, ScanUnfolds DEF ScanStep
    <2> QED
      BY <2>1, <2>2, Appended
  <1>4. PICK i \in T : \A m \in T : i <= m
    <2>1. T \in SUBSET Nat /\ Len(f) \in T
      BY <1>2 DEF Scanned
    <2> QED
      BY <2>1, Least
  <1>5. i \in j + 1 .. Len(f) /\ f[i].kind # "commit" /\ i - 1 \notin T
    BY <1>2, <1>3, <1>4
  <1>6. i - 1 \in j .. Len(f) /\ Scan(f)[i - 1] # <<>> /\ i \in 0 .. Len(f) /\ i # 0
    BY <1>2, <1>5
  <1>7. Scan(f)[i] = <<>>
    OBVIOUS
  <1> HIDE DEF T
  <1> QED
    BY <1>1, <1>5, <1>6, <1>7, ScanUnfolds DEF ScanStep

-----------------------------------------------------------------------------
(* What an extended or cut file leads to. *)

LEMMA ConcatTwo ==
    ASSUME NEW f \in Seq(Frames), NEW x \in Frames, NEW y \in Frames
    PROVE  LET g == f \o <<x, y>>
           IN  /\ g \in Seq(Frames) /\ Len(g) = Len(f) + 2
               /\ g[Len(f) + 1] = x /\ g[Len(f) + 2] = y /\ Agree(f, g, Len(f))
  <1> DEFINE g == f \o <<x, y>>
  <1>1. <<x, y>> \in Seq(Frames) /\ Len(<<x, y>>) = 2 /\ <<x, y>>[1] = x /\ <<x, y>>[2] = y
    OBVIOUS
  <1>2. Len(f) \in Nat
    OBVIOUS
  <1>3. /\ g \in Seq(Frames) /\ Len(g) = Len(f) + 2
        /\ \A i \in 1 .. Len(f) + 2 :
              g[i] = IF i <= Len(f) THEN f[i] ELSE <<x, y>>[i - Len(f)]
    <2> HIDE DEF g
    <2>1. \A t \in Seq(Frames) :
            /\ f \o t \in Seq(Frames) /\ Len(f \o t) = Len(f) + Len(t)
            /\ \A i \in 1 .. Len(f) + Len(t) :
                  (f \o t)[i] = IF i <= Len(f) THEN f[i] ELSE t[i - Len(f)]
      BY ConcatProperties
    <2> QED
      BY <1>1, <2>1 DEF g
  <1> HIDE DEF g
  <1>4. g[Len(f) + 1] = x /\ g[Len(f) + 2] = y
    BY <1>1, <1>2, <1>3
  <1>5. Agree(f, g, Len(f))
    BY <1>2, <1>3 DEF Agree
  <1> QED
    BY <1>3, <1>4, <1>5 DEF g

(* A trailer is what makes a checkpointed commit, or a finished archive,   *)
(* part of what is found; a commit alone counts only in a file without.    *)
LEMMA LogExtends ==
    ASSUME NEW f, Sound(f), NEW g, Sound(g), Agree(f, g, Len(f)),
           \A i \in Len(f) + 1 .. Len(g) : ~Trailer(g, i),
           Anchor(f) # 0 \/ \A i \in Len(f) + 1 .. Len(g) : g[i].kind # "commit"
    PROVE  Manifests(g) = Manifests(f)
  <1>1. f \in Seq(Frames) /\ Linked(f) /\ g \in Seq(Frames) /\ Linked(g)
    BY SoundIsLinked
  <1>2. Len(f) \in Nat /\ Len(g) \in Nat /\ Len(f) <= Len(g)
    BY <1>1 DEF Agree
  <1>3. PICK t : LastTrailer(f, t)
    BY <1>1, LastTrailerExists
  <1>4. t \in 0 .. Len(f) /\ (t # 0 => Trailer(f, t)) /\ \A j \in t + 1 .. Len(f) : ~Trailer(f, j)
    BY <1>3 DEF LastTrailer
  <1>5. \A i \in 1 .. Len(f) : Trailer(f, i) <=> Trailer(g, i)
    BY <1>1, AgreeIs DEF Trailer
  <1>6. LastTrailer(g, t)
    BY <1>2, <1>4, <1>5 DEF LastTrailer
  <1>7. Manifests(f) = (IF t = 0 THEN Scanned(f) ELSE Chain(f)[t])
        /\ Manifests(g) = (IF t = 0 THEN Scanned(g) ELSE Chain(g)[t])
    BY <1>3, <1>6, LogIs
  <1>8. CASE t = 0
    <2>1. Anchor(f) = 0
      BY <1>1, <1>2, <1>4, <1>8, AnchorIs
    <2>2. Scan(g)[Len(g)] = Scan(g)[Len(f)]
      BY <1>1, <1>2, <2>1, ScanStays
    <2>3. Scan(f)[Len(f)] = Scan(g)[Len(f)]
      BY <1>1, <1>2, ScanAgrees
    <2> QED
      BY <1>7, <1>8, <2>2, <2>3 DEF Scanned
  <1>9. CASE t # 0
    <2>1. Chain(f)[t] = Chain(g)[t]
      BY <1>1, <1>4, ChainAgrees
    <2> QED
      BY <1>7, <1>9, <2>1
  <1> QED
    BY <1>8, <1>9

(* What a writer keeps of a file when it opens it.                         *)
LEMMA OpenKeeps ==
    ASSUME NEW f, Sound(f)
    PROVE  LET kept == SubSeq(f, 1, DurableEnd(f))
           IN  /\ Sound(kept) /\ Manifests(kept) = Manifests(f)
               /\ ~NeedsAnchor(f) => Ready(kept)
  <1> DEFINE n == DurableEnd(f)
             kept == SubSeq(f, 1, n)
  <1>1. f \in Seq(Frames) /\ Linked(f) /\ Len(f) \in Nat
    BY SoundIsLinked, FileIs
  <1>2. n = IF Anchor(f) # 0 THEN Anchor(f) ELSE LatestOf(f, "commit")
    BY DEF DurableEnd
  <1>3. Anchor(f) \in 0 .. Len(f) /\ LatestOf(f, "commit") \in 0 .. Len(f)
    BY <1>1, AnchorIs, LatestIs
  <1>4. n \in 0 .. Len(f)
    BY <1>2, <1>3
  <1> HIDE DEF n
  <1>5. kept \in Seq(Frames) /\ Len(kept) = n /\ Agree(f, kept, n) /\ Sound(kept)
    BY <1>1, <1>4, CutAgrees, SoundCut
  <1> HIDE DEF kept
  <1>6. Linked(kept) /\ \A i \in 1 .. n : i \in DOMAIN f /\ i \in DOMAIN kept /\ f[i] = kept[i]
    BY <1>1, <1>5, SoundIsLinked, AgreeIs
  <1>7. CASE Anchor(f) # 0
    <2>1. Trailer(kept, n) /\ n = Anchor(f) /\ n \in 1 .. Len(f)
      BY <1>1, <1>2, <1>3, <1>6, <1>7, AnchorIs DEF Trailer
    <2>2. LastTrailer(kept, n)
      BY <1>5, <2>1 DEF LastTrailer
    <2>3. Manifests(kept) = Chain(kept)[n]
      BY <1>5, <2>1, <2>2, LogIs
    <2>4. Chain(kept)[n] = Chain(f)[n]
      BY <1>1, <1>4, <1>5, <1>6, ChainAgrees
    <2>5. Manifests(kept) = Manifests(f)
      BY <1>7, <2>1, <2>3, <2>4 DEF Manifests
    <2>6. Ready(kept) /\ ~NeedsAnchor(f)
      BY <1>5, <1>7, <2>1 DEF Ready, NeedsAnchor
    <2> QED
      BY <1>5, <2>5, <2>6 DEF n, kept
  <1>8. CASE Anchor(f) = 0
    <2>1. \A i \in 1 .. Len(kept) : ~Trailer(kept, i)
      BY <1>1, <1>4, <1>5, <1>6, <1>8, AnchorIs DEF Trailer
    <2>2. LastTrailer(kept, 0)
      BY <1>1, <1>4, <1>5, <2>1 DEF LastTrailer
    <2>3. Manifests(kept) = Scan(kept)[n] /\ Manifests(f) = Scan(f)[Len(f)]
      BY <1>5, <1>8, <2>2, LogIs DEF Manifests, Scanned
    <2>4. n = LatestOf(f, "commit") /\ \A i \in n + 1 .. Len(f) : f[i].kind # "commit"
      BY <1>1, <1>2, <1>8, LatestIs
    <2>5. Scan(f)[Len(f)] = Scan(f)[n]
      <3>1. n \in Nat /\ Len(f) \in n .. Len(f)
        BY <1>1, <1>4
      <3> QED
        BY <1>1, <2>4, <3>1, ScanStays
    <2>6. Scan(f)[n] = Scan(kept)[n]
      BY <1>1, <1>4, <1>5, ScanAgrees
    <2>7. ASSUME ~NeedsAnchor(f) PROVE Ready(kept)
      <3>1. Scanned(f) = <<>>
        BY <1>8, <2>7 DEF NeedsAnchor
      <3>2. \A i \in 1 .. Len(f) : f[i].kind # "commit"
        BY <3>1, NothingScanned
      <3>3. n = 0
        BY <1>1, <1>4, <2>4, <3>2, LatestIs
      <3> QED
        BY <1>5, <3>3 DEF Ready
    <2> QED
      BY <1>5, <2>1, <2>3, <2>5, <2>6, <2>7 DEF n, kept
  <1> QED
    BY <1>7, <1>8

(* What the newest checkpoint leads to is what the reader finds.           *)
LEMMA NewestCheckpoint ==
    ASSUME NEW f, Sound(f), NEW c \in 1 .. Len(f), f[c].kind = "checkpoint",
           \A j \in c + 1 .. Len(f) : f[j].kind # "checkpoint"
    PROVE  Manifests(f) = Chain(f)[c]
  <1>1. f \in Seq(Frames) /\ Linked(f)
    BY SoundIsLinked
  <1>2. DOMAIN f = 1 .. Len(f) /\ Len(f) \in Nat
    BY <1>1, FileIs
  <1>3. PICK t : LastTrailer(f, t)
    BY <1>1, LastTrailerExists
  <1>4. t \in 1 .. Len(f) /\ Trailer(f, t) /\ c <= t
    BY <1>2, <1>3 DEF LastTrailer, Trailer
  <1>5. Manifests(f) = Chain(f)[t]
    BY <1>3, <1>4, LogIs
  <1>6. CASE t = c
    BY <1>5, <1>6
  <1>7. CASE t # c
    <2>1. f[t].kind = "footer"
      BY <1>2, <1>4, <1>7 DEF Trailer
    <2>2. FooterOK(f, t)
      BY <1>2, <1>4, <2>1 DEF Sound, FrameOK
    <2>3. f[t - 1].commits = Chain(f)[c]
      BY <1>2, <1>4, <1>7, <2>2 DEF FooterOK
    <2>4. Chain(f)[t] = f[t - 1].commits
      BY <1>1, <1>2, <1>4, <2>1, ChainUnfolds DEF ChainStep
    <2> QED
      BY <1>5, <2>3, <2>4
  <1> QED
    BY <1>6, <1>7

(* An archive that is closed keeps its commits, and is complete.           *)
LEMMA Closed ==
    ASSUME NEW f, Sound(f)
    PROVE  LET g == f \o <<FinalIndex(Manifests(f)), Footer>>
           IN  /\ Sound(g) /\ Manifests(g) = Manifests(f)
               /\ Len(g) = Len(f) + 2 /\ Agree(f, g, Len(f)) /\ Ready(g)
               /\ g[Len(f) + 1] = FinalIndex(Manifests(f)) /\ g[Len(f) + 2] = Footer
  <1> DEFINE commits == Manifests(f)
             g == f \o <<FinalIndex(commits), Footer>>
  <1>1. f \in Seq(Frames) /\ Linked(f) /\ DOMAIN f = 1 .. Len(f) /\ Len(f) \in Nat
    BY SoundIsLinked, FileIs
  <1>2. commits \in Seq(Fits(f, Len(f))) /\ commits \in Seq(Records)
    <2>1. Fits(f, Len(f)) \subseteq Records
      BY DEF Fits
    <2>2. Manifests(f) \in Seq(Fits(f, Len(f)))
      BY LogFits
    <2> QED
      BY <2>1, <2>2, SeqMonotonic
  <1> HIDE DEF commits
  <1>3. FinalIndex(commits) \in Frames /\ Footer \in Frames
    BY <1>2 DEF FinalIndex, Frames, Indexes
  <1>4. /\ g \in Seq(Frames) /\ Len(g) = Len(f) + 2 /\ Agree(f, g, Len(f))
        /\ g[Len(f) + 1] = FinalIndex(commits) /\ g[Len(f) + 2] = Footer
    BY <1>1, <1>3, ConcatTwo
  <1> HIDE DEF g
  <1>5. /\ g[Len(f) + 1].kind = "index" /\ g[Len(f) + 1].commits = commits
        /\ g[Len(f) + 2].kind = "footer"
    BY <1>4 DEF FinalIndex, Footer
  <1>6. DOMAIN g = 1 .. Len(f) + 2 /\ \A i \in 1 .. Len(f) : f[i] = g[i]
    BY <1>1, <1>4, FileIs, AgreeIs
  <1>7. Linked(g)
    <2> SUFFICES ASSUME NEW i \in DOMAIN g
                 PROVE  /\ g[i].kind = "checkpoint" => g[i].previous \in 0 .. i - 1
                        /\ Trailer(g, i) => i > 1
      BY DEF Linked
    <2>1. CASE i \in 1 .. Len(f)
      BY <1>1, <1>6, <2>1 DEF Linked, Trailer
    <2>2. CASE i = Len(f) + 1
      BY <1>1, <1>5, <2>2 DEF Trailer
    <2>3. CASE i = Len(f) + 2
      BY <1>1, <1>5, <2>3
    <2> QED
      BY <1>1, <1>6, <2>1, <2>2, <2>3
  <1>8. FrameOK(g, Len(f) + 1)
    <2>1. Fits(f, Len(f)) \subseteq Fits(g, Len(f) + 1)
      <3>1. Fits(f, Len(f)) = Fits(g, Len(f))
        BY <1>1, <1>4, FitsAgree
      <3>2. Fits(g, Len(f)) \subseteq Fits(g, Len(f) + 1)
        BY <1>1, FitsGrow
      <3> QED
        BY <3>1, <3>2
    <2>2. commits \in Seq(Fits(g, Len(f) + 1))
      BY <1>2, <2>1, SeqMonotonic
    <2> QED
      BY <1>5, <2>2 DEF FrameOK
  <1>9. FrameOK(g, Len(f) + 2)
    <2>1. ASSUME NEW c \in 1 .. Len(f) + 1, g[c].kind = "checkpoint",
                 \A j \in c + 1 .. Len(f) + 1 : g[j].kind # "checkpoint"
          PROVE  commits = Chain(g)[c]
      <3>1. c \in 1 .. Len(f)
        BY <1>1, <1>5, <2>1
      <3>2. f[c].kind = "checkpoint" /\ \A j \in c + 1 .. Len(f) : f[j].kind # "checkpoint"
        BY <1>1, <1>6, <2>1, <3>1
      <3>3. commits = Chain(f)[c]
        BY <3>1, <3>2, NewestCheckpoint DEF commits
      <3>4. Chain(f)[c] = Chain(g)[c]
        BY <1>1, <1>4, <1>7, <3>1, ChainAgrees
      <3> QED
        BY <3>3, <3>4
    <2>2. FooterOK(g, Len(f) + 2)
      <3>1. Len(f) + 2 - 1 = Len(f) + 1 /\ Len(f) + 2 > 1
        BY <1>1
      <3> QED
        BY <1>5, <2>1, <3>1 DEF FooterOK
    <2> QED
      BY <1>5, <2>2 DEF FrameOK
  <1>10. Sound(g)
    <2>1. \A i \in Len(f) + 1 .. Len(g) : i = Len(f) + 1 \/ i = Len(f) + 2
      BY <1>1, <1>4
    <2> QED
      BY <1>4, <1>7, <1>8, <1>9, <2>1, SoundExtends
  <1>11. LastTrailer(g, Len(f) + 2) /\ Trailer(g, Len(f) + 2) /\ Ready(g)
    BY <1>1, <1>4, <1>5, <1>6 DEF LastTrailer, Trailer, Ready
  <1>12. Manifests(g) = commits
    <2>1. Manifests(g) = Chain(g)[Len(f) + 2]
      BY <1>1, <1>10, <1>11, LogIs
    <2>2. Chain(g)[Len(f) + 2] = g[Len(f) + 1].commits
      <3>1. Len(f) + 2 \in 0 .. Len(g) /\ Len(f) + 2 # 0 /\ Len(f) + 2 - 1 = Len(f) + 1
        BY <1>1, <1>4
      <3>2. Chain(g)[Len(f) + 2] = ChainStep(g, Chain(g), Len(f) + 2)
        BY <1>4, <1>7, <3>1, ChainUnfolds
      <3> QED
        BY <1>5, <3>1, <3>2 DEF ChainStep
    <2> QED
      BY <1>5, <2>1, <2>2
  <1> QED
    BY <1>4, <1>10, <1>11, <1>12 DEF g, commits

LEMMA ReadyIs ==
    ASSUME NEW f \in Seq(Frames), Ready(f)
    PROVE  Anchor(f) = Len(f) /\ LastTrailer(f, Len(f))
  <1>1. DOMAIN f = 1 .. Len(f) /\ Len(f) \in Nat /\ Anchor(f) \in 0 .. Len(f)
    BY FileIs, AnchorIs
  <1>2. CASE f = <<>>
    <2>1. Len(f) = 0
      BY <1>2
    <2> QED
      BY <1>1, <2>1 DEF LastTrailer
  <1>3. CASE f # <<>>
    <2>1. Trailer(f, Len(f)) /\ Len(f) # 0
      BY <1>1, <1>3 DEF Ready, Trailer
    <2>2. LastTrailer(f, Len(f))
      BY <1>1, <2>1 DEF LastTrailer
    <2>3. CASE f[Len(f)].kind = "footer"
      BY <2>1, <2>2, <2>3, CompleteIs DEF Anchor
    <2>4. CASE f[Len(f)].kind = "checkpoint"
      <3>1. ~Complete(f)
        BY <2>4, CompleteIs
      <3>2. LatestOf(f, "checkpoint") = Len(f)
        BY <1>1, <2>1, <2>4, LatestIs
      <3> QED
        BY <2>1, <2>2, <3>1, <3>2 DEF Anchor
    <2> QED
      BY <2>1, <2>2, <2>3, <2>4 DEF Trailer
  <1> QED
    BY <1>2, <1>3

LEMMA Paged ==
    ASSUME NEW f, Sound(f), NEW g \in Seq(Frames), Agree(f, g, Len(f)),
           \A i \in Len(f) + 1 .. Len(g) : g[i].kind \in {"page", "torn"}
    PROVE  Sound(g) /\ Manifests(g) = Manifests(f)
  <1>1. f \in Seq(Frames) /\ Linked(f) /\ DOMAIN f = 1 .. Len(f) /\ Len(f) \in Nat
        /\ DOMAIN g = 1 .. Len(g) /\ Len(g) \in Nat
    BY SoundIsLinked, FileIs
  <1>2. \A i \in 1 .. Len(f) : f[i] = g[i]
    BY AgreeIs, <1>1
  <1>3. \A i \in 1 .. Len(g) : i \in 1 .. Len(f) \/ i \in Len(f) + 1 .. Len(g)
    BY <1>1
  <1>4. Linked(g)
    BY <1>1, <1>2, <1>3 DEF Linked, Trailer
  <1>5. \A i \in Len(f) + 1 .. Len(g) :
           FrameOK(g, i) /\ ~Trailer(g, i) /\ g[i].kind # "commit"
    BY DEF FrameOK, Trailer
  <1>6. Sound(g)
    BY <1>4, <1>5, SoundExtends
  <1> QED
    BY <1>5, <1>6, LogExtends

LEMMA TornStays ==
    ASSUME NEW f, Sound(f)
    PROVE  Sound(Append(f, Torn)) /\ Manifests(Append(f, Torn)) = Manifests(f)
  <1>1. f \in Seq(Frames) /\ Len(f) \in Nat /\ Torn \in Frames
    BY SoundIsLinked, FileIs DEF Frames
  <1>2. /\ Append(f, Torn) \in Seq(Frames) /\ Len(Append(f, Torn)) = Len(f) + 1
        /\ Append(f, Torn)[Len(f) + 1] = Torn /\ Agree(f, Append(f, Torn), Len(f))
    BY <1>1, AppendAgrees
  <1>3. \A i \in Len(f) + 1 .. Len(f) + 1 : Append(f, Torn)[i].kind = "torn"
    <2>1. \A i \in Len(f) + 1 .. Len(f) + 1 : i = Len(f) + 1
      BY <1>1
    <2> QED
      BY <1>2, <2>1 DEF Torn
  <1> QED
    BY <1>2, <1>3, Paged

(* What is written to record the manifest m: pages, the commit, and a      *)
(* checkpoint that links to the end of the file as it was.                 *)
Written(f, g) ==
    /\ Agree(f, g, Len(f)) /\ Len(f) + 2 <= Len(g)
    /\ \A i \in Len(f) + 1 .. Len(g) - 2 : g[i].kind = "page"
    /\ g[Len(g) - 1].kind = "commit" /\ g[Len(g)] = Checkpoint(Len(f))

LEMMA WrittenLeads ==
    ASSUME NEW f, Sound(f), Ready(f), NEW g, Sound(g), Written(f, g)
    PROVE  Manifests(g) = Append(Manifests(f), g[Len(g) - 1].manifest) /\ Ready(g)
  <1>1. f \in Seq(Frames) /\ Linked(f) /\ Len(f) \in Nat
        /\ g \in Seq(Frames) /\ Linked(g) /\ Len(g) \in Nat /\ DOMAIN g = 1 .. Len(g)
    BY SoundIsLinked, FileIs
  <1>2. Len(g) \in 1 .. Len(g) /\ Len(f) + 2 <= Len(g) /\ Agree(f, g, Len(f))
        /\ g[Len(g)].kind = "checkpoint" /\ g[Len(g)].previous = Len(f)
    BY <1>1 DEF Written, Checkpoint
  <1>3. Ready(g) /\ LastTrailer(g, Len(g)) /\ LastTrailer(f, Len(f))
    <2>1. Ready(g)
      BY <1>1, <1>2 DEF Ready, Trailer
    <2> QED
      BY <1>1, <2>1, ReadyIs
  <1>4. Manifests(g) = Chain(g)[Len(g)]
    BY <1>1, <1>2, <1>3, LogIs
  <1>5. Chain(g)[Len(g)] = Append(Chain(g)[Len(f)], g[Len(g) - 1].manifest)
    <2>1. Len(g) \in 0 .. Len(g) /\ Len(g) # 0
      BY <1>1, <1>2
    <2>2. Chain(g)[Len(g)] = ChainStep(g, Chain(g), Len(g))
      BY <1>1, <2>1, ChainUnfolds
    <2> QED
      BY <1>2, <2>1, <2>2 DEF ChainStep
  <1>6. Chain(g)[Len(f)] = Chain(f)[Len(f)]
    BY <1>1, <1>2, ChainAgrees
  <1>7. Chain(f)[Len(f)] = Manifests(f)
    <2>1. CASE Len(f) = 0
      <3>1. Chain(f)[0] = <<>> /\ Scan(f)[0] = <<>>
        <4>1. 0 \in 0 .. Len(f)
          BY <1>1
        <4>2. Chain(f)[0] = ChainStep(f, Chain(f), 0) /\ Scan(f)[0] = ScanStep(f, Scan(f), 0)
          BY <1>1, <4>1, ChainUnfolds, ScanUnfolds
        <4> QED
          BY <4>2 DEF ChainStep, ScanStep
      <3>2. Manifests(f) = Scan(f)[0]
        BY <1>3, <2>1, LogIs DEF Scanned
      <3> QED
        BY <2>1, <3>1, <3>2
    <2>2. CASE Len(f) # 0
      BY <1>3, <2>2, LogIs
    <2> QED
      BY <2>1, <2>2
  <1> QED
    BY <1>3, <1>4, <1>5, <1>6, <1>7

(* A commit that was cut short is not there; one that lost only its        *)
(* checkpoint is there if it is the first of a new archive, where there is *)
(* no trailer and every commit is counted.                                 *)
LEMMA WrittenCut ==
    ASSUME NEW f, Sound(f), Ready(f), NEW g, Sound(g), Written(f, g),
           NEW n \in Len(f) .. Len(g) - 1
    PROVE  /\ Sound(SubSeq(g, 1, n))
           /\ Manifests(SubSeq(g, 1, n)) \in
                {Manifests(f), Append(Manifests(f), g[Len(g) - 1].manifest)}
  <1> DEFINE h == SubSeq(g, 1, n)
  <1>1. f \in Seq(Frames) /\ Linked(f) /\ Len(f) \in Nat
        /\ g \in Seq(Frames) /\ Linked(g) /\ Len(g) \in Nat /\ DOMAIN g = 1 .. Len(g)
    BY SoundIsLinked, FileIs
  <1>2. /\ n \in 0 .. Len(g) /\ n \in Nat /\ Len(f) \in Nat /\ Len(g) \in Nat
        /\ Len(f) <= n /\ n <= Len(g) - 1
    BY <1>1
  <1>3. h \in Seq(Frames) /\ Len(h) = n /\ Agree(g, h, n) /\ Sound(h)
    BY <1>1, <1>2, CutAgrees, SoundCut
  <1> HIDE DEF h
  <1>4. Agree(f, h, Len(f)) /\ \A i \in 1 .. n : g[i] = h[i]
    BY <1>1, <1>2, <1>3 DEF Agree, Written
  <1>5. \A i \in Len(f) + 1 .. n : i \in Len(f) + 1 .. Len(g) - 2 \/ i = Len(g) - 1
    BY <1>2
  <1>6. \A i \in Len(f) + 1 .. n : g[i].kind \in {"page", "commit"}
    BY <1>5 DEF Written
  <1>7. \A i \in Len(f) + 1 .. n : h[i].kind \in {"page", "commit"} /\ ~Trailer(h, i)
    BY <1>1, <1>2, <1>4, <1>6 DEF Trailer
  <1>8. CASE Anchor(f) # 0
    <2>1. Manifests(h) = Manifests(f)
      BY <1>3, <1>4, <1>7, <1>8, LogExtends
    <2> QED
      BY <1>3, <2>1 DEF h
  <1>9. CASE Anchor(f) = 0 /\ n < Len(g) - 1
    <2>1. \A i \in Len(f) + 1 .. n : g[i].kind = "page"
      <3>1. \A i \in Len(f) + 1 .. n : i \in Len(f) + 1 .. Len(g) - 2
        BY <1>2, <1>9
      <3> QED
        BY <3>1 DEF Written
    <2>2. \A i \in Len(f) + 1 .. n : h[i].kind # "commit"
      BY <1>1, <1>2, <1>4, <2>1
    <2>3. Manifests(h) = Manifests(f)
      BY <1>3, <1>4, <1>7, <2>2, LogExtends
    <2> QED
      BY <1>3, <2>3 DEF h
  <1>10. CASE Anchor(f) = 0 /\ n = Len(g) - 1
    <2>1. Len(f) = 0
      BY <1>1, <1>10, ReadyIs
    <2>2. LastTrailer(h, 0) /\ LastTrailer(f, 0)
      <3>1. LastTrailer(h, 0)
        BY <1>2, <1>3, <1>7, <2>1 DEF LastTrailer
      <3> QED
        BY <1>1, <2>1, <3>1, ReadyIs
    <2>3. Manifests(h) = Scan(h)[n] /\ Manifests(f) = Scan(f)[0]
      BY <1>3, <2>1, <2>2, LogIs DEF Scanned
    <2>4. n \in 1 .. Len(g) /\ n - 1 \in 0 .. Len(h) /\ n \in 0 .. Len(h) /\ n # 0
          /\ h[n] = g[Len(g) - 1] /\ h[n].kind = "commit"
      BY <1>1, <1>2, <1>3, <1>4, <1>10, <2>1 DEF Written
    <2>5. Scan(h)[n] = Append(Scan(h)[n - 1], g[Len(g) - 1].manifest)
      BY <1>3, <2>4, ScanUnfolds DEF ScanStep
    <2>6. Scan(h)[n - 1] = Scan(h)[0]
      <3>1. \A i \in 0 + 1 .. n - 1 : i \in Len(f) + 1 .. Len(g) - 2 /\ i \in 1 .. n
        BY <1>1, <1>2, <1>10, <2>1
      <3>2. \A i \in 0 + 1 .. n - 1 : h[i].kind # "commit"
        BY <1>4, <3>1 DEF Written
      <3> QED
        BY <1>2, <1>3, <2>4, <3>2, ScanStays
    <2>7. Scan(h)[0] = <<>> /\ Scan(f)[0] = <<>>
      BY <1>1, <1>2, <1>3, ScanUnfolds DEF ScanStep
    <2>8. Manifests(h) = Append(Manifests(f), g[Len(g) - 1].manifest)
      BY <2>3, <2>5, <2>6, <2>7
    <2> QED
      BY <1>3, <2>8 DEF h
  <1> QED
    <2>1. n < Len(g) - 1 \/ n = Len(g) - 1
      BY <1>2
    <2> QED
      BY <2>1, <1>8, <1>9, <1>10

(* A commit whose manifest fits keeps a file sound. *)
LEMMA CommitSound ==
    ASSUME NEW f, Sound(f), Ready(f), NEW g \in Seq(Frames), Agree(f, g, Len(f)),
           \A i \in Len(f) + 1 .. Len(g) : g[i].kind = "page",
           NEW m \in Fits(g, Len(g))
    PROVE  LET h == g \o <<Commit(m), Checkpoint(Len(f))>>
           IN  /\ Sound(h) /\ Written(f, h) /\ Len(h) = Len(g) + 2
               /\ h[Len(h) - 1] = Commit(m)
  <1> DEFINE h == g \o <<Commit(m), Checkpoint(Len(f))>>
  <1>1. f \in Seq(Frames) /\ Linked(f) /\ Len(f) \in Nat /\ DOMAIN f = 1 .. Len(f)
    BY SoundIsLinked, FileIs
  <1>2. Sound(g) /\ Linked(g) /\ Len(g) \in Nat /\ DOMAIN g = 1 .. Len(g) /\ Len(f) <= Len(g)
    <2>1. Sound(g)
      BY Paged
    <2> QED
      BY <2>1, SoundIsLinked, FileIs DEF Agree
  <1>3. Commit(m) \in Frames /\ Checkpoint(Len(f)) \in Frames
    BY <1>1 DEF Frames, CommitFrames, Checkpoints, Commit, Checkpoint, Fits
  <1>4. /\ h \in Seq(Frames) /\ Len(h) = Len(g) + 2 /\ Agree(g, h, Len(g))
        /\ h[Len(g) + 1] = Commit(m) /\ h[Len(g) + 2] = Checkpoint(Len(f))
    BY <1>2, <1>3, ConcatTwo
  <1> HIDE DEF h
  <1>5. DOMAIN h = 1 .. Len(g) + 2 /\ Len(h) - 1 = Len(g) + 1 /\ \A i \in 1 .. Len(g) : g[i] = h[i]
    BY <1>2, <1>4, FileIs, AgreeIs
  <1>6. /\ h[Len(g) + 1].kind = "commit" /\ h[Len(g) + 1].manifest = m
        /\ h[Len(g) + 2].kind = "checkpoint" /\ h[Len(g) + 2].previous = Len(f)
    BY <1>4 DEF Commit, Checkpoint
  <1>7. Agree(f, h, Len(f))
    BY <1>1, <1>2, <1>4, <1>5 DEF Agree
  <1>8. Written(f, h)
    <2>1. \A i \in Len(f) + 1 .. Len(h) - 2 : i \in Len(f) + 1 .. Len(g) /\ i \in 1 .. Len(g)
      BY <1>1, <1>2, <1>4
    <2>2. \A i \in Len(f) + 1 .. Len(h) - 2 : h[i].kind = "page"
      BY <1>5, <2>1
    <2> QED
      BY <1>1, <1>2, <1>4, <1>5, <1>6, <1>7, <2>2 DEF Written
  <1>9. Linked(h)
    <2> SUFFICES ASSUME NEW i \in DOMAIN h
                 PROVE  /\ h[i].kind = "checkpoint" => h[i].previous \in 0 .. i - 1
                        /\ Trailer(h, i) => i > 1
      BY DEF Linked
    <2>1. CASE i \in 1 .. Len(g)
      BY <1>2, <1>5, <2>1 DEF Linked, Trailer
    <2>2. CASE i = Len(g) + 1
      BY <1>2, <1>6, <2>2 DEF Trailer
    <2>3. CASE i = Len(g) + 2
      BY <1>1, <1>2, <1>6, <2>3
    <2> QED
      BY <1>2, <1>5, <2>1, <2>2, <2>3
  <1>10. FrameOK(h, Len(g) + 1)
    <2>1. m \in Fits(h, Len(g))
      BY <1>4, FitsAgree
    <2>2. m \in Fits(h, Len(g) + 1)
      BY <1>2, <2>1, FitsGrow
    <2> QED
      BY <1>6, <2>2 DEF FrameOK
  <1>11. FrameOK(h, Len(g) + 2)
    <2>1. Len(f) # 0 => Trailer(h, Len(f))
      <3>1. LastTrailer(f, Len(f))
        BY <1>1, ReadyIs
      <3> QED
        BY <1>1, <1>5, <1>7, <3>1 DEF LastTrailer, Trailer, Agree
    <2>2. ASSUME NEW j \in Len(f) + 1 .. Len(g) + 1 PROVE ~Trailer(h, j)
      <3>1. CASE j = Len(g) + 1
        BY <1>6, <3>1 DEF Trailer
      <3>2. CASE j # Len(g) + 1
        <4>1. j \in Len(f) + 1 .. Len(g) /\ j \in 1 .. Len(g)
          BY <1>1, <1>2, <3>2
        <4>2. h[j].kind = "page"
          BY <1>5, <4>1
        <4> QED
          BY <4>2 DEF Trailer
      <3> QED
        BY <3>1, <3>2
    <2>3. CheckpointOK(h, Len(g) + 2)
      <3>1. Len(g) + 2 - 1 = Len(g) + 1 /\ Len(g) + 2 > 1 /\ Len(f) \in 0 .. Len(g) + 2 - 2
        BY <1>1, <1>2
      <3> QED
        BY <1>6, <2>1, <2>2, <3>1 DEF CheckpointOK
    <2> QED
      BY <1>6, <2>3 DEF FrameOK
  <1>12. Sound(h)
    <2>1. \A i \in Len(g) + 1 .. Len(h) : i = Len(g) + 1 \/ i = Len(g) + 2
      BY <1>2, <1>4
    <2> QED
      BY <1>2, <1>4, <1>9, <1>10, <1>11, <2>1, SoundExtends
  <1> QED
    BY <1>4, <1>5, <1>8, <1>12 DEF h

-----------------------------------------------------------------------------
(* What the invariant says of the file. *)

LEMMA WholeCut ==
    ASSUME NEW f \in Seq(Frames) PROVE SubSeq(f, 1, Len(f)) = f
  <1>1. Len(f) \in 0 .. Len(f)
    BY FileIs
  <1>2. /\ SubSeq(f, 1, Len(f)) \in Seq(Frames) /\ Len(SubSeq(f, 1, Len(f))) = Len(f)
        /\ Agree(f, SubSeq(f, 1, Len(f)), Len(f))
    BY <1>1, CutAgrees
  <1>3. \A i \in 1 .. Len(f) : f[i] = SubSeq(f, 1, Len(f))[i]
    BY <1>2, AgreeIs
  <1> QED
    BY <1>2, <1>3, SeqEqual

LEMMA DurableIs ==
    ASSUME Sound(file), synced \in 0 .. Len(file)
    PROVE  /\ file \in Seq(Frames) /\ Len(file) \in Nat /\ synced \in Nat
           /\ Sound(Durable) /\ Durable \in Seq(Frames) /\ Len(Durable) = synced
           /\ Agree(Durable, file, synced) /\ Agree(file, Durable, synced)
           /\ synced = Len(file) => Durable = file
           /\ Recorded \in Seq(Fits(Durable, synced)) /\ Len(Recorded) \in Nat
  <1>1. file \in Seq(Frames) /\ Len(file) \in Nat
    BY SoundIsLinked, FileIs
  <1>2. Durable \in Seq(Frames) /\ Len(Durable) = synced /\ Agree(file, Durable, synced)
    BY <1>1, CutAgrees DEF Durable
  <1>3. Sound(Durable)
    BY SoundCut DEF Durable
  <1>4. Recorded \in Seq(Fits(Durable, synced))
    BY <1>2, <1>3, LogFits DEF Recorded
  <1>5. synced = Len(file) => Durable = file
    BY <1>1, WholeCut DEF Durable
  <1>6. Agree(Durable, file, synced)
    BY <1>1, <1>2, AgreeIs
  <1>7. Len(Recorded) \in Nat
    BY <1>4
  <1> QED
    BY <1>1, <1>2, <1>3, <1>4, <1>5, <1>6, <1>7

LEMMA WrittenIs ==
    ASSUME FileOK, WrittenOK, pc = "written"
    PROVE  Ready(Durable) /\ Written(Durable, file)
  <1>1. Sound(file) /\ synced \in 0 .. Len(file) /\ Ready(Durable)
    BY DEF FileOK
  <1>2. Len(Durable) = synced /\ Agree(Durable, file, synced)
    BY <1>1, DurableIs
  <1> QED
    BY <1>1, <1>2 DEF WrittenOK, Written

LEMMA ClosedLeads ==
    ASSUME FileOK, pc \in {"anchor", "finalizing"}
    PROVE  /\ Manifests(file) = Recorded /\ Ready(file)
           /\ Manifests(SubSeq(file, 1, synced + 1)) = Recorded
  <1>1. /\ Sound(file) /\ synced \in 0 .. Len(file) /\ Len(file) = synced + 2
        /\ file[synced + 1] = FinalIndex(Recorded) /\ file[synced + 2] = Footer
    BY DEF FileOK
  <1>2. /\ file \in Seq(Frames) /\ Linked(file) /\ DOMAIN file = 1 .. Len(file)
        /\ synced \in Nat /\ Len(Durable) = synced /\ Sound(Durable)
        /\ Agree(Durable, file, synced)
    BY <1>1, DurableIs, SoundIsLinked, FileIs
  <1>3. file[synced + 1].kind = "index" /\ file[synced + 1].commits = Recorded
        /\ file[synced + 2].kind = "footer"
    BY <1>1 DEF FinalIndex, Footer
  <1>4. Ready(file) /\ LastTrailer(file, Len(file))
    BY <1>1, <1>2, <1>3, ReadyIs DEF Ready, Trailer
  <1>5. Manifests(file) = Recorded
    <2>1. synced + 2 \in 0 .. Len(file) /\ synced + 2 # 0 /\ synced + 2 - 1 = synced + 1
      BY <1>1, <1>2
    <2>2. Chain(file)[synced + 2] = ChainStep(file, Chain(file), synced + 2)
      BY <1>2, <2>1, ChainUnfolds
    <2>3. Manifests(file) = Chain(file)[synced + 2]
      BY <1>1, <1>4, <2>1, LogIs
    <2>4. ChainStep(file, Chain(file), synced + 2) = file[synced + 1].commits
      <3> DEFINE end == synced + 2
      <3>1. end # 0 /\ end - 1 = synced + 1 /\ file[end].kind = "footer"
        BY <1>2, <1>3, <2>1
      <3> HIDE DEF end
      <3>2. ChainStep(file, Chain(file), end) = file[end - 1].commits
        BY <3>1 DEF ChainStep
      <3>3. ChainStep(file, Chain(file), end) = file[synced + 1].commits
        BY <3>1, <3>2
      <3> QED
        BY <3>3 DEF end
    <2> QED
      BY <1>3, <2>2, <2>3, <2>4
  <1> DEFINE g == SubSeq(file, 1, synced + 1)
  <1>6. g \in Seq(Frames) /\ Len(g) = synced + 1 /\ Agree(file, g, synced + 1) /\ Sound(g)
    <2>1. synced + 1 \in 0 .. Len(file)
      BY <1>1, <1>2
    <2> QED
      BY <1>1, <1>2, <2>1, CutAgrees, SoundCut
  <1> HIDE DEF g
  <1>7. Agree(Durable, g, synced) /\ g[synced + 1].kind = "index"
    BY <1>2, <1>3, <1>6 DEF Agree
  <1>8. \A i \in synced + 1 .. Len(g) : ~Trailer(g, i) /\ g[i].kind # "commit"
    <2>1. \A i \in synced + 1 .. Len(g) : i = synced + 1
      BY <1>2, <1>6
    <2> QED
      BY <1>7, <2>1 DEF Trailer
  <1>9. Manifests(g) = Recorded
    BY <1>2, <1>6, <1>7, <1>8, LogExtends DEF Recorded
  <1> QED
    BY <1>4, <1>5, <1>9 DEF g

(* What is found in the file, and in what a crash leaves of it. *)
LEMMA FileLeads ==
    ASSUME FileOK, WrittenOK, StateOK
    PROVE  Manifests(file) = IF pc = "written" THEN Append(Recorded, Coming) ELSE Recorded
  <1>1. Sound(file) /\ synced \in 0 .. Len(file)
    BY DEF FileOK
  <1>2. CASE pc = "written"
    BY <1>1, <1>2, DurableIs, WrittenIs, WrittenLeads DEF Recorded, Coming
  <1>3. CASE pc \in {"anchor", "finalizing"}
    BY <1>3, ClosedLeads
  <1>4. CASE pc \in Synced
    <2>1. synced = Len(file) /\ pc # "written"
      BY <1>4 DEF FileOK, Synced
    <2> QED
      BY <1>1, <2>1, DurableIs DEF Recorded
  <1> QED
    BY <1>2, <1>3, <1>4 DEF StateOK, Stages, Synced

LEMMA CutLeads ==
    ASSUME FileOK, WrittenOK, StateOK, NEW n \in synced .. Len(file), NEW g \in Cut(n)
    PROVE  /\ Sound(g)
           /\ Manifests(g) = Recorded
              \/ (pc = "written" /\ Manifests(g) = Append(Recorded, Coming))
  <1> DEFINE kept == SubSeq(file, 1, n)
  <1>1. Sound(file) /\ synced \in 0 .. Len(file)
    BY DEF FileOK
  <1>2. /\ file \in Seq(Frames) /\ Len(file) \in Nat /\ synced \in Nat /\ n \in 0 .. Len(file)
        /\ n \in Nat /\ synced <= n /\ n <= Len(file) /\ Sound(Durable) /\ Len(Durable) = synced
    BY <1>1, DurableIs
  <1>3. Sound(kept)
    BY <1>1, <1>2, SoundCut
  <1>4. Manifests(kept) = Recorded \/ (pc = "written" /\ Manifests(kept) = Append(Recorded, Coming))
    <2>1. CASE n = Len(file)
      BY <1>2, <2>1, WholeCut, FileLeads
    <2>2. CASE n = synced
      BY <2>2 DEF Recorded, Durable
    <2>3. CASE n # Len(file) /\ n # synced
      <3>1. CASE pc = "written"
        <4>1. n \in Len(Durable) .. Len(file) - 1
          BY <1>2, <2>3
        <4>2. Manifests(kept) \in {Manifests(Durable), Append(Manifests(Durable), Coming)}
          BY <1>1, <1>2, <3>1, <4>1, WrittenIs, WrittenCut DEF Coming
        <4> QED
          BY <3>1, <4>2 DEF Recorded
      <3>2. CASE pc \in {"anchor", "finalizing"}
        <4>1. n = synced + 1
          BY <1>2, <2>3, <3>2 DEF FileOK
        <4> QED
          BY <3>2, <4>1, ClosedLeads
      <3>3. CASE pc \in Synced
        BY <1>2, <2>3, <3>3 DEF FileOK
      <3> QED
        BY <3>1, <3>2, <3>3 DEF StateOK, Stages, Synced
    <2> QED
      BY <2>1, <2>2, <2>3
  <1>5. g = kept \/ g = Append(kept, Torn)
    BY DEF Cut
  <1> HIDE DEF kept
  <1> QED
    BY <1>3, <1>4, <1>5, TornStays

-----------------------------------------------------------------------------
(* What it says of the build. *)

LEMMA PrefixIs ==
    ASSUME NEW S, NEW s \in Seq(S), NEW t \in Seq(S)
    PROVE  IsPrefix(s, t) <=> Len(s) <= Len(t) /\ \A i \in 1 .. Len(s) : s[i] = t[i]
  <1>1. Len(s) \in Nat /\ Len(t) \in Nat
    OBVIOUS
  <1>2. ASSUME Len(s) <= Len(t)
        PROVE  SubSeq(s, 1, Len(s)) = SubSeq(t, 1, Len(s))
               <=> \A i \in 1 .. Len(s) : s[i] = t[i]
    <2>1. /\ SubSeq(s, 1, Len(s)) \in Seq(S) /\ Len(SubSeq(s, 1, Len(s))) = Len(s)
          /\ \A i \in 1 .. Len(s) : SubSeq(s, 1, Len(s))[i] = s[i]
      BY <1>1
    <2>2. /\ SubSeq(t, 1, Len(s)) \in Seq(S) /\ Len(SubSeq(t, 1, Len(s))) = Len(s)
          /\ \A i \in 1 .. Len(s) : SubSeq(t, 1, Len(s))[i] = t[i]
      BY <1>1, <1>2
    <2>3. (\A i \in 1 .. Len(s) : s[i] = t[i])
          => SubSeq(s, 1, Len(s)) = SubSeq(t, 1, Len(s))
      BY <2>1, <2>2, SeqEqual
    <2>4. SubSeq(s, 1, Len(s)) = SubSeq(t, 1, Len(s))
          => \A i \in 1 .. Len(s) : s[i] = t[i]
      BY <2>1, <2>2
    <2> QED
      BY <2>3, <2>4
  <1> QED
    BY <1>2 DEF IsPrefix

LEMMA HistoryIs ==
    ASSUME NEW h \in Histories
    PROVE  /\ h \in Seq(Commits) /\ Len(h) \in Nat
           /\ \A i \in 1 .. Len(h) : h[i] \in Commits /\ h[i] # None
           /\ \A i, j \in 1 .. Len(h) : h[i] = h[j] => i = j
  <1>1. h \in Seq(Commits) /\ IsInjective(h) /\ \A i \in DOMAIN h : h[i] # None
    BY BuildAssumption
  <1>2. DOMAIN h = 1 .. Len(h) /\ Len(h) \in Nat /\ \A i \in 1 .. Len(h) : h[i] \in Commits
    BY <1>1
  <1> QED
    BY <1>1, <1>2 DEF IsInjective

(* The records of a log, as the states of the build use them. *)
LEMMA LogIsOfRecords ==
    ASSUME NEW log, NEW f, NEW n, log \in Seq(Fits(f, n))
    PROVE  /\ log \in Seq(Records) /\ DOMAIN log = 1 .. Len(log) /\ Len(log) \in Nat
           /\ \A i \in 1 .. Len(log) : log[i] \in Records /\ log[i] \in Fits(f, n)
           /\ ShasOf(log) \in Seq(Commits) /\ Len(ShasOf(log)) = Len(log)
           /\ \A i \in 1 .. Len(log) : ShasOf(log)[i] = log[i].sha
           /\ log # <<>> => Len(log) \in 1 .. Len(log)
  <1>1. Fits(f, n) \subseteq Records
    BY DEF Fits
  <1>2. /\ DOMAIN log = 1 .. Len(log) /\ Len(log) \in Nat
        /\ \A i \in 1 .. Len(log) : log[i] \in Fits(f, n)
        /\ log # <<>> => Len(log) \in 1 .. Len(log)
    OBVIOUS
  <1>3. \A i \in 1 .. Len(log) : log[i] \in Records /\ log[i].sha \in Commits
    BY <1>1, <1>2 DEF Records
  <1>4. ShasOf(log) = [i \in 1 .. Len(log) |-> log[i].sha]
    BY <1>2 DEF ShasOf
  <1>5. ShasOf(log) \in Seq(Commits) /\ Len(ShasOf(log)) = Len(log)
    BY <1>2, <1>3, <1>4
  <1>6. log \in Seq(Records)
    BY <1>1, SeqMonotonic
  <1> QED
    BY <1>1, <1>2, <1>3, <1>4, <1>5, <1>6

-----------------------------------------------------------------------------
(* What is captured of a generation. *)

LEMMA RowsAre ==
    ASSUME NEW f \in Seq(Frames), NEW root, IsRoot(f, root, Len(f))
    PROVE  RowsAt(f, root) \subseteq Rows \union CovRows /\ IsFiniteSet(RowsAt(f, root))
           /\ Cardinality(RowsAt(f, root)) \in Nat
           /\ (Cardinality(RowsAt(f, root)) = 0 <=> RowsAt(f, root) = {})
  <1>1. RowsAt(f, root) \subseteq Rows \union CovRows
    <2>1. DOMAIN f = 1 .. Len(f) /\ Len(f) \in Nat
      BY FileIs
    <2>2. CASE root = 0
      BY <2>2 DEF RowsAt
    <2>3. CASE root # 0
      <3>1. root \in DOMAIN f /\ f[root].kind = "page"
        BY <2>1, <2>3 DEF IsRoot
      <3>2. f[root] \in Frames
        BY <3>1, FileIs
      <3> QED
        BY <2>3, <3>1, <3>2, FramesAre DEF RowsAt
    <2> QED
      BY <2>2, <2>3
  <1>2. IsFiniteSet(Rows \union CovRows)
    BY BuildAssumption, FS_Union
  <1>3. IsFiniteSet(RowsAt(f, root))
    BY <1>1, <1>2, FS_Subset
  <1> QED
    BY <1>1, <1>3, FS_CardinalityType, FS_EmptySet

(* r is a tree in a file that extends f: the tree at root, changed.        *)
Stored(f, root, c, r) ==
    /\ r.file \in Seq(Frames) /\ Agree(f, r.file, Len(f))
    /\ \A i \in Len(f) + 1 .. Len(r.file) : r.file[i].kind = "page"
    /\ IsRoot(r.file, r.root, Len(r.file))
    /\ RowsAt(r.file, r.root) = (RowsAt(f, root) \ c.deleted) \union c.put
    /\ root = 0 \/ RowsAt(f, root) # {} =>
          (r.root = 0 <=> RowsAt(r.file, r.root) = {})

LEMMA Apply ==
    ASSUME NEW f \in Seq(Frames), NEW root, IsRoot(f, root, Len(f)),
           NEW c, c.put \subseteq Rows \union CovRows,
           NEW r, r = Applied(f, root, c)
    PROVE  Stored(f, root, c, r)
  <1> DEFINE rows == (RowsAt(f, root) \ c.deleted) \union c.put
  <1>1. Len(f) \in Nat /\ RowsAt(f, 0) = {}
    BY FileIs DEF RowsAt
  <1>2. Agree(f, f, Len(f)) /\ \A i \in Len(f) + 1 .. Len(f) : f[i].kind = "page"
    BY <1>1 DEF Agree
  <1>3. rows \subseteq Rows \union CovRows
    BY RowsAre
  <1>4. CASE c.put = {} /\ c.deleted = {}
    <2>1. r.root = root /\ r.file = f
      BY <1>4 DEF Applied
    <2>2. rows = RowsAt(f, root)
      BY <1>4
    <2> HIDE DEF rows
    <2> QED
      BY <1>1, <1>2, <2>1, <2>2 DEF rows, Stored
  <1>5. CASE ~(c.put = {} /\ c.deleted = {}) /\ rows = {}
    <2>1. r.root = 0 /\ r.file = f
      BY <1>5 DEF Applied
    <2>2. IsRoot(f, 0, Len(f))
      BY <1>1 DEF IsRoot
    <2> HIDE DEF rows
    <2> QED
      BY <1>1, <1>2, <1>5, <2>1, <2>2 DEF rows, Stored
  <1>6. CASE ~(c.put = {} /\ c.deleted = {}) /\ rows # {}
    <2>1. r.root = Len(f) + 1 /\ r.file = Append(f, Page(rows))
      BY <1>6 DEF Applied
    <2> HIDE DEF rows
    <2>2. Page(rows) \in Frames
      BY <1>3 DEF Frames, Trees, Page
    <2>3. /\ r.file \in Seq(Frames) /\ Len(r.file) = Len(f) + 1 /\ r.file[Len(f) + 1] = Page(rows)
          /\ Agree(f, r.file, Len(f))
      BY <2>1, <2>2, AppendAgrees
    <2>4. Page(rows).kind = "page" /\ Page(rows).rows = rows
      BY DEF Page
    <2>5. \A i \in Len(f) + 1 .. Len(r.file) : r.file[i].kind = "page"
      <3>1. \A i \in Len(f) + 1 .. Len(r.file) : i = Len(f) + 1
        BY <1>1, <2>3
      <3> QED
        BY <2>3, <2>4, <3>1
    <2>6. IsRoot(r.file, r.root, Len(r.file)) /\ r.root # 0 /\ RowsAt(r.file, r.root) = rows
      BY <1>1, <2>1, <2>3, <2>4 DEF IsRoot, RowsAt
    <2> QED
      BY <1>6, <2>3, <2>5, <2>6 DEF rows, Stored
  <1> QED
    BY <1>4, <1>5, <1>6

LEMMA PublishedIs ==
    ASSUME NEW g \in Published
    PROVE  g.rows \subseteq Rows /\ (g.coverage # None => g.coverage \subseteq CovRows)
           /\ g.tree \in {TreeOf[c] : c \in Commits} /\ g.engine \in Engines
  <1>1. PICK t, e : t \in {TreeOf[c] : c \in Commits} /\ e \in Engines /\ g \in Generations(t, e)
    BY DEF Published
  <1>2. g.coverage \in Attachments(e)
    BY <1>1 DEF Generations
  <1> QED
    BY <1>1, <1>2 DEF Generations, Attachments

LEMMA CommitsAre == None \notin Commits
  <1> SUFFICES ASSUME None \in Commits PROVE FALSE
    OBVIOUS
  <1>1. PICK h \in Histories : \E i \in DOMAIN h : h[i] = None
    BY DEF Commits
  <1> QED
    BY <1>1, BuildAssumption

LEMMA TipIs ==
    ASSUME FileOK
    PROVE  /\ Recorded = <<>> => Tip.sha = None /\ Tip.nodes = 0 /\ Tip.coverage = None
           /\ Recorded # <<>> =>
                 /\ Tip = Recorded[Len(Recorded)] /\ Len(Recorded) \in 1 .. Len(Recorded)
                 /\ Tip \in Records /\ Tip \in Fits(Durable, synced) /\ Tip.sha # None
           /\ IsRoot(Durable, Tip.nodes, synced)
           /\ Tip.coverage # None => IsRoot(Durable, Tip.coverage, synced)
  <1>1. synced \in Nat /\ Recorded \in Seq(Fits(Durable, synced))
    BY DurableIs DEF FileOK
  <1>2. CASE Recorded = <<>>
    BY <1>1, <1>2 DEF Tip, TipOf, IsRoot
  <1>3. CASE Recorded # <<>>
    <2>1. Len(Recorded) \in 1 .. Len(Recorded) /\ Recorded[Len(Recorded)] \in Fits(Durable, synced)
          /\ Recorded[Len(Recorded)] \in Records
      BY <1>1, <1>3, LogIsOfRecords
    <2>2. Tip = Recorded[Len(Recorded)]
      BY <1>3 DEF Tip, TipOf, Last
    <2>3. Tip.sha \in Commits
      BY <2>1, <2>2 DEF Records
    <2>4. Rooted(Durable, Tip, synced)
      BY <2>1, <2>2 DEF Fits
    <2> QED
      BY <1>3, <2>1, <2>2, <2>3, <2>4, CommitsAre DEF Rooted
  <1> QED
    BY <1>2, <1>3

(* What is recorded next was not recorded before. *)
LEMMA TargetIs ==
    ASSUME FileOK, StateOK, IsPrefix(ShasOf(Recorded), history), ~AllRecorded
    PROVE  /\ Target \in Commits /\ Target # None /\ Tip.sha # Target
           /\ Len(Recorded) + 1 \in 1 .. Len(history)
  <1>1. history \in Histories /\ Recorded \in Seq(Fits(Durable, synced)) /\ Len(Recorded) \in Nat
    BY DurableIs DEF FileOK, StateOK
  <1>2. /\ history \in Seq(Commits) /\ Len(history) \in Nat
        /\ \A i \in 1 .. Len(history) : history[i] \in Commits /\ history[i] # None
        /\ \A i, j \in 1 .. Len(history) : history[i] = history[j] => i = j
    BY <1>1, HistoryIs
  <1>3. /\ ShasOf(Recorded) \in Seq(Commits) /\ Len(ShasOf(Recorded)) = Len(Recorded)
        /\ \A i \in 1 .. Len(Recorded) : ShasOf(Recorded)[i] = Recorded[i].sha
    BY <1>1, LogIsOfRecords
  <1>4. Len(Recorded) <= Len(history) /\ \A i \in 1 .. Len(Recorded) : Recorded[i].sha = history[i]
    <2>1. Len(ShasOf(Recorded)) <= Len(history)
          /\ \A i \in 1 .. Len(ShasOf(Recorded)) : ShasOf(Recorded)[i] = history[i]
      BY <1>2, <1>3, PrefixIs
    <2> QED
      BY <1>3, <2>1
  <1>5. Len(Recorded) + 1 \in 1 .. Len(history)
    BY <1>1, <1>2, <1>4 DEF AllRecorded
  <1>6. Tip.sha # Target
    <2>1. CASE Recorded = <<>>
      BY <1>2, <1>5, <2>1, TipIs DEF Target
    <2>2. CASE Recorded # <<>>
      <3>1. Tip = Recorded[Len(Recorded)] /\ Len(Recorded) \in 1 .. Len(Recorded)
        BY <2>2, TipIs
      <3>2. Tip.sha = history[Len(Recorded)] /\ Len(Recorded) \in 1 .. Len(history)
        BY <1>1, <1>2, <1>4, <3>1
      <3>3. Len(Recorded) # Len(Recorded) + 1
        BY <1>1
      <3> QED
        BY <1>2, <1>5, <3>2, <3>3 DEF Target
    <2> QED
      BY <2>1, <2>2
  <1> QED
    BY <1>2, <1>5, <1>6 DEF Target

(* The rows of a tree after the changes that were computed for it are those *)
(* of the generation, whether it starts empty or from the tree of the head. *)
LEMMA NodesAre ==
    ASSUME IInv, pc = "indexed"
    PROVE  /\ GraphChanges.put \subseteq Rows
           /\ IsRoot(file, NodeBase, Len(file))
           /\ Trusted =>
                /\ (RowsAt(file, NodeBase) \ GraphChanges.deleted) \union GraphChanges.put = db.rows
                /\ NodeBase = 0 \/ RowsAt(file, NodeBase) # {}
  <1>1. FileOK /\ PinnedOK /\ db \in Published /\ pinned \in Published \union {None}
        /\ synced = Len(file) /\ Durable = file
    <2>1. FileOK /\ PinnedOK /\ BuildOK /\ StateOK
      BY DEF IInv
    <2>2. synced = Len(file) /\ Sound(file) /\ synced \in 0 .. Len(file)
      BY <2>1 DEF FileOK, Synced
    <2> QED
      BY <2>1, <2>2, DurableIs DEF BuildOK, StateOK
  <1>2. db.rows \subseteq Rows /\ (pinned # None => pinned.rows \subseteq Rows)
    BY <1>1, PublishedIs
  <1>3. \A a, b : Differences(a, b).put = b \ a /\ Differences(a, b).deleted = a \ b
    BY DEF Differences
  <1>4. CASE Snapshot
    <2>1. GraphChanges = Differences({}, db.rows) /\ NodeBase = 0
      BY <1>4 DEF GraphChanges, NodeBase
    <2>2. RowsAt(file, 0) = {} /\ IsRoot(file, 0, Len(file))
      BY <1>1, DurableIs DEF RowsAt, IsRoot, FileOK
    <2> QED
      BY <1>2, <1>3, <2>1, <2>2
  <1>5. CASE ~Snapshot
    <2>1. pinned # None /\ ~force /\ NodeBase = Tip.nodes
      BY <1>5 DEF Snapshot, NodeBase
    <2>2. Recorded # <<>> /\ (Trusted => pinned = Tip.captured) /\ (route = "noop" => db = pinned)
      BY <1>1, <2>1 DEF PinnedOK
    <2>3. IsRoot(file, Tip.nodes, Len(file)) /\ Tip \in Fits(file, Len(file))
      BY <1>1, <2>2, TipIs
    <2>4. Trusted => RowsAt(file, Tip.nodes) = pinned.rows
      BY <2>2, <2>3 DEF Fits, Exact
    <2>5. Trusted => Tip.nodes = 0 \/ RowsAt(file, Tip.nodes) # {}
      <3>1. file \in Seq(Frames)
        BY <1>1, DurableIs DEF FileOK
      <3>2. Trusted => VerifySnapshot(file, Tip)
        BY <2>3 DEF Fits, Exact
      <3>3. Trusted => (Tip.nodes = 0 <=> Cardinality(RowsAt(file, Tip.nodes)) = 0)
        BY <3>2 DEF VerifySnapshot, Restorable
      <3> QED
        BY <2>3, <3>1, <3>3, RowsAre
    <2>6. CASE route = "noop"
      <3>1. GraphChanges = Differences({}, {})
        BY <1>5, <2>6 DEF GraphChanges
      <3> QED
        BY <1>2, <1>3, <2>1, <2>2, <2>3, <2>4, <2>5, <2>6, <3>1
    <2>7. CASE route # "noop"
      <3>1. GraphChanges = Differences(pinned.rows, db.rows)
        BY <1>5, <2>7 DEF GraphChanges
      <3> QED
        BY <1>2, <1>3, <2>1, <2>2, <2>3, <2>4, <2>5, <2>7, <3>1
    <2> QED
      BY <2>6, <2>7
  <1> QED
    BY <1>4, <1>5

LEMMA CoverageIs ==
    ASSUME IInv, pc = "indexed", db.coverage # None
    PROVE  /\ CoverageChanges.put \subseteq CovRows
           /\ IsRoot(file, CoverageBase, Len(file))
           /\ Trusted =>
                /\ (RowsAt(file, CoverageBase) \ CoverageChanges.deleted)
                      \union CoverageChanges.put = db.coverage
                /\ CoverageBase = 0 \/ RowsAt(file, CoverageBase) # {}
  <1>1. FileOK /\ PinnedOK /\ db \in Published /\ pinned \in Published \union {None}
        /\ synced = Len(file) /\ Durable = file
    <2>1. FileOK /\ PinnedOK /\ BuildOK /\ StateOK
      BY DEF IInv
    <2>2. synced = Len(file) /\ Sound(file) /\ synced \in 0 .. Len(file)
      BY <2>1 DEF FileOK, Synced
    <2> QED
      BY <2>1, <2>2, DurableIs DEF BuildOK, StateOK
  <1>2. db.coverage \subseteq CovRows
        /\ (pinned # None /\ pinned.coverage # None => pinned.coverage \subseteq CovRows)
    BY <1>1, PublishedIs
  <1>3. \A a, b : Differences(a, b).put = b \ a /\ Differences(a, b).deleted = a \ b
    BY DEF Differences
  <1>4. CASE CoverageSnapshot
    <2>1. CoverageChanges = Differences({}, db.coverage) /\ CoverageBase = 0
      BY <1>4 DEF CoverageChanges, CoverageBase
    <2>2. RowsAt(file, 0) = {} /\ IsRoot(file, 0, Len(file))
      BY <1>1, DurableIs DEF RowsAt, IsRoot, FileOK
    <2> QED
      BY <1>2, <1>3, <2>1, <2>2
  <1>5. CASE ~CoverageSnapshot
    <2>1. pinned # None /\ ~force /\ CoverageBase = Tip.coverage /\ Tip.coverage # None
          /\ (route # "noop" => pinned.coverage # None)
      BY <1>5 DEF Snapshot, CoverageSnapshot, CoverageBase
    <2>2. Recorded # <<>> /\ (Trusted => pinned = Tip.captured) /\ (route = "noop" => db = pinned)
      BY <1>1, <2>1 DEF PinnedOK
    <2>3. IsRoot(file, Tip.coverage, Len(file)) /\ Tip \in Fits(file, Len(file))
      BY <1>1, <2>1, <2>2, TipIs
    <2>4. Trusted => RowsAt(file, Tip.coverage) = pinned.coverage
      BY <2>1, <2>2, <2>3 DEF Fits, Exact
    <2>5. Trusted => Tip.coverage = 0 \/ RowsAt(file, Tip.coverage) # {}
      <3>1. file \in Seq(Frames)
        BY <1>1, DurableIs DEF FileOK
      <3>2. Trusted => VerifySnapshot(file, Tip)
        BY <2>3 DEF Fits, Exact
      <3>3. Trusted => (Tip.coverage = 0 <=> Cardinality(RowsAt(file, Tip.coverage)) = 0)
        BY <2>1, <3>2 DEF VerifySnapshot, Restorable, CoverageAgrees, LoadCoverage
      <3> QED
        BY <2>3, <3>1, <3>3, RowsAre
    <2>6. CASE route = "noop"
      <3>1. CoverageChanges = Differences({}, {})
        BY <1>5, <2>6 DEF CoverageChanges
      <3> QED
        BY <1>2, <1>3, <2>1, <2>2, <2>3, <2>4, <2>5, <2>6, <3>1
    <2>7. CASE route # "noop"
      <3>1. CoverageChanges = Differences(pinned.coverage, db.coverage)
        BY <1>5, <2>7 DEF CoverageChanges
      <3> QED
        BY <1>2, <1>3, <2>1, <2>2, <2>3, <2>4, <2>5, <2>7, <3>1
    <2> QED
      BY <2>6, <2>7
  <1> QED
    BY <1>4, <1>5

LEMMA PagesChain ==
    ASSUME NEW f \in Seq(Frames), NEW g \in Seq(Frames), NEW h \in Seq(Frames),
           Agree(f, g, Len(f)), Agree(g, h, Len(g)),
           \A i \in Len(f) + 1 .. Len(g) : g[i].kind = "page",
           \A i \in Len(g) + 1 .. Len(h) : h[i].kind = "page"
    PROVE  Agree(f, h, Len(f)) /\ \A i \in Len(f) + 1 .. Len(h) : h[i].kind = "page"
  <1>1. Len(f) \in Nat /\ Len(g) \in Nat /\ Len(h) \in Nat
    BY FileIs
  <1>2. Len(f) <= Len(g) /\ Len(g) <= Len(h) /\ \A i \in 1 .. Len(g) : g[i] = h[i]
    BY DEF Agree
  <1>3. Agree(f, h, Len(f))
    BY <1>1, <1>2 DEF Agree
  <1>4. ASSUME NEW i \in Len(f) + 1 .. Len(h) PROVE h[i].kind = "page"
    <2>1. i \in Len(g) + 1 .. Len(h) \/ (i \in Len(f) + 1 .. Len(g) /\ i \in 1 .. Len(g))
      BY <1>1
    <2> QED
      BY <1>2, <2>1
  <1> QED
    BY <1>3, <1>4

LEMMA RootAgrees ==
    ASSUME NEW f \in Seq(Frames), NEW g \in Seq(Frames), Agree(f, g, Len(f)),
           NEW root, IsRoot(f, root, Len(f))
    PROVE  IsRoot(g, root, Len(g)) /\ RowsAt(g, root) = RowsAt(f, root)
  <1>1. Len(f) \in Nat /\ Len(g) \in Nat /\ Len(f) <= Len(g)
    BY FileIs DEF Agree
  <1> QED
    BY <1>1 DEF IsRoot, RowsAt, Agree

(* The commit that is captured is exact in the file it is written to.      *)
LEMMA Captured ==
    ASSUME IInv, pc = "indexed"
    PROVE  LET g == WithCoverage.file
           IN  /\ g \in Seq(Frames) /\ Agree(file, g, Len(file))
               /\ \A i \in Len(file) + 1 .. Len(g) : g[i].kind = "page"
               /\ Manifest \in Fits(g, Len(g))
  <1> DEFINE n == WithNodes
             v == WithCoverage
             m == Manifest
  <1>1. /\ file \in Seq(Frames) /\ db \in Published /\ engine \in Engines
        /\ Target \in Commits /\ None \notin Nat
    <2>1. FileOK /\ StateOK /\ BuildOK
      BY DEF IInv
    <2>2. file \in Seq(Frames)
      BY <2>1, DurableIs DEF FileOK
    <2>3. IsPrefix(ShasOf(Recorded), history) /\ ~AllRecorded /\ db \in Published
      BY <2>1 DEF BuildOK
    <2> QED
      BY <2>1, <2>2, <2>3, TargetIs, BuildAssumption DEF StateOK
  <1>2. /\ n.file \in Seq(Frames) /\ Agree(file, n.file, Len(file))
        /\ \A i \in Len(file) + 1 .. Len(n.file) : n.file[i].kind = "page"
        /\ IsRoot(n.file, n.root, Len(n.file))
        /\ Trusted => RowsAt(n.file, n.root) = db.rows
                      /\ (n.root = 0 <=> RowsAt(n.file, n.root) = {})
    <2>1. GraphChanges.put \subseteq Rows \union CovRows /\ IsRoot(file, NodeBase, Len(file))
      BY NodesAre
    <2> HIDE DEF n
    <2>2. n = Applied(file, NodeBase, GraphChanges)
      BY DEF n, WithNodes
    <2>3. Stored(file, NodeBase, GraphChanges, n)
      BY <1>1, <2>1, <2>2, Apply
    <2> QED
      BY <2>3, NodesAre DEF Stored
  <1>3. /\ v.file \in Seq(Frames) /\ Agree(n.file, v.file, Len(n.file))
        /\ \A i \in Len(n.file) + 1 .. Len(v.file) : v.file[i].kind = "page"
        /\ db.coverage = None => v.root = None
        /\ db.coverage # None =>
              /\ IsRoot(v.file, v.root, Len(v.file)) /\ v.root # None
              /\ Trusted => RowsAt(v.file, v.root) = db.coverage
                            /\ (v.root = 0 <=> RowsAt(v.file, v.root) = {})
    <2>1. CASE db.coverage = None
      <3>1. v.root = None /\ v.file = n.file
        BY <2>1 DEF WithCoverage
      <3> HIDE DEF v, n
      <3>2. Agree(n.file, n.file, Len(n.file))
            /\ \A i \in Len(n.file) + 1 .. Len(n.file) : n.file[i].kind = "page"
        BY <1>2, FileIs DEF Agree
      <3> QED
        BY <1>2, <2>1, <3>1, <3>2
    <2>2. CASE db.coverage # None
      <3>1. CoverageChanges.put \subseteq Rows \union CovRows
            /\ IsRoot(file, CoverageBase, Len(file))
        BY <2>2, CoverageIs
      <3>2. v = Applied(n.file, CoverageBase, CoverageChanges)
        BY <2>2 DEF WithCoverage
      <3> HIDE DEF v, n
      <3>3. /\ IsRoot(n.file, CoverageBase, Len(n.file))
            /\ RowsAt(n.file, CoverageBase) = RowsAt(file, CoverageBase)
        BY <1>1, <1>2, <3>1, RootAgrees
      <3>4. Stored(n.file, CoverageBase, CoverageChanges, v)
        BY <1>2, <3>1, <3>2, <3>3, Apply
      <3>5. v.root # None
        BY <1>1, <3>4, FileIs DEF IsRoot, Stored
      <3>6. Trusted => RowsAt(v.file, v.root) = db.coverage
                       /\ (v.root = 0 <=> RowsAt(v.file, v.root) = {})
        BY <2>2, <3>3, <3>4, CoverageIs DEF Stored
      <3> QED
        BY <2>2, <3>4, <3>5, <3>6 DEF Stored
    <2> QED
      BY <2>1, <2>2
  <1>4. /\ m.sha = Target /\ m.engine = engine /\ m.nodes = n.root /\ m.coverage = v.root
        /\ m.snapshot = Snapshot /\ m.captured = db
        /\ m.size = Cardinality(RowsAt(n.file, n.root))
        /\ m.covered = (IF db.coverage = None THEN None ELSE Cardinality(RowsAt(v.file, v.root)))
    BY DEF Manifest
  <1>5. m = [sha |-> m.sha, engine |-> m.engine, nodes |-> m.nodes, coverage |-> m.coverage,
             snapshot |-> m.snapshot, captured |-> m.captured, size |-> m.size,
             covered |-> m.covered]
    BY DEF Manifest
  <1>6. Snapshot \in BOOLEAN
    BY DEF IInv, StateOK, Snapshot
  <1>7. v.file = WithCoverage.file /\ m = Manifest
    OBVIOUS
  <1> HIDE DEF n, v, m
  <1>8. Agree(file, v.file, Len(file)) /\ \A i \in Len(file) + 1 .. Len(v.file) : v.file[i].kind = "page"
    BY <1>1, <1>2, <1>3, PagesChain
  <1>9. IsRoot(v.file, n.root, Len(v.file)) /\ RowsAt(v.file, n.root) = RowsAt(n.file, n.root)
    BY <1>2, <1>3, RootAgrees
  <1>10. /\ Cardinality(RowsAt(v.file, n.root)) \in Nat
         /\ (Cardinality(RowsAt(v.file, n.root)) = 0 <=> RowsAt(v.file, n.root) = {})
         /\ db.coverage # None =>
               /\ Cardinality(RowsAt(v.file, v.root)) \in Nat
               /\ (Cardinality(RowsAt(v.file, v.root)) = 0 <=> RowsAt(v.file, v.root) = {})
    BY <1>3, <1>9, RowsAre
  <1>11. n.root \in Nat /\ (db.coverage # None => v.root \in Nat)
    BY <1>2, <1>3, FileIs DEF IsRoot
  <1>12. m \in Records
    <2>1. m.sha \in Commits /\ m.engine \in Engines \union {None} /\ m.nodes \in Nat
          /\ m.captured \in Published /\ m.snapshot \in BOOLEAN
      BY <1>1, <1>4, <1>6, <1>11
    <2>2. m.coverage \in Nat \union {None}
      BY <1>3, <1>4, <1>11
    <2>3. m.size \in Nat /\ m.covered \in Nat \union {None}
      BY <1>4, <1>9, <1>10
    <2> QED
      BY <1>5, <2>1, <2>2, <2>3 DEF Records
  <1>13. Rooted(v.file, m, Len(v.file))
    BY <1>3, <1>4, <1>9 DEF Rooted
  <1>14. ASSUME Trusted PROVE Exact(v.file, m)
    <2>1. RowsAt(v.file, m.nodes) = m.captured.rows
      BY <1>2, <1>4, <1>9, <1>14
    <2>2. (m.nodes = 0 <=> m.size = 0) /\ m.size = Cardinality(RowsAt(v.file, m.nodes))
      BY <1>2, <1>4, <1>9, <1>10, <1>14
    <2>3. CASE db.coverage = None
      <3>1. m.coverage = None /\ m.covered = None
        BY <1>3, <1>4, <2>3
      <3> QED
        BY <1>4, <2>1, <2>2, <2>3, <3>1
        DEF Exact, VerifySnapshot, Restorable, CoverageAgrees
    <2>4. CASE db.coverage # None
      <3>1. m.coverage # None /\ m.covered = Cardinality(RowsAt(v.file, m.coverage))
            /\ (m.coverage = 0 <=> m.covered = 0) /\ RowsAt(v.file, m.coverage) = db.coverage
            /\ m.covered # None
        BY <1>1, <1>3, <1>4, <1>10, <1>14, <2>4
      <3>2. LoadCoverage(v.file, m) = RowsAt(v.file, m.coverage)
        BY <3>1 DEF LoadCoverage
      <3>3. VerifySnapshot(v.file, m)
        BY <2>2, <3>1, <3>2 DEF VerifySnapshot, Restorable, CoverageAgrees
      <3> QED
        BY <1>4, <2>1, <2>4, <3>1, <3>3 DEF Exact
    <2> QED
      BY <2>3, <2>4
  <1>15. m \in Fits(v.file, Len(v.file))
    BY <1>12, <1>13, <1>14 DEF Fits
  <1> QED
    BY <1>3, <1>7, <1>8, <1>15

-----------------------------------------------------------------------------
(* The initial states. *)

LEMMA EmptyIs == Sound(<<>>) /\ Ready(<<>>) /\ Manifests(<<>>) = <<>>
  <1>1. <<>> \in Seq(Frames) /\ DOMAIN <<>> = {} /\ Len(<<>>) = 0
    OBVIOUS
  <1>2. Sound(<<>>) /\ Ready(<<>>)
    BY <1>1 DEF Sound, Ready
  <1>3. LastTrailer(<<>>, 0)
    BY <1>1 DEF LastTrailer
  <1>4. Manifests(<<>>) = Scan(<<>>)[0]
    BY <1>1, <1>2, <1>3, LogIs DEF Scanned
  <1>5. 0 \in 0 .. Len(<<>>)
    BY <1>1
  <1>6. Scan(<<>>)[0] = ScanStep(<<>>, Scan(<<>>), 0)
    BY <1>1, <1>5, ScanUnfolds
  <1> QED
    BY <1>2, <1>4, <1>6 DEF ScanStep

LEMMA LegacyIs == Sound(Legacy)
  <1>1. Legacy \in Seq(Trees \union CommitFrames \union Indexes \union {Footer, Torn})
    BY LegacyAssumption
  <1>2. Legacy \in Seq(Frames)
    <2>1. Trees \union CommitFrames \union Indexes \union {Footer, Torn} \subseteq Frames
      BY DEF Frames
    <2> QED
      BY <1>1, <2>1, SeqMonotonic
  <1>3. DOMAIN Legacy = 1 .. Len(Legacy) /\ Len(Legacy) \in Nat
    BY <1>2, FileIs
  <1>4. \A i \in DOMAIN Legacy : Legacy[i].kind # "checkpoint"
    <2>1. \A i \in DOMAIN Legacy :
             Legacy[i] \in Trees \union CommitFrames \union Indexes \union {Footer, Torn}
      BY <1>1, <1>3
    <2> QED
      BY <2>1 DEF Trees, CommitFrames, Indexes, Footer, Torn
  <1>5. ASSUME NEW i \in DOMAIN Legacy PROVE FrameOK(Legacy, i)
    <2>1. Legacy[i] \in Frames
      BY <1>2, FileIs
    <2>2. /\ Legacy[i].kind = "commit" =>
                Exact(Legacy, Legacy[i].manifest) /\ Rooted(Legacy, Legacy[i].manifest, i)
          /\ Legacy[i].kind = "index" => \A j \in DOMAIN Legacy[i].commits :
                Exact(Legacy, Legacy[i].commits[j]) /\ Rooted(Legacy, Legacy[i].commits[j], i)
          /\ Legacy[i].kind = "footer" => i > 1 /\ Legacy[i - 1].kind = "index"
      BY LegacyAssumption
    <2>3. Legacy[i].kind = "commit" => Legacy[i].manifest \in Fits(Legacy, i)
      BY <2>1, <2>2, FramesAre DEF Fits
    <2>4. Legacy[i].kind = "index" => Legacy[i].commits \in Seq(Fits(Legacy, i))
      <3> SUFFICES ASSUME Legacy[i].kind = "index" PROVE Legacy[i].commits \in Seq(Fits(Legacy, i))
        OBVIOUS
      <3> DEFINE log == Legacy[i].commits
      <3>1. log \in Seq(Records)
        BY <2>1, FramesAre
      <3>2. \A j \in DOMAIN log : log[j] \in Fits(Legacy, i)
        BY <2>2, <3>1 DEF Fits
      <3> HIDE DEF log
      <3>3. log \in Seq(Fits(Legacy, i))
        BY <3>1, <3>2
      <3> QED
        BY <3>3 DEF log
    <2>5. Legacy[i].kind = "footer" => FooterOK(Legacy, i)
      BY <1>3, <1>4, <2>2 DEF FooterOK
    <2> QED
      BY <1>4, <2>3, <2>4, <2>5 DEF FrameOK
  <1> QED
    BY <1>2, <1>5 DEF Sound

LEMMA InitIInv == Init => IInv
  <1> SUFFICES ASSUME Init PROVE IInv
    OBVIOUS
  <1>1. Sound(file) /\ WholeAtBoundaries(Manifests(file))
    <2>1. WholeAtBoundaries(<<>>)
      BY DEF WholeAtBoundaries
    <2>2. WholeAtBoundaries(Manifests(Legacy))
      BY LegacyAssumption
    <2> QED
      BY <2>1, <2>2, EmptyIs, LegacyIs DEF Init
  <1>2. synced = Len(file) /\ synced \in 0 .. Len(file) /\ Durable = file
    <2>1. file \in Seq(Frames) /\ Len(file) \in Nat
      BY <1>1, SoundIsLinked, FileIs
    <2>2. synced = Len(file) /\ synced \in 0 .. Len(file)
      BY <2>1 DEF Init
    <2> QED
      BY <1>1, <2>2, DurableIs
  <1>3. FileOK /\ WrittenOK
    BY <1>1, <1>2 DEF Init, FileOK, WrittenOK
  <1>4. StateOK
    <2>1. 0 \in 0 .. MaxFaults /\ 0 \in 0 .. MaxAsks
      BY BuildAssumption
    <2> QED
      BY <2>1 DEF Init, StateOK, Stages
  <1>5. BuildOK /\ PinnedOK
    BY <1>1, <1>2 DEF Init, BuildOK, PinnedOK, Recorded
  <1>6. BaseOK
    BY DEF Init, BaseOK, Aligned, Current
  <1> QED
    BY <1>3, <1>4, <1>5, <1>6 DEF IInv

-----------------------------------------------------------------------------
(* The file, step by step. *)

LEMMA CutOfExtension ==
    ASSUME NEW f \in Seq(Frames), NEW g \in Seq(Frames), Agree(f, g, Len(f))
    PROVE  SubSeq(g, 1, Len(f)) = f
  <1>1. Len(f) \in 0 .. Len(g)
    BY FileIs DEF Agree
  <1>2. /\ SubSeq(g, 1, Len(f)) \in Seq(Frames) /\ Len(SubSeq(g, 1, Len(f))) = Len(f)
        /\ Agree(g, SubSeq(g, 1, Len(f)), Len(f))
    BY <1>1, CutAgrees
  <1>3. \A i \in 1 .. Len(f) : f[i] = SubSeq(g, 1, Len(f))[i]
    BY <1>2, AgreeIs DEF Agree
  <1> QED
    BY <1>2, <1>3, SeqEqual

(* Steps that leave the archive alone. *)
LEMMA Quiet ==
    ASSUME FileOK, UNCHANGED archive, pc \in Synced, pc' \in Synced,
           pc' \notin {"idle", "open"} => pc \notin {"idle", "open"}
    PROVE  FileOK' /\ WrittenOK' /\ Recorded' = Recorded
  <1>1. file' = file /\ synced' = synced
    BY DEF archive
  <1>2. Durable' = Durable /\ Recorded' = Recorded
    BY <1>1 DEF Durable, Recorded
  <1>3. /\ Sound(file') /\ synced' \in 0 .. Len(file') /\ synced' = Len(file')
        /\ pc' \notin {"idle", "open", "anchor"} => Ready(Durable')
    BY <1>1, <1>2 DEF FileOK, Synced
  <1>4. pc' \notin {"written", "anchor", "finalizing"}
    BY DEF Synced
  <1> QED
    BY <1>2, <1>3, <1>4 DEF FileOK, WrittenOK

(* Steps after which all of the file is synced. *)
LEMMA Settled ==
    ASSUME Sound(file'), synced' = Len(file'), pc' \in Synced,
           pc' \notin {"idle", "open"} => Ready(file')
    PROVE  FileOK' /\ WrittenOK' /\ Recorded' = Manifests(file')
  <1>1. file' \in Seq(Frames) /\ Len(file') \in Nat
    BY SoundIsLinked, FileIs
  <1>2. synced' \in 0 .. Len(file')
    BY <1>1
  <1>3. SubSeq(file', 1, synced') = file'
    BY <1>1, WholeCut
  <1>4. Durable' = file' /\ Recorded' = Manifests(file')
    BY <1>3 DEF Durable, Recorded
  <1>5. pc' \notin {"written", "anchor", "finalizing"}
    BY DEF Synced
  <1> QED
    BY <1>2, <1>4, <1>5 DEF FileOK, WrittenOK

LEMMA OpenFile ==
    ASSUME IInv, Open PROVE FileOK' /\ WrittenOK' /\ Recorded' = Recorded
  <1> DEFINE kept == SubSeq(file, 1, DurableEnd(file))
  <1>1. /\ FileOK /\ Sound(file) /\ synced \in 0 .. Len(file) /\ synced = Len(file)
        /\ Recorded = Manifests(file)
    <2>1. FileOK /\ Sound(file) /\ synced \in 0 .. Len(file) /\ synced = Len(file)
      BY DEF IInv, FileOK, Open, Synced
    <2> QED
      BY <2>1, DurableIs DEF Recorded
  <1>2. Sound(kept) /\ Manifests(kept) = Recorded /\ (~NeedsAnchor(file) => Ready(kept))
    BY <1>1, OpenKeeps
  <1>3. /\ synced' = Len(kept)
        /\ IF NeedsAnchor(file)
           THEN file' = kept \o <<FinalIndex(Recorded), Footer>> /\ pc' = "anchor"
           ELSE file' = kept /\ pc' = "ready"
    BY <1>1 DEF Open
  <1> HIDE DEF kept
  <1>4. CASE NeedsAnchor(file)
    <2>1. /\ Sound(file') /\ Len(file') = Len(kept) + 2 /\ Agree(kept, file', Len(kept))
          /\ file'[Len(kept) + 1] = FinalIndex(Recorded) /\ file'[Len(kept) + 2] = Footer
      BY <1>2, <1>3, <1>4, Closed
    <2>2. kept \in Seq(Frames) /\ file' \in Seq(Frames) /\ Len(kept) \in Nat
      BY <1>2, <2>1, SoundIsLinked, FileIs
    <2>3. SubSeq(file', 1, synced') = kept
      BY <1>3, <2>1, <2>2, CutOfExtension
    <2>4. Recorded' = Recorded
      BY <1>2, <2>3 DEF Recorded, Durable
    <2>5. pc' = "anchor" /\ synced' = Len(kept) /\ synced' \in 0 .. Len(file')
      BY <1>3, <1>4, <2>1, <2>2
    <2>6. FileOK'
      BY <2>1, <2>4, <2>5 DEF FileOK, Synced
    <2> QED
      BY <2>4, <2>5, <2>6 DEF WrittenOK
  <1>5. CASE ~NeedsAnchor(file)
    <2>1. file' = kept /\ pc' = "ready" /\ synced' = Len(file')
      BY <1>3, <1>5
    <2>2. FileOK' /\ WrittenOK' /\ Recorded' = Manifests(file')
      BY <1>2, <1>5, <2>1, Settled DEF Synced
    <2> QED
      BY <1>2, <2>1, <2>2
  <1> QED
    BY <1>4, <1>5

LEMMA RecordFile ==
    ASSUME IInv, Record
    PROVE  FileOK' /\ WrittenOK' /\ Recorded' = Recorded
  <1> DEFINE g == WithCoverage.file
  <1>1. /\ FileOK /\ Sound(file) /\ file \in Seq(Frames) /\ synced = Len(file) /\ Durable = file
        /\ synced \in Nat /\ Ready(file) /\ pc = "indexed" /\ pc' = "written" /\ synced' = synced
        /\ UNCHANGED <<db, pending, force, pinned, history, engine>>
    <2>1. FileOK /\ Sound(file) /\ synced \in 0 .. Len(file) /\ synced = Len(file)
          /\ pc = "indexed" /\ pc' = "written" /\ synced' = synced /\ Ready(Durable)
          /\ UNCHANGED <<db, pending, force, pinned, history, engine>>
      BY DEF IInv, FileOK, Record, Goes, Synced, marks, request
    <2> QED
      BY <2>1, DurableIs
  <1>2. /\ g \in Seq(Frames) /\ Agree(file, g, Len(file)) /\ Manifest \in Fits(g, Len(g))
        /\ \A i \in Len(file) + 1 .. Len(g) : g[i].kind = "page"
    BY <1>1, Captured
  <1>3. file' = g \o <<Commit(Manifest), Checkpoint(Len(file))>>
    <2>1. Anchor(Durable) = Len(file)
      BY <1>1, ReadyIs
    <2> QED
      BY <2>1 DEF Record
  <1>4. /\ Manifest.sha = Target /\ Manifest.captured = db /\ Manifest.engine = engine
        /\ Manifest.snapshot = Snapshot
    BY DEF Manifest
  <1> HIDE DEF g
  <1>5. /\ Sound(file') /\ Written(file, file') /\ Len(file') = Len(g) + 2
        /\ file'[Len(file') - 1] = Commit(Manifest)
    BY <1>1, <1>2, <1>3, CommitSound
  <1>6. file' \in Seq(Frames) /\ Len(file') \in Nat /\ Len(file) + 2 <= Len(file')
        /\ Agree(file, file', Len(file))
    BY <1>5, SoundIsLinked, FileIs DEF Written
  <1>7. SubSeq(file', 1, synced') = file
    BY <1>1, <1>6, CutOfExtension
  <1>8. Durable' = Durable /\ Recorded' = Recorded
    BY <1>1, <1>7 DEF Durable, Recorded
  <1>9. synced' \in 0 .. Len(file') /\ Ready(Durable')
    BY <1>1, <1>6, <1>8
  <1>10. FileOK'
    BY <1>1, <1>5, <1>9 DEF FileOK, Synced
  <1>11. Coming' = Manifest
    BY <1>5 DEF Coming, Commit
  <1>12. Target' = Target /\ Tip' = Tip /\ (Changes' <=> Changes)
    BY <1>1, <1>8 DEF Target, Tip, TipOf, Changes
  <1>13. Changes => Snapshot
    <2>1. Changes => force
      BY <1>1 DEF IInv, BuildOK
    <2> QED
      BY <2>1 DEF Snapshot
  <1>14. /\ synced' + 2 <= Len(file')
         /\ \A i \in synced' + 1 .. Len(file') - 2 : file'[i].kind = "page"
         /\ file'[Len(file') - 1].kind = "commit" /\ file'[Len(file')] = Checkpoint(synced')
    BY <1>1, <1>5, <1>6 DEF Written
  <1>15. WrittenOK'
    BY <1>1, <1>4, <1>11, <1>12, <1>13, <1>14 DEF WrittenOK
  <1> QED
    BY <1>8, <1>10, <1>15

LEMMA RefusedFile ==
    ASSUME IInv, RefuseCapture PROVE FileOK' /\ WrittenOK' /\ Recorded' = Recorded
  <1>1. /\ FileOK /\ Sound(file) /\ file \in Seq(Frames) /\ synced = Len(file)
        /\ Recorded = Manifests(file) /\ pc = "indexed" /\ pc' = "idle"
    <2>1. FileOK /\ Sound(file) /\ synced \in 0 .. Len(file) /\ synced = Len(file)
          /\ pc = "indexed" /\ pc' = "idle"
      BY DEF IInv, FileOK, RefuseCapture, Ends, Synced
    <2> QED
      BY <2>1, DurableIs DEF Recorded
  <1>2. CASE UNCHANGED archive
    BY <1>1, <1>2, Quiet DEF Synced
  <1>3. CASE file' = WithNodes.file /\ synced' = Len(file')
    <2>1. GraphChanges.put \subseteq Rows \union CovRows /\ IsRoot(file, NodeBase, Len(file))
      BY <1>1, NodesAre
    <2>2. Stored(file, NodeBase, GraphChanges, WithNodes)
      BY <1>1, <2>1, Apply DEF WithNodes
    <2>3. Sound(file') /\ Manifests(file') = Manifests(file)
      BY <1>1, <1>3, <2>2, Paged DEF Stored
    <2> QED
      BY <1>1, <1>3, <2>3, Settled DEF Synced
  <1> QED
    BY <1>2, <1>3 DEF RefuseCapture

LEMMA SyncFile ==
    ASSUME IInv, SyncCommit
    PROVE  FileOK' /\ WrittenOK' /\ Recorded' = Append(Recorded, Coming)
  <1>1. /\ FileOK /\ WrittenOK /\ StateOK /\ pc = "written" /\ pc' = "mark_current"
        /\ file' = file /\ synced' = Len(file) /\ Sound(file) /\ synced \in 0 .. Len(file)
    BY DEF IInv, FileOK, SyncCommit, Goes
  <1>2. Manifests(file) = Append(Recorded, Coming) /\ Ready(file)
    BY <1>1, DurableIs, WrittenIs, WrittenLeads DEF Recorded, Coming
  <1> QED
    BY <1>1, <1>2, Settled DEF Synced

LEMMA CloseFile ==
    ASSUME IInv, SyncAnchor \/ SyncFinal
    PROVE  FileOK' /\ WrittenOK' /\ Recorded' = Recorded
  <1>1. /\ FileOK /\ pc \in {"anchor", "finalizing"} /\ pc' \in {"ready", "finalized"}
        /\ file' = file /\ synced' = Len(file) /\ Sound(file)
    BY DEF IInv, FileOK, SyncAnchor, SyncFinal, Goes
  <1>2. Manifests(file) = Recorded /\ Ready(file)
    BY <1>1, ClosedLeads
  <1> QED
    BY <1>1, <1>2, Settled DEF Synced

LEMMA FinalFile ==
    ASSUME IInv, Finalize PROVE FileOK' /\ WrittenOK' /\ Recorded' = Recorded
  <1>1. /\ Sound(file) /\ file \in Seq(Frames) /\ Len(file) \in Nat /\ synced = Len(file)
        /\ Durable = file /\ Recorded = Manifests(file) /\ Ready(file)
        /\ pc' = "finalizing" /\ synced' = synced
        /\ file' = file \o <<FinalIndex(Recorded), Footer>>
    <2>1. Sound(file) /\ synced \in 0 .. Len(file) /\ synced = Len(file) /\ Ready(Durable)
          /\ pc' = "finalizing" /\ synced' = synced
          /\ file' = file \o <<FinalIndex(Recorded), Footer>>
      BY DEF IInv, FileOK, Finalize, Goes, Synced
    <2> QED
      BY <2>1, DurableIs DEF Recorded
  <1>2. /\ Sound(file') /\ Len(file') = Len(file) + 2 /\ Agree(file, file', Len(file))
        /\ file'[Len(file) + 1] = FinalIndex(Recorded) /\ file'[Len(file) + 2] = Footer
    BY <1>1, Closed
  <1>3. file' \in Seq(Frames)
    BY <1>2, SoundIsLinked
  <1>4. Durable' = Durable /\ Recorded' = Recorded
    BY <1>1, <1>2, <1>3, CutOfExtension DEF Durable, Recorded
  <1>5. synced' \in 0 .. Len(file')
    BY <1>1, <1>2
  <1>6. FileOK'
    BY <1>1, <1>2, <1>4, <1>5 DEF FileOK, Synced
  <1> QED
    BY <1>1, <1>4, <1>6 DEF WrittenOK

LEMMA LostFile ==
    ASSUME IInv, Fail \/ Crash
    PROVE  /\ FileOK' /\ WrittenOK'
           /\ Recorded' = Recorded \/ (pc = "written" /\ Recorded' = Append(Recorded, Coming))
  <1>1. /\ FileOK /\ WrittenOK /\ StateOK /\ Sound(file) /\ synced \in 0 .. Len(file)
        /\ pc' = "idle" /\ synced' = Len(file')
    BY DEF IInv, FileOK, Fail, Crash, Ends
  <1>2. PICK n \in synced .. Len(file) : file' \in Cut(n)
    <2>1. CASE Fail
      <3>1. file' = file /\ file \in Seq(Frames) /\ Len(file) \in synced .. Len(file)
        BY <1>1, <2>1, DurableIs DEF Fail
      <3>2. file' \in Cut(Len(file))
        BY <3>1, WholeCut DEF Cut
      <3> QED
        BY <3>1, <3>2
    <2>2. CASE Crash
      BY <2>2 DEF Crash
    <2> QED
      BY <2>1, <2>2
  <1>3. /\ Sound(file')
        /\ Manifests(file') = Recorded
           \/ (pc = "written" /\ Manifests(file') = Append(Recorded, Coming))
    BY <1>1, <1>2, CutLeads
  <1>4. FileOK' /\ WrittenOK' /\ Recorded' = Manifests(file')
    BY <1>1, <1>3, Settled DEF Synced
  <1> QED
    BY <1>3, <1>4

-----------------------------------------------------------------------------
(* The state of the build, step by step. *)

LEMMA SameLog ==
    ASSUME Recorded' = Recorded
    PROVE  /\ Tip' = Tip /\ ShasOf(Recorded)' = ShasOf(Recorded)
           /\ WholeAtBoundaries(Recorded)' <=> WholeAtBoundaries(Recorded)
           /\ history' = history => (AllRecorded' <=> AllRecorded) /\ Target' = Target
           /\ engine' = engine => (Changes' <=> Changes)
           /\ UNCHANGED marks => (Aligned' <=> Aligned)
           /\ db' = db => (Holds' <=> Holds)
  <1>1. Tip' = Tip
    BY DEF Tip, TipOf
  <1> QED
    BY <1>1 DEF ShasOf, WholeAtBoundaries, AllRecorded, Target, Changes, marks, Aligned,
                Current, Holds

LEMMA PublishedHas ==
    ASSUME NEW c \in Commits, NEW e \in Engines, NEW g \in Generations(TreeOf[c], e)
    PROVE  g \in Published
  BY DEF Published

(* A build that stops, or has not begun, keeps what holds between builds.  *)
LEMMA Stops ==
    ASSUME IInv, Recorded' = Recorded, pc' = "idle", pinned' = None,
           force' \in BOOLEAN, route' \in {"none", "built", "noop"},
           db' \in {db, None},
           UNCHANGED marks \/ (pending' \in {pending, None} /\ current' = None /\ version' = FALSE),
           history' \in Histories, engine' \in Engines,
           faults' \in 0 .. MaxFaults, asks' \in 0 .. MaxAsks
    PROVE  StateOK' /\ BuildOK' /\ PinnedOK' /\ BaseOK'
  <1>1. StateOK'
    BY DEF IInv, StateOK, Stages, marks
  <1>2. BuildOK' /\ PinnedOK'
    BY SameLog DEF IInv, BuildOK, PinnedOK
  <1>3. BaseOK'
    <2> SUFFICES ASSUME Trusted
                 PROVE  /\ pending' # None /\ pending' = Tip'.sha => Holds'
                        /\ Aligned' => Holds'
      BY DEF BaseOK
    <2>1. BaseOK /\ Tip' = Tip
      BY SameLog DEF IInv
    <2>2. CASE db' = None
      BY <2>2 DEF Holds
    <2>3. CASE db' = db /\ UNCHANGED marks
      BY <2>1, <2>3, SameLog DEF BaseOK, marks
    <2>4. CASE db' = db /\ pending' \in {pending, None} /\ version' = FALSE
      <3>1. ~Aligned'
        BY <2>4 DEF Aligned, Current
      <3>2. pending' # None => pending' = pending
        BY <2>4
      <3> QED
        BY <2>1, <2>4, <3>1, <3>2, SameLog DEF BaseOK
    <2> QED
      BY <2>2, <2>3, <2>4
  <1> QED
    BY <1>1, <1>2, <1>3

(* A build that goes on, with nothing new in the archive or the database.  *)
LEMMA GoesOn ==
    ASSUME IInv, Recorded' = Recorded, UNCHANGED <<db, marks, request, bounds>>,
           pc # "idle", pinned' = pinned, route' = route, force' = force,
           pc' \in {"anchor", "ready", "finalizing", "finalized"}
    PROVE  StateOK' /\ BuildOK' /\ PinnedOK' /\ BaseOK'
  <1>1. StateOK'
    BY DEF IInv, StateOK, Stages, marks, request, bounds
  <1>2. BuildOK' /\ PinnedOK'
    BY SameLog DEF IInv, BuildOK, PinnedOK, request
  <1>3. BaseOK'
    BY SameLog DEF IInv, BaseOK, marks
  <1> QED
    BY <1>1, <1>2, <1>3

LEMMA StartState ==
    ASSUME IInv, Start, Recorded' = Recorded PROVE StateOK' /\ BuildOK' /\ PinnedOK' /\ BaseOK'
  <1>1. Manifests(file) = Recorded /\ pc = "idle" /\ pc' = "open" /\ force' = EngineChanged
        /\ UNCHANGED <<db, marks, pinned, route, request, bounds>>
    BY FileLeads DEF IInv, Start, Goes
  <1>2. EngineChanged \in BOOLEAN /\ (Changes => EngineChanged)
    BY <1>1 DEF EngineChanged, Changes, Tip
  <1>3. StateOK'
    BY <1>1, <1>2 DEF IInv, StateOK, Stages, marks, request, bounds
  <1>4. IsPrefix(ShasOf(Recorded), history)
    BY <1>1 DEF Start, Shas, ShasOf
  <1>5. BuildOK' /\ PinnedOK'
    BY <1>1, <1>2, <1>4, SameLog DEF IInv, BuildOK, PinnedOK, request
  <1>6. BaseOK'
    BY <1>1, SameLog DEF IInv, BaseOK, marks
  <1> QED
    BY <1>3, <1>5, <1>6

LEMMA RecoverState ==
    ASSUME IInv, Recover, Recorded' = Recorded PROVE StateOK' /\ BuildOK' /\ PinnedOK' /\ BaseOK'
  <1>1. pc = "ready" /\ pc' = "mark_current" /\ pending # None /\ pending = Tip.sha
        /\ UNCHANGED <<db, marks, pinned, route, force, request, bounds>>
    BY DEF Recover, Goes
  <1>2. StateOK'
    BY <1>1 DEF IInv, StateOK, Stages, marks, request, bounds
  <1>3. BuildOK' /\ PinnedOK'
    BY <1>1, SameLog DEF IInv, BuildOK, PinnedOK, request
  <1>4. BaseOK'
    BY <1>1, SameLog DEF IInv, BaseOK, marks
  <1> QED
    BY <1>2, <1>3, <1>4

(* The base of a difference is pinned. *)
LEMMA PrepareState ==
    ASSUME IInv, Prepare, Recorded' = Recorded PROVE StateOK' /\ BuildOK' /\ PinnedOK' /\ BaseOK'
  <1>1. pc = "ready" /\ pc' = "prepared" /\ ~AllRecorded /\ pending \in {None, Target}
        /\ pinned' = (IF Aligned /\ ~force THEN db ELSE None)
        /\ UNCHANGED <<db, marks, route, force, request, bounds>>
    BY DEF Prepare, Goes
  <1>2. StateOK'
    BY <1>1 DEF IInv, StateOK, Stages, marks, request, bounds
  <1>3. BuildOK'
    BY <1>1, SameLog DEF IInv, BuildOK, marks, request
  <1>4. PinnedOK'
    <2> SUFFICES ASSUME pinned' # None
                 PROVE  /\ ~force' /\ Recorded' # <<>> /\ db' = pinned'
                        /\ Trusted => pinned' = Tip'.captured
      BY DEF PinnedOK
    <2>1. Aligned /\ ~force /\ pinned' = db /\ db # None
      BY <1>1
    <2>2. Recorded # <<>>
      BY <2>1, TipIs DEF IInv, Aligned
    <2>3. Trusted => db = Tip.captured
      BY <2>1 DEF IInv, BaseOK, Holds
    <2> QED
      BY <1>1, <2>1, <2>2, <2>3, SameLog
  <1>5. BaseOK'
    BY <1>1, SameLog DEF IInv, BaseOK, marks
  <1> QED
    BY <1>2, <1>3, <1>4, <1>5

LEMMA NextTarget ==
    ASSUME IInv, pc # "idle", ~AllRecorded
    PROVE  Target \in Commits /\ Target # None /\ Tip.sha # Target
  <1>1. IsPrefix(ShasOf(Recorded), history)
    BY DEF IInv, BuildOK
  <1> QED
    BY <1>1, TargetIs DEF IInv

LEMMA BeginState ==
    ASSUME IInv, Begin, Recorded' = Recorded PROVE StateOK' /\ BuildOK' /\ PinnedOK' /\ BaseOK'
  <1>1. pc = "prepared" /\ pc' = "begun" /\ pending' = Target
        /\ UNCHANGED <<db, current, version, pinned, route, force, request, bounds>>
    BY DEF Begin, Goes
  <1>2. Target \in Commits /\ Target # None /\ Tip.sha # Target
    BY <1>1, NextTarget DEF IInv, BuildOK
  <1>3. StateOK'
    BY <1>1, <1>2 DEF IInv, StateOK, Stages, request, bounds
  <1>4. BuildOK' /\ PinnedOK'
    BY <1>1, SameLog DEF IInv, BuildOK, PinnedOK, request
  <1>5. BaseOK'
    BY <1>1, <1>2, SameLog DEF BaseOK, Aligned
  <1> QED
    BY <1>3, <1>4, <1>5

LEMMA IndexState ==
    ASSUME IInv, Index, Recorded' = Recorded PROVE StateOK' /\ BuildOK' /\ PinnedOK' /\ BaseOK'
  <1>1. /\ pc = "begun" /\ pc' = "indexed" /\ UNCHANGED <<marks, pinned, force, request, bounds>>
        /\ \/ db' \in Generations(TreeOf[Target], engine) /\ route' = "built"
           \/ db # None /\ db' = db /\ route' = "noop"
    BY DEF Index, Goes
  <1>2. Target \in Commits /\ Target # None /\ Tip.sha # Target /\ pending = Target
    BY <1>1, NextTarget DEF IInv, BuildOK
  <1>3. db' \in Published
    BY <1>1, <1>2, PublishedHas DEF IInv, StateOK
  <1>4. StateOK'
    BY <1>1, <1>3 DEF IInv, StateOK, Stages, marks, request, bounds
  <1>5. BuildOK'
    BY <1>1, <1>3, SameLog DEF IInv, BuildOK, marks, request
  <1>6. PinnedOK'
    BY <1>1, SameLog DEF IInv, PinnedOK
  <1>7. BaseOK'
    BY <1>1, <1>2, SameLog DEF BaseOK, Aligned, marks
  <1> QED
    BY <1>4, <1>5, <1>6, <1>7

LEMMA RecordState ==
    ASSUME IInv, Record, Recorded' = Recorded PROVE StateOK' /\ BuildOK' /\ PinnedOK' /\ BaseOK'
  <1>1. pc = "indexed" /\ pc' = "written"
        /\ UNCHANGED <<db, marks, pinned, route, force, request, bounds>>
    BY DEF Record, Goes
  <1>2. StateOK'
    BY <1>1 DEF IInv, StateOK, Stages, marks, request, bounds
  <1>3. BuildOK' /\ PinnedOK'
    BY <1>1, SameLog DEF IInv, BuildOK, PinnedOK, marks, request
  <1>4. BaseOK'
    BY <1>1, SameLog DEF IInv, BaseOK, marks
  <1> QED
    BY <1>2, <1>3, <1>4

LEMMA WholeAppended ==
    ASSUME NEW log \in Seq(Records), NEW m \in Records, WholeAtBoundaries(log),
           log # <<>> /\ log[Len(log)].engine # m.engine => m.snapshot
    PROVE  WholeAtBoundaries(Append(log, m))
  <1>1. Len(log) \in Nat /\ DOMAIN log = 1 .. Len(log) /\ (Len(log) # 0 => log # <<>>)
    OBVIOUS
  <1>2. /\ DOMAIN Append(log, m) = 1 .. Len(log) + 1 /\ Append(log, m)[Len(log) + 1] = m
        /\ \A i \in 1 .. Len(log) : Append(log, m)[i] = log[i]
    OBVIOUS
  <1> DEFINE more == Append(log, m)
  <1> HIDE DEF more
  <1> SUFFICES ASSUME NEW i \in 1 .. Len(log) + 1, i > 1,
                      more[i].engine # more[i - 1].engine
               PROVE  more[i].snapshot
    BY <1>2 DEF WholeAtBoundaries, more
  <1>3. i - 1 \in 1 .. Len(log) /\ more[i - 1] = log[i - 1]
    BY <1>1, <1>2 DEF more
  <1>4. CASE i \in 1 .. Len(log)
    BY <1>1, <1>2, <1>3, <1>4 DEF WholeAtBoundaries, more
  <1>5. CASE i = Len(log) + 1
    <2>1. i - 1 = Len(log) /\ log # <<>> /\ more[i] = m
      BY <1>1, <1>2, <1>3, <1>5 DEF more
    <2> QED
      BY <1>3, <2>1
  <1> QED
    BY <1>1, <1>4, <1>5

(* The head of the archive is recorded of what the database holds.         *)
LEMMA NewLog ==
    ASSUME IInv, pc = "written", Recorded' = Append(Recorded, Coming),
           UNCHANGED <<db, history, engine>>
    PROVE  /\ IsPrefix(Recorded, Recorded') /\ IsPrefix(ShasOf(Recorded)', history')
           /\ WholeAtBoundaries(Recorded)'
           /\ Tip'.sha = Target /\ Holds' /\ ~Changes'
  <1>1. /\ FileOK /\ WrittenOK /\ StateOK /\ BuildOK /\ file \in Seq(Frames) /\ synced \in Nat
        /\ Recorded \in Seq(Fits(Durable, synced)) /\ Len(file) \in Nat
    <2>1. FileOK /\ WrittenOK /\ StateOK /\ BuildOK
      BY DEF IInv
    <2> QED
      BY <2>1, DurableIs DEF FileOK
  <1>2. Recorded \in Seq(Records) /\ Len(Recorded) \in Nat
    BY <1>1, LogIsOfRecords
  <1>3. /\ Coming \in Records /\ Coming.sha = Target /\ Coming.captured = db
        /\ Coming.engine = engine /\ (Changes => Coming.snapshot)
    <2>1. Len(file) - 1 \in 1 .. Len(file) /\ file[Len(file) - 1].kind = "commit"
      BY <1>1 DEF WrittenOK
    <2>2. file[Len(file) - 1] \in Frames
      BY <1>1, <2>1, FileIs
    <2>3. Coming \in Records
      BY <2>1, <2>2, FramesAre DEF Coming
    <2> QED
      BY <1>1, <2>3 DEF WrittenOK
  <1>4. /\ Recorded' \in Seq(Records) /\ Len(Recorded') = Len(Recorded) + 1
        /\ Recorded'[Len(Recorded) + 1] = Coming
        /\ \A i \in 1 .. Len(Recorded) : Recorded'[i] = Recorded[i]
        /\ DOMAIN Recorded' = 1 .. Len(Recorded) + 1
    BY <1>2, <1>3
  <1>5. IsPrefix(Recorded, Recorded')
    <2>1. Len(Recorded) <= Len(Recorded') /\ \A i \in 1 .. Len(Recorded) : Recorded[i] = Recorded'[i]
      BY <1>2, <1>4
    <2> QED
      BY <1>2, <1>4, <2>1, PrefixIs
  <1>6. Tip' = Coming
    <2>1. Recorded' # <<>>
      BY <1>2, Appended
    <2> QED
      BY <1>4, <2>1 DEF Tip, TipOf, Last
  <1>7. IsPrefix(ShasOf(Recorded)', history')
    <2>1. history \in Seq(Commits) /\ Len(history) \in Nat
      BY <1>1, HistoryIs DEF StateOK
    <2>2. IsPrefix(ShasOf(Recorded), history) /\ ~AllRecorded
      BY <1>1 DEF BuildOK
    <2>3. /\ ShasOf(Recorded) \in Seq(Commits) /\ Len(ShasOf(Recorded)) = Len(Recorded)
          /\ \A i \in 1 .. Len(Recorded) : ShasOf(Recorded)[i] = Recorded[i].sha
      BY <1>1, LogIsOfRecords
    <2>4. \A i \in 1 .. Len(Recorded) : Recorded[i].sha = history[i]
      <3>1. \A i \in 1 .. Len(ShasOf(Recorded)) : ShasOf(Recorded)[i] = history[i]
        BY <2>1, <2>2, <2>3, PrefixIs
      <3> QED
        BY <2>3, <3>1
    <2>5. Len(Recorded) + 1 \in 1 .. Len(history)
      BY <1>1, <2>2, TargetIs
    <2>6. \A i \in 1 .. Len(Recorded) + 1 : Recorded'[i].sha \in Commits
      <3>1. \A i \in 1 .. Len(Recorded) + 1 : Recorded'[i] \in Records
        BY <1>2, <1>4
      <3> QED
        BY <3>1 DEF Records
    <2>7. ShasOf(Recorded') = [i \in 1 .. Len(Recorded) + 1 |-> Recorded'[i].sha]
      BY <1>4 DEF ShasOf
    <2>8. /\ ShasOf(Recorded') \in Seq(Commits) /\ Len(ShasOf(Recorded')) = Len(Recorded) + 1
          /\ \A i \in 1 .. Len(Recorded) + 1 : ShasOf(Recorded')[i] = Recorded'[i].sha
      BY <1>2, <2>6, <2>7
    <2>9. \A i \in 1 .. Len(Recorded) + 1 : ShasOf(Recorded')[i] = history[i]
      <3>1. \A i \in 1 .. Len(Recorded) + 1 : i \in 1 .. Len(Recorded) \/ i = Len(Recorded) + 1
        BY <1>2
      <3> QED
        BY <1>3, <1>4, <2>4, <2>8, <3>1 DEF Target
    <2>10. IsPrefix(ShasOf(Recorded'), history)
      BY <2>1, <2>5, <2>8, <2>9, PrefixIs
    <2> QED
      BY <2>10 DEF ShasOf
  <1>8. WholeAtBoundaries(Recorded')
    <2>1. WholeAtBoundaries(Recorded)
      BY <1>1 DEF BuildOK
    <2>2. Recorded # <<>> /\ Recorded[Len(Recorded)].engine # Coming.engine => Coming.snapshot
      BY <1>3 DEF Changes, Tip, TipOf, Last
    <2> QED
      BY <1>2, <1>3, <2>1, <2>2, WholeAppended
  <1>9. WholeAtBoundaries(Recorded)'
    BY <1>8 DEF WholeAtBoundaries
  <1>10. Holds' /\ ~Changes'
    BY <1>3, <1>6 DEF Holds, Changes
  <1> QED
    BY <1>3, <1>5, <1>6, <1>7, <1>9, <1>10

LEMMA SyncState ==
    ASSUME IInv, SyncCommit, Recorded' = Append(Recorded, Coming)
    PROVE  StateOK' /\ BuildOK' /\ PinnedOK' /\ BaseOK'
  <1>1. pc = "written" /\ pc' = "mark_current" /\ pinned' = None /\ route' = "none"
        /\ force' = FALSE /\ UNCHANGED <<db, marks, request, bounds>>
    BY DEF SyncCommit, Goes
  <1>2. StateOK'
    BY <1>1 DEF IInv, StateOK, Stages, marks, request, bounds
  <1>3. /\ IsPrefix(ShasOf(Recorded)', history') /\ WholeAtBoundaries(Recorded)' /\ Holds' /\ ~Changes'
    BY <1>1, NewLog DEF request
  <1>4. BuildOK' /\ PinnedOK'
    BY <1>1, <1>3 DEF BuildOK, PinnedOK
  <1>5. BaseOK'
    BY <1>1, <1>3 DEF BaseOK
  <1> QED
    BY <1>2, <1>4, <1>5

LEMMA MarkState ==
    ASSUME IInv, MarkCurrent \/ MarkVersion \/ MarkPending, Recorded' = Recorded
    PROVE  StateOK' /\ BuildOK' /\ PinnedOK' /\ BaseOK'
  <1>1. /\ pc \in {"mark_current", "mark_version", "mark_pending"}
        /\ pc' \in {"mark_version", "mark_pending", "ready"}
        /\ UNCHANGED <<db, pinned, route, force, request, bounds>>
        /\ current' \in {current, Tip.sha} /\ version' \in {version, TRUE}
        /\ pending' \in {pending, None}
    BY DEF MarkCurrent, MarkVersion, MarkPending, Goes
  <1>2. Tip.sha \in Commits \union {None}
    BY TipIs DEF IInv, Records
  <1>3. StateOK'
    BY <1>1, <1>2 DEF IInv, StateOK, Stages, request, bounds
  <1>4. BuildOK' /\ PinnedOK'
    BY <1>1, SameLog DEF IInv, BuildOK, PinnedOK, request
  <1>5. Trusted => Holds'
    BY <1>1, SameLog DEF IInv, BaseOK
  <1>6. BaseOK'
    BY <1>1, <1>5 DEF BaseOK
  <1> QED
    BY <1>3, <1>4, <1>6

LEMMA DeleteState ==
    ASSUME IInv, DeleteProject, Recorded' = Recorded
    PROVE  StateOK' /\ BuildOK' /\ PinnedOK' /\ BaseOK'
  <1>1. /\ pc = "finalized" /\ pc' = "removing" /\ db' \in {db, None} /\ (Trusted => db' = None)
        /\ UNCHANGED <<marks, pinned, route, force, request, bounds>>
    BY DEF DeleteProject, Goes, Trusted
  <1>2. StateOK'
    BY <1>1 DEF IInv, StateOK, Stages, marks, request, bounds
  <1>3. BuildOK' /\ PinnedOK'
    BY <1>1, SameLog DEF IInv, BuildOK, PinnedOK, request
  <1>4. BaseOK'
    BY <1>1 DEF BaseOK, Holds
  <1> QED
    BY <1>2, <1>3, <1>4

LEMMA RemoveState ==
    ASSUME IInv, RemoveFile, Recorded' = Recorded
    PROVE  StateOK' /\ BuildOK' /\ PinnedOK' /\ BaseOK'
  <1>1. /\ pc = "removing" /\ UNCHANGED <<db, local, request, bounds>>
        /\ current' \in {current, None} /\ version' \in {version, FALSE} /\ pending' \in {pending, None}
    BY DEF RemoveFile
  <1>2. StateOK'
    BY <1>1 DEF IInv, StateOK, Stages, local, request, bounds
  <1>3. BuildOK' /\ PinnedOK'
    BY <1>1, SameLog DEF IInv, BuildOK, PinnedOK, local, request
  <1>4. BaseOK'
    BY <1>1 DEF IInv, BaseOK, Holds, local
  <1> QED
    BY <1>2, <1>3, <1>4

LEMMA FinishState ==
    ASSUME IInv, Finish, Recorded' = Recorded
    PROVE  StateOK' /\ BuildOK' /\ PinnedOK' /\ BaseOK'
  <1>1. /\ Ends /\ UNCHANGED <<db, marks, request, bounds>>
    BY DEF Finish
  <1> QED
    BY <1>1, Stops DEF Ends, IInv, StateOK, request, bounds

LEMMA RefuseState ==
    ASSUME IInv, RefusePending \/ RefuseCapture, Recorded' = Recorded
    PROVE  StateOK' /\ BuildOK' /\ PinnedOK' /\ BaseOK'
  <1>1. /\ Ends /\ UNCHANGED <<db, marks, request, bounds>>
    BY DEF RefusePending, RefuseCapture
  <1> QED
    BY <1>1, Stops DEF Ends, IInv, StateOK, request, bounds

LEMMA AskState ==
    ASSUME IInv, Ask, Recorded' = Recorded
    PROVE  StateOK' /\ BuildOK' /\ PinnedOK' /\ BaseOK'
  <1>1. /\ pc = "idle" /\ UNCHANGED <<db, marks, local, faults>> /\ asks < MaxAsks /\ asks' = asks + 1
        /\ \/ history' \in Histories /\ engine' = engine
           \/ engine' \in Engines /\ history' = history
    BY DEF Ask
  <1>2. StateOK
    BY DEF IInv
  <1>3. asks' \in 0 .. MaxAsks
    BY <1>1, <1>2, BuildAssumption DEF StateOK
  <1>4. StateOK'
    BY <1>1, <1>2, <1>3 DEF StateOK, marks, local
  <1>5. BuildOK' /\ PinnedOK'
    BY <1>1, SameLog DEF IInv, BuildOK, PinnedOK, local
  <1>6. BaseOK'
    BY <1>1, SameLog DEF IInv, BaseOK, marks, local
  <1> QED
    BY <1>4, <1>5, <1>6

LEMMA LoseState ==
    ASSUME IInv, LoseScratch, Recorded' = Recorded
    PROVE  StateOK' /\ BuildOK' /\ PinnedOK' /\ BaseOK'
  <1>1. /\ pc = "idle" /\ UNCHANGED <<local, request, asks>>
        /\ faults < MaxFaults /\ faults' = faults + 1 /\ db' \in {db, None}
        /\ \/ UNCHANGED marks /\ db' = None
           \/ pending' = None /\ current' = None /\ version' = FALSE
    BY DEF LoseScratch, Fault
  <1>2. StateOK
    BY DEF IInv
  <1>3. faults' \in 0 .. MaxFaults
    BY <1>1, <1>2, BuildAssumption DEF StateOK
  <1>4. StateOK'
    BY <1>1, <1>2, <1>3 DEF StateOK, marks, local, request
  <1>5. BuildOK' /\ PinnedOK'
    BY <1>1, SameLog DEF IInv, BuildOK, PinnedOK, local, request
  <1>6. BaseOK'
    <2>1. CASE db' = None
      BY <1>1, <2>1 DEF BaseOK, Holds, local
    <2>2. CASE pending' = None /\ current' = None /\ version' = FALSE
      <3>1. ~Aligned'
        BY <2>2 DEF Aligned, Current
      <3> QED
        BY <1>1, <2>2, <3>1 DEF BaseOK, local
    <2> QED
      BY <1>1, <2>1, <2>2
  <1> QED
    BY <1>4, <1>5, <1>6

(* An interruption: of a commit that was written, the archive has it or    *)
(* not, and the database holds it in both cases; a mark that is lost only  *)
(* makes a build distrust the database.                                    *)
LEMMA LostState ==
    ASSUME IInv, Fail \/ Crash,
           Recorded' = Recorded \/ (pc = "written" /\ Recorded' = Append(Recorded, Coming))
    PROVE  StateOK' /\ BuildOK' /\ PinnedOK' /\ BaseOK'
  <1>1. /\ pc # "idle" /\ Ends /\ UNCHANGED <<db, request, asks>>
        /\ faults < MaxFaults /\ faults' = faults + 1
        /\ current' \in {current, None} /\ pending' \in {pending, None} /\ version' \in {version, FALSE}
        /\ ~PowerFails => UNCHANGED marks
    BY DEF Fail, Crash, Fault, marks, IInv, StateOK
  <1>2. StateOK
    BY DEF IInv
  <1>3. faults' \in 0 .. MaxFaults
    BY <1>1, <1>2, BuildAssumption DEF StateOK
  <1>4. StateOK'
    BY <1>1, <1>2, <1>3 DEF StateOK, Stages, Ends, request
  <1>5. CASE Recorded' = Recorded
    <2>1. BuildOK' /\ PinnedOK'
      BY <1>1, <1>5, SameLog DEF IInv, BuildOK, PinnedOK, Ends
    <2>2. BaseOK'
      BY <1>1, <1>5, SameLog DEF IInv, BaseOK, Ends, Trusted, marks
    <2> QED
      BY <1>4, <2>1, <2>2
  <1>6. CASE pc = "written" /\ Recorded' = Append(Recorded, Coming)
    <2>1. WholeAtBoundaries(Recorded)' /\ Holds'
      BY <1>1, <1>6, NewLog DEF request
    <2>2. BuildOK' /\ PinnedOK'
      BY <1>1, <2>1 DEF BuildOK, PinnedOK, Ends
    <2>3. BaseOK'
      BY <1>1, <2>1 DEF BaseOK, Ends
    <2> QED
      BY <1>4, <2>2, <2>3
  <1> QED
    BY <1>5, <1>6

-----------------------------------------------------------------------------
(* The invariant. *)

LEMMA FileStep ==
    ASSUME IInv, [Next]_vars
    PROVE  /\ FileOK' /\ WrittenOK'
           /\ \/ Recorded' = Recorded
              \/ /\ pc = "written" /\ Recorded' = Append(Recorded, Coming)
                 /\ UNCHANGED <<db, history, engine>>
  <1>0. FileOK /\ WrittenOK
    BY DEF IInv
  <1>1. CASE Start
    BY <1>0, <1>1, Quiet DEF Start, Goes, Synced
  <1>2. CASE Open
    BY <1>2, OpenFile
  <1>3. CASE SyncAnchor \/ SyncFinal
    BY <1>3, CloseFile
  <1>4. CASE Recover \/ Prepare \/ Begin \/ Index \/ MarkCurrent \/ MarkVersion \/ MarkPending
    BY <1>0, <1>4, Quiet
    DEF Recover, Prepare, Begin, Index, MarkCurrent, MarkVersion, MarkPending, Goes, Synced
  <1>5. CASE RefusePending \/ Finish
    BY <1>0, <1>5, Quiet DEF RefusePending, Finish, Ends, Synced
  <1>6. CASE Record
    BY <1>6, RecordFile
  <1>7. CASE RefuseCapture
    BY <1>7, RefusedFile
  <1>8. CASE SyncCommit
    <2>1. pc = "written" /\ UNCHANGED <<db, history, engine>>
      BY <1>8 DEF SyncCommit, Goes, request
    <2> QED
      BY <1>8, <2>1, SyncFile
  <1>9. CASE Finalize
    BY <1>9, FinalFile
  <1>10. CASE DeleteProject \/ RemoveFile
    BY <1>0, <1>10, Quiet DEF DeleteProject, RemoveFile, Goes, Synced, local
  <1>11. CASE Fail \/ Crash
    <2>1. UNCHANGED <<db, history, engine>>
      BY <1>11 DEF Fail, Crash, request
    <2> QED
      BY <1>11, <2>1, LostFile
  <1>12. CASE LoseScratch \/ Ask
    BY <1>0, <1>12, Quiet DEF LoseScratch, Ask, Synced, local
  <1>13. CASE UNCHANGED vars
    <2>1. UNCHANGED <<archive, pc, db, history, engine>>
      BY <1>13 DEF vars, local, request
    <2>2. Durable' = Durable /\ Recorded' = Recorded
      BY <2>1 DEF Durable, Recorded, archive
    <2>3. FileOK'
      BY <1>0, <2>1, <2>2 DEF FileOK, archive
    <2>4. WrittenOK'
      BY <1>0, <2>1, <2>2
      DEF WrittenOK, archive, Coming, Target, Changes, Tip, TipOf
    <2> QED
      BY <2>2, <2>3, <2>4
  <1> QED
    BY <1>1, <1>2, <1>3, <1>4, <1>5, <1>6, <1>7, <1>8, <1>9, <1>10, <1>11, <1>12, <1>13
    DEF Next, Step, BuildCommit

LEMMA StepIInv ==
    ASSUME IInv, [Next]_vars PROVE IInv'
  <1>1. /\ FileOK' /\ WrittenOK'
        /\ \/ Recorded' = Recorded
           \/ pc = "written" /\ Recorded' = Append(Recorded, Coming)
    BY FileStep
  <1>2. pc # "written" => Recorded' = Recorded
    BY <1>1
  <1>3. CASE Start
    BY <1>1, <1>2, <1>3, StartState DEF IInv, Start, Goes
  <1>4. CASE Open \/ SyncAnchor \/ SyncFinal \/ Finalize
    <2>1. /\ pc \in {"open", "anchor", "finalizing", "ready"}
          /\ pc' \in {"anchor", "ready", "finalizing", "finalized"}
          /\ pinned' = pinned /\ route' = route /\ force' = force
          /\ UNCHANGED <<db, marks, request, bounds>>
      BY <1>4 DEF Open, SyncAnchor, SyncFinal, Finalize, Goes
    <2> QED
      BY <1>1, <1>2, <2>1, GoesOn DEF IInv
  <1>5. CASE Recover
    BY <1>1, <1>2, <1>5, RecoverState DEF IInv, Recover, Goes
  <1>6. CASE Prepare
    BY <1>1, <1>2, <1>6, PrepareState DEF IInv, Prepare, Goes
  <1>7. CASE Begin
    BY <1>1, <1>2, <1>7, BeginState DEF IInv, Begin, Goes
  <1>8. CASE Index
    BY <1>1, <1>2, <1>8, IndexState DEF IInv, Index, Goes
  <1>9. CASE Record
    BY <1>1, <1>2, <1>9, RecordState DEF IInv, Record, Goes
  <1>10. CASE RefusePending \/ RefuseCapture
    BY <1>1, <1>2, <1>10, RefuseState DEF IInv, RefusePending, RefuseCapture
  <1>11. CASE SyncCommit
    BY <1>1, <1>11, SyncFile, SyncState DEF IInv
  <1>12. CASE MarkCurrent \/ MarkVersion \/ MarkPending
    BY <1>1, <1>2, <1>12, MarkState DEF IInv, MarkCurrent, MarkVersion, MarkPending, Goes
  <1>13. CASE DeleteProject
    BY <1>1, <1>2, <1>13, DeleteState DEF IInv, DeleteProject, Goes
  <1>14. CASE RemoveFile
    BY <1>1, <1>2, <1>14, RemoveState DEF IInv, RemoveFile
  <1>15. CASE Finish
    BY <1>1, <1>2, <1>15, FinishState DEF IInv, Finish
  <1>16. CASE Fail \/ Crash
    BY <1>1, <1>16, LostState DEF IInv
  <1>17. CASE LoseScratch
    BY <1>1, <1>2, <1>17, LoseState DEF IInv, LoseScratch
  <1>18. CASE Ask
    BY <1>1, <1>2, <1>18, AskState DEF IInv, Ask
  <1>19. CASE UNCHANGED vars
    <2>1. UNCHANGED <<archive, db, marks, local, request, bounds>>
      BY <1>19 DEF vars
    <2>2. Recorded' = Recorded
      BY <2>1 DEF archive, Recorded, Durable
    <2>3. StateOK'
      BY <2>1 DEF IInv, StateOK, marks, local, request, bounds
    <2>4. BuildOK' /\ PinnedOK'
      BY <2>1, <2>2, SameLog DEF IInv, BuildOK, PinnedOK, marks, local, request
    <2>5. BaseOK'
      BY <2>1, <2>2, SameLog DEF IInv, BaseOK, marks, local
    <2> QED
      BY <1>1, <2>3, <2>4, <2>5 DEF IInv
  <1> QED
    BY <1>3, <1>4, <1>5, <1>6, <1>7, <1>8, <1>9, <1>10, <1>11, <1>12, <1>13, <1>14,
       <1>15, <1>16, <1>17, <1>18, <1>19
    DEF Next, Step, BuildCommit

(* The inductive invariant, of every build. *)
THEOREM BuildInvariant == Spec => []IInv
  <1>1. IInv /\ [Next]_vars => IInv'
    BY StepIInv
  <1> QED
    BY InitIInv, <1>1, PTL DEF Spec

(* Type correctness: the marks name commits, the database and the pinned   *)
(* base are generations that CBM can have published, and the roots that a  *)
(* reader of the file is given lead to pages of it.                        *)
THEOREM ArchiveBuildTypes == Spec => []TypeOK
  <1>1. IInv => TypeOK
    <2> SUFFICES ASSUME IInv PROVE TypeOK
      OBVIOUS
    <2>1. /\ Sound(file) /\ synced \in 0 .. Len(file) /\ StateOK
          /\ file \in Seq(Frames) /\ DOMAIN file = 1 .. Len(file) /\ Len(file) \in Nat
      <3>1. Sound(file) /\ synced \in 0 .. Len(file) /\ StateOK
        BY DEF IInv, FileOK
      <3> QED
        BY <3>1, SoundIsLinked, FileIs
    <2>2. ASSUME NEW i \in DOMAIN Manifests(file)
          PROVE  {Manifests(file)[i].nodes, Manifests(file)[i].coverage} \subseteq
                    {None, 0} \union {at \in DOMAIN file : file[at].kind = "page"}
      <3>1. Manifests(file) \in Seq(Fits(file, Len(file)))
        BY <2>1, LogFits
      <3>2. Manifests(file)[i] \in Fits(file, Len(file))
        BY <3>1
      <3> DEFINE m == Manifests(file)[i]
      <3> HIDE DEF m
      <3>3. IsRoot(file, m.nodes, Len(file)) /\ (m.coverage # None => IsRoot(file, m.coverage, Len(file)))
        BY <3>2 DEF Fits, Rooted, m
      <3>4. \A root : IsRoot(file, root, Len(file)) =>
               root \in {0} \union {at \in DOMAIN file : file[at].kind = "page"}
        BY <2>1 DEF IsRoot
      <3> QED
        BY <3>3, <3>4 DEF m
    <2> QED
      BY <2>1, <2>2 DEF StateOK, TypeOK
  <1> QED
    BY BuildInvariant, <1>1, PTL

(* Unless a deletion fails or the machine stops, whatever crashes, retries *)
(* and rebuilt generations lie between two commits, a reader of the file   *)
(* loads for each commit the graph and the coverage that CBM had published *)
(* when it was captured.                                                   *)
THEOREM ArchiveExactness ==
    ASSUME ~DeleteFails, ~PowerFails PROVE Spec => []ArchiveIsExact
  <1>1. IInv => ArchiveIsExact
    <2> SUFFICES ASSUME IInv, NEW i \in DOMAIN Manifests(file)
                 PROVE  Exact(file, Manifests(file)[i])
      BY DEF ArchiveIsExact
    <2>1. Manifests(file) \in Seq(Fits(file, Len(file)))
      BY LogFits DEF IInv, FileOK
    <2>2. Manifests(file)[i] \in Fits(file, Len(file))
      BY <2>1
    <2> QED
      BY <2>2 DEF Fits, Trusted
  <1> QED
    BY BuildInvariant, <1>1, PTL

(* Then the database holds the generation of the archive's last commit, or *)
(* nothing, whenever the marks say so and a difference may be taken.       *)
THEOREM TrustedBase ==
    ASSUME ~DeleteFails, ~PowerFails PROVE Spec => []BaseIsTrusted
  <1>1. IInv => BaseIsTrusted
    BY DEF IInv, BaseOK, Trusted, Holds, BaseIsTrusted
  <1> QED
    BY BuildInvariant, <1>1, PTL

(* A commit made by another engine than the one before it is stored whole, *)
(* whatever fails.                                                         *)
THEOREM EngineBoundaries == Spec => []EngineBoundaryIsWhole
  <1>1. IInv => EngineBoundaryIsWhole
    <2> SUFFICES ASSUME IInv PROVE WholeAtBoundaries(Manifests(file))
      BY DEF EngineBoundaryIsWhole
    <2>1. /\ FileOK /\ WrittenOK /\ StateOK /\ WholeAtBoundaries(Recorded)
          /\ Sound(file) /\ synced \in 0 .. Len(file)
      BY DEF IInv, BuildOK, FileOK
    <2>2. CASE pc = "written"
      <3>1. /\ file \in Seq(Frames) /\ Len(file) \in Nat /\ synced \in Nat
            /\ Recorded \in Seq(Fits(Durable, synced))
        BY <2>1, DurableIs
      <3>2. Len(file) - 1 \in 1 .. Len(file) /\ file[Len(file) - 1].kind = "commit"
        BY <2>1, <2>2, <3>1 DEF WrittenOK
      <3>3. Coming \in Records /\ Recorded \in Seq(Records)
        BY <3>1, <3>2, FileIs, FramesAre, LogIsOfRecords DEF Coming
      <3>4. Recorded # <<>> /\ Recorded[Len(Recorded)].engine # Coming.engine => Coming.snapshot
        BY <2>1, <2>2 DEF WrittenOK, Changes, Tip, TipOf, Last
      <3>5. WholeAtBoundaries(Append(Recorded, Coming))
        BY <2>1, <3>3, <3>4, WholeAppended
      <3> QED
        BY <2>1, <2>2, <3>5, FileLeads
    <2>3. CASE pc # "written"
      BY <2>1, <2>3, FileLeads
    <2> QED
      BY <2>2, <2>3
  <1> QED
    BY BuildInvariant, <1>1, PTL

(* Whatever fails, a commit whose checkpoint was synced stays where it is  *)
(* in the archive, and what it records.                                    *)
THEOREM CommitsKept == Spec => CommitsAreKept
  <1>1. IInv /\ [Next]_vars => [IsPrefix(Recorded, Manifests(SubSeq(file, 1, synced))')]_vars
    <2> SUFFICES ASSUME IInv, [Next]_vars
                 PROVE  IsPrefix(Recorded, Manifests(SubSeq(file, 1, synced))')
      OBVIOUS
    <2>1. Recorded' = Manifests(SubSeq(file, 1, synced))'
      BY DEF Recorded, Durable
    <2>2. CASE Recorded' = Recorded
      <3>1. Recorded \in Seq(Records)
        BY DurableIs, LogIsOfRecords DEF IInv, FileOK
      <3>2. IsPrefix(Recorded, Recorded)
        BY <3>1, PrefixIs
      <3> QED
        BY <2>1, <2>2, <3>2
    <2>3. CASE pc = "written" /\ Recorded' = Append(Recorded, Coming)
               /\ UNCHANGED <<db, history, engine>>
      BY <2>1, <2>3, NewLog
    <2> QED
      BY <2>2, <2>3, FileStep
  <1> QED
    BY BuildInvariant, <1>1, PTL DEF Spec, CommitsAreKept

=============================================================================
