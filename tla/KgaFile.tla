------------------------------- MODULE KgaFile -------------------------------
(***************************************************************************)
(* The append-only graph archive (archive.py): its frames, what a reader   *)
(* finds in a file that ends anywhere, where a writer resumes, and the     *)
(* trees a commit's roots lead to.                                         *)
(*                                                                         *)
(* A file is a sequence of frames and trailers, and an offset a position   *)
(* in it; 0 is "no offset".  A whole tree is one PAGE frame: a shard that  *)
(* did not change is shared by reference, so it can be read wherever the   *)
(* tree's new root can.  The magic at the head of the file is left out.    *)
(***************************************************************************)
EXTENDS Integers, Sequences, SequencesExt, FiniteSets

CONSTANT None  \* no generation, no coverage attachment, no commit

Page(rows) == [kind |-> "page", rows |-> rows]
Commit(manifest) == [kind |-> "commit", manifest |-> manifest]
Checkpoint(previous) == [kind |-> "checkpoint", previous |-> previous]
FinalIndex(commits) == [kind |-> "index", commits |-> commits]
Footer == [kind |-> "footer"]
(* The bytes of a frame or trailer whose writing was cut short. *)
Torn == [kind |-> "torn"]

LatestOf(f, kind) == SelectLastInSeq(f, LAMBDA frame : frame.kind = kind)

(* _footer_offset: the file ends with a footer. *)
Complete(f) == f # <<>> /\ Last(f).kind = "footer"

(* The trailer the next checkpoint links to: the footer at the end, else   *)
(* the newest checkpoint, else the newest embedded footer.                 *)
Anchor(f) ==
    CASE Complete(f) -> Len(f)
      [] ~Complete(f) /\ LatestOf(f, "checkpoint") # 0 -> LatestOf(f, "checkpoint")
      [] OTHER -> LatestOf(f, "footer")

(* Commits recorded before checkpoints were written: every COMMIT frame.   *)
Scan(f) ==
    LET found[i \in 0 .. Len(f)] ==
            IF i = 0 THEN <<>>
            ELSE IF f[i].kind = "commit" THEN Append(found[i - 1], f[i].manifest)
            ELSE found[i - 1]
    IN  found
Scanned(f) == Scan(f)[Len(f)]

(* _load_checkpoint_chain_reader: links back from a trailer, to the        *)
(* beginning or to a footer, whose index holds the commits before it.      *)
Chain(f) ==
    LET commits[i \in 0 .. Len(f)] ==
            IF i = 0 THEN <<>>
            ELSE IF f[i].kind = "footer" THEN f[i - 1].commits
            ELSE IF f[i].kind = "checkpoint"
                 THEN Append(commits[f[i].previous], f[i - 1].manifest)
            ELSE <<>>
    IN  commits

(* The commits a reader or a resuming writer finds. *)
Manifests(f) == IF Anchor(f) # 0 THEN Chain(f)[Anchor(f)] ELSE Scanned(f)

(* A mutated form: the cut is where the trailer begins. *)
TrailerCut(f) == IF Anchor(f) # 0 THEN Anchor(f) - 1 ELSE LatestOf(f, "commit")

(* Where a resuming writer cuts the file. *)
DurableEnd(f) == IF Anchor(f) # 0 THEN Anchor(f) ELSE LatestOf(f, "commit")

(* Archives without a trailer get one before anything is appended. *)
NeedsAnchor(f) == Anchor(f) = 0 /\ Scanned(f) # <<>>

Shas(f) == [i \in DOMAIN Manifests(f) |-> Manifests(f)[i].sha]

(* The rows under a tree's root. *)
RowsAt(f, root) == IF root = 0 THEN {} ELSE f[root].rows

(* _coverage_manifest: an attachment is recorded whole or not at all.      *)
CoverageAgrees(commit) ==
    IF commit.coverage = None THEN commit.covered = None
    ELSE commit.covered # None /\ ((commit.coverage = 0) <=> (commit.covered = 0))
LoadCoverage(f, commit) == IF commit.coverage = None THEN {} ELSE RowsAt(f, commit.coverage)

(* What a snapshot must be for CBM to restore it. *)
Restorable(commit) == ((commit.nodes = 0) <=> (commit.size = 0)) /\ CoverageAgrees(commit)
VerifySnapshot(f, commit) ==
    /\ Restorable(commit)
    /\ commit.size = Cardinality(RowsAt(f, commit.nodes))
    /\ commit.covered # None => commit.covered = Cardinality(LoadCoverage(f, commit))

(* verify_index: of a complete archive, whose roots lead to what they say. *)
VerifyIndex(f) ==
    /\ Complete(f)
    /\ \A i \in DOMAIN Manifests(f) : Restorable(Manifests(f)[i])

(* RadixTree.apply: no change keeps the root, an emptied tree has none,    *)
(* and a deletion of a row the tree does not hold is an error.             *)
CanApply(f, root, changes) == changes.deleted \subseteq RowsAt(f, root)
Applied(f, root, changes) ==
    LET rows == (RowsAt(f, root) \ changes.deleted) \union changes.put
    IN  IF changes.put = {} /\ changes.deleted = {}
        THEN [root |-> root, file |-> f]
        ELSE IF rows = {} THEN [root |-> 0, file |-> f]
        ELSE [root |-> Len(f) + 1, file |-> Append(f, Page(rows))]

=============================================================================
