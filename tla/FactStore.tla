------------------------------ MODULE FactStore ------------------------------
(***************************************************************************)
(* The observation stream of one archive: immutable observation rows, the  *)
(* publications that group them, and the head that names the current       *)
(* observation of every fact (gh_puller/github/observations.py).           *)
(*                                                                         *)
(* A row's identity is its position in the sequence `observations`, the    *)
(* INTEGER PRIMARY KEY of the table.  Payload, coverage and origin are     *)
(* abstracted: no operation of this table decides anything by them.        *)
(***************************************************************************)
EXTENDS Naturals, Sequences

CONSTANTS
    Facts,            \* fact identities, (family, subject_key) pairs
    PublicationKeys,  \* idempotency keys of source operations
    Owners,           \* (kind, cycle, task, maintenance task) identities
    MaxInstant,       \* bound on the clock
    MaxObservations,  \* bound on the number of rows
    MaxBatch          \* bound on the facts of one publication

ASSUME BoundsAssumption ==
    MaxInstant \in Nat /\ MaxObservations \in Nat /\ MaxBatch \in Nat

VARIABLES
    now,           \* the writer's clock
    observations,  \* fact_observations, in identity order
    heads          \* fact_heads: current row of a fact, 0 before the first

factVars == <<now, observations, heads>>

Times == 0 .. MaxInstant

(* A closed source read: what one publication supplies for one fact. *)
FactDraft ==
    [fact : Facts, from : Times, until : Times]

(* A stored row: the draft together with its publication. *)
Row ==
    [fact : Facts, from : Times, until : Times,
     key : PublicationKeys, owner : Owners]

Ids == 1 .. Len(observations)

-----------------------------------------------------------------------------
(* The order of observations of a fact: end of the read window, then its   *)
(* beginning, then the identity.                                           *)

Before(rows, i, j) ==
    \/ rows[i].until < rows[j].until
    \/ /\ rows[i].until = rows[j].until
       /\ \/ rows[i].from < rows[j].from
          \/ rows[i].from = rows[j].from /\ i < j

(* A mutated form: the row inserted last becomes current. *)
LastInserted(rows, head, i) == i

(* The head of fact f once row i was inserted. *)
AdvanceHead(rows, head, i) ==
    IF head # 0 /\ ~Before(rows, head, i) THEN head ELSE i

(* The rows already stored under a publication key. *)
Published(key) == {i \in Ids : observations[i].key = key}

(* A mutated form: a window may close after its publication. *)
AnyWindow(batch) ==
    /\ batch # <<>>
    /\ \A i \in DOMAIN batch : batch[i].from <= batch[i].until
    /\ \A i, j \in DOMAIN batch : batch[i].fact = batch[j].fact => i = j

(* What _prepare_fact and publish() accept: windows that run forward and   *)
(* have closed by the time of publication, at most one draft per fact.     *)
ValidBatch(batch) ==
    /\ batch # <<>>
    /\ \A i \in DOMAIN batch :
          batch[i].from <= batch[i].until /\ batch[i].until <= now
    /\ \A i, j \in DOMAIN batch : batch[i].fact = batch[j].fact => i = j

(* A mutated form: two columns of the INSERT are swapped. *)
SwappedColumns(draft, key, owner) ==
    [fact |-> draft.fact, from |-> draft.from, until |-> draft.until,
     key |-> owner, owner |-> key]

RowOf(draft, key, owner) ==
    [fact |-> draft.fact, from |-> draft.from, until |-> draft.until,
     key |-> key, owner |-> owner]

RowsOf(batch, key, owner) ==
    [i \in 1 .. Len(batch) |-> RowOf(batch[i], key, owner)]

-----------------------------------------------------------------------------
FactInit ==
    /\ now = 0
    /\ observations = <<>>
    /\ heads = [f \in Facts |-> 0]

FactTick ==
    /\ now < MaxInstant
    /\ now' = now + 1
    /\ UNCHANGED <<observations, heads>>

(* A mutated form: a key that was published already is not noticed. *)
AppendAgain(key, owner, batch) ==
    /\ Len(observations) + Len(batch) <= MaxObservations
    /\ observations' = observations \o RowsOf(batch, key, owner)
    /\ UNCHANGED <<now, heads>>

(* The first publication under a key: one transaction appends the rows and *)
(* moves the heads.                                                        *)
AppendBatch(key, owner, batch) ==
    /\ Published(key) = {}
    /\ Len(observations) + Len(batch) <= MaxObservations
    /\ observations' = observations \o RowsOf(batch, key, owner)
    /\ heads' =
          [f \in Facts |->
             IF \E i \in 1 .. Len(batch) : batch[i].fact = f
             THEN AdvanceHead(observations', heads[f],
                    Len(observations)
                      + (CHOOSE i \in 1 .. Len(batch) : batch[i].fact = f))
             ELSE heads[f]]
    /\ UNCHANGED now

(* A repeated call: the stored rows are returned when they are the supplied *)
(* ones, and the call is refused otherwise.  Either way nothing changes.    *)
Repeat(key) ==
    /\ Published(key) # {}
    /\ UNCHANGED factVars

Publish(key, owner, batch) ==
    /\ ValidBatch(batch)
    /\ \/ AppendBatch(key, owner, batch)
       \/ Repeat(key)

Batches == UNION {[1 .. n -> FactDraft] : n \in 1 .. MaxBatch}

FactNext ==
    \/ FactTick
    \/ \E key \in PublicationKeys, owner \in Owners, batch \in Batches :
          Publish(key, owner, batch)

FactSpec == FactInit /\ [][FactNext]_factVars

-----------------------------------------------------------------------------
(* The read views.                                                         *)

(* iter_facts_as_of: of the rows of f whose window closed by `at`, the one *)
(* the window function ranks first; 0 when there is none.                  *)
ClosedBy(at, f) == {i \in Ids : observations[i].fact = f /\ observations[i].until <= at}

AsOf(at, f) ==
    IF ClosedBy(at, f) = {}
    THEN 0
    ELSE CHOOSE i \in ClosedBy(at, f) :
            \A j \in ClosedBy(at, f) \ {i} : Before(observations, j, i)

-----------------------------------------------------------------------------
FactTypeOK ==
    /\ now \in Times
    /\ observations \in Seq(Row)
    /\ heads \in [Facts -> Nat]

(* The incrementally maintained head of a fact (fact_heads) is exactly the *)
(* row the ranking query of iter_facts_as_of answers with at the present   *)
(* time, although publications close in any order and one publication can  *)
(* carry a window older than the head it meets.                            *)
CurrentIsAsOfNow == \A f \in Facts : heads[f] = AsOf(now, f)

(* A publication that was delayed behind a newer read of the same fact     *)
(* never takes the head back: the window of the current row only advances. *)
CurrentNeverRegresses ==
    [][\A f \in Facts :
          heads[f] # 0 =>
             \/ heads'[f] = heads[f]
             \/ Before(observations', heads[f], heads'[f])]_factVars

(* A publication key names one batch for ever: a retried publish() neither *)
(* adds rows to the batch nor replaces any of them.                        *)
PublicationIsFinal ==
    [][\A key \in PublicationKeys :
          Published(key) # {} =>
             /\ Published(key)' = Published(key)
             /\ \A i \in Published(key) : observations'[i] = observations[i]]_factVars

=============================================================================
