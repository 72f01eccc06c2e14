---------------------------- MODULE ArchiveWriters ----------------------------
(***************************************************************************)
(* Calls of sync() by several processes: the archive lock (runtime.py),    *)
(* opening and creating the database (ObservationArchive in                *)
(* observations.py), and the cycle each call starts or resumes.            *)
(*                                                                         *)
(* The lock belongs to a path name, the database to the file behind it.    *)
(* The creation script runs statement by statement in its own implicit     *)
(* transactions; the identity of the archive is written in a last one.     *)
(***************************************************************************)
EXTENDS Integers

CONSTANTS
    Processes,
    Names,      \* path names given as config.destination
    Databases,  \* database files
    FileOf,     \* the file behind each name, symbolic links followed
    Settings,   \* (repository, Git store) pairs a call may be configured with
    Tables,     \* statements of the creation script
    MaxTime,    \* bound on the clock
    MaxCalls    \* bound on the calls of one process

ASSUME WritersAssumption ==
    /\ FileOf \in [Names -> Databases]
    /\ Tables \in Nat \ {0} /\ MaxTime \in Nat /\ MaxCalls \in Nat

Nobody == "nobody"
Unbound == "unbound"
ASSUME NobodyAssumption == Nobody \notin Processes /\ Unbound \notin Settings

Never == -1

VARIABLES
    clock,
    holder,      \* per path name: the process whose descriptor has the flock
    tables,      \* per database: statements of the script executed
    identity,    \* per database: repository and Git store in archive_meta
    checkpoint,  \* per database: discovery_checkpoint
    active,      \* per database: start of the active cycle, or Never
    pc, name, setting, invoked, calls  \* per process: its present call

files == <<tables, identity, checkpoint, active>>
call == <<name, setting, invoked, calls>>
vars == <<clock, holder, files, pc, call>>

Db(p) == FileOf[name[p]]
Moves(p, to) == pc' = [pc EXCEPT ![p] = to]

(* The process has a connection to its database. *)
Connected(p) == pc[p] \in {"open", "create", "script", "stamp", "ready", "working"}

-----------------------------------------------------------------------------
Init ==
    /\ clock = 0
    /\ holder = [n \in Names |-> Nobody]
    /\ tables = [d \in Databases |-> 0]
    /\ identity = [d \in Databases |-> Unbound]
    /\ checkpoint = [d \in Databases |-> Never]
    /\ active = [d \in Databases |-> Never]
    /\ pc = [p \in Processes |-> "idle"]
    /\ name \in [Processes -> Names] /\ setting \in [Processes -> Settings]
    /\ invoked = [p \in Processes |-> 0] /\ calls = [p \in Processes |-> 0]

Tick ==
    /\ clock < MaxTime
    /\ clock' = clock + 1
    /\ UNCHANGED <<holder, files, pc, call>>

(* sync() notes the time and asks for the lock. *)
Call(p, n, s) ==
    /\ pc[p] = "idle" /\ calls[p] < MaxCalls
    /\ Moves(p, "waiting")
    /\ name' = [name EXCEPT ![p] = n]
    /\ setting' = [setting EXCEPT ![p] = s]
    /\ invoked' = [invoked EXCEPT ![p] = clock]
    /\ calls' = [calls EXCEPT ![p] = @ + 1]
    /\ UNCHANGED <<clock, holder, files>>

(* A mutated form: the lock is taken without looking. *)
AnyName(p) == TRUE

(* The flock of this name is free when it is polled. *)
LockFree(p) == holder[name[p]] = Nobody

Acquire(p) ==
    /\ pc[p] = "waiting" /\ LockFree(p)
    /\ holder' = [holder EXCEPT ![name[p]] = p]
    /\ Moves(p, "open")
    /\ UNCHANGED <<clock, files, call>>

(* A mutated form: whatever archive is there is used. *)
AnyArchive(p) == tables[Db(p)] > 0

(* What _initialize accepts of a database that has the archive_meta table. *)
Matches(p) == tables[Db(p)] > 0 /\ identity[Db(p)] = setting[p]

(* _initialize: create, accept or refuse; archive_meta is the first table. *)
Open(p) ==
    /\ pc[p] = "open"
    /\ \/ tables[Db(p)] = 0 /\ Moves(p, "create")
       \/ Matches(p) /\ Moves(p, "ready")
       \/ tables[Db(p)] > 0 /\ ~Matches(p) /\ Moves(p, "leaving")
    /\ UNCHANGED <<clock, holder, files, call>>

(* Statement k of the creation script; the first one fails when another    *)
(* process has executed it meanwhile.                                      *)
CreateTable(p, k) ==
    /\ pc[p] = (IF k = 1 THEN "create" ELSE "script")
    /\ \/ /\ tables[Db(p)] = k - 1
          /\ tables' = [tables EXCEPT ![Db(p)] = k]
          /\ Moves(p, IF k = Tables THEN "stamp" ELSE "script")
       \/ k = 1 /\ tables[Db(p)] > 0 /\ Moves(p, "leaving") /\ UNCHANGED tables
    /\ UNCHANGED <<clock, holder, identity, checkpoint, active, call>>

(* The identity is inserted and committed. *)
Stamp(p) ==
    /\ pc[p] = "stamp"
    /\ identity' = [identity EXCEPT ![Db(p)] = setting[p]]
    /\ Moves(p, "ready")
    /\ UNCHANGED <<clock, holder, tables, checkpoint, active, call>>

(* start_cycle(invoked_at): resume, begin, or raise.                       *)
StartCycle(p) ==
    /\ pc[p] = "ready"
    /\ \/ active[Db(p)] # Never /\ Moves(p, "working") /\ UNCHANGED active
       \/ /\ active[Db(p)] = Never /\ checkpoint[Db(p)] <= invoked[p]
          /\ active' = [active EXCEPT ![Db(p)] = invoked[p]]
          /\ Moves(p, "working")
       \/ /\ active[Db(p)] = Never /\ checkpoint[Db(p)] > invoked[p]
          /\ Moves(p, "leaving") /\ UNCHANGED active
    /\ UNCHANGED <<clock, holder, tables, identity, checkpoint, call>>

(* A mutated form: the checkpoint is set to the end of the cycle. *)
AtCompletion(d) == clock

(* The boundary complete_cycle leaves; the upsert never lowers it. *)
Boundary(d) == IF checkpoint[d] <= active[d] THEN active[d] ELSE checkpoint[d]

CompleteCycle(p) ==
    /\ pc[p] = "working" /\ active[Db(p)] # Never
    /\ checkpoint' = [checkpoint EXCEPT ![Db(p)] = Boundary(Db(p))]
    /\ active' = [active EXCEPT ![Db(p)] = Never]
    /\ Moves(p, "leaving")
    /\ UNCHANGED <<clock, holder, tables, identity, call>>

(* The call fails and leaves its cycle to be resumed. *)
Fail(p) ==
    /\ pc[p] = "working"
    /\ Moves(p, "leaving")
    /\ UNCHANGED <<clock, holder, files, call>>

(* A mutated form: the lock file is not unlocked. *)
KeepLock(p) ==
    /\ pc[p] = "leaving"
    /\ Moves(p, "idle")
    /\ UNCHANGED <<clock, holder, files, call>>

(* The connection is closed by then: the lock is released last. *)
Release(p) ==
    /\ pc[p] = "leaving"
    /\ holder' = [holder EXCEPT ![name[p]] = Nobody]
    /\ Moves(p, "idle")
    /\ UNCHANGED <<clock, files, call>>

(* The process dies; the operating system drops its descriptors. *)
Crash(p) ==
    /\ pc[p] # "idle"
    /\ holder' = [n \in Names |-> IF holder[n] = p THEN Nobody ELSE holder[n]]
    /\ Moves(p, "idle")
    /\ UNCHANGED <<clock, files, call>>

Step(p) ==
    \/ Acquire(p) \/ Open(p) \/ Stamp(p) \/ StartCycle(p)
    \/ \E k \in 1 .. Tables : CreateTable(p, k)
    \/ CompleteCycle(p) \/ Fail(p) \/ Release(p)

Next ==
    \/ Tick
    \/ \E p \in Processes :
          \/ \E n \in Names, s \in Settings : Call(p, n, s)
          \/ Step(p) \/ Crash(p)

Spec == Init /\ [][Next]_vars

(* A waiting process polls ten times a second, and a call ends.  It gets   *)
(* the lock only if a poll meets it free, which weak fairness grants once  *)
(* the other processes stop calling (MaxCalls).                            *)
FairSpec == Spec /\ \A p \in Processes : WF_vars(Step(p))

-----------------------------------------------------------------------------
TypeOK ==
    /\ clock \in 0 .. MaxTime
    /\ holder \in [Names -> Processes \cup {Nobody}]
    /\ tables \in [Databases -> 0 .. Tables]
    /\ identity \in [Databases -> Settings \cup {Unbound}]
    /\ checkpoint \in [Databases -> 0 .. MaxTime \cup {Never}]
    /\ active \in [Databases -> 0 .. MaxTime \cup {Never}]
    /\ pc \in [Processes -> {"idle", "waiting", "open", "create", "script",
                             "stamp", "ready", "working", "leaving"}]
    /\ name \in [Processes -> Names] /\ setting \in [Processes -> Settings]
    /\ invoked \in [Processes -> 0 .. MaxTime] /\ calls \in [Processes -> 0 .. MaxCalls]

(* Two processes are never connected to a database by the same name,       *)
(* whatever order they called, waited, crashed or were refused in.         *)
SingleWriter ==
    \A p, q \in Processes : Connected(p) /\ Connected(q) /\ name[p] = name[q] => p = q

(* The same by whatever name they were given.                              *)
CanonicalWriter ==
    \A p, q \in Processes : Connected(p) /\ Connected(q) /\ Db(p) = Db(q) => p = q

(* Whoever may write a database writes it for the repository and the Git   *)
(* store it was created for, even when two calls that do not share a lock  *)
(* race to create it, and nothing is stamped before it is complete.        *)
WritersAgree ==
    /\ \A p \in Processes : pc[p] \in {"ready", "working"} => identity[Db(p)] = setting[p]
    /\ \A d \in Databases : identity[d] # Unbound => tables[d] = Tables

(* A cycle that a call left behind, by a failure or a crash, is the next   *)
(* one to be worked on: until it completes, its start stays the one that   *)
(* the checkpoint will take, and the checkpoint is not moved past it.      *)
BoundaryKept ==
    [][\A d \in Databases :
          active[d] # Never =>
             \/ active'[d] = active[d] /\ checkpoint'[d] = checkpoint[d]
             \/ active'[d] = Never /\ checkpoint'[d] = active[d]]_vars

(* A call that waits for the lock is eventually over. *)
CallsEnd == \A p \in Processes : pc[p] # "idle" ~> pc[p] = "idle"

(* A database nobody is connected to is either new or fully created, so    *)
(* that the next call can go on where a stopped one ended.                 *)
StoppedCreationResumes ==
    \A d \in Databases :
       (\A p \in Processes : Db(p) = d => pc[p] \in {"idle", "waiting"})
          => (tables[d] = 0 <=> identity[d] = Unbound)

(* The start a call gives to a new cycle is an actual start: it does not   *)
(* precede the checkpoint, also when the call waited for another writer.   *)
StartIsActual ==
    \A p \in Processes :
       pc[p] = "ready" /\ active[Db(p)] = Never => checkpoint[Db(p)] <= invoked[p]

=============================================================================
