------------------------------ MODULE RateLimits ------------------------------
(***************************************************************************)
(* The GitHub client (client.py): coroutines that share the limits GitHub  *)
(* announces, the quota last seen of each resource and one HTTP client.    *)
(* GitHub, with its quota windows, is external; so are the other users of  *)
(* the account.                                                            *)
(*                                                                         *)
(* A point in time is kept as its distance from now: Tick takes one off    *)
(* all of them.  Responses arrive in any order; one takes at most Flight.  *)
(***************************************************************************)
EXTENDS Integers

CONSTANTS
    Calls,       \* coroutines
    Operations,  \* what they may read: the resources of both transports
    Resources,   \* quota pools
    Limit,       \* requests in one window of each pool
    Period,      \* length of a window
    Tolerance,   \* _QUOTA_RESET_JITTER_SECONDS
    Spread,      \* how far apart GitHub may announce the end of one window
    Recheck,     \* _LIMIT_RECHECK_SECONDS
    RetryAfter,  \* what a secondary denial asks for
    Flight,      \* the longest time to an answer
    ResetAfter,  \* _TRANSPORT_RESET_ATTEMPTS
    LateDenials, \* a denial may arrive after its window has ended
    MaxReads,    \* bound on the operations of one coroutine
    MaxFaults,   \* bound on failures, denials and requests of others
    Nothing

ASSUME LimitsAssumption ==
    /\ Limit \in [Resources -> Nat \ {0}]
    /\ Tolerance \in Nat /\ Spread \in 0 .. Tolerance
    /\ Period \in Nat /\ Period > Tolerance + Spread + Flight
    /\ {Recheck, RetryAfter, ResetAfter} \subseteq Nat \ {0} /\ Flight \in Nat
    /\ Nothing \notin [remaining : Int, reset : Int]
    /\ LateDenials \in BOOLEAN /\ MaxReads \in Nat /\ MaxFaults \in Nat
    /\ \A o \in Operations : {o.rest, o.graphql} \subseteq Resources \union {Nothing}
                             /\ o.rest # o.graphql

VARIABLES
    window,     \* GitHub: requests counted in each window, and its end
    primary,    \* _primary_blocked_until
    secondary,  \* _secondary_blocked_until
    quota,      \* _quotas: remaining and reset_at of each pool, or Nothing
    generation, \* the generation of _client
    closed,     \* the generations whose aclose has returned
    call,       \* state of each coroutine
    reads,      \* operations each has begun
    denied,     \* whether a denial in the present window has arrived
    faults

shared == <<primary, secondary, quota>>
client == <<generation, closed>>
limitVars == <<window, shared, client, call, reads, denied, faults>>

Transports == {"rest", "graphql"}
Other(t) == IF t = "rest" THEN "graphql" ELSE "rest"
Idle == [pc |-> "idle", op |-> Nothing, transport |-> Nothing, untried |-> {}, limited |-> {},
         waits |-> FALSE, patient |-> FALSE, wake |-> 0, tries |-> 0, gen |-> 0,
         age |-> 0, answer |-> Nothing]

ResourceOf(c) == call[c].op[call[c].transport]
Usable(op) == {t \in Transports : op[t] # Nothing}
Later(a, b) == IF a > b THEN a ELSE b
Earlier(a, b) == IF a < b THEN a ELSE b
Fault == faults < MaxFaults /\ faults' = faults + 1
InFlight(c) == call[c].pc \in {"sent", "answered"}
Becomes(c, me) == call' = [call EXCEPT ![c] = me]

LimitsInit ==
    /\ window = [r \in Resources |-> [used |-> 0, reset |-> 0]]
    /\ primary = [r \in Resources |-> 0] /\ secondary = 0
    /\ quota = [r \in Resources |-> Nothing]
    /\ generation = 1 /\ closed = {}
    /\ call = [c \in Calls |-> Idle] /\ reads = [c \in Calls |-> 0]
    /\ denied = [r \in Resources |-> FALSE] /\ faults = 0

-----------------------------------------------------------------------------
(* _quota_capacity, as a fraction, and _quota_wait, by what is known       *)
Capacity(known, r) ==
    IF known[r] = Nothing \/ known[r].reset <= 0 THEN <<1, 1>>
    ELSE <<known[r].remaining, Limit[r]>>
Above(a, b) == a[1] * b[2] > b[1] * a[2]
QuotaWait(known, r) == IF known[r] = Nothing THEN 0 ELSE Later(known[r].reset, 0)

(* _transport_order: the transport that is tried first.  A cached REST     *)
(* response may cost nothing.                                              *)
Preferred(known, op) ==
    LET rest == Capacity(known, op.rest)
        graphql == Capacity(known, op.graphql)
    IN  IF \/ op.cached /\ rest[1] > 0
           \/ Above(rest, graphql)
           \/ /\ rest[1] = 0 /\ graphql[1] = 0
              /\ QuotaWait(known, op.rest) < QuotaWait(known, op.graphql)
        THEN "rest" ELSE "graphql"

(* A coroutine starts to read.  An operation of one transport waits for    *)
(* its quota; one of both asks not to, as long as it can try the other.    *)
Begin(c, op) ==
    /\ call[c].pc = "idle" /\ reads[c] < MaxReads
    /\ reads' = [reads EXCEPT ![c] = @ + 1]
    /\ LET both == Usable(op) = Transports
           first == IF both THEN Preferred(quota, op) ELSE CHOOSE t \in Usable(op) : TRUE
       IN  Becomes(c, [Idle EXCEPT
                !.pc = "gate", !.op = op, !.transport = first,
                !.untried = Usable(op) \ {first}, !.waits = ~both, !.patient = ~both])
    /\ UNCHANGED <<window, shared, client, denied, faults>>

(* _either: the transport of a coroutine after its attempt ended without a *)
(* result, or the end of the operation.  The last attempt is chosen by     *)
(* what is known by then.                                                  *)
NextAttempt(known, c, limited) ==
    LET me == call[c]
        preferred == Preferred(known, me.op) IN
    IF me.waits THEN Idle
    ELSE IF me.untried # {}
    THEN [me EXCEPT !.pc = "gate", !.transport = Other(@), !.untried = {},
                    !.limited = limited, !.patient = FALSE, !.tries = 0, !.answer = Nothing]
    ELSE IF limited # {}
    THEN [me EXCEPT !.pc = "gate", !.limited = {}, !.waits = TRUE, !.patient = TRUE,
                    !.tries = 0, !.answer = Nothing,
                    !.transport = IF preferred \in limited THEN preferred ELSE Other(preferred)]
    ELSE Idle

Limited(known, c) == NextAttempt(known, c, call[c].limited \union {call[c].transport})
AfterFailure(known, c) == NextAttempt(known, c, call[c].limited)

-----------------------------------------------------------------------------
(* _wait_for_limit: a point in time that is past blocks nothing. *)
Blocked(c) == Later(primary[ResourceOf(c)], secondary)
ByPrimary(c) == primary[ResourceOf(c)] >= secondary

Sleep(c) ==
    /\ call[c].pc = "gate" /\ Blocked(c) > 0
    /\ ByPrimary(c) => call[c].patient
    /\ Becomes(c, [call[c] EXCEPT !.pc = "asleep", !.wake = Earlier(Blocked(c), Recheck)])
    /\ UNCHANGED <<window, shared, client, reads, denied, faults>>

GiveWay(c) ==
    /\ call[c].pc = "gate" /\ Blocked(c) > 0
    /\ ByPrimary(c) /\ ~call[c].patient
    /\ Becomes(c, Limited(quota, c))
    /\ UNCHANGED <<window, shared, client, reads, denied, faults>>

Wake(c) ==
    /\ call[c].pc = "asleep" /\ call[c].wake <= 0
    /\ Becomes(c, [call[c] EXCEPT !.pc = "gate"])
    /\ UNCHANGED <<window, shared, client, reads, denied, faults>>

(* _request: sent by the client of the present generation. *)
Send(c) ==
    /\ call[c].pc = "gate" /\ Blocked(c) <= 0
    /\ Becomes(c, [call[c] EXCEPT !.pc = "sent", !.patient = call[c].waits,
                                  !.gen = generation, !.age = 0])
    /\ UNCHANGED <<window, shared, client, reads, denied, faults>>

-----------------------------------------------------------------------------
(* GitHub's answer, from the window the request falls into; its headers    *)
(* may announce the end a little early.                                    *)
Opened(r) == IF window[r].reset > 0 THEN window[r] ELSE [used |-> 0, reset |-> Period]
Reply(kind, w, r, early) ==
    [kind |-> kind, remaining |-> Limit[r] - w.used, reset |-> w.reset - early, late |-> FALSE]
Answers(c, a) == Becomes(c, [call[c] EXCEPT !.pc = "answered", !.answer = a])

Serve(c) ==
    LET r == ResourceOf(c)
        before == Opened(r)
        after == [before EXCEPT !.used = @ + 1]
    IN  /\ call[c].pc = "sent"
        /\ \E early \in 0 .. Spread :
           \/ /\ before.used < Limit[r]
              /\ window' = [window EXCEPT ![r] = after]
              /\ \/ Answers(c, Reply("ok", after, r, early)) /\ UNCHANGED faults
                 \/ Answers(c, Reply("missing", after, r, early)) /\ Fault
           \/ /\ before.used = Limit[r]
              /\ window' = [window EXCEPT ![r] = before]
              /\ Answers(c, Reply("denied", before, r, early))
              /\ UNCHANGED faults
           \/ /\ before.used < Limit[r] /\ Fault
              /\ window' = [window EXCEPT ![r] = before]
              /\ Answers(c, Reply("secondary", before, r, early))
           \/ \E w \in {before, after} :
              /\ w.used <= Limit[r] /\ Fault
              /\ window' = [window EXCEPT ![r] = w]
              /\ Answers(c, Reply("failing", w, r, early))
           \/ /\ call[c].op.cached /\ call[c].transport = "rest" /\ early = 0
              /\ Answers(c, [kind |-> "unchanged"])
              /\ UNCHANGED <<window, faults>>
           \/ /\ Fault /\ early = 0
              /\ Answers(c, [kind |-> "unavailable"])
              /\ UNCHANGED window
        /\ UNCHANGED <<shared, client, reads, denied>>

(* Other users of the account. *)
Others(r) ==
    /\ Opened(r).used < Limit[r] /\ Fault
    /\ window' = [window EXCEPT ![r] = [Opened(r) EXCEPT !.used = @ + 1]]
    /\ UNCHANGED <<shared, client, call, reads, denied>>

-----------------------------------------------------------------------------
(* A mutated form: the latest answer is believed.                          *)
Believed(r, a) == [remaining |-> a.remaining, reset |-> a.reset]

(* _remember_quota: answers of one window may come in any order, so the    *)
(* lowest count and the latest end are kept; the ends of one window differ *)
(* by the tolerance; an answer of an earlier window is ignored, and one of *)
(* a later window, or a denial, replaces what is known.                    *)
Remembered(r, a) ==
    LET known == quota[r]
        fresh == [remaining |-> a.remaining, reset |-> a.reset]
        shift == a.reset - known.reset
    IN  CASE known = Nothing -> fresh
          [] a.kind = "denied" /\ known # Nothing ->
                IF -Tolerance <= shift /\ shift <= Tolerance
                THEN [fresh EXCEPT !.reset = Later(@, known.reset)] ELSE fresh
          [] OTHER ->
                IF shift < -Tolerance THEN known
                ELSE IF shift > Tolerance THEN fresh
                ELSE [remaining |-> Earlier(known.remaining, a.remaining),
                      reset |-> Later(known.reset, a.reset)]

(* _remember_primary_limit: an exhausted pool is closed until its window   *)
(* has ended; one that has quota is open.                                  *)
Gate(r, q) == IF q.remaining > 0 THEN 0 ELSE Later(primary[r], q.reset + 1)

(* Answers with the headers of a quota; a 5xx may come without them.       *)
Counted == {"ok", "missing", "denied", "secondary", "failing"}

(* _rate_limit_wait: what a secondary denial asks for, or until the window *)
(* of an exhausted pool has ended.                                         *)
RateLimitWait(a, q) == IF a.kind = "secondary" THEN RetryAfter ELSE Later(q.reset + 1, 1)

(* _wait_after_rate_limit: a denial closes the pool it names, or all.      *)
WaitAfterRateLimit(c, r, gate, wait, exhausted) ==
    /\ primary' = [primary EXCEPT ![r] = IF exhausted THEN Later(gate, wait) ELSE gate]
    /\ secondary' = IF exhausted THEN secondary ELSE Later(secondary, wait)
    /\ Becomes(c, [call[c] EXCEPT !.pc = "gate", !.patient = TRUE, !.tries = 0, !.answer = Nothing])

Served(c, r, q, next) ==
    /\ primary' = [primary EXCEPT ![r] = Gate(r, q)]
    /\ Becomes(c, next)
    /\ UNCHANGED secondary

Unserved(c, next) == Becomes(c, next) /\ UNCHANGED <<primary, secondary>>
Again(c) == [call[c] EXCEPT !.pc = "asleep", !.wake = 1, !.tries = 0, !.answer = Nothing]

(* _request, from the answer to the next await or the end; which denial it *)
(* was is told by the quota that is known by now.                          *)
Deliver(c) ==
    LET a == call[c].answer
        r == ResourceOf(c)
        q == Remembered(r, a)
        known == [quota EXCEPT ![r] = q]
        exhausted == q.remaining = 0
    IN  /\ call[c].pc = "answered"
        /\ IF a.kind \in Counted
           THEN quota' = known ELSE UNCHANGED quota
        /\ denied' = [denied EXCEPT ![r] = @ \/ (a.kind = "denied" /\ ~a.late)]
        /\ CASE a.kind = "ok" -> Served(c, r, q, Idle)
             [] a.kind = "missing" -> Served(c, r, q, AfterFailure(known, c))
             [] a.kind = "failing" -> Served(c, r, q, Again(c))
             [] a.kind = "unchanged" -> Unserved(c, Idle)
             [] a.kind = "unavailable" -> Unserved(c, Again(c))
             [] a.kind \in {"denied", "secondary"} /\ exhausted /\ ~call[c].waits ->
                    Served(c, r, q, Limited(known, c))
             [] a.kind \in {"denied", "secondary"} /\ (~exhausted \/ call[c].waits) ->
                    WaitAfterRateLimit(c, r, Gate(r, q), RateLimitWait(a, q), exhausted)
        /\ UNCHANGED <<window, client, reads, faults>>

-----------------------------------------------------------------------------
(* _client_lock: held while the failed client is being closed.             *)
Closing == {c \in Calls : call[c].pc = "closing"}
Queued == {c \in Calls : call[c].pc = "locked"}

(* A mutated form: whoever sees the failure replaces the client.           *)
ResetAlways(c) ==
    /\ generation' = generation + 1 /\ UNCHANGED closed
    /\ Becomes(c, [Again(c) EXCEPT !.pc = "closing"])

(* _reset_owned_client, with the lock: only the first of those whose       *)
(* client failed replaces it, and then closes it.                          *)
ResetClient(c) ==
    IF generation = call[c].gen
    THEN /\ generation' = generation + 1 /\ UNCHANGED closed
         /\ Becomes(c, [Again(c) EXCEPT !.pc = "closing"])
    ELSE Becomes(c, Again(c)) /\ UNCHANGED client

(* A transport failure, also of a request whose client another one closes. *)
TransportFails(c) ==
    /\ InFlight(c)
    /\ \/ Fault
       \/ call[c].gen < generation /\ UNCHANGED faults
    /\ LET tries == call[c].tries + 1 IN
       \/ /\ tries < ResetAfter
          /\ Becomes(c, [Again(c) EXCEPT !.tries = tries]) /\ UNCHANGED client
       \/ tries >= ResetAfter /\ Closing \union Queued = {} /\ ResetClient(c)
       \/ /\ tries >= ResetAfter /\ Closing \union Queued # {}
          /\ Becomes(c, [call[c] EXCEPT !.pc = "locked", !.answer = Nothing]) /\ UNCHANGED client
    /\ UNCHANGED <<window, shared, reads, denied>>

(* A mutated form: who comes later does not notice that it is replaced.    *)
AcquireFirst(c) ==
    /\ call[c].pc = "locked" /\ Closing = {} /\ generation = call[c].gen
    /\ ResetClient(c)
    /\ UNCHANGED <<window, shared, reads, denied, faults>>

Acquire(c) ==
    /\ call[c].pc = "locked" /\ Closing = {}
    /\ ResetClient(c)
    /\ UNCHANGED <<window, shared, reads, denied, faults>>

(* aclose returns; the failed request is repeated after a pause.           *)
Closes(c) ==
    /\ call[c].pc = "closing"
    /\ closed' = closed \union {call[c].gen}
    /\ Becomes(c, Again(c))
    /\ UNCHANGED <<window, shared, generation, reads, denied, faults>>

-----------------------------------------------------------------------------
WindowEnds(c) == call[c].pc = "answered" /\ call[c].answer.kind = "denied"
           /\ window[ResourceOf(c)].reset = 1

(* What is past stays comparable with answers that are still to come.      *)
Past == -(Tolerance + Spread + Flight + 1)
Aged(reset) == Later(reset - 1, Past)
Expires(r) == window[r].reset = 1

Tick ==
    /\ \A c \in Calls : InFlight(c) => call[c].age < Flight /\ (WindowEnds(c) => LateDenials)
    /\ window' = [r \in Resources |->
                    IF window[r].reset > 1 THEN [window[r] EXCEPT !.reset = @ - 1]
                    ELSE [used |-> 0, reset |-> 0]]
    /\ denied' = [r \in Resources |-> denied[r] /\ ~Expires(r)]
    /\ primary' = [r \in Resources |-> Later(primary[r] - 1, 0)]
    /\ secondary' = Later(secondary - 1, 0)
    /\ quota' = [r \in Resources |->
                    IF quota[r] = Nothing THEN Nothing ELSE [quota[r] EXCEPT !.reset = Aged(@)]]
    /\ call' = [c \in Calls |->
                CASE call[c].pc = "asleep" -> [call[c] EXCEPT !.wake = Later(@ - 1, 0)]
                  [] call[c].pc = "sent" -> [call[c] EXCEPT !.age = @ + 1]
                  [] call[c].pc = "answered" /\ call[c].answer.kind \in Counted ->
                        [call[c] EXCEPT !.age = @ + 1, !.answer.reset = @ - 1,
                                        !.answer.late = @ \/ Expires(ResourceOf(c))]
                  [] call[c].pc = "answered" /\ call[c].answer.kind \notin Counted ->
                        [call[c] EXCEPT !.age = @ + 1]
                  [] OTHER -> call[c]]
    /\ UNCHANGED <<client, reads, faults>>

Proceed(c) ==
    \/ Sleep(c) \/ GiveWay(c) \/ Wake(c) \/ Send(c) \/ Serve(c) \/ Deliver(c)
    \/ Acquire(c) \/ Closes(c)

LimitsNext ==
    \/ \E c \in Calls : Proceed(c) \/ TransportFails(c) \/ \E op \in Operations : Begin(c, op)
    \/ \E r \in Resources : Others(r)
    \/ Tick

LimitsSpec == LimitsInit /\ [][LimitsNext]_limitVars

(* Time passes, the event loop runs what can run, and GitHub answers.      *)
FairLimitsSpec == LimitsSpec /\ WF_limitVars(Tick) /\ \A c \in Calls : WF_limitVars(Proceed(c))

-----------------------------------------------------------------------------
(* If a denial arrives before its window has ended, nobody asks that pool  *)
(* again before its end, whatever answers arrive later: except for the     *)
(* last seconds, which GitHub's own announcements disagree about.          *)
Sends(c) == call[c].pc = "gate" /\ call'[c].pc = "sent"
DenialHolds ==
    [][\A c \in Calls : Sends(c) /\ denied[ResourceOf(c)] =>
         window[ResourceOf(c)].reset < Later(Spread, 1)]_limitVars

(* Concurrent failures neither leak a client nor close the present one:    *)
(* each replaced one has been closed or is being closed, by one coroutine. *)
OneClientOpen ==
    /\ closed \union {call[c].gen : c \in Closing} = 1 .. generation - 1
    /\ \A c \in Closing : Closing = {c} /\ call[c].gen \notin closed

(* Whoever waits for a limit or repeats a failed request comes to an end.  *)
CallsEnd == \A c \in Calls : call[c].pc # "idle" ~> call[c].pc = "idle"

=============================================================================
