----------------------------- MODULE ClientProofs -----------------------------
(***************************************************************************)
(* Proofs about the client and the collector.                              *)
(*                                                                         *)
(* First part: RateLimits, for any number of coroutines, pools and         *)
(* requests, and for windows of any length.                                *)
(*                                                                         *)
(* Second part: CollectionReads and ParentHydration, for any parents and   *)
(* collections, pages of any size and any number of changes on GitHub.     *)
(* What a read has behind its cursor, or behind its page, is what makes it *)
(* whole at its end (RunOK); what tags a fact may have is what lets the    *)
(* next read keep its pages (FactOK).                                      *)
(***************************************************************************)
EXTENDS RateLimits, ParentHydration, FiniteSetTheorems, SequenceTheorems, FunctionTheorems,
        WellFoundedInduction, TLAPS

Windows == [used : Nat, reset : Nat]
Quotas == [remaining : Int, reset : Int]
Headers == [kind : Counted, remaining : Int, reset : Int, late : BOOLEAN]
Bare == [kind : {"unchanged", "unavailable"}]
Coroutines ==
    [pc : {"idle", "gate", "asleep", "sent", "answered", "locked", "closing"}, op : Operations \union {Nothing},
     transport : Transports \union {Nothing}, untried : SUBSET Transports,
     limited : SUBSET Transports, waits : BOOLEAN, patient : BOOLEAN, wake : Nat,
     tries : Nat, gen : Nat, age : Nat, answer : Headers \union Bare \union {Nothing}]

(* A coroutine that reads is on a transport its operation has, and waits   *)
(* for a limit only if there is no other or both have been tried.          *)
CallOK(c) ==
    /\ call[c].pc # "idle" =>
         /\ call[c].op \in Operations /\ call[c].transport \in Usable(call[c].op)
         /\ ~call[c].waits => Usable(call[c].op) = Transports
    /\ call[c].pc = "answered" => call[c].answer \in Headers \union Bare
    /\ InFlight(c) => call[c].age <= Flight

LimitsTypeOK ==
    /\ window \in [Resources -> Windows]
    /\ primary \in [Resources -> Int] /\ secondary \in Int
    /\ quota \in [Resources -> Quotas \union {Nothing}]
    /\ generation \in Nat \ {0}
    /\ call \in [Calls -> Coroutines] /\ reads \in [Calls -> Nat]
    /\ denied \in [Resources -> BOOLEAN] /\ faults \in Nat
    /\ \A c \in Calls : CallOK(c)

(* An answer that counts is of the present window, or a late one: then the *)
(* present window, if there is one, was opened while the answer travelled. *)
AnswerOK(c) ==
    call[c].pc = "answered" /\ call[c].answer \in Headers =>
       LET a == call[c].answer
           w == window[ResourceOf(c)].reset IN
       /\ a.kind = "denied" => a.remaining = 0 /\ ~a.late
       /\ ~a.late => w > 0 /\ w - Spread <= a.reset /\ a.reset <= w
       /\ a.late => a.reset <= 0 /\ (w = 0 \/ w + call[c].age >= Period)

(* What is known of a pool after a denial: no answer that is still on its  *)
(* way can make it look open again.                                        *)
DeniedOK(r) ==
    denied[r] =>
       /\ window[r].reset > 0
       /\ quota[r] \in Quotas /\ quota[r].remaining <= 0
       /\ quota[r].reset >= window[r].reset - Spread
       /\ primary[r] > window[r].reset - Spread

AnswersOK == \A c \in Calls : AnswerOK(c)
DenialsOK == \A r \in Resources : DeniedOK(r)

-----------------------------------------------------------------------------
(* Types. *)

(* A coroutine may be in this state.                                       *)
Possible(me) ==
    /\ me \in Coroutines
    /\ me.pc # "idle" =>
         /\ me.op \in Operations /\ me.transport \in Usable(me.op)
         /\ ~me.waits => Usable(me.op) = Transports
    /\ me.pc = "answered" => me.answer \in Headers \union Bare
    /\ me.pc \in {"sent", "answered"} => me.age <= Flight

LEMMA CoroutineMoved ==
    ASSUME LimitsTypeOK, NEW c \in Calls, NEW me, Possible(me), Becomes(c, me)
    PROVE  /\ call' \in [Calls -> Coroutines] /\ \A k \in Calls : CallOK(k)'
           /\ call'[c] = me /\ \A k \in Calls \ {c} : call'[k] = call[k]
  <1>1. /\ call' \in [Calls -> Coroutines]
        /\ call'[c] = me /\ \A k \in Calls \ {c} : call'[k] = call[k]
    BY DEF LimitsTypeOK, Becomes, Possible
  <1>2. CallOK(c)'
    BY <1>1 DEF CallOK, InFlight, Possible
  <1>3. ASSUME NEW k \in Calls \ {c} PROVE CallOK(k)'
    BY <1>1 DEF LimitsTypeOK, CallOK, InFlight
  <1> QED
    BY <1>1, <1>2, <1>3

LEMMA IsPossible == ASSUME LimitsTypeOK, NEW c \in Calls PROVE Possible(call[c])
  BY DEF LimitsTypeOK, CallOK, Possible, InFlight

LEMMA IdleIsPossible == Possible(Idle) /\ Idle.pc = "idle"
  BY DEF Possible, Idle, Coroutines, Transports

LEMMA PoolExists ==
    ASSUME LimitsTypeOK, NEW c \in Calls, call[c].pc # "idle" PROVE ResourceOf(c) \in Resources
  <1>1. call[c].op \in Operations /\ call[c].transport \in Usable(call[c].op)
    BY DEF LimitsTypeOK, CallOK
  <1> QED
    BY <1>1, LimitsAssumption DEF ResourceOf, Usable, Transports

LEMMA TimesAreIntegers ==
    ASSUME LimitsTypeOK, NEW c \in Calls, call[c].pc # "idle"
    PROVE  Blocked(c) \in Int /\ (Blocked(c) > 0 => Earlier(Blocked(c), Recheck) \in Nat)
  BY PoolExists, LimitsAssumption DEF LimitsTypeOK, Blocked, Later, Earlier

LEMMA PreferredIsOne == \A known, op : Preferred(known, op) \in Transports
  BY DEF Preferred, Transports

LEMMA NextIsPossible ==
    ASSUME LimitsTypeOK, NEW known, NEW c \in Calls, call[c].pc # "idle",
           NEW limited \in SUBSET Transports
    PROVE  /\ Possible(NextAttempt(known, c, limited))
           /\ NextAttempt(known, c, limited).pc \in {"idle", "gate"}
  <1> DEFINE me == call[c]
             other == [me EXCEPT !.pc = "gate", !.transport = Other(@), !.untried = {},
                                 !.limited = limited, !.patient = FALSE, !.tries = 0, !.answer = Nothing]
             last(t) == [me EXCEPT !.pc = "gate", !.limited = {}, !.waits = TRUE, !.patient = TRUE,
                                   !.tries = 0, !.answer = Nothing, !.transport = t]
  <1>1. me \in Coroutines /\ me.op \in Operations /\ (~me.waits => Usable(me.op) = Transports)
    BY DEF LimitsTypeOK, CallOK
  <1>2. \A t : Other(t) \in Transports
    BY DEF Other, Transports
  <1>3. ASSUME ~me.waits PROVE Possible(other) /\ other.pc = "gate"
    BY <1>1, <1>2, <1>3 DEF Possible, Coroutines
  <1>4. ASSUME ~me.waits, NEW t \in Transports PROVE Possible(last(t)) /\ last(t).pc = "gate"
    BY <1>1, <1>4 DEF Possible, Coroutines
  <1> DEFINE preferred == Preferred(known, me.op)
             chosen == IF preferred \in limited THEN preferred ELSE Other(preferred)
  <1>5. chosen \in Transports
    BY <1>2, PreferredIsOne
  <1>6. NextAttempt(known, c, limited) \in {Idle, other, last(chosen)}
        /\ (me.waits => NextAttempt(known, c, limited) = Idle)
    BY DEF NextAttempt
  <1> HIDE DEF other, last, chosen
  <1> QED
    BY <1>3, <1>4, <1>5, <1>6, IdleIsPossible

LEMMA OpenedIsWindow ==
    ASSUME LimitsTypeOK, NEW r \in Resources
    PROVE  /\ Opened(r) \in Windows /\ Opened(r).reset > 0
           /\ Opened(r).reset = window[r].reset \/ (window[r].reset = 0 /\ Opened(r).reset = Period)
  BY LimitsAssumption DEF LimitsTypeOK, Opened, Windows

(* GitHub counts requests in the window it has, or opens one.              *)
Opens ==
    /\ window' \in [Resources -> Windows]
    /\ \A r \in Resources :
          \/ window'[r].reset = window[r].reset
          \/ window[r].reset = 0 /\ window'[r].reset = Period

LEMMA OthersOpen == ASSUME LimitsTypeOK, NEW r \in Resources, Others(r) PROVE Opens
  <1> DEFINE w == [Opened(r) EXCEPT !.used = @ + 1]
  <1>1. w \in Windows /\ w.reset = Opened(r).reset
    BY OpenedIsWindow DEF Windows
  <1>2. window' = [window EXCEPT ![r] = w]
    BY DEF Others
  <1> HIDE DEF w
  <1> QED
    BY <1>1, <1>2, OpenedIsWindow DEF LimitsTypeOK, Opens

(* What a request is answered.                                             *)
LEMMA ServeAnswers ==
    ASSUME LimitsTypeOK, NEW c \in Calls, Serve(c)
    PROVE  /\ Opens /\ faults' \in Nat /\ ResourceOf(c) \in Resources
           /\ \E a \in Headers \union Bare :
                /\ Answers(c, a)
                /\ a \in Headers =>
                     LET w == window'[ResourceOf(c)].reset IN
                     /\ ~a.late /\ w > 0 /\ w - Spread <= a.reset /\ a.reset <= w
                     /\ a.kind = "denied" => a.remaining = 0
  <1> DEFINE r == ResourceOf(c)
             before == Opened(r)
             after == [before EXCEPT !.used = @ + 1]
  <1>1. r \in Resources
    BY PoolExists DEF Serve
  <1>2. /\ before \in Windows /\ after \in Windows /\ before.reset > 0
        /\ after.reset = before.reset
        /\ before.reset = window[r].reset \/ (window[r].reset = 0 /\ before.reset = Period)
    BY <1>1, OpenedIsWindow DEF Windows
  <1>3. faults' \in Nat
    BY DEF Serve, Fault, LimitsTypeOK
  <1>4. PICK early \in 0 .. Spread :
          \/ \E kind \in {"ok", "missing"} :
                window' = [window EXCEPT ![r] = after] /\ Answers(c, Reply(kind, after, r, early))
          \/ /\ before.used = Limit[r]
             /\ window' = [window EXCEPT ![r] = before]
             /\ Answers(c, Reply("denied", before, r, early))
          \/ window' = [window EXCEPT ![r] = before] /\ Answers(c, Reply("secondary", before, r, early))
          \/ \E w \in {before, after} :
                window' = [window EXCEPT ![r] = w] /\ Answers(c, Reply("failing", w, r, early))
          \/ UNCHANGED window /\ \E kind \in {"unchanged", "unavailable"} : Answers(c, [kind |-> kind])
    BY DEF Serve
  <1> HIDE DEF r, before, after
  <1>5. ASSUME NEW w \in Windows, w.reset = before.reset, window' = [window EXCEPT ![r] = w]
        PROVE  Opens /\ window'[r].reset = w.reset
    BY <1>1, <1>2, <1>5 DEF LimitsTypeOK, Opens
  <1>6. ASSUME NEW w \in Windows, w.reset > 0, NEW kind \in Counted, kind = "denied" => w.used = Limit[r]
        PROVE  LET a == Reply(kind, w, r, early) IN
               /\ a \in Headers /\ ~a.late
               /\ w.reset - Spread <= a.reset /\ a.reset <= w.reset
               /\ a.kind = "denied" => a.remaining = 0
    BY <1>1, <1>6, LimitsAssumption DEF Reply, Headers, Windows
  <1>7. ASSUME NEW w \in Windows, w.reset = before.reset, window' = [window EXCEPT ![r] = w],
               NEW kind \in Counted, kind = "denied" => w.used = Limit[r],
               Answers(c, Reply(kind, w, r, early))
        PROVE  /\ Opens
               /\ \E a \in Headers \union Bare :
                    /\ Answers(c, a)
                    /\ a \in Headers =>
                         /\ ~a.late /\ window'[r].reset > 0
                         /\ window'[r].reset - Spread <= a.reset /\ a.reset <= window'[r].reset
                         /\ a.kind = "denied" => a.remaining = 0
    <2> DEFINE a == Reply(kind, w, r, early)
    <2>1. Opens /\ window'[r].reset = w.reset /\ w.reset > 0
      BY <1>2, <1>5, <1>7
    <2>2. /\ a \in Headers /\ ~a.late
          /\ w.reset - Spread <= a.reset /\ a.reset <= w.reset
          /\ a.kind = "denied" => a.remaining = 0
      BY <1>6, <1>7, <2>1
    <2>3. Answers(c, a)
      BY <1>7
    <2> HIDE DEF a
    <2> QED
      BY <2>1, <2>2, <2>3
  <1>8. ASSUME NEW kind \in {"unchanged", "unavailable"}, UNCHANGED window, Answers(c, [kind |-> kind])
        PROVE  Opens /\ \E a \in Headers \union Bare : Answers(c, a) /\ a \notin Headers
    <2>1. [kind |-> kind] \in Bare /\ [kind |-> kind] \notin Headers
      BY DEF Bare, Headers, Counted
    <2>2. Opens
      BY <1>8 DEF LimitsTypeOK, Opens
    <2> QED
      BY <1>8, <2>1, <2>2
  <1>9. CASE \E kind \in {"ok", "missing"} :
                window' = [window EXCEPT ![r] = after] /\ Answers(c, Reply(kind, after, r, early))
    BY <1>1, <1>2, <1>3, <1>7, <1>9 DEF r, Counted
  <1>10. CASE /\ before.used = Limit[r]
              /\ window' = [window EXCEPT ![r] = before]
              /\ Answers(c, Reply("denied", before, r, early))
    BY <1>1, <1>2, <1>3, <1>7, <1>10 DEF r, Counted
  <1>11. CASE window' = [window EXCEPT ![r] = before] /\ Answers(c, Reply("secondary", before, r, early))
    BY <1>1, <1>2, <1>3, <1>7, <1>11 DEF r, Counted
  <1>12. CASE UNCHANGED window /\ \E kind \in {"unchanged", "unavailable"} : Answers(c, [kind |-> kind])
    BY <1>1, <1>3, <1>8, <1>12 DEF r
  <1>13. ASSUME NEW w \in {before, after}, window' = [window EXCEPT ![r] = w],
                Answers(c, Reply("failing", w, r, early))
         PROVE  /\ Opens
                /\ \E a \in Headers \union Bare :
                     /\ Answers(c, a)
                     /\ a \in Headers =>
                          /\ ~a.late /\ window'[r].reset > 0
                          /\ window'[r].reset - Spread <= a.reset /\ a.reset <= window'[r].reset
                          /\ a.kind = "denied" => a.remaining = 0
    BY <1>2, <1>7, <1>13 DEF Counted
  <1>14. CASE \E w \in {before, after} :
                window' = [window EXCEPT ![r] = w] /\ Answers(c, Reply("failing", w, r, early))
    BY <1>1, <1>3, <1>13, <1>14 DEF r
  <1> QED
    BY <1>4, <1>9, <1>10, <1>11, <1>12, <1>14

LEMMA RememberedIsQuota ==
    ASSUME LimitsTypeOK, NEW r \in Resources, NEW a \in Headers
    PROVE  /\ Remembered(r, a) \in Quotas
           /\ Gate(r, Remembered(r, a)) \in Int /\ RateLimitWait(a, Remembered(r, a)) \in Int
  <1>1. [remaining |-> a.remaining, reset |-> a.reset] \in Quotas
    BY DEF Quotas, Headers
  <1>2. quota[r] # Nothing => quota[r] \in Quotas
    BY DEF LimitsTypeOK
  <1>3. Remembered(r, a) \in Quotas
    <2>1. CASE quota[r] = Nothing
      BY <1>1, <2>1 DEF Remembered
    <2>2. CASE quota[r] # Nothing /\ a.kind = "denied"
      BY <1>1, <1>2, <2>2, LimitsAssumption DEF Remembered, Quotas, Headers, Later
    <2>3. CASE quota[r] # Nothing /\ a.kind # "denied"
      BY <1>1, <1>2, <2>3, LimitsAssumption DEF Remembered, Quotas, Headers, Later, Earlier
    <2> QED
      BY <2>1, <2>2, <2>3
  <1>4. primary[r] \in Int
    BY DEF LimitsTypeOK
  <1> DEFINE q == Remembered(r, a)
  <1> HIDE DEF q
  <1>5. Gate(r, q) \in Int /\ RateLimitWait(a, q) \in Int
    BY <1>3, <1>4, LimitsAssumption DEF q, Gate, RateLimitWait, Quotas, Later
  <1> QED
    BY <1>3, <1>5 DEF q

(* After an answer the coroutine is not in flight; the pool it asked is    *)
(* closed as far as the remembered quota says, or longer.                  *)
LEMMA DeliverShape ==
    ASSUME LimitsTypeOK, NEW c \in Calls, Deliver(c)
    PROVE  LET a == call[c].answer
               r == ResourceOf(c)
               q == Remembered(r, a) IN
           /\ r \in Resources
           /\ \E me : Possible(me) /\ me.pc \in {"idle", "gate", "asleep"} /\ Becomes(c, me)
           /\ secondary' \in Int
           /\ \/ /\ a \in Headers /\ quota' = [quota EXCEPT ![r] = q]
                 /\ \E until \in Int : /\ primary' = [primary EXCEPT ![r] = until]
                                       /\ until >= Gate(r, q)
              \/ a \in Bare /\ UNCHANGED <<quota, primary>>
           /\ denied' = [denied EXCEPT ![r] = @ \/ (a.kind = "denied" /\ ~a.late)]
  <1> DEFINE a == call[c].answer
             r == ResourceOf(c)
             q == Remembered(r, a)
             known == [quota EXCEPT ![r] = q]
  <1>1. /\ call[c].pc = "answered" /\ a \in Headers \union Bare /\ r \in Resources
        /\ denied' = [denied EXCEPT ![r] = @ \/ (a.kind = "denied" /\ ~a.late)]
    BY PoolExists DEF Deliver, LimitsTypeOK, CallOK
  <1>2. /\ Possible(Limited(known, c)) /\ Limited(known, c).pc \in {"idle", "gate", "asleep"}
        /\ Possible(AfterFailure(known, c)) /\ AfterFailure(known, c).pc \in {"idle", "gate", "asleep"}
    <2>1. call[c].limited \in SUBSET Transports /\ call[c].transport \in Transports
      BY <1>1 DEF LimitsTypeOK, CallOK, Coroutines, Usable
    <2> QED
      BY <1>1, <2>1, NextIsPossible DEF Limited, AfterFailure
  <1>3. /\ Possible(Again(c)) /\ Again(c).pc = "asleep"
        /\ Possible([call[c] EXCEPT !.pc = "gate", !.patient = TRUE, !.tries = 0, !.answer = Nothing])
    <2>1. /\ call[c] \in Coroutines /\ call[c].op \in Operations
          /\ call[c].transport \in Usable(call[c].op)
          /\ ~call[c].waits => Usable(call[c].op) = Transports
      BY <1>1 DEF LimitsTypeOK, CallOK
    <2> QED
      BY <2>1 DEF Possible, Again, Coroutines
  <1>4. CASE a \in Headers
    <2>1. a.kind \in Counted /\ quota' = [quota EXCEPT ![r] = q]
      BY <1>4 DEF Deliver, Headers
    <2>2. Gate(r, q) \in Int /\ RateLimitWait(a, q) \in Int
      BY <1>1, <1>4, RememberedIsQuota
    <2>3. ASSUME NEW next, Served(c, r, q, next), Possible(next),
                 next.pc \in {"idle", "gate", "asleep"}
          PROVE  /\ \E me : Possible(me) /\ me.pc \in {"idle", "gate", "asleep"} /\ Becomes(c, me)
                 /\ secondary' \in Int
                 /\ \E until \in Int : primary' = [primary EXCEPT ![r] = until] /\ until >= Gate(r, q)
      <3> DEFINE gate == Gate(r, q)
      <3>1. primary' = [primary EXCEPT ![r] = gate] /\ Becomes(c, next) /\ secondary' = secondary
        BY <2>3 DEF Served
      <3>2. gate \in Int /\ secondary \in Int
        BY <2>2 DEF LimitsTypeOK
      <3> HIDE DEF gate
      <3>3. gate >= gate
        BY <3>2
      <3> QED
        BY <2>3, <3>1, <3>2, <3>3 DEF gate
    <2>4. ASSUME WaitAfterRateLimit(c, r, Gate(r, q), RateLimitWait(a, q), q.remaining = 0)
          PROVE  /\ \E me : Possible(me) /\ me.pc \in {"idle", "gate", "asleep"} /\ Becomes(c, me)
                 /\ secondary' \in Int
                 /\ \E until \in Int : primary' = [primary EXCEPT ![r] = until] /\ until >= Gate(r, q)
      <3> DEFINE gate == Gate(r, q)
                 wait == RateLimitWait(a, q)
                 until == IF q.remaining = 0 THEN Later(gate, wait) ELSE gate
                 me == [call[c] EXCEPT !.pc = "gate", !.patient = TRUE, !.tries = 0, !.answer = Nothing]
      <3>1. Becomes(c, me) /\ me.pc = "gate" /\ Possible(me)
        BY <1>1, <1>3, <2>4 DEF WaitAfterRateLimit, LimitsTypeOK, Coroutines
      <3>2. primary' = [primary EXCEPT ![r] = until]
        BY <2>4 DEF WaitAfterRateLimit
      <3>3. gate \in Int /\ wait \in Int /\ secondary \in Int
        BY <2>2 DEF LimitsTypeOK
      <3>4. secondary' \in {secondary, Later(secondary, wait)}
        BY <2>4 DEF WaitAfterRateLimit
      <3> HIDE DEF gate, wait, me
      <3>5. until \in Int /\ until >= gate /\ secondary' \in Int
        BY <3>3, <3>4 DEF Later
      <3> HIDE DEF until
      <3> QED
        BY <3>1, <3>2, <3>5 DEF gate
    <2>5. CASE a.kind = "ok"
      <3>1. Served(c, r, q, Idle)
        BY <2>5 DEF Deliver
      <3> QED
        BY <1>1, <1>4, <2>1, <2>3, <3>1, IdleIsPossible
    <2>6. CASE a.kind = "missing"
      <3>1. Served(c, r, q, AfterFailure(known, c))
        BY <2>6 DEF Deliver
      <3> QED
        BY <1>1, <1>2, <1>4, <2>1, <2>3, <3>1
    <2>7. CASE a.kind \in {"denied", "secondary"}
      <3>1. \/ Served(c, r, q, Limited(known, c))
            \/ WaitAfterRateLimit(c, r, Gate(r, q), RateLimitWait(a, q), q.remaining = 0)
        BY <2>7 DEF Deliver
      <3> QED
        BY <1>1, <1>2, <1>4, <2>1, <2>3, <2>4, <3>1
    <2>8. CASE a.kind = "failing"
      <3>1. Served(c, r, q, Again(c))
        BY <2>8 DEF Deliver
      <3> QED
        BY <1>1, <1>3, <1>4, <2>1, <2>3, <3>1
    <2> QED
      BY <2>1, <2>5, <2>6, <2>7, <2>8 DEF Counted
  <1>5. CASE a \in Bare
    <2>1. a.kind \in {"unchanged", "unavailable"}
      BY <1>5 DEF Bare
    <2>2. UNCHANGED quota
      BY <2>1 DEF Deliver, Counted
    <2>3. Unserved(c, Idle) \/ Unserved(c, Again(c))
      BY <2>1 DEF Deliver
    <2>4. UNCHANGED <<primary, secondary>> /\ (Becomes(c, Idle) \/ Becomes(c, Again(c)))
      BY <2>3 DEF Unserved
    <2> QED
      BY <1>1, <1>3, <1>5, <2>2, <2>4, IdleIsPossible DEF LimitsTypeOK
  <1> QED
    BY <1>1, <1>4, <1>5

(* What a coroutine does on its own account: it neither asks nor is        *)
(* answered, and shares nothing.                                           *)
LEMMA AloneIsPossible ==
    ASSUME LimitsTypeOK, NEW c \in Calls,
           \/ Sleep(c) \/ GiveWay(c) \/ Wake(c) \/ Send(c)
           \/ \E op \in Operations : Begin(c, op)
    PROVE  /\ \E me : /\ Possible(me) /\ me.pc \notin {"answered", "closing"} /\ Becomes(c, me)
                      /\ me.pc = "sent" => call[c].pc = "gate" /\ Send(c)
           /\ UNCHANGED <<window, shared, client, denied, faults>> /\ reads' \in [Calls -> Nat]
  <1>1. /\ call[c] \in Coroutines
        /\ call[c].pc # "idle" => call[c].op \in Operations /\ call[c].transport \in Usable(call[c].op)
        /\ call[c].pc # "idle" /\ ~call[c].waits => Usable(call[c].op) = Transports
    BY DEF LimitsTypeOK, CallOK
  <1>2. /\ UNCHANGED <<window, shared, client, denied, faults>> /\ reads' \in [Calls -> Nat]
    <2>1. UNCHANGED <<window, shared, client, denied, faults>>
      BY DEF Sleep, GiveWay, Wake, Send, Begin
    <2>2. UNCHANGED reads \/ reads' = [reads EXCEPT ![c] = @ + 1]
      BY DEF Sleep, GiveWay, Wake, Send, Begin
    <2> QED
      BY <2>1, <2>2 DEF LimitsTypeOK
  <1>3. CASE Sleep(c)
    <2> DEFINE time == Earlier(Blocked(c), Recheck)
               me == [call[c] EXCEPT !.pc = "asleep", !.wake = time]
    <2>1. Becomes(c, me) /\ call[c].pc = "gate" /\ time \in Nat
      BY <1>3, TimesAreIntegers DEF Sleep
    <2> HIDE DEF time
    <2>2. Possible(me) /\ me.pc = "asleep"
      BY <1>1, <2>1 DEF Possible, Coroutines
    <2> QED
      BY <1>2, <2>1, <2>2
  <1>4. CASE GiveWay(c)
    <2>1. call[c].limited \union {call[c].transport} \in SUBSET Transports
      BY <1>1, <1>4 DEF GiveWay, Coroutines, Usable
    <2>2. Possible(Limited(quota, c)) /\ Limited(quota, c).pc \in {"idle", "gate"}
         /\ Becomes(c, Limited(quota, c))
      BY <1>4, <2>1, NextIsPossible DEF GiveWay, Limited
    <2> QED
      BY <1>2, <2>2
  <1>5. CASE Wake(c)
    <2> DEFINE me == [call[c] EXCEPT !.pc = "gate"]
    <2>1. Becomes(c, me) /\ call[c].pc = "asleep"
      BY <1>5 DEF Wake
    <2>2. Possible(me) /\ me.pc = "gate"
      BY <1>1, <2>1 DEF Possible, Coroutines
    <2> QED
      BY <1>2, <2>1, <2>2
  <1>6. CASE Send(c)
    <2> DEFINE me == [call[c] EXCEPT !.pc = "sent", !.patient = call[c].waits, !.gen = generation, !.age = 0]
    <2>1. Becomes(c, me) /\ call[c].pc = "gate" /\ generation \in Nat
      BY <1>6 DEF Send, LimitsTypeOK
    <2>2. me \in Coroutines
      BY <1>1, <2>1 DEF Coroutines
    <2>3. /\ me.pc = "sent" /\ me.op = call[c].op /\ me.transport = call[c].transport
          /\ me.waits = call[c].waits /\ me.age <= Flight
      BY <1>1, LimitsAssumption DEF Coroutines
    <2> HIDE DEF me
    <2>4. Possible(me)
      BY <1>1, <2>1, <2>2, <2>3 DEF Possible
    <2> QED
      BY <1>2, <1>6, <2>1, <2>3, <2>4
  <1>7. ASSUME NEW op \in Operations, Begin(c, op) PROVE \E me : Possible(me) /\ me.pc = "gate" /\ Becomes(c, me)
    <2> DEFINE both == Usable(op) = Transports
               first == IF both THEN Preferred(quota, op) ELSE CHOOSE t \in Usable(op) : TRUE
               me == [Idle EXCEPT !.pc = "gate", !.op = op, !.transport = first,
                                  !.untried = Usable(op) \ {first}, !.waits = ~both, !.patient = ~both]
    <2>1. Becomes(c, me)
      BY <1>7 DEF Begin
    <2>2. first \in Usable(op)
      <3>1. CASE both
        BY <3>1, PreferredIsOne
      <3>2. CASE ~both
        <4>1. \E t : t \in Usable(op)
          BY LimitsAssumption DEF Usable, Transports
        <4> QED
          BY <3>2, <4>1
      <3> QED
        BY <3>1, <3>2
    <2>3. Usable(op) \subseteq Transports /\ both \in BOOLEAN
      BY DEF Usable
    <2>4. Idle \in Coroutines
      BY DEF Idle, Coroutines, Transports
    <2>5. me \in Coroutines
      BY <2>2, <2>3, <2>4 DEF Coroutines
    <2>6. me.pc = "gate" /\ me.op = op /\ me.transport = first /\ (~me.waits => both)
      BY DEF Idle
    <2> HIDE DEF me, first
    <2> QED
      BY <2>1, <2>2, <2>5, <2>6 DEF Possible
  <1> QED
    BY <1>2, <1>3, <1>4, <1>5, <1>6, <1>7

(* A coroutine whose request failed, also one that gets the lock or has    *)
(* closed the failed client.                                               *)
Resets(c) == TransportFails(c) \/ Acquire(c) \/ Closes(c)

LEMMA FailureIsPossible ==
    ASSUME LimitsTypeOK, NEW c \in Calls, Resets(c)
    PROVE  /\ \E me : /\ Possible(me) /\ me.pc \in {"asleep", "locked", "closing"}
                      /\ Becomes(c, me)
           /\ UNCHANGED <<window, shared, denied, reads>> /\ faults' \in Nat
           /\ generation' \in Nat \ {0}
  <1>1. /\ call[c] \in Coroutines /\ call[c].op \in Operations
        /\ call[c].transport \in Usable(call[c].op)
        /\ ~call[c].waits => Usable(call[c].op) = Transports
    BY DEF LimitsTypeOK, CallOK, Resets, TransportFails, InFlight, Acquire, Closes
  <1> DEFINE tries == call[c].tries + 1
             again == Again(c)
  <1>2. tries \in Nat
    BY <1>1 DEF Coroutines
  <1>3. Possible(again) /\ again.pc = "asleep"
    BY <1>1 DEF Possible, Again, Coroutines
  <1>4. Possible([call[c] EXCEPT !.pc = "locked", !.answer = Nothing])
    BY <1>1 DEF Possible, Coroutines
  <1> HIDE DEF tries
  <1>5. Possible([again EXCEPT !.tries = tries]) /\ Possible([again EXCEPT !.pc = "closing"])
    <2> HIDE DEF again
    <2> QED
      BY <1>2, <1>3 DEF Possible, Coroutines
  <1>6. UNCHANGED <<window, shared, denied, reads>> /\ faults' \in Nat
    BY DEF Resets, TransportFails, Acquire, Closes, LimitsTypeOK, Fault
  <1>7. /\ \/ Becomes(c, again) \/ Becomes(c, [again EXCEPT !.tries = tries])
           \/ Becomes(c, [again EXCEPT !.pc = "closing"])
           \/ Becomes(c, [call[c] EXCEPT !.pc = "locked", !.answer = Nothing])
        /\ generation' \in {generation, generation + 1}
    BY DEF Resets, TransportFails, Acquire, Closes, ResetClient, tries, client
  <1>8. generation' \in Nat \ {0}
    BY <1>7 DEF LimitsTypeOK
  <1>9. /\ [again EXCEPT !.tries = tries].pc = "asleep" /\ [again EXCEPT !.pc = "closing"].pc = "closing"
        /\ [call[c] EXCEPT !.pc = "locked", !.answer = Nothing].pc = "locked"
    BY <1>1, <1>3 DEF Possible, Coroutines
  <1> HIDE DEF again
  <1> QED
    BY <1>3, <1>4, <1>5, <1>6, <1>7, <1>8, <1>9

(* As time passes, answers age with their windows.                         *)
LEMMA TickAges ==
    ASSUME LimitsTypeOK, NEW c \in Calls, Tick
    PROVE  /\ Possible(call'[c]) /\ call'[c].pc = call[c].pc
           /\ call'[c].op = call[c].op /\ call'[c].transport = call[c].transport
           /\ call'[c].gen = call[c].gen
           /\ call[c].pc = "answered" => call'[c].age = call[c].age + 1
           /\ call[c].pc = "answered" /\ call[c].answer \in Headers =>
                LET a == call[c].answer
                    b == call'[c].answer IN
                /\ b \in Headers /\ b.kind = a.kind /\ b.remaining = a.remaining
                /\ b.reset = a.reset - 1 /\ (b.late <=> a.late \/ Expires(ResourceOf(c)))
           /\ call[c].pc = "answered" /\ call[c].answer \in Bare => call'[c].answer \in Bare
  <1> DEFINE me == call[c]
  <1>1. /\ me \in Coroutines /\ Possible(me)
        /\ me.pc \in {"sent", "answered"} => me.age + 1 \in Nat /\ me.age + 1 <= Flight
    <2>1. me \in Coroutines /\ Possible(me)
      BY IsPossible DEF Possible
    <2>2. me.pc \in {"sent", "answered"} => me.age < Flight
      BY DEF Tick, InFlight
    <2>3. me.age \in Nat /\ Flight \in Nat
      BY <2>1, LimitsAssumption DEF Coroutines
    <2> QED
      BY <2>1, <2>2, <2>3
  <1>2. CASE me.pc = "asleep"
    <2> DEFINE time == Later(me.wake - 1, 0)
               new == [me EXCEPT !.wake = time]
    <2>1. call'[c] = new
      BY <1>2 DEF Tick
    <2>2. time \in Nat
      BY <1>1 DEF Later, Coroutines
    <2> HIDE DEF time, me
    <2>3. Possible(new) /\ new.pc = me.pc /\ new.op = me.op /\ new.transport = me.transport
          /\ new.gen = me.gen
      BY <1>1, <1>2, <2>2 DEF Possible, Coroutines
    <2> QED
      BY <1>2, <2>1, <2>3 DEF me
  <1>3. CASE me.pc = "sent"
    <2> DEFINE age == me.age + 1
               new == [me EXCEPT !.age = age]
    <2>1. call'[c] = new
      BY <1>3 DEF Tick
    <2> HIDE DEF me
    <2>2. age \in Nat /\ age <= Flight
      BY <1>1, <1>3
    <2> HIDE DEF age
    <2>3. Possible(new) /\ new.pc = me.pc /\ new.op = me.op /\ new.transport = me.transport
          /\ new.gen = me.gen
      BY <1>1, <1>3, <2>2 DEF Possible, Coroutines
    <2> QED
      BY <1>3, <2>1, <2>3 DEF me
  <1>4. CASE me.pc = "answered" /\ me.answer \in Headers
    <2> DEFINE age == me.age + 1
               a == me.answer
               late == a.late \/ Expires(ResourceOf(c))
               b == [a EXCEPT !.reset = @ - 1, !.late = late]
               new == [me EXCEPT !.age = age, !.answer = b]
    <2>1. call'[c] = new
      <3>1. a.kind \in Counted
        BY <1>4 DEF Headers
      <3>2. call'[c] = [me EXCEPT !.age = @ + 1, !.answer.reset = @ - 1,
                                  !.answer.late = @ \/ Expires(ResourceOf(c))]
        BY <1>4, <3>1 DEF Tick
      <3> QED
        BY <1>1, <1>4, <3>2 DEF Coroutines, Headers
    <2>2. late \in BOOLEAN
      BY <1>4 DEF Headers, Expires
    <2>3. age \in Nat /\ age <= Flight
      BY <1>1, <1>4
    <2> HIDE DEF me, late, age
    <2>4. /\ b \in Headers /\ b.kind = a.kind /\ b.remaining = a.remaining
          /\ b.reset = a.reset - 1 /\ (b.late <=> late)
      <3> DEFINE reset == a.reset - 1
                 aged == [a EXCEPT !.reset = reset, !.late = late]
      <3>1. a \in Headers /\ reset \in Int
        BY <1>4 DEF Headers
      <3> HIDE DEF a, reset
      <3>2. /\ aged \in Headers /\ aged.kind = a.kind /\ aged.remaining = a.remaining
            /\ aged.reset = reset /\ (aged.late <=> late)
        BY <2>2, <3>1 DEF Headers
      <3> QED
        BY <3>2 DEF a, reset
    <2> HIDE DEF b
    <2>5. Possible(new) /\ new.pc = me.pc /\ new.op = me.op /\ new.transport = me.transport
          /\ new.gen = me.gen
          /\ new.age = age /\ new.answer = b
      BY <1>1, <1>4, <2>3, <2>4 DEF Possible, Coroutines
    <2>6. b \notin Bare /\ me.answer \notin Bare
      BY <1>4, <2>4 DEF Headers, Bare, Counted
    <2> QED
      BY <1>4, <2>1, <2>4, <2>5, <2>6 DEF me, late, age
  <1>5. CASE me.pc = "answered" /\ me.answer \in Bare
    <2> DEFINE age == me.age + 1
               new == [me EXCEPT !.age = age]
    <2>1. call'[c] = new /\ me.answer \notin Headers
      BY <1>5 DEF Tick, Bare, Counted, Headers
    <2> HIDE DEF me
    <2>2. age \in Nat /\ age <= Flight
      BY <1>1, <1>5
    <2>3. Possible(new) /\ new.pc = me.pc /\ new.op = me.op /\ new.transport = me.transport
          /\ new.gen = me.gen
          /\ new.answer = me.answer /\ new.age = age
      <3> HIDE DEF age
      <3> QED
        BY <1>1, <1>5, <2>2 DEF Possible, Coroutines
    <2> QED
      BY <1>5, <2>1, <2>3 DEF me
  <1>6. CASE me.pc \in {"idle", "gate", "locked", "closing"}
    <2>1. call'[c] = me
      BY <1>6 DEF Tick
    <2> QED
      BY <1>1, <1>6, <2>1
  <1>7. me.pc = "answered" => me.answer \in Headers \union Bare
    BY <1>1 DEF Possible
  <1>8. me.pc \in {"idle", "gate", "asleep", "sent", "answered", "locked", "closing"}
    BY <1>1 DEF Coroutines
  <1> QED
    BY <1>2, <1>3, <1>4, <1>5, <1>6, <1>7, <1>8

LEMMA StepType == LimitsTypeOK /\ [LimitsNext]_limitVars => LimitsTypeOK'
  <1> SUFFICES ASSUME LimitsTypeOK, [LimitsNext]_limitVars PROVE LimitsTypeOK'
    OBVIOUS
  <1>1. ASSUME NEW c \in Calls, \/ Sleep(c) \/ GiveWay(c) \/ Wake(c) \/ Send(c)
                                \/ \E op \in Operations : Begin(c, op)
        PROVE  LimitsTypeOK'
    BY <1>1, AloneIsPossible, CoroutineMoved DEF LimitsTypeOK, shared, client
  <1>2. ASSUME NEW c \in Calls, Serve(c) PROVE LimitsTypeOK'
    <2>1. PICK a \in Headers \union Bare : Answers(c, a)
      BY <1>2, ServeAnswers
    <2> DEFINE me == [call[c] EXCEPT !.pc = "answered", !.answer = a]
    <2>2. Possible(me) /\ Becomes(c, me)
      BY <1>2, <2>1, IsPossible DEF Possible, Serve, Answers, Coroutines
    <2>3. UNCHANGED <<shared, client, reads, denied>>
      BY <1>2 DEF Serve
    <2>4. Opens /\ faults' \in Nat
      BY <1>2, ServeAnswers
    <2> QED
      BY <2>2, <2>3, <2>4, CoroutineMoved DEF LimitsTypeOK, shared, client, Opens
  <1>3. ASSUME NEW c \in Calls, Deliver(c) PROVE LimitsTypeOK'
    <2> DEFINE a == call[c].answer
               r == ResourceOf(c)
               q == Remembered(r, a)
    <2>1. PICK me : Possible(me) /\ Becomes(c, me)
      BY <1>3, DeliverShape
    <2>2. /\ r \in Resources /\ secondary' \in Int
          /\ denied' = [denied EXCEPT ![r] = @ \/ (a.kind = "denied" /\ ~a.late)]
          /\ \/ a \in Headers /\ quota' = [quota EXCEPT ![r] = q]
                /\ \E until \in Int : primary' = [primary EXCEPT ![r] = until]
             \/ UNCHANGED <<quota, primary>>
      BY <1>3, DeliverShape
    <2>3. a \in Headers => q \in Quotas
      BY <2>2, RememberedIsQuota
    <2> HIDE DEF a, r, q
    <2>4. quota' \in [Resources -> Quotas \union {Nothing}] /\ primary' \in [Resources -> Int]
      BY <2>2, <2>3 DEF LimitsTypeOK
    <2>5. denied' \in [Resources -> BOOLEAN]
      BY <2>2 DEF LimitsTypeOK
    <2>6. UNCHANGED <<window, client, reads, faults>>
      BY <1>3 DEF Deliver
    <2> QED
      BY <2>1, <2>2, <2>4, <2>5, <2>6, CoroutineMoved DEF LimitsTypeOK, client
  <1>4. ASSUME NEW c \in Calls, Resets(c) PROVE LimitsTypeOK'
    <2>1. PICK me : Possible(me) /\ Becomes(c, me)
      BY <1>4, FailureIsPossible
    <2>2. /\ UNCHANGED <<window, shared, denied, reads>> /\ faults' \in Nat
          /\ generation' \in Nat \ {0}
      BY <1>4, FailureIsPossible
    <2> QED
      BY <2>1, <2>2, CoroutineMoved DEF LimitsTypeOK, shared
  <1>5. ASSUME NEW r \in Resources, Others(r) PROVE LimitsTypeOK'
    <2>1. Opens /\ UNCHANGED <<shared, client, call, reads, denied>>
      BY <1>5, OthersOpen DEF Others
    <2>2. faults' \in Nat
      BY <1>5 DEF Others, Fault, LimitsTypeOK
    <2>3. \A c \in Calls : CallOK(c)'
      BY <2>1 DEF LimitsTypeOK, CallOK, InFlight
    <2> QED
      BY <2>1, <2>2, <2>3 DEF LimitsTypeOK, Opens, shared, client
  <1>6. CASE Tick
    <2>1. window' \in [Resources -> Windows]
      <3>1. ASSUME NEW r \in Resources PROVE window'[r] \in Windows
        <4>1. /\ window[r] \in Windows
              /\ window'[r] = IF window[r].reset > 1 THEN [window[r] EXCEPT !.reset = @ - 1]
                              ELSE [used |-> 0, reset |-> 0]
          BY <1>6 DEF Tick, LimitsTypeOK
        <4> QED
          BY <4>1 DEF Windows
      <3> QED
        BY <1>6, <3>1 DEF Tick
    <2>2. primary' \in [Resources -> Int] /\ secondary' \in Int
      <3>1. \A t \in Int : Later(t - 1, 0) \in Int
        BY DEF Later
      <3>2. /\ primary' = [r \in Resources |-> Later(primary[r] - 1, 0)]
            /\ secondary' = Later(secondary - 1, 0)
        BY <1>6 DEF Tick
      <3> QED
        BY <3>1, <3>2 DEF LimitsTypeOK
    <2>3. ASSUME NEW r \in Resources PROVE quota'[r] \in Quotas \union {Nothing}
      <3>1. CASE quota[r] = Nothing
        BY <1>6, <3>1 DEF Tick
      <3>2. CASE quota[r] # Nothing
        <4> DEFINE old == Aged(quota[r].reset)
        <4>1. quota'[r] = [quota[r] EXCEPT !.reset = old] /\ quota[r] \in Quotas
          BY <1>6, <3>2 DEF Tick, LimitsTypeOK
        <4>2. old \in Int
          BY <4>1, LimitsAssumption DEF Aged, Past, Later, Quotas
        <4> HIDE DEF old
        <4> QED
          BY <4>1, <4>2 DEF Quotas
      <3> QED
        BY <3>1, <3>2
    <2>4. quota' \in [Resources -> Quotas \union {Nothing}]
      BY <1>6, <2>3 DEF Tick
    <2>5. denied' \in [Resources -> BOOLEAN]
      BY <1>6 DEF Tick, LimitsTypeOK, Expires
    <2>6. call' \in [Calls -> Coroutines]
      <3>1. \A c \in Calls : call'[c] \in Coroutines
        BY <1>6, TickAges DEF Possible
      <3> QED
        BY <1>6, <3>1 DEF Tick
    <2>7. \A c \in Calls : CallOK(c)'
      BY <1>6, TickAges DEF Possible, CallOK, InFlight
    <2>8. UNCHANGED <<client, reads, faults>>
      BY <1>6 DEF Tick
    <2> QED
      BY <2>1, <2>2, <2>4, <2>5, <2>6, <2>7, <2>8 DEF LimitsTypeOK, client
  <1>7. CASE UNCHANGED limitVars
    BY <1>7 DEF limitVars, shared, client, LimitsTypeOK, CallOK, InFlight
  <1> QED
    BY <1>1, <1>2, <1>3, <1>4, <1>5, <1>6, <1>7 DEF LimitsNext, Proceed, Resets

(* Limits, quotas, clients, coroutines and the answers on their way have   *)
(* their types, and no answer is older than Flight.                        *)
THEOREM RateLimitsTypes == LimitsSpec => []LimitsTypeOK
  <1>1. LimitsInit => LimitsTypeOK
    <2> SUFFICES ASSUME LimitsInit PROVE LimitsTypeOK
      OBVIOUS
    <2>1. \A c \in Calls : call[c] = Idle
      BY DEF LimitsInit
    <2>2. \A c \in Calls : CallOK(c)
      BY <2>1, IdleIsPossible DEF CallOK, InFlight
    <2>3. call \in [Calls -> Coroutines]
      BY IdleIsPossible DEF LimitsInit, Possible
    <2>4. window \in [Resources -> Windows]
      BY DEF LimitsInit, Windows
    <2> QED
      BY <2>2, <2>3, <2>4 DEF LimitsInit, LimitsTypeOK
  <1> QED
    BY <1>1, StepType, PTL DEF LimitsSpec

(* A coroutine that neither was nor is closing a client moves.             *)
LEMMA ClientKept ==
    ASSUME LimitsTypeOK, OneClientOpen, UNCHANGED client, NEW c \in Calls, call[c].pc # "closing",
           NEW me, Possible(me), me.pc # "closing", Becomes(c, me)
    PROVE  OneClientOpen'
  <1>1. call'[c] = me /\ \A k \in Calls \ {c} : call'[k] = call[k]
    BY CoroutineMoved
  <1>2. \A k \in Calls : /\ call'[k].pc = "closing" <=> call[k].pc = "closing"
                         /\ call[k].pc = "closing" => call'[k].gen = call[k].gen
    BY <1>1
  <1>3. Closing' = Closing /\ {call'[k].gen : k \in Closing} = {call[k].gen : k \in Closing}
    BY <1>2 DEF Closing
  <1> QED
    BY <1>2, <1>3 DEF OneClientOpen, client, Closing

LEMMA ResetKeepsClient ==
    ASSUME LimitsTypeOK, OneClientOpen, NEW c \in Calls, Closing = {},
           call[c].pc \in {"sent", "answered", "locked"}, ResetClient(c)
    PROVE  OneClientOpen'
  <1> DEFINE me == [Again(c) EXCEPT !.pc = "closing"]
  <1>1. /\ call[c] \in Coroutines /\ call[c].op \in Operations
        /\ call[c].transport \in Usable(call[c].op)
        /\ ~call[c].waits => Usable(call[c].op) = Transports
    BY DEF LimitsTypeOK, CallOK
  <1>2. Possible(Again(c)) /\ Again(c).pc = "asleep"
    BY <1>1 DEF Possible, Again, Coroutines
  <1>3. CASE generation # call[c].gen
    BY <1>2, <1>3, ClientKept DEF ResetClient
  <1>4. CASE generation = call[c].gen
    <2>1. me.pc = "closing" /\ me.gen = generation
      BY <1>1, <1>4 DEF Again, Coroutines
    <2>2. generation' = generation + 1 /\ closed' = closed /\ call' = [call EXCEPT ![c] = me]
      BY <1>4 DEF ResetClient, Becomes
    <2> HIDE DEF me
    <2>3. call'[c] = me /\ \A k \in Calls \ {c} : call'[k] = call[k]
      BY <2>2 DEF LimitsTypeOK
    <2>4. Closing' = {c}
      BY <2>1, <2>3 DEF Closing
    <2>5. closed = 1 .. generation - 1 /\ generation \in Nat \ {0}
      BY DEF OneClientOpen, LimitsTypeOK
    <2>6. {call'[k].gen : k \in Closing'} = {generation}
      BY <2>1, <2>3, <2>4
    <2>7. closed \union {generation} = 1 .. (generation + 1) - 1 /\ generation \notin closed
      BY <2>5
    <2> QED
      BY <2>1, <2>2, <2>3, <2>4, <2>6, <2>7 DEF OneClientOpen
  <1> QED
    BY <1>3, <1>4

(* Whoever's request failed, and in whatever order failures of requests    *)
(* sent by former clients arrive: each client but the present one has been *)
(* closed or is being closed, once, and the present one has not.           *)
THEOREM RateLimitsOneClientOpen == LimitsSpec => []OneClientOpen
  <1>1. LimitsInit => OneClientOpen
    BY DEF LimitsInit, OneClientOpen, Closing, Idle
  <1>2. LimitsTypeOK /\ OneClientOpen /\ [LimitsNext]_limitVars => OneClientOpen'
    <2> SUFFICES ASSUME LimitsTypeOK, OneClientOpen, [LimitsNext]_limitVars PROVE OneClientOpen'
      OBVIOUS
    <2>1. ASSUME NEW c \in Calls, \/ Sleep(c) \/ GiveWay(c) \/ Wake(c) \/ Send(c)
                                  \/ \E op \in Operations : Begin(c, op)
          PROVE  OneClientOpen'
      <3>1. PICK me : Possible(me) /\ Becomes(c, me) /\ me.pc # "closing"
        BY <2>1, AloneIsPossible
      <3>2. call[c].pc # "closing"
        BY <2>1 DEF Sleep, GiveWay, Wake, Send, Begin
      <3> QED
        BY <2>1, <3>1, <3>2, ClientKept, AloneIsPossible
    <2>2. ASSUME NEW c \in Calls, Serve(c) PROVE OneClientOpen'
      <3>1. PICK a \in Headers \union Bare : Answers(c, a)
        BY <2>2, ServeAnswers
      <3> DEFINE me == [call[c] EXCEPT !.pc = "answered", !.answer = a]
      <3>2. Possible(me) /\ Becomes(c, me) /\ me.pc = "answered" /\ call[c].pc = "sent"
        BY <2>2, <3>1, IsPossible DEF Possible, Serve, Answers, Coroutines
      <3> HIDE DEF me
      <3> QED
        BY <2>2, <3>2, ClientKept DEF Serve
    <2>3. ASSUME NEW c \in Calls, Deliver(c) PROVE OneClientOpen'
      <3>1. PICK me : Possible(me) /\ Becomes(c, me) /\ me.pc \in {"idle", "gate", "asleep"}
        BY <2>3, DeliverShape
      <3> QED
        BY <2>3, <3>1, ClientKept DEF Deliver
    <2>4. ASSUME NEW c \in Calls, TransportFails(c) PROVE OneClientOpen'
      <3> DEFINE tries == call[c].tries + 1
                 again == [Again(c) EXCEPT !.tries = tries]
                 locked == [call[c] EXCEPT !.pc = "locked", !.answer = Nothing]
      <3>1. call[c].pc \in {"sent", "answered"}
        BY <2>4 DEF TransportFails, InFlight
      <3>2. \/ UNCHANGED client /\ Becomes(c, again)
            \/ Closing = {} /\ ResetClient(c)
            \/ UNCHANGED client /\ Becomes(c, locked)
        BY <2>4 DEF TransportFails
      <3>3. /\ call[c] \in Coroutines /\ call[c].op \in Operations
            /\ call[c].transport \in Usable(call[c].op)
            /\ ~call[c].waits => Usable(call[c].op) = Transports
        BY <3>1 DEF LimitsTypeOK, CallOK
      <3>4. tries \in Nat
        BY <3>3 DEF Coroutines
      <3> HIDE DEF tries
      <3>5. Possible(again) /\ again.pc = "asleep" /\ Possible(locked) /\ locked.pc = "locked"
        BY <3>3, <3>4 DEF Possible, Again, Coroutines
      <3> HIDE DEF again, locked
      <3> QED
        BY <3>1, <3>2, <3>5, ClientKept, ResetKeepsClient
    <2>5. ASSUME NEW c \in Calls, Acquire(c) PROVE OneClientOpen'
      BY <2>5, ResetKeepsClient DEF Acquire
    <2>6. ASSUME NEW c \in Calls, Closes(c) PROVE OneClientOpen'
      <3>1. Closing = {c} /\ call[c] \in Coroutines
        BY <2>6 DEF Closes, Closing, OneClientOpen, LimitsTypeOK
      <3>2. Again(c).pc = "asleep"
        BY <3>1 DEF Again, Coroutines
      <3>3. /\ call' = [call EXCEPT ![c] = Again(c)]
            /\ closed' = closed \union {call[c].gen} /\ generation' = generation
        BY <2>6 DEF Closes, Becomes
      <3>4. call'[c].pc = "asleep" /\ \A k \in Calls \ {c} : call'[k] = call[k]
        BY <3>2, <3>3 DEF LimitsTypeOK
      <3>5. Closing' = {}
        BY <3>1, <3>4 DEF Closing
      <3>6. closed' = 1 .. generation - 1
        BY <3>1, <3>3 DEF OneClientOpen
      <3> QED
        BY <3>3, <3>5, <3>6 DEF OneClientOpen
    <2>7. CASE (\E r \in Resources : Others(r)) \/ UNCHANGED limitVars
      BY <2>7 DEF Others, limitVars, client, OneClientOpen, Closing
    <2>8. CASE Tick
      <3>1. \A k \in Calls : call'[k].pc = call[k].pc /\ call'[k].gen = call[k].gen
        BY <2>8, TickAges
      <3>2. Closing' = Closing /\ {call'[k].gen : k \in Closing} = {call[k].gen : k \in Closing}
        BY <3>1 DEF Closing
      <3>3. UNCHANGED client
        BY <2>8 DEF Tick
      <3> QED
        BY <3>1, <3>2, <3>3 DEF OneClientOpen, client, Closing
    <2> QED
      BY <2>1, <2>2, <2>3, <2>4, <2>5, <2>6, <2>7, <2>8 DEF LimitsNext, Proceed
  <1> QED
    BY <1>1, <1>2, RateLimitsTypes, PTL DEF LimitsSpec

-----------------------------------------------------------------------------
(* Denials. *)

(* A step that leaves an answer as it is, while GitHub may open windows.   *)
LEMMA AnswerKept ==
    ASSUME LimitsTypeOK, NEW c \in Calls, AnswerOK(c), call'[c] = call[c], Opens
    PROVE  AnswerOK(c)'
  <1> SUFFICES ASSUME call[c].pc = "answered", call[c].answer \in Headers PROVE AnswerOK(c)'
    BY DEF AnswerOK
  <1> DEFINE a == call[c].answer
             r == ResourceOf(c)
  <1>1. r \in Resources /\ ResourceOf(c)' = r
    BY PoolExists DEF ResourceOf
  <1>2. /\ a.kind = "denied" => a.remaining = 0 /\ ~a.late
        /\ ~a.late => window[r].reset > 0 /\ window[r].reset - Spread <= a.reset /\ a.reset <= window[r].reset
        /\ a.late => a.reset <= 0 /\ (window[r].reset = 0 \/ window[r].reset + call[c].age >= Period)
    BY DEF AnswerOK
  <1>3. window'[r].reset = window[r].reset \/ (window[r].reset = 0 /\ window'[r].reset = Period)
    BY <1>1 DEF Opens
  <1>4. call[c].age \in Nat /\ Period \in Nat
    BY LimitsAssumption DEF LimitsTypeOK, Coroutines
  <1>5. /\ ~a.late => window'[r].reset > 0 /\ window'[r].reset - Spread <= a.reset
                      /\ a.reset <= window'[r].reset
        /\ a.late => a.reset <= 0 /\ (window'[r].reset = 0 \/ window'[r].reset + call[c].age >= Period)
    BY <1>2, <1>3, <1>4
  <1> HIDE DEF r
  <1> QED
    BY <1>1, <1>2, <1>5 DEF AnswerOK, r

LEMMA NoAnswer == ASSUME NEW c, call'[c].pc # "answered" PROVE AnswerOK(c)'
  BY DEF AnswerOK

LEMMA SameWindows == ASSUME LimitsTypeOK, UNCHANGED window PROVE Opens
  BY DEF LimitsTypeOK, Opens

LEMMA StepAnswers ==
    ASSUME LimitsTypeOK, ~LateDenials, AnswersOK, [LimitsNext]_limitVars PROVE AnswersOK'
  <1>1. ASSUME NEW c \in Calls, NEW me, Possible(me), me.pc # "answered", Becomes(c, me), Opens
        PROVE  AnswersOK'
    BY <1>1, CoroutineMoved, AnswerKept, NoAnswer DEF AnswersOK
  <1>2. ASSUME NEW c \in Calls, \/ Sleep(c) \/ GiveWay(c) \/ Wake(c) \/ Send(c)
                                \/ \E op \in Operations : Begin(c, op)
        PROVE  AnswersOK'
    BY <1>1, <1>2, AloneIsPossible, SameWindows
  <1>3. ASSUME NEW c \in Calls, Serve(c) PROVE AnswersOK'
    <2>1. Opens
      BY <1>3, ServeAnswers
    <2>2. PICK a \in Headers \union Bare :
            /\ Answers(c, a)
            /\ a \in Headers =>
                 LET w == window'[ResourceOf(c)].reset IN
                 /\ ~a.late /\ w > 0 /\ w - Spread <= a.reset /\ a.reset <= w
                 /\ a.kind = "denied" => a.remaining = 0
      BY <1>3, ServeAnswers
    <2>3. /\ call' \in [Calls -> Coroutines \union {call'[c]}]
          /\ call'[c].answer = a /\ call'[c].op = call[c].op /\ call'[c].transport = call[c].transport
          /\ \A k \in Calls \ {c} : call'[k] = call[k]
      BY <2>2 DEF Answers, Becomes, LimitsTypeOK, Coroutines
    <2>4. ResourceOf(c)' = ResourceOf(c)
      BY <2>3 DEF ResourceOf
    <2>5. AnswerOK(c)'
      BY <2>2, <2>3, <2>4 DEF AnswerOK
    <2> QED
      BY <2>1, <2>3, <2>5, AnswerKept DEF AnswersOK
  <1>4. ASSUME NEW c \in Calls, Deliver(c) PROVE AnswersOK'
    <2>1. PICK me : Possible(me) /\ me.pc \in {"idle", "gate", "asleep"} /\ Becomes(c, me)
      BY <1>4, DeliverShape
    <2>2. UNCHANGED window
      BY <1>4 DEF Deliver
    <2> QED
      BY <1>1, <2>1, <2>2, SameWindows
  <1>5. ASSUME NEW c \in Calls, Resets(c) PROVE AnswersOK'
    <2>1. PICK me : Possible(me) /\ me.pc # "answered" /\ Becomes(c, me)
      BY <1>5, FailureIsPossible
    <2>2. UNCHANGED window
      BY <1>5, FailureIsPossible
    <2> QED
      BY <1>1, <2>1, <2>2, SameWindows
  <1>6. ASSUME NEW r \in Resources, Others(r) PROVE AnswersOK'
    BY <1>6, OthersOpen, AnswerKept DEF Others, AnswersOK
  <1>7. ASSUME Tick, NEW c \in Calls PROVE AnswerOK(c)'
    <2> SUFFICES ASSUME call'[c].pc = "answered", call'[c].answer \in Headers PROVE AnswerOK(c)'
      BY DEF AnswerOK
    <2> DEFINE a == call[c].answer
               b == call'[c].answer
               r == ResourceOf(c)
               w == window[r].reset
    <2>1. call[c].pc = "answered" /\ ResourceOf(c)' = r /\ call'[c].age = call[c].age + 1
      BY <1>7, TickAges DEF ResourceOf
    <2>2. a \in Headers
      <3>1. a \in Headers \union Bare
        BY <2>1 DEF LimitsTypeOK, CallOK
      <3>2. a \in Bare => b \in Bare
        BY <1>7, <2>1, TickAges
      <3> QED
        BY <3>1, <3>2 DEF Bare, Headers, Counted
    <2>3. /\ b.kind = a.kind /\ b.remaining = a.remaining /\ b.reset = a.reset - 1
          /\ b.late <=> a.late \/ Expires(r)
      BY <1>7, <2>1, <2>2, TickAges
    <2>4. r \in Resources /\ w \in Nat /\ call[c].age \in Nat /\ a.reset \in Int
      BY <2>1, <2>2, PoolExists DEF LimitsTypeOK, Windows, Coroutines, Headers
    <2>5. window'[r].reset = IF w > 1 THEN w - 1 ELSE 0
      <3>1. window[r] \in Windows
        BY <2>4 DEF LimitsTypeOK
      <3>2. window'[r] = IF w > 1 THEN [window[r] EXCEPT !.reset = @ - 1] ELSE [used |-> 0, reset |-> 0]
        BY <1>7, <2>4 DEF Tick
      <3> QED
        BY <3>1, <3>2 DEF Windows
    <2>6. /\ a.kind = "denied" => a.remaining = 0 /\ ~a.late /\ w # 1
          /\ ~a.late => w > 0 /\ w - Spread <= a.reset /\ a.reset <= w
          /\ a.late => a.reset <= 0 /\ (w = 0 \/ w + call[c].age >= Period)
      <3>1. AnswerOK(c)
        BY DEF AnswersOK
      <3>2. a.kind = "denied" => w # 1
        BY <1>7, <2>1 DEF Tick, InFlight, WindowEnds
      <3> QED
        BY <2>1, <2>2, <3>1, <3>2 DEF AnswerOK
    <2>7. Expires(r) <=> w = 1
      BY DEF Expires
    <2> DEFINE v == window'[r].reset
    <2>8. /\ b.kind = "denied" => b.remaining = 0 /\ ~b.late
          /\ ~b.late => v > 0 /\ v - Spread <= b.reset /\ b.reset <= v
          /\ b.late => b.reset <= 0 /\ (v = 0 \/ v + (call[c].age + 1) >= Period)
      <3> HIDE DEF a, b, w, v
      <3> QED
        BY <2>3, <2>4, <2>5, <2>6, <2>7, LimitsAssumption DEF v
    <2> HIDE DEF r, b
    <2> QED
      BY <2>1, <2>8 DEF AnswerOK, r, b
  <1>8. CASE UNCHANGED limitVars
    BY <1>8, SameWindows, AnswerKept DEF limitVars, AnswersOK
  <1> QED
    BY <1>2, <1>3, <1>4, <1>5, <1>6, <1>7, <1>8 DEF LimitsNext, Proceed, Resets, AnswersOK

(* A step that changes nothing that is known of a pool whose denial has    *)
(* arrived.                                                                *)
LEMMA DenialsKept ==
    ASSUME LimitsTypeOK, DenialsOK, Opens, UNCHANGED <<shared, denied>> PROVE DenialsOK'
  BY DEF DenialsOK, DeniedOK, Opens, shared

(* An answer that arrives after the denial finds the pool exhausted; a     *)
(* denial closes it for what is announced of the window.                   *)
LEMMA StillExhausted ==
    ASSUME LimitsTypeOK, NEW c \in Calls, call[c].pc = "answered", call[c].answer \in Headers,
           AnswerOK(c), DeniedOK(ResourceOf(c)),
           denied[ResourceOf(c)] \/ call[c].answer.kind = "denied"
    PROVE  LET r == ResourceOf(c)
               q == Remembered(r, call[c].answer) IN
           /\ window[r].reset > 0
           /\ q \in Quotas /\ q.remaining <= 0 /\ q.reset >= window[r].reset - Spread
           /\ Gate(r, q) > window[r].reset - Spread
  <1> DEFINE a == call[c].answer
             r == ResourceOf(c)
             w == window[r].reset
             q == Remembered(r, a)
             known == quota[r]
  <1>1. r \in Resources /\ w \in Nat /\ primary[r] \in Int /\ a \in Headers
        /\ call[c].age \in Nat /\ call[c].age <= Flight
    BY PoolExists DEF LimitsTypeOK, Windows, CallOK, InFlight, Coroutines
  <1>2. q \in Quotas
    BY <1>1, RememberedIsQuota
  <1>3. /\ a.kind = "denied" => a.remaining = 0 /\ ~a.late
        /\ ~a.late => w > 0 /\ w - Spread <= a.reset /\ a.reset <= w
        /\ a.late => a.reset <= 0 /\ (w = 0 \/ w + call[c].age >= Period)
    BY DEF AnswerOK
  <1>4. denied[r] => w > 0 /\ known \in Quotas /\ known.remaining <= 0 /\ known.reset >= w - Spread
    BY DEF DeniedOK
  <1>5. a.remaining \in Int /\ a.reset \in Int /\ a.late \in BOOLEAN
    BY <1>1 DEF Headers
  <1>6. w > 0
    BY <1>3, <1>4
  <1>7. q.remaining <= 0 /\ q.reset >= w - Spread
    <2> DEFINE fresh == [remaining |-> a.remaining, reset |-> a.reset]
               shift == a.reset - known.reset
    <2>1. CASE known = Nothing
      <3>1. ~denied[r]
        BY <1>4, <2>1, LimitsAssumption DEF Quotas
      <3>2. q = fresh /\ a.kind = "denied"
        BY <2>1, <3>1 DEF Remembered
      <3> QED
        BY <1>3, <3>2
    <2>2. CASE known # Nothing /\ a.kind = "denied"
      <3>1. known \in Quotas /\ known.reset \in Int
        BY <1>1, <2>2 DEF LimitsTypeOK, Quotas
      <3>2. q = IF -Tolerance <= shift /\ shift <= Tolerance
                THEN [fresh EXCEPT !.reset = Later(@, known.reset)] ELSE fresh
        BY <2>2 DEF Remembered
      <3>3. q.remaining = a.remaining /\ q.reset \in {a.reset, Later(a.reset, known.reset)}
        BY <3>2
      <3>4. a.remaining = 0 /\ w - Spread <= a.reset
        BY <1>3, <2>2
      <3> HIDE DEF a, q, w, known
      <3> QED
        BY <1>1, <1>5, <3>1, <3>3, <3>4, LimitsAssumption DEF Later
    <2>3. CASE known # Nothing /\ a.kind # "denied"
      <3>1. /\ known \in Quotas /\ known.remaining <= 0 /\ known.reset >= w - Spread
            /\ known.reset \in Int
        BY <1>4, <2>3 DEF Quotas
      <3>2. q = IF shift < -Tolerance THEN known
                ELSE IF shift > Tolerance THEN fresh
                ELSE [remaining |-> Earlier(known.remaining, a.remaining),
                      reset |-> Later(known.reset, a.reset)]
        BY <2>3 DEF Remembered
      <3>3. a.late => shift < -Tolerance
        BY <1>1, <1>3, <1>5, <1>6, <3>1, LimitsAssumption
      <3>4. ~a.late => shift <= Tolerance
        BY <1>1, <1>3, <1>5, <3>1, LimitsAssumption
      <3>5. known.remaining \in Int
        BY <3>1 DEF Quotas
      <3> HIDE DEF a, q, w, known
      <3>6. Later(known.reset, a.reset) >= known.reset /\ Later(known.reset, a.reset) \in Int
        BY <1>5, <3>1 DEF Later
      <3>7. Earlier(known.remaining, a.remaining) <= 0
        BY <1>5, <3>1, <3>5 DEF Earlier
      <3>8. \/ q = known
            \/ ~a.late /\ q.remaining = Earlier(known.remaining, a.remaining)
               /\ q.reset = Later(known.reset, a.reset)
        BY <1>5, <3>1, <3>2, <3>3, <3>4, LimitsAssumption
      <3> QED
        BY <1>1, <3>1, <3>6, <3>7, <3>8, LimitsAssumption
    <2> QED
      BY <2>1, <2>2, <2>3
  <1>8. Gate(r, q) > w - Spread
    <2> HIDE DEF q, w
    <2>2. q.reset \in Int /\ ~(q.remaining > 0)
      BY <1>2, <1>7 DEF Quotas
    <2>1. Gate(r, q) = Later(primary[r], q.reset + 1)
      BY <2>2 DEF Gate
    <2> QED
      BY <1>1, <1>7, <2>1, <2>2, LimitsAssumption DEF Later
  <1> QED
    BY <1>2, <1>6, <1>7, <1>8

LEMMA StepDenials ==
    ASSUME LimitsTypeOK, ~LateDenials, AnswersOK, DenialsOK, [LimitsNext]_limitVars PROVE DenialsOK'
  <1>1. ASSUME NEW c \in Calls, \/ Sleep(c) \/ GiveWay(c) \/ Wake(c) \/ Send(c)
                                \/ \E op \in Operations : Begin(c, op)
        PROVE  DenialsOK'
    BY <1>1, AloneIsPossible, SameWindows, DenialsKept
  <1>2. ASSUME NEW c \in Calls, Serve(c) PROVE DenialsOK'
    <2>1. UNCHANGED <<shared, denied>>
      BY <1>2 DEF Serve
    <2> QED
      BY <1>2, <2>1, ServeAnswers, DenialsKept
  <1>3. ASSUME NEW c \in Calls, Deliver(c) PROVE DenialsOK'
    <2> DEFINE a == call[c].answer
               r == ResourceOf(c)
               q == Remembered(r, a)
    <2>1. /\ r \in Resources
          /\ \/ /\ a \in Headers /\ quota' = [quota EXCEPT ![r] = q]
                /\ \E until \in Int : /\ primary' = [primary EXCEPT ![r] = until]
                                      /\ until >= Gate(r, q)
             \/ a \in Bare /\ UNCHANGED <<quota, primary>>
          /\ denied' = [denied EXCEPT ![r] = @ \/ (a.kind = "denied" /\ ~a.late)]
          /\ call[c].pc = "answered" /\ UNCHANGED window
      BY <1>3, DeliverShape DEF Deliver
    <2>2. ASSUME NEW s \in Resources, s # r PROVE DeniedOK(s)'
      BY <2>1, <2>2 DEF DenialsOK, DeniedOK, LimitsTypeOK
    <2>3. ASSUME NEW s \in Resources, s = r PROVE DeniedOK(s)'
      <3> SUFFICES ASSUME denied'[s] PROVE DeniedOK(s)'
        BY DEF DeniedOK
      <3>1. denied[r] \/ a.kind = "denied"
        BY <2>1, <2>3 DEF LimitsTypeOK
      <3>2. CASE a \in Headers
        <4>1. /\ window[r].reset > 0 /\ q \in Quotas /\ q.remaining <= 0
              /\ q.reset >= window[r].reset - Spread /\ Gate(r, q) > window[r].reset - Spread
          BY <2>1, <3>1, <3>2, StillExhausted DEF AnswersOK, DenialsOK
        <4>2. PICK until \in Int : primary' = [primary EXCEPT ![r] = until] /\ until >= Gate(r, q)
          BY <2>1, <3>2 DEF Bare, Headers, Counted
        <4>3. quota' = [quota EXCEPT ![r] = q]
          BY <2>1, <3>2 DEF Bare, Headers, Counted
        <4>4. Gate(r, q) \in Int /\ window[r].reset \in Int
          BY <2>1, <3>2, RememberedIsQuota DEF LimitsTypeOK, Windows
        <4> DEFINE gate == Gate(r, q)
                   w == window[r].reset
        <4>5. gate > w - Spread /\ gate \in Int /\ w \in Int /\ until >= gate
          BY <4>1, <4>2, <4>4
        <4> HIDE DEF q, gate
        <4>6. until > w - Spread
          <5> HIDE DEF w
          <5> QED
            BY <4>5, LimitsAssumption
        <4>7. quota'[r] = q /\ primary'[r] = until /\ window'[r].reset = w
          BY <2>1, <4>2, <4>3 DEF LimitsTypeOK
        <4> HIDE DEF r
        <4>8. quota'[s] \in Quotas /\ quota'[s].remaining <= 0 /\ quota'[s].reset >= w - Spread
          BY <2>3, <4>1, <4>7
        <4>9. window'[s].reset = w /\ w > 0 /\ primary'[s] > w - Spread
          BY <2>3, <4>1, <4>6, <4>7
        <4> QED
          BY <4>8, <4>9 DEF DeniedOK
      <3>3. CASE a \in Bare
        <4>1. denied[r] /\ UNCHANGED <<quota, primary, window>>
          BY <2>1, <3>1, <3>3 DEF Bare, Headers, Counted
        <4> QED
          BY <2>1, <2>3, <4>1 DEF DenialsOK, DeniedOK
      <3>4. a \in Headers \/ a \in Bare
        BY <2>1
      <3> QED
        BY <3>2, <3>3, <3>4
    <2> QED
      BY <2>2, <2>3 DEF DenialsOK
  <1>4. ASSUME NEW c \in Calls, Resets(c) PROVE DenialsOK'
    BY <1>4, FailureIsPossible, SameWindows, DenialsKept
  <1>5. ASSUME NEW r \in Resources, Others(r) PROVE DenialsOK'
    <2>1. UNCHANGED <<shared, denied>>
      BY <1>5 DEF Others
    <2> QED
      BY <1>5, <2>1, OthersOpen, DenialsKept
  <1>6. ASSUME Tick, NEW r \in Resources, denied'[r] PROVE DeniedOK(r)'
    <2> DEFINE w == window[r].reset
    <2>1. denied[r] /\ w # 1
      BY <1>6 DEF Tick, Expires
    <2>2. /\ w > 0 /\ quota[r] \in Quotas /\ quota[r].remaining <= 0
          /\ quota[r].reset >= w - Spread /\ primary[r] > w - Spread
          /\ w \in Nat /\ primary[r] \in Int /\ quota[r].reset \in Int
      BY <2>1 DEF DenialsOK, DeniedOK, LimitsTypeOK, Windows, Quotas
    <2>3. window'[r].reset = w - 1
      <3>1. window[r] \in Windows
        BY DEF LimitsTypeOK
      <3>2. window[r].reset > 1
        BY <2>1, <2>2
      <3>3. window'[r] = IF window[r].reset > 1 THEN [window[r] EXCEPT !.reset = @ - 1]
                         ELSE [used |-> 0, reset |-> 0]
        BY <1>6 DEF Tick
      <3>4. window'[r] = [window[r] EXCEPT !.reset = @ - 1]
        BY <3>2, <3>3
      <3> QED
        BY <3>1, <3>4 DEF Windows
    <2>4. primary'[r] = Later(primary[r] - 1, 0)
      BY <1>6 DEF Tick
    <2> DEFINE reset == Aged(quota[r].reset)
    <2>5. quota'[r] = [quota[r] EXCEPT !.reset = reset]
      BY <1>6, <2>2, LimitsAssumption DEF Tick, Quotas
    <2>6. reset \in Int /\ reset >= (w - 1) - Spread
      BY <2>2, LimitsAssumption DEF Aged, Later, Past
    <2>7. primary'[r] > (w - 1) - Spread
      BY <2>2, <2>4, LimitsAssumption DEF Later
    <2> HIDE DEF w, reset
    <2>8. quota'[r] \in Quotas /\ quota'[r].remaining <= 0 /\ quota'[r].reset = reset
      BY <2>2, <2>5, <2>6 DEF Quotas
    <2>9. w - 1 > 0
      BY <2>1, <2>2 DEF w
    <2> QED
      BY <2>3, <2>6, <2>7, <2>8, <2>9 DEF DeniedOK
  <1>7. CASE UNCHANGED limitVars
    BY <1>7, SameWindows, DenialsKept DEF limitVars
  <1> QED
    BY <1>1, <1>2, <1>3, <1>4, <1>5, <1>6, <1>7 DEF LimitsNext, Proceed, Resets, DenialsOK, DeniedOK

LEMMA Invariant == ASSUME ~LateDenials PROVE LimitsSpec => [](LimitsTypeOK /\ AnswersOK /\ DenialsOK)
  <1>1. LimitsInit => AnswersOK /\ DenialsOK
    BY DEF LimitsInit, AnswersOK, AnswerOK, Idle, DenialsOK, DeniedOK
  <1>2. LimitsTypeOK /\ AnswersOK /\ DenialsOK /\ [LimitsNext]_limitVars => (AnswersOK /\ DenialsOK)'
    BY StepAnswers, StepDenials
  <1> QED
    BY <1>1, <1>2, RateLimitsTypes, PTL DEF LimitsSpec

(* A request of a pool whose denial has arrived.                           *)
LEMMA SendsAreOpen ==
    ASSUME LimitsTypeOK, DenialsOK, [LimitsNext]_limitVars, NEW c \in Calls,
           Sends(c), denied[ResourceOf(c)]
    PROVE  window[ResourceOf(c)].reset < Later(Spread, 1)
  <1>1. call[c].pc = "gate" /\ call'[c].pc = "sent" /\ ResourceOf(c) \in Resources
    BY PoolExists DEF Sends
  <1>2. ASSUME NEW k \in Calls, NEW me, Possible(me), Becomes(k, me), me.pc # "sent" PROVE FALSE
    BY <1>1, <1>2, CoroutineMoved
  <1>3. Send(c)
    <2>1. ASSUME NEW k \in Calls, \/ Sleep(k) \/ GiveWay(k) \/ Wake(k) \/ Send(k)
                                  \/ \E op \in Operations : Begin(k, op)
          PROVE  Send(c)
      <3>1. PICK me : Possible(me) /\ Becomes(k, me) /\ (me.pc = "sent" => Send(k))
        BY <2>1, AloneIsPossible
      <3>2. me.pc = "sent" /\ Send(k)
        BY <1>2, <3>1
      <3>3. k = c
        BY <1>1, <3>1, CoroutineMoved
      <3> QED
        BY <3>2, <3>3
    <2>2. ASSUME NEW k \in Calls, Serve(k) PROVE FALSE
      <3>1. PICK a \in Headers \union Bare : Answers(k, a)
        BY <2>2, ServeAnswers
      <3> QED
        BY <1>1, <3>1 DEF Answers, Becomes, LimitsTypeOK, Coroutines
    <2>3. ASSUME NEW k \in Calls, Deliver(k) \/ Resets(k) PROVE FALSE
      <3>1. PICK me : Possible(me) /\ Becomes(k, me) /\ me.pc # "sent"
        BY <2>3, DeliverShape, FailureIsPossible
      <3> QED
        BY <1>2, <3>1
    <2>4. CASE Tick
      BY <1>1, <2>4, TickAges
    <2>5. CASE (\E r \in Resources : Others(r)) \/ UNCHANGED limitVars
      BY <1>1, <2>5 DEF Others, limitVars
    <2> QED
      BY <2>1, <2>2, <2>3, <2>4, <2>5 DEF LimitsNext, Proceed, Resets
  <1>4. primary[ResourceOf(c)] \in Int /\ secondary \in Int /\ window[ResourceOf(c)].reset \in Int
    BY <1>1 DEF LimitsTypeOK, Windows
  <1>5. primary[ResourceOf(c)] <= 0
    BY <1>3, <1>4 DEF Send, Blocked, Later
  <1>6. primary[ResourceOf(c)] > window[ResourceOf(c)].reset - Spread
    BY <1>1 DEF DenialsOK, DeniedOK
  <1> QED
    BY <1>4, <1>5, <1>6, LimitsAssumption DEF Later

(* After a denial the pool is not asked again before what GitHub announced *)
(* of its window is over, whatever arrives in whatever order: the code     *)
(* keeps the latest announcement and adds a second, so that what remains   *)
(* of the window is less than GitHub's own announcements of it differ by.  *)
(* The environment's part: no denial arrives after the window it is of.    *)
THEOREM RateLimitsDenialHolds == ASSUME ~LateDenials PROVE LimitsSpec => DenialHolds
  <1>1. LimitsTypeOK /\ DenialsOK /\ [LimitsNext]_limitVars
          => [\A c \in Calls : Sends(c) /\ denied[ResourceOf(c)] =>
                window[ResourceOf(c)].reset < Later(Spread, 1)]_limitVars
    BY SendsAreOpen
  <1> QED
    BY <1>1, Invariant, PTL DEF LimitsSpec, DenialHolds

-----------------------------------------------------------------------------
(* Items and their order. *)

Item == [id : Nat, version : Nat]

(* A set of items GitHub holds: an identity is that of one.                *)
Proper(S) ==
    S \in SUBSET Item /\ IsFiniteSet(S) /\ \A x, y \in S : x.id = y.id => x = y

Ascending(s) == \A i, j \in DOMAIN s : i < j => s[i].id < s[j].id
Rank(ids, n) == Cardinality({id \in ids : id <= n})

(* A cursor behind these items has passed the identity.                    *)
Passed(items, id) == \E x \in items : id <= x.id

(* Identities are ranked by their order, each once. *)
LEMMA RankGrows ==
    ASSUME NEW ids \in SUBSET Nat, IsFiniteSet(ids), NEW a \in ids, NEW b \in ids
    PROVE  /\ Rank(ids, a) \in 1 .. Cardinality(ids)
           /\ Rank(ids, a) = Rank(ids, b) => a = b
           /\ a < b <=> Rank(ids, a) < Rank(ids, b)
  <1> DEFINE below(n) == {id \in ids : id <= n}
  <1>1. ASSUME NEW m \in ids, NEW n \in ids, m <= n
        PROVE  Rank(ids, m) <= Rank(ids, n) /\ (Rank(ids, m) = Rank(ids, n) => m = n)
    <2>0. below(n) \subseteq ids /\ below(m) \subseteq below(n)
      <3>1. m \in Nat /\ n \in Nat
        OBVIOUS
      <3>2. \A id \in ids : id <= m => id <= n
        BY <1>1, <3>1
      <3> QED
        BY <3>2
    <2>1. IsFiniteSet(below(n)) /\ below(m) \in SUBSET below(n)
      BY <2>0, FS_Subset
    <2>2. Cardinality(below(m)) <= Cardinality(below(n))
          /\ (Cardinality(below(n)) = Cardinality(below(m)) => below(n) = below(m))
      BY <2>1, FS_Subset
    <2>3. n \in below(n)
      OBVIOUS
    <2>4. n \in below(m) => n = m
      BY <1>1
    <2> QED
      BY <2>2, <2>3, <2>4 DEF Rank
  <1>2. ASSUME NEW n \in ids PROVE Rank(ids, n) \in 1 .. Cardinality(ids)
    <2>1. IsFiniteSet(below(n)) /\ Cardinality(below(n)) <= Cardinality(ids) /\ n \in below(n)
      BY FS_Subset
    <2>2. Cardinality(below(n)) \in Nat /\ Cardinality(below(n)) # 0 /\ Cardinality(ids) \in Nat
      BY <2>1, FS_CardinalityType, FS_EmptySet
    <2> QED
      BY <2>1, <2>2 DEF Rank
  <1>3. Rank(ids, a) \in Nat /\ Rank(ids, b) \in Nat
    <2>1. Cardinality(ids) \in Nat
      BY FS_CardinalityType
    <2> QED
      BY <1>2, <2>1
  <1>4. a \in Nat /\ b \in Nat
    OBVIOUS
  <1>5. a <= b => Rank(ids, a) <= Rank(ids, b) /\ (Rank(ids, a) = Rank(ids, b) => a = b)
    BY <1>1
  <1>6. b <= a => Rank(ids, b) <= Rank(ids, a) /\ (Rank(ids, b) = Rank(ids, a) => b = a)
    BY <1>1
  <1>7. Rank(ids, a) \in 1 .. Cardinality(ids)
    BY <1>2
  <1> QED
    BY <1>3, <1>4, <1>5, <1>6, <1>7

(* As many identities as items.                                            *)
LEMMA IdsCounted ==
    ASSUME NEW S, Proper(S)
    PROVE  /\ Ids(S) \in SUBSET Nat /\ IsFiniteSet(Ids(S))
           /\ Cardinality(Ids(S)) = Cardinality(S) /\ Cardinality(S) \in Nat
  <1> DEFINE f == [x \in S |-> x.id]
  <1>1. Ids(S) \in SUBSET Nat /\ \A x \in S : x.id \in Ids(S)
    BY DEF Ids, Proper, Item
  <1>2. f \in [S -> Ids(S)] /\ (\A x, y \in S : f[x] = f[y] => x = y)
    BY <1>1 DEF Proper
  <1>3. \A id \in Ids(S) : \E x \in S : f[x] = id
    BY DEF Ids
  <1> HIDE DEF f
  <1>4. f \in Surjection(S, Ids(S)) /\ f \in Injection(S, Ids(S))
    BY <1>2, <1>3, Fun_IsSurj, Fun_IsInj
  <1>5. IsFiniteSet(S)
    BY DEF Proper
  <1>6. IsFiniteSet(Ids(S)) /\ Cardinality(Ids(S)) = Cardinality(S)
    BY <1>4, <1>5, FS_Surjection
  <1>7. Cardinality(S) \in Nat
    BY <1>5, FS_CardinalityType
  <1> QED
    BY <1>1, <1>6, <1>7

(* ByAge lists a set of items, each once, by age. *)
LEMMA ByAgeIs ==
    ASSUME NEW S, Proper(S)
    PROVE  LET s == ByAge(S) IN
           /\ s \in Seq(S) /\ Len(s) = Cardinality(S) /\ Cardinality(S) \in Nat
           /\ ToSet(s) = S /\ Ascending(s)
           /\ \A i \in DOMAIN s : Rank(Ids(S), s[i].id) = i
           /\ \A x \in S : Rank(Ids(S), x.id) \in DOMAIN s /\ s[Rank(Ids(S), x.id)] = x
  <1> DEFINE n == Cardinality(S)
             ids == Ids(S)
             r == [x \in S |-> Rank(ids, x.id)]
  <1>1. ids \in SUBSET Nat /\ IsFiniteSet(ids) /\ Cardinality(ids) = n /\ n \in Nat
    BY IdsCounted
  <1>2. \A x \in S : x.id \in ids
    BY DEF Ids
  <1> HIDE DEF ids, n
  <1>3. \A x, y \in S : Rank(ids, x.id) \in 1 .. n /\ (Rank(ids, x.id) = Rank(ids, y.id) => x.id = y.id)
                        /\ (Rank(ids, x.id) < Rank(ids, y.id) => x.id < y.id)
    BY <1>1, <1>2, RankGrows
  <1>4. r \in [S -> 1 .. n] /\ \A x, y \in S : r[x] = r[y] => x = y
    BY <1>3 DEF Proper
  <1>5. r \in Injection(S, 1 .. n)
    <2> HIDE DEF r
    <2> QED
      BY <1>4, Fun_IsInj
  <1>6. IsFiniteSet(1 .. n) /\ Cardinality(1 .. n) = n
    BY <1>1, FS_Interval
  <1>7. r \in Surjection(S, 1 .. n)
    <2> HIDE DEF r
    <2> QED
      BY <1>5, <1>6, FS_Injection DEF n
  <1>8. \A i \in 1 .. n : \E x \in S : Rank(ids, x.id) = i
    <2>1. \A i \in 1 .. n : \E x \in S : r[x] = i
      <3> HIDE DEF r
      <3> QED
        BY <1>7, Fun_SurjectionProperties
    <2> QED
      BY <2>1
  <1> DEFINE s == ByAge(S)
             chosen(i) == CHOOSE x \in S : Rank(ids, x.id) = i
  <1>9. s = [i \in 1 .. n |-> chosen(i)]
    BY DEF ByAge, Rank, ids, n
  <1>10. \A i \in 1 .. n : chosen(i) \in S /\ Rank(ids, chosen(i).id) = i
    BY <1>8
  <1> HIDE DEF chosen, s
  <1>11. s \in Seq(S) /\ Len(s) = n /\ DOMAIN s = 1 .. n
         /\ \A i \in 1 .. n : s[i] \in S /\ Rank(ids, s[i].id) = i
    BY <1>1, <1>9, <1>10
  <1>12. ASSUME NEW x \in S PROVE Rank(ids, x.id) \in DOMAIN s /\ s[Rank(ids, x.id)] = x
    <2>1. Rank(ids, x.id) \in 1 .. n
      BY <1>3
    <2>2. s[Rank(ids, x.id)] \in S /\ Rank(ids, s[Rank(ids, x.id)].id) = Rank(ids, x.id)
      BY <1>11, <2>1
    <2>3. s[Rank(ids, x.id)].id = x.id
      BY <1>3, <2>2
    <2> QED
      BY <1>11, <2>1, <2>2, <2>3 DEF Proper
  <1>13. ToSet(s) = S
    BY <1>11, <1>12 DEF ToSet
  <1>14. Ascending(s)
    <2> SUFFICES ASSUME NEW i \in DOMAIN s, NEW j \in DOMAIN s, i < j PROVE s[i].id < s[j].id
      BY DEF Ascending
    <2>1. Rank(ids, s[i].id) = i /\ Rank(ids, s[j].id) = j /\ s[i] \in S /\ s[j] \in S
      BY <1>11
    <2> QED
      BY <1>3, <2>1
  <1>15. s = ByAge(S) /\ n = Cardinality(S) /\ ids = Ids(S)
    BY DEF s, n, ids
  <1> QED
    BY <1>1, <1>11, <1>12, <1>13, <1>14, <1>15

(* The places of a page in a list. *)
Start(n) == (n - 1) * PageSize

(* The size of a page. *)
LEMMA PageSizeIs == PageSize \in Nat /\ PageSize > 0
  <1>1. PageSize \in Nat \ {0}
    BY ReadsAssumption
  <1> QED
    BY <1>1

(* The smaller of two numbers. *)
LEMMA MinOfTwo ==
    ASSUME NEW a \in Int, NEW b \in Int
    PROVE  Min({a, b}) = IF a <= b THEN a ELSE b
  <1>1. CASE a <= b
    <2>1. \A x \in {a, b} : (\A y \in {a, b} : x <= y) => x = a
      BY <1>1
    <2> QED
      BY <1>1, <2>1 DEF Min
  <1>2. CASE b < a
    <2>1. \A x \in {a, b} : (\A y \in {a, b} : x <= y) => x = b
      BY <1>2
    <2> QED
      BY <1>2, <2>1 DEF Min
  <1> QED
    BY <1>1, <1>2

(* Where the numbered pages start. *)
LEMMA Starts ==
    /\ Start(1) = 0
    /\ \A n \in Nat \ {0} : /\ Start(n) \in Nat /\ Start(n + 1) = Start(n) + PageSize
                            /\ n * PageSize = Start(n) + PageSize
    /\ \A m, n \in Nat \ {0} : m < n => Start(m) + PageSize <= Start(n)
  <1>1. PageSize \in Nat /\ PageSize > 0
    BY PageSizeIs
  <1>2. Start(1) = 0
    BY <1>1 DEF Start
  <1>3. ASSUME NEW n \in Nat \ {0}
        PROVE  /\ Start(n) \in Nat /\ Start(n + 1) = Start(n) + PageSize
               /\ n * PageSize = Start(n) + PageSize
    BY <1>1 DEF Start
  <1>4. ASSUME NEW m \in Nat \ {0}, NEW n \in Nat \ {0}, m < n
        PROVE  Start(m) + PageSize <= Start(n)
    <2>1. n - 1 - m \in Nat
      BY <1>4
    <2>2. (n - 1 - m) * PageSize \in Nat
      BY <1>1, <2>1
    <2>3. (n - 1 - m) * PageSize = (n - 1) * PageSize - m * PageSize
      BY <1>1
    <2>4. m * PageSize = Start(m) + PageSize
      BY <1>3
    <2>5. Start(n) = (n - 1) * PageSize /\ Start(n) \in Nat /\ Start(m) \in Nat
      BY <1>3 DEF Start
    <2> QED
      BY <1>1, <2>2, <2>3, <2>4, <2>5
  <1> QED
    BY <1>2, <1>3, <1>4

(* What a sequence holds. *)
LEMMA ToSetIs ==
    ASSUME NEW S, NEW s \in Seq(S)
    PROVE  ToSet(s) \subseteq S /\ IsFiniteSet(ToSet(s)) /\ s \in Seq(ToSet(s))
           /\ Len(s) \in Nat /\ DOMAIN s = 1 .. Len(s)
           /\ \A x : x \in ToSet(s) <=> \E i \in 1 .. Len(s) : s[i] = x
  <1>1. Len(s) \in Nat /\ DOMAIN s = 1 .. Len(s) /\ \A i \in 1 .. Len(s) : s[i] \in S
    OBVIOUS
  <1>2. ToSet(s) \subseteq S /\ \A x : x \in ToSet(s) <=> \E i \in 1 .. Len(s) : s[i] = x
    BY <1>1 DEF ToSet
  <1>3. s \in [1 .. Len(s) -> ToSet(s)]
    BY <1>1, <1>2
  <1>4. s \in Surjection(1 .. Len(s), ToSet(s))
    BY <1>2, <1>3, Fun_IsSurj
  <1>5. IsFiniteSet(ToSet(s))
    BY <1>1, <1>4, FS_Interval, FS_Surjection
  <1> QED
    BY <1>1, <1>2, <1>3, <1>5

(* What two sequences hold, one after the other. *)
LEMMA ToSetOfConcat ==
    ASSUME NEW S, NEW s \in Seq(S), NEW t \in Seq(S)
    PROVE  s \o t \in Seq(S) /\ ToSet(s \o t) = ToSet(s) \union ToSet(t)
           /\ Len(s \o t) = Len(s) + Len(t)
  <1>1. s \o t \in Seq(S) /\ Len(s \o t) = Len(s) + Len(t)
    OBVIOUS
  <1>2. \A i \in 1 .. Len(s) : (s \o t)[i] = s[i]
    OBVIOUS
  <1>3. \A i \in 1 .. Len(t) : (s \o t)[Len(s) + i] = t[i] /\ Len(s) + i \in 1 .. Len(s \o t)
    OBVIOUS
  <1>4. \A i \in 1 .. Len(s \o t) : i \in 1 .. Len(s) \/ (i - Len(s) \in 1 .. Len(t) /\ (s \o t)[i] = t[i - Len(s)])
    OBVIOUS
  <1>5. ASSUME NEW x \in ToSet(s \o t) PROVE x \in ToSet(s) \union ToSet(t)
    <2>1. PICK i \in 1 .. Len(s \o t) : (s \o t)[i] = x
      BY <1>1, ToSetIs
    <2> QED
      BY <1>2, <1>4, <2>1, ToSetIs
  <1>6. ASSUME NEW x \in ToSet(s) PROVE x \in ToSet(s \o t)
    <2>1. PICK i \in 1 .. Len(s) : s[i] = x
      BY ToSetIs
    <2>2. i \in 1 .. Len(s \o t)
      BY <1>1
    <2> QED
      BY <1>1, <1>2, <2>1, <2>2, ToSetIs
  <1>7. ASSUME NEW x \in ToSet(t) PROVE x \in ToSet(s \o t)
    <2>1. PICK i \in 1 .. Len(t) : t[i] = x
      BY ToSetIs
    <2> QED
      BY <1>1, <1>3, <2>1, ToSetIs
  <1> QED
    BY <1>1, <1>5, <1>6, <1>7

(* Newer items go behind. *)
LEMMA AscendingConcat ==
    ASSUME NEW s \in Seq(Item), NEW t \in Seq(Item), Ascending(s), Ascending(t),
           \A x \in ToSet(s), y \in ToSet(t) : x.id < y.id
    PROVE  Ascending(s \o t)
  <1> SUFFICES ASSUME NEW i \in DOMAIN (s \o t), NEW j \in DOMAIN (s \o t), i < j
               PROVE  (s \o t)[i].id < (s \o t)[j].id
    BY DEF Ascending
  <1>1. i \in 1 .. Len(s) + Len(t) /\ j \in 1 .. Len(s) + Len(t) /\ Len(s) \in Nat /\ Len(t) \in Nat
    OBVIOUS
  <1>2. CASE j <= Len(s)
    <2>1. i \in DOMAIN s /\ j \in DOMAIN s /\ (s \o t)[i] = s[i] /\ (s \o t)[j] = s[j]
      BY <1>1, <1>2
    <2> QED
      BY <2>1 DEF Ascending
  <1>3. CASE i > Len(s)
    <2>1. i - Len(s) \in DOMAIN t /\ j - Len(s) \in DOMAIN t /\ i - Len(s) < j - Len(s)
          /\ (s \o t)[i] = t[i - Len(s)] /\ (s \o t)[j] = t[j - Len(s)]
      BY <1>1, <1>3
    <2> QED
      BY <2>1 DEF Ascending
  <1>4. CASE i <= Len(s) /\ j > Len(s)
    <2>1. (s \o t)[i] = s[i] /\ (s \o t)[j] = t[j - Len(s)]
          /\ i \in 1 .. Len(s) /\ j - Len(s) \in 1 .. Len(t)
      BY <1>1, <1>4
    <2>2. s[i] \in ToSet(s) /\ t[j - Len(s)] \in ToSet(t)
      BY <2>1, ToSetIs
    <2> QED
      BY <2>1, <2>2
  <1> QED
    BY <1>1, <1>2, <1>3, <1>4

(* A list in order has as many identities as places. *)
LEMMA AscendingCount ==
    ASSUME NEW s \in Seq(Item), Ascending(s)
    PROVE  LET ids == Ids(ToSet(s)) IN
           ids \in SUBSET Nat /\ IsFiniteSet(ids) /\ Cardinality(ids) = Len(s)
  <1> DEFINE ids == Ids(ToSet(s))
             f == [i \in 1 .. Len(s) |-> s[i].id]
  <1>0. Len(s) \in Nat /\ DOMAIN s = 1 .. Len(s) /\ \A i \in 1 .. Len(s) : s[i] \in Item
    OBVIOUS
  <1>1. Len(s) \in Nat /\ DOMAIN s = 1 .. Len(s) /\ \A i \in 1 .. Len(s) : s[i].id \in Nat
    <2>1. \A x \in Item : x.id \in Nat
      BY DEF Item
    <2> QED
      BY <1>0, <2>1
  <1>2. \A id : id \in ids <=> \E i \in 1 .. Len(s) : s[i].id = id
    BY ToSetIs DEF Ids
  <1>3. \A i, j \in 1 .. Len(s) : s[i].id = s[j].id => i = j
    <2> SUFFICES ASSUME NEW i \in 1 .. Len(s), NEW j \in 1 .. Len(s), s[i].id = s[j].id
                 PROVE  i = j
      OBVIOUS
    <2>1. i < j => s[i].id < s[j].id
      BY <1>1 DEF Ascending
    <2>2. j < i => s[j].id < s[i].id
      BY <1>1 DEF Ascending
    <2> QED
      BY <1>1, <2>1, <2>2
  <1>4. f \in [1 .. Len(s) -> ids] /\ (\A i, j \in 1 .. Len(s) : f[i] = f[j] => i = j)
        /\ \A id \in ids : \E i \in 1 .. Len(s) : f[i] = id
    BY <1>2, <1>3
  <1> HIDE DEF f, ids
  <1>5. f \in Surjection(1 .. Len(s), ids) /\ f \in Injection(1 .. Len(s), ids)
    <2>1. f \in Surjection(1 .. Len(s), ids)
      BY <1>4, Fun_IsSurj
    <2>2. f \in Injection(1 .. Len(s), ids)
      BY <1>4, Fun_IsInj
    <2> QED
      BY <2>1, <2>2
  <1>6. IsFiniteSet(1 .. Len(s)) /\ Cardinality(1 .. Len(s)) = Len(s)
    <2> DEFINE m == Len(s)
    <2>1. m \in Nat
      BY <1>1
    <2> HIDE DEF m
    <2>2. IsFiniteSet(1 .. m) /\ Cardinality(1 .. m) = m
      BY <2>1, FS_Interval
    <2> QED
      BY <2>2 DEF m
  <1>7. IsFiniteSet(ids) /\ Cardinality(ids) = Cardinality(1 .. Len(s))
    BY <1>5, <1>6, FS_Surjection
  <1>8. ids \in SUBSET Nat
    BY <1>1, <1>2
  <1> QED
    BY <1>6, <1>7, <1>8 DEF ids

(* A page of a list. *)
LEMMA PageIs ==
    ASSUME NEW S, NEW s \in Seq(S), NEW n \in Nat \ {0}
    PROVE  LET page == Page(s, n)
               k == Start(n) IN
           /\ page \in Seq(S) /\ k \in Nat
           /\ Len(page) = IF Len(s) <= k THEN 0
                          ELSE IF Len(s) <= k + PageSize THEN Len(s) - k ELSE PageSize
           /\ \A i \in 1 .. Len(page) : page[i] = s[k + i] /\ k + i \in DOMAIN s
           /\ HasNext(s, n) <=> Len(s) > k + PageSize
  <1> DEFINE page == Page(s, n)
             k == Start(n)
             e == IF k + PageSize <= Len(s) THEN k + PageSize ELSE Len(s)
  <1>1. k \in Nat /\ n * PageSize = k + PageSize /\ PageSize \in Nat /\ PageSize > 0
    BY Starts, PageSizeIs
  <1>2. Len(s) \in Nat /\ DOMAIN s = 1 .. Len(s) /\ \A i \in 1 .. Len(s) : s[i] \in S
    OBVIOUS
  <1>3. Page(s, n) = SubSeq(s, k + 1, Min({n * PageSize, Len(s)}))
    BY DEF Page, Start
  <1> HIDE DEF k
  <1>4. Min({n * PageSize, Len(s)}) = e
    <2>1. n * PageSize \in Int /\ Len(s) \in Int
      BY <1>1, <1>2
    <2> QED
      BY <1>1, <2>1, MinOfTwo
  <1>5. page = SubSeq(s, k + 1, e)
    BY <1>3, <1>4
  <1>6. e \in Int /\ k + 1 \in Int /\ \A i \in k + 1 .. e : i \in 1 .. Len(s) /\ s[i] \in S
    BY <1>1, <1>2
  <1> HIDE DEF page, e
  <1>7. page \in Seq(S) /\ Len(page) = (IF k + 1 <= e THEN e - (k + 1) + 1 ELSE 0)
        /\ \A i \in 1 .. e - (k + 1) + 1 : page[i] = s[k + 1 + i - 1]
    BY <1>5, <1>6, SubSeqProperties
  <1>8. Len(page) = (IF Len(s) <= k THEN 0 ELSE IF Len(s) <= k + PageSize THEN Len(s) - k ELSE PageSize)
    <2>1. Len(page) = IF k + 1 <= e THEN e - k ELSE 0
      BY <1>1, <1>6, <1>7
    <2>2. CASE k + PageSize <= Len(s)
      <3>1. e = k + PageSize
        BY <2>2 DEF e
      <3> QED
        BY <1>1, <1>2, <2>1, <2>2, <3>1
    <2>3. CASE ~(k + PageSize <= Len(s))
      <3>1. e = Len(s)
        BY <2>3 DEF e
      <3> QED
        <4>1. Len(s) < k + PageSize /\ Len(s) \in Nat
          BY <1>1, <1>2, <2>3
        <4>2. CASE Len(s) <= k
          BY <1>1, <2>1, <3>1, <4>1, <4>2
        <4>3. CASE Len(s) > k
          <5>1. Len(page) = Len(s) - k /\ Len(s) <= k + PageSize /\ ~(Len(s) <= k)
            BY <1>1, <2>1, <3>1, <4>1, <4>3
          <5> QED
            BY <5>1
        <4> QED
          BY <1>1, <4>1, <4>2, <4>3
    <2> QED
      BY <2>2, <2>3
  <1>9. ASSUME NEW i \in 1 .. Len(page) PROVE page[i] = s[k + i] /\ k + i \in DOMAIN s
    <2>1. i \in 1 .. e - (k + 1) + 1 /\ k + 1 + i - 1 = k + i
      BY <1>1, <1>6, <1>7
    <2>2. k + i \in k + 1 .. e
      BY <1>1, <1>6, <2>1
    <2> QED
      BY <1>2, <1>6, <1>7, <2>1, <2>2
  <1>10. HasNext(s, n) <=> Len(s) > k + PageSize
    BY <1>1 DEF HasNext
  <1> QED
    BY <1>1, <1>7, <1>8, <1>9, <1>10 DEF page, k

(* The first items of a list are those that come first. *)
LEMMA FirstPageIs ==
    ASSUME NEW S, Proper(S)
    PROVE  LET page == Page(ByAge(S), 1) IN
           /\ page \in Seq(S) /\ Ascending(page) /\ ToSet(page) \subseteq S
           /\ \A y \in S : Passed(ToSet(page), y.id) \/ Cardinality(S) <= PageSize
                           => y \in ToSet(page)
  <1> DEFINE list == ByAge(S)
             page == Page(list, 1)
             ids == Ids(S)
  <1>1. /\ list \in Seq(S) /\ Len(list) = Cardinality(S) /\ Cardinality(S) \in Nat
        /\ Ascending(list) /\ DOMAIN list = 1 .. Len(list)
        /\ \A i \in DOMAIN list : Rank(ids, list[i].id) = i
        /\ \A x \in S : Rank(ids, x.id) \in DOMAIN list /\ list[Rank(ids, x.id)] = x
    BY ByAgeIs
  <1>2. ids \in SUBSET Nat /\ IsFiniteSet(ids) /\ \A x \in S : x.id \in ids
    BY IdsCounted DEF Ids
  <1> HIDE DEF list, ids
  <1>3. Start(1) = 0 /\ 1 \in Nat \ {0} /\ PageSize \in Nat /\ PageSize > 0
    BY Starts, PageSizeIs
  <1>4. /\ page \in Seq(S)
        /\ Len(page) = IF Len(list) <= 0 THEN 0
                       ELSE IF Len(list) <= PageSize THEN Len(list) ELSE PageSize
        /\ \A i \in 1 .. Len(page) : page[i] = list[i] /\ i \in DOMAIN list
    <2>1. \A i \in Nat : 0 + i = i
      OBVIOUS
    <2>0. /\ page \in Seq(S)
          /\ Len(page) = IF Len(list) <= Start(1) THEN 0
                         ELSE IF Len(list) <= Start(1) + PageSize THEN Len(list) - Start(1) ELSE PageSize
          /\ \A i \in 1 .. Len(page) : page[i] = list[Start(1) + i] /\ Start(1) + i \in DOMAIN list
      BY <1>1, <1>3, PageIs
    <2>2. /\ page \in Seq(S)
          /\ Len(page) = IF Len(list) <= 0 THEN 0
                         ELSE IF Len(list) <= 0 + PageSize THEN Len(list) - 0 ELSE PageSize
          /\ \A i \in 1 .. Len(page) : page[i] = list[0 + i] /\ 0 + i \in DOMAIN list
      <3> HIDE DEF page
      <3> QED
        BY <1>3, <2>0
    <2>3. Len(page) \in Nat
      BY <2>2
    <2>4. \A i \in 1 .. Len(page) : page[i] = list[i] /\ i \in DOMAIN list
      <3> SUFFICES ASSUME NEW i \in 1 .. Len(page) PROVE page[i] = list[i] /\ i \in DOMAIN list
        OBVIOUS
      <3>1. 0 + i = i
        BY <2>3
      <3> QED
        BY <2>2, <3>1
    <2>5. Len(list) \in Nat
      BY <1>1
    <2>6. 0 + PageSize = PageSize /\ Len(list) - 0 = Len(list)
      BY <1>3, <2>5
    <2> HIDE DEF page
    <2> QED
      BY <2>2, <2>4, <2>6
  <1> HIDE DEF page
  <1>5. Len(page) \in Nat /\ DOMAIN page = 1 .. Len(page) /\ Len(page) <= Len(list)
        /\ (Len(list) <= PageSize => Len(page) = Len(list))
    BY <1>1, <1>3, <1>4
  <1>6. ToSet(page) \subseteq S /\ \A x : x \in ToSet(page) <=> \E i \in 1 .. Len(page) : page[i] = x
    BY <1>4, ToSetIs
  <1>7. Ascending(page)
    BY <1>1, <1>4, <1>5 DEF Ascending
  <1>8. ASSUME NEW y \in S, Rank(ids, y.id) <= Len(page) PROVE y \in ToSet(page)
    <2>1. Rank(ids, y.id) \in 1 .. Len(page) /\ list[Rank(ids, y.id)] = y
      BY <1>1, <1>5, <1>8
    <2> QED
      BY <1>4, <1>6, <2>1
  <1>9. ASSUME NEW y \in S, Passed(ToSet(page), y.id) PROVE y \in ToSet(page)
    <2>1. PICK i \in 1 .. Len(page) : y.id <= page[i].id
      BY <1>6, <1>9 DEF Passed
    <2>2. page[i] = list[i] /\ i \in DOMAIN list /\ page[i] \in S /\ Rank(ids, page[i].id) = i
      BY <1>1, <1>4, <1>5, <2>1
    <2>3. page[i].id < y.id <=> Rank(ids, page[i].id) < Rank(ids, y.id)
      BY <1>2, <2>2, RankGrows
    <2>4. page[i].id \in Nat /\ y.id \in Nat /\ Rank(ids, y.id) \in DOMAIN list
      BY <1>1, <1>2, <2>2
    <2>5. Rank(ids, y.id) <= i
      BY <1>1, <1>5, <2>1, <2>2, <2>3, <2>4
    <2> QED
      BY <1>1, <1>5, <1>8, <2>1, <2>4, <2>5
  <1>10. ASSUME NEW y \in S, Cardinality(S) <= PageSize PROVE y \in ToSet(page)
    <2>1. Rank(ids, y.id) \in DOMAIN list /\ Len(page) = Len(list)
      BY <1>1, <1>5, <1>10
    <2> QED
      BY <1>1, <1>8, <2>1
  <1> QED
    BY <1>4, <1>6, <1>7, <1>9, <1>10 DEF page, list

(* A cursor goes on where it was. *)
LEMMA AfterIs ==
    ASSUME NEW p, Proper(site[p]), NEW items \in Seq(Item), Ascending(items)
    PROVE  LET a == After(p, items)
               got == items \o a.nodes IN
           /\ a.nodes \in Seq(Item) /\ ToSet(a.nodes) \subseteq site[p]
           /\ got \in Seq(Item) /\ Ascending(got) /\ ToSet(got) = ToSet(items) \union ToSet(a.nodes)
           /\ \A y \in site[p] : Passed(ToSet(got), y.id) \/ ~a.more
                                 => Passed(ToSet(items), y.id) \/ y \in ToSet(a.nodes)
           /\ a.total = Cardinality(site[p]) /\ a.total \in Nat
  <1> DEFINE a == After(p, items)
             rest == {item \in site[p] : \A i \in DOMAIN items : items[i].id < item.id}
             got == items \o a.nodes
  <1>1. a.nodes = Page(ByAge(rest), 1) /\ (~a.more => ~(Cardinality(rest) > PageSize))
        /\ a.total = Cardinality(site[p])
    BY DEF After
  <1>2. Proper(rest)
    <2>1. rest \subseteq site[p]
      OBVIOUS
    <2>2. site[p] \in SUBSET Item /\ IsFiniteSet(site[p])
          /\ \A x, y \in site[p] : x.id = y.id => x = y
      BY DEF Proper
    <2>3. IsFiniteSet(rest)
      BY <2>1, <2>2, FS_Subset
    <2> HIDE DEF rest
    <2> QED
      BY <2>1, <2>2, <2>3 DEF Proper
  <1>3. \A x \in Item : x.id \in Nat
    BY DEF Item
  <1>4. /\ DOMAIN items = 1 .. Len(items) /\ Len(items) \in Nat /\ ToSet(items) \subseteq Item
        /\ \A x : x \in ToSet(items) <=> \E i \in 1 .. Len(items) : items[i] = x
    BY ToSetIs
  <1>5. site[p] \subseteq Item
    BY DEF Proper
  <1>6. \A y \in site[p] : y \in rest <=> ~Passed(ToSet(items), y.id)
    <2> SUFFICES ASSUME NEW y \in site[p] PROVE y \in rest <=> ~Passed(ToSet(items), y.id)
      OBVIOUS
    <2>1. y.id \in Nat /\ \A i \in 1 .. Len(items) : items[i].id \in Nat
      BY <1>3, <1>4, <1>5
    <2>2. y \in rest <=> \A i \in 1 .. Len(items) : items[i].id < y.id
      BY <1>4
    <2>3. Passed(ToSet(items), y.id) <=> \E i \in 1 .. Len(items) : y.id <= items[i].id
      BY <1>4 DEF Passed
    <2> QED
      BY <2>1, <2>2, <2>3
  <1>7. \A y \in rest : \A x \in ToSet(items) : x.id < y.id
    BY <1>4
  <1>8. rest \subseteq site[p]
    OBVIOUS
  <1> HIDE DEF rest
  <1>9. /\ a.nodes \in Seq(rest) /\ Ascending(a.nodes) /\ ToSet(a.nodes) \subseteq rest
        /\ \A y \in rest : Passed(ToSet(a.nodes), y.id) \/ ~a.more => y \in ToSet(a.nodes)
    <2>1. Cardinality(rest) \in Nat /\ PageSize \in Nat
      BY <1>2, IdsCounted, PageSizeIs
    <2>2. ~a.more => Cardinality(rest) <= PageSize
      BY <1>1, <2>1
    <2> DEFINE page == Page(ByAge(rest), 1)
    <2>3. /\ page \in Seq(rest) /\ Ascending(page) /\ ToSet(page) \subseteq rest
          /\ \A y \in rest : Passed(ToSet(page), y.id) \/ Cardinality(rest) <= PageSize
                             => y \in ToSet(page)
      <3> HIDE DEF page
      <3>1. Page(ByAge(rest), 1) = page
        BY DEF page
      <3> QED
        BY <1>2, <3>1, FirstPageIs
    <2>4. a.nodes = page
      BY <1>1
    <2> HIDE DEF a, page
    <2> QED
      BY <2>2, <2>3, <2>4
  <1>10. a.nodes \in Seq(Item)
    <2> HIDE DEF a
    <2> QED
      BY <1>5, <1>8, <1>9
  <1> HIDE DEF a
  <1>11. got \in Seq(Item) /\ ToSet(got) = ToSet(items) \union ToSet(a.nodes)
    BY <1>10, ToSetOfConcat
  <1>12. Ascending(got)
    BY <1>7, <1>9, <1>10, AscendingConcat
  <1>13. ASSUME NEW y \in site[p], Passed(ToSet(got), y.id) \/ ~a.more
         PROVE  Passed(ToSet(items), y.id) \/ y \in ToSet(a.nodes)
    <2>1. CASE y \notin rest
      BY <1>6, <2>1
    <2>2. CASE y \in rest
      <3>1. Passed(ToSet(a.nodes), y.id) \/ ~a.more
        BY <1>6, <1>11, <1>13, <2>2 DEF Passed
      <3> QED
        BY <1>9, <2>2, <3>1
    <2> QED
      BY <2>1, <2>2
  <1>14. Cardinality(site[p]) \in Nat
    BY IdsCounted
  <1> QED
    BY <1>1, <1>8, <1>9, <1>10, <1>11, <1>12, <1>13, <1>14 DEF a

(* What holds of GitHub: every connection has items of its own, the newest *)
(* last, and a thread is there as long as its comments are.                *)
ThreadsOK ==
    /\ Ids(site["threads"]) \subseteq Threads
    /\ \A t \in Threads :
          Inner[t] \in DOMAIN site /\ site[Inner[t]] # {} => t \in Ids(site["threads"])
SiteOK ==
    /\ parent \in Parents /\ born \in Nat
    /\ site \in [DOMAIN parent.initial -> SUBSET Item]
    /\ \A p \in DOMAIN site : Proper(site[p]) /\ \A x \in site[p] : x.id <= born
    /\ \A p, q \in DOMAIN site : p # q => Ids(site[p]) \intersect Ids(site[q]) = {}
    /\ "threads" \in DOMAIN site => ThreadsOK

(* A new item is the newest. *)
Grown ==
    /\ born <= born' /\ parent' = parent /\ DOMAIN site' = DOMAIN site
    /\ \A p \in DOMAIN site : \A x \in site'[p] : x.id \in Ids(site[p]) \/ x.id > born

(* A finite set of numbers that is not empty has a last one. *)
LEMMA NewestIs ==
    ASSUME NEW S \in SUBSET Nat, IsFiniteSet(S), S # {}
    PROVE  Max(S) \in S /\ \A x \in S : x <= Max(S)
  <1> DEFINE Room(x) == Cardinality(S) - Rank(S, x)
             rooms == {Room(x) : x \in S}
  <1>1. Cardinality(S) \in Nat /\ \A x \in S : Rank(S, x) \in 1 .. Cardinality(S)
    BY FS_CardinalityType, RankGrows
  <1>2. rooms \subseteq Nat /\ rooms # {}
    <2>1. \A x \in S : Room(x) \in Nat
      BY <1>1
    <2> HIDE DEF Room
    <2> QED
      BY <2>1
  <1>3. PICK m \in rooms : \A n \in rooms : ~(<<n, m>> \in OpToRel(<, Nat))
    <2> HIDE DEF rooms
    <2> QED
      BY <1>2, NatLessThanWellFounded, WFMin
  <1>4. PICK x \in S : m = Room(x)
    BY <1>3
  <1>5. \A y \in S : ~(Room(y) < Room(x))
    <2>1. \A y \in S : Room(y) \in rooms /\ Room(y) \in Nat
      BY <1>2
    <2>2. \A y \in S : ~(<<Room(y), m>> \in OpToRel(<, Nat))
      BY <1>3, <2>1
    <2> HIDE DEF rooms, Room
    <2> QED
      BY <1>4, <2>1, <2>2 DEF OpToRel
  <1>6. \A y \in S : y <= x
    <2> SUFFICES ASSUME NEW y \in S PROVE y <= x
      OBVIOUS
    <2>1. ~(Rank(S, x) < Rank(S, y))
      BY <1>1, <1>5
    <2>2. x < y <=> Rank(S, x) < Rank(S, y)
      BY RankGrows
    <2>3. x \in Nat /\ y \in Nat
      OBVIOUS
    <2> QED
      BY <2>1, <2>2, <2>3
  <1>7. \A y \in S : x >= y
    BY <1>6
  <1>8. Max(S) = CHOOSE y \in S : \A z \in S : y >= z
    BY DEF Max
  <1>9. Max(S) \in S /\ \A z \in S : Max(S) >= z
    BY <1>7, <1>8
  <1> QED
    BY <1>9

(* What the assumptions say of one parent. *)
LEMMA ParentIs ==
    ASSUME NEW k \in Parents
    PROVE  /\ k.changing \subseteq DOMAIN k.initial /\ IsFiniteSet(DOMAIN k.initial)
           /\ \A p \in DOMAIN k.initial : k.initial[p] \in SUBSET Nat /\ IsFiniteSet(k.initial[p])
           /\ \A p, q \in DOMAIN k.initial : p # q => k.initial[p] \intersect k.initial[q] = {}
           /\ \A f \in k.families : Connections(f) \subseteq DOMAIN k.initial
           /\ "threads" \in DOMAIN k.initial =>
                 k.initial["threads"] =
                     {t \in Threads : Inner[t] \in DOMAIN k.initial /\ k.initial[Inner[t]] # {}}
           /\ k.kind \in {"issue", "pull"}
  BY ReadsAssumption

(* Threads and the connections of their comments. *)
LEMMA ThreadsAre ==
    /\ Threads \subseteq Nat /\ "threads" \notin Comments /\ "review-comments" \notin Comments
    /\ \A t \in Threads : Inner[t] \in Comments
    /\ \A c \in Comments : \E t \in Threads : Inner[t] = c
    /\ \A t, u \in Threads : Inner[t] = Inner[u] => t = u
  BY ReadsAssumption DEF Threads, Comments, IsInjective

(* The items GitHub starts with. *)
LEMMA ItemsAre ==
    ASSUME NEW ids \in SUBSET Nat, IsFiniteSet(ids)
    PROVE  Proper(Items(ids)) /\ Ids(Items(ids)) = ids
  <1>0. ASSUME NEW x \in Items(ids)
        PROVE  x.id \in ids /\ x = [id |-> x.id, version |-> 0] /\ x \in Item
    <2>1. x \in [id : ids, version : {0}]
      BY DEF Items
    <2>2. x.id \in ids /\ x.version = 0 /\ x = [id |-> x.id, version |-> 0]
      BY <2>1
    <2>3. x.id \in Nat /\ x.version \in Nat
      BY <2>2
    <2> QED
      BY <2>2, <2>3 DEF Item
  <1>1. \A x : x \in Items(ids) <=> \E n \in ids : x = [id |-> n, version |-> 0]
    <2>1. \A n \in ids : [id |-> n, version |-> 0] \in Items(ids)
      BY DEF Items
    <2> QED
      BY <1>0, <2>1
  <1>2. Items(ids) \in SUBSET Item
    BY <1>0
  <1> DEFINE f == [id \in ids |-> [id |-> id, version |-> 0]]
  <1>3. f \in Surjection(ids, Items(ids))
    <2>1. f \in [ids -> Items(ids)] /\ \A x \in Items(ids) : \E id \in ids : f[id] = x
      BY <1>1
    <2> HIDE DEF f
    <2> QED
      BY <2>1, Fun_IsSurj
  <1>4. IsFiniteSet(Items(ids))
    BY <1>3, FS_Surjection
  <1>5. \A x, y \in Items(ids) : x.id = y.id => x = y
    BY <1>1
  <1>6. Ids(Items(ids)) = ids
    <2>1. \A x \in Items(ids) : x.id \in ids
      BY <1>1
    <2>2. \A n \in ids : \E x \in Items(ids) : x.id = n
      <3> SUFFICES ASSUME NEW n \in ids PROVE \E x \in Items(ids) : x.id = n
        OBVIOUS
      <3>1. [id |-> n, version |-> 0] \in Items(ids)
        BY <1>1
      <3>2. [id |-> n, version |-> 0].id = n
        OBVIOUS
      <3> QED
        BY <3>1, <3>2
    <2> HIDE DEF f
    <2> QED
      BY <2>1, <2>2 DEF Ids
  <1> QED
    BY <1>2, <1>4, <1>5, <1>6 DEF Proper

(* What holds of GitHub holds at the start. *)
LEMMA SiteInit == InitReads => SiteOK
  <1> SUFFICES ASSUME InitReads PROVE SiteOK
    OBVIOUS
  <1> DEFINE D == DOMAIN parent.initial
             all == {0} \union UNION {parent.initial[p] : p \in D}
  <1>1. parent \in Parents /\ site = [p \in D |-> Items(parent.initial[p])] /\ born = Max(all)
    BY DEF InitReads
  <1>2. IsFiniteSet(D)
        /\ (\A p \in D : parent.initial[p] \in SUBSET Nat /\ IsFiniteSet(parent.initial[p]))
        /\ \A p, q \in D : p # q => parent.initial[p] \intersect parent.initial[q] = {}
    BY <1>1, ParentIs
  <1>3. all \in SUBSET Nat /\ all # {}
    BY <1>2
  <1>4. IsFiniteSet(all)
    <2> DEFINE sets == {parent.initial[p] : p \in D}
               f == [p \in D |-> parent.initial[p]]
    <2>1. f \in [D -> sets] /\ \A s \in sets : \E p \in D : f[p] = s
      OBVIOUS
    <2>2. f \in Surjection(D, sets)
      <3> HIDE DEF f, sets, D
      <3> QED
        BY <2>1, Fun_IsSurj
    <2>3. IsFiniteSet(sets)
      <3> HIDE DEF f, sets, D
      <3> QED
        BY <1>2, <2>2, FS_Surjection
    <2>4. \A s \in sets : IsFiniteSet(s)
      BY <1>2
    <2>5. IsFiniteSet(UNION sets)
      <3> HIDE DEF sets
      <3> QED
        BY <2>3, <2>4, FS_UNION
    <2> QED
      BY <2>5, FS_Singleton, FS_Union
  <1>5. born \in all /\ \A n \in all : n <= born
    <2> HIDE DEF all
    <2> QED
      BY <1>1, <1>3, <1>4, NewestIs
  <1>6. \A p \in D : Proper(site[p]) /\ Ids(site[p]) = parent.initial[p]
    BY <1>1, <1>2, ItemsAre
  <1>7. site \in [D -> SUBSET Item]
    <2>1. \A p \in D : Items(parent.initial[p]) \in SUBSET Item
      BY <1>1, <1>6 DEF Proper
    <2> QED
      BY <1>1, <2>1
  <1>8. \A p \in D : \A x \in site[p] : x.id <= born
    <2>1. \A p \in D : \A x \in site[p] : x.id \in parent.initial[p]
      BY <1>6 DEF Ids
    <2>2. \A p \in D : parent.initial[p] \subseteq all
      OBVIOUS
    <2> QED
      BY <1>5, <2>1, <2>2
  <1>9. "threads" \in D => ThreadsOK
    <2> SUFFICES ASSUME "threads" \in D PROVE ThreadsOK
      OBVIOUS
    <2>1. parent.initial["threads"] =
              {t \in Threads : Inner[t] \in D /\ parent.initial[Inner[t]] # {}}
      BY <1>1, ParentIs
    <2>2. \A p \in D : site[p] # {} => parent.initial[p] # {}
      <3>1. \A p \in D : \A x \in site[p] : x.id \in parent.initial[p]
        BY <1>6 DEF Ids
      <3> QED
        BY <3>1
    <2>3. DOMAIN site = D /\ Ids(site["threads"]) = parent.initial["threads"]
      BY <1>6, <1>7
    <2> HIDE DEF D
    <2> QED
      BY <2>1, <2>2, <2>3 DEF ThreadsOK
  <1>10. born \in Nat /\ DOMAIN site = D
    BY <1>3, <1>5, <1>7
  <1>11. \A p, q \in D : p # q => Ids(site[p]) \intersect Ids(site[q]) = {}
    BY <1>1, <1>6, ParentIs
  <1> QED
    BY <1>1, <1>6, <1>7, <1>8, <1>9, <1>10, <1>11 DEF SiteOK

(* What a change on GitHub does to the read in progress. *)
Carried ==
    read' = IF read.state # "running" THEN read
            ELSE [read EXCEPT !.stay = @ \cap Tagged(read.parts, site'),
                              !.ever = @ \union Tagged(read.parts, site'),
                              !.shifted = @ \/ \E p \in read.parts :
                                 ~(Ids(Held(site, p)) \subseteq Ids(Held(site', p)))]

(* Some of the items. *)
LEMMA ProperSubset ==
    ASSUME NEW S, NEW T, Proper(S), T \subseteq S
    PROVE  Proper(T) /\ Ids(T) \subseteq Ids(S)
  <1>1. IsFiniteSet(T)
    BY FS_Subset DEF Proper
  <1> QED
    BY <1>1 DEF Proper, Ids

(* One item more, the newest. *)
LEMMA ProperAdd ==
    ASSUME NEW S, Proper(S), NEW x \in Item, \A y \in S : y.id < x.id
    PROVE  Proper(S \union {x}) /\ Ids(S \union {x}) = Ids(S) \union {x.id}
  <1>1. S \in SUBSET Item /\ IsFiniteSet(S) /\ \A y, z \in S : y.id = z.id => y = z
    BY DEF Proper
  <1>2. IsFiniteSet(S \union {x})
    BY <1>1, FS_AddElement
  <1>3. \A y \in Item : y.id \in Nat
    BY DEF Item
  <1>4. \A y \in S : y.id # x.id
    BY <1>1, <1>3
  <1>5. \A y, z \in S \union {x} : y.id = z.id => y = z
    BY <1>1, <1>4
  <1>6. S \union {x} \in SUBSET Item
    BY <1>1
  <1>7. Ids(S \union {x}) = Ids(S) \union {x.id}
    BY DEF Ids
  <1> QED
    BY <1>2, <1>5, <1>6, <1>7 DEF Proper

(* What holds of the items of each connection. *)
LEMMA SiteIs ==
    ASSUME SiteOK
    PROVE  /\ parent \in Parents /\ born \in Nat /\ DOMAIN site = DOMAIN parent.initial
           /\ site \in [DOMAIN site -> SUBSET Item] /\ IsFiniteSet(DOMAIN site)
           /\ \A p \in DOMAIN site : /\ Proper(site[p]) /\ site[p] \in SUBSET Item
                                     /\ \A x \in site[p] : x.id <= born /\ x.id \in Nat /\ x.id \in Ids(site[p])
           /\ \A p, q \in DOMAIN site : p # q => \A x \in site[p], y \in site[q] : x.id # y.id
           /\ parent.changing \subseteq DOMAIN site
  <1>1. /\ parent \in Parents /\ born \in Nat /\ site \in [DOMAIN parent.initial -> SUBSET Item]
        /\ \A p \in DOMAIN site : Proper(site[p]) /\ \A x \in site[p] : x.id <= born
        /\ \A p, q \in DOMAIN site : p # q => Ids(site[p]) \intersect Ids(site[q]) = {}
    BY DEF SiteOK
  <1>2. DOMAIN site = DOMAIN parent.initial
    BY <1>1
  <1>3. \A p \in DOMAIN site : site[p] \in SUBSET Item
    BY <1>1 DEF Proper
  <1>4. \A p \in DOMAIN site : \A x \in site[p] : x.id \in Ids(site[p])
    BY DEF Ids
  <1>5. \A p, q \in DOMAIN site : p # q => \A x \in site[p], y \in site[q] : x.id # y.id
    BY <1>1, <1>4
  <1>6. \A x \in Item : x.id \in Nat
    BY DEF Item
  <1>7. parent.changing \subseteq DOMAIN site /\ IsFiniteSet(DOMAIN site)
    BY <1>1, <1>2, ParentIs
  <1> QED
    BY <1>1, <1>2, <1>3, <1>4, <1>5, <1>6, <1>7

(* It is enough that a new item has an identity of its own. *)
LEMMA SiteGrows ==
    ASSUME SiteOK, Grown, site' \in [DOMAIN site -> SUBSET Item], born' \in Nat,
           \A p \in DOMAIN site : Proper(site'[p]) /\ \A x \in site'[p] : x.id <= born',
           \A p, q \in DOMAIN site : p # q =>
               \A x \in site'[p], y \in site'[q] : x.id > born => x.id # y.id,
           "threads" \in DOMAIN site => ThreadsOK'
    PROVE  SiteOK'
  <1>1. parent' \in Parents /\ DOMAIN site' = DOMAIN site /\ DOMAIN parent'.initial = DOMAIN site
    BY SiteIs DEF Grown
  <1>2. \A p, q \in DOMAIN site : p # q => \A x \in site'[p], y \in site'[q] : x.id # y.id
    <2> SUFFICES ASSUME NEW p \in DOMAIN site, NEW q \in DOMAIN site, p # q,
                        NEW x \in site'[p], NEW y \in site'[q], x.id = y.id
                 PROVE  FALSE
      OBVIOUS
    <2>1. ~(x.id > born) /\ ~(y.id > born)
      OBVIOUS
    <2>2. x.id \in Ids(site[p]) /\ y.id \in Ids(site[q])
      BY <2>1 DEF Grown
    <2> QED
      BY <2>2 DEF SiteOK
  <1>3. \A p, q \in DOMAIN site' : p # q => Ids(site'[p]) \intersect Ids(site'[q]) = {}
    BY <1>1, <1>2 DEF Ids
  <1>4. site' \in [DOMAIN parent'.initial -> SUBSET Item]
    BY <1>1
  <1> QED
    BY <1>1, <1>3, <1>4 DEF SiteOK

(* Items may be taken away. *)
LEMMA SiteShrinks ==
    ASSUME SiteOK, parent' = parent, born' = born, site' \in [DOMAIN site -> SUBSET Item],
           \A p \in DOMAIN site : site'[p] \subseteq site[p],
           "threads" \in DOMAIN site => ThreadsOK'
    PROVE  SiteOK' /\ Grown
  <1>1. Grown
    BY SiteIs DEF Grown
  <1>2. \A p \in DOMAIN site : Proper(site'[p]) /\ \A x \in site'[p] : x.id <= born'
    BY SiteIs, ProperSubset
  <1>3. \A p, q \in DOMAIN site : p # q => \A x \in site'[p], y \in site'[q] : x.id # y.id
    BY SiteIs
  <1>4. born' \in Nat
    BY SiteIs
  <1> QED
    BY <1>1, <1>2, <1>3, <1>4, SiteGrows

(* An item may be added, a thread with its first comment. *)
LEMMA SiteAdd ==
    ASSUME SiteOK, NEW p \in parent.changing, Add(p)
    PROVE  SiteOK' /\ Grown
  <1> DEFINE item == [id |-> born + 1, version |-> 0]
             other == [id |-> born + 2, version |-> 0]
             c == Inner[born + 1]
  <1>1. /\ p \in DOMAIN site /\ born \in Nat /\ parent' = parent
    BY SiteIs DEF Add, Change
  <1>2. item \in Item /\ other \in Item /\ item.id = born + 1 /\ other.id = born + 2
    BY <1>1 DEF Item
  <1>3. CASE p = "threads"
    <2>1. /\ born' = born + 2 /\ born + 1 \in Threads
          /\ site' = [site EXCEPT !["threads"] = @ \union {item}, ![c] = {other}]
      BY <1>3 DEF Add, Change
    <2>2. c # "threads" /\ DOMAIN site' = DOMAIN site
      BY <2>1, ThreadsAre
    <2>3. /\ site'["threads"] = site["threads"] \union {item}
          /\ c \in DOMAIN site => site'[c] = {other}
          /\ \A q \in DOMAIN site : q # "threads" /\ q # c => site'[q] = site[q]
      BY <1>1, <1>3, <2>1, <2>2
    <2> HIDE DEF c
    <2>4. Proper(site["threads"] \union {item})
          /\ Ids(site["threads"] \union {item}) = Ids(site["threads"]) \union {born + 1}
      <3>1. \A y \in site["threads"] : y.id < item.id
        BY <1>1, <1>2, <1>3, SiteIs
      <3> HIDE DEF item
      <3> QED
        BY <1>1, <1>2, <1>3, <3>1, SiteIs, ProperAdd
    <2>5. Proper({other})
      <3>1. Proper({})
        BY FS_EmptySet DEF Proper
      <3>2. {} \union {other} = {other}
        OBVIOUS
      <3>3. other \in Item /\ \A y \in {} : y.id < other.id
        BY <1>2
      <3> HIDE DEF other
      <3>4. Proper({} \union {other})
        BY <3>1, <3>3, ProperAdd
      <3> QED
        BY <3>2, <3>4
    <2>6. \A q \in DOMAIN site : Proper(site'[q]) /\ \A x \in site'[q] :
              /\ x.id <= born + 2
              /\ x.id \in Ids(site[q]) \/ (q = "threads" /\ x.id = born + 1) \/ (q = c /\ x.id = born + 2)
      <3> SUFFICES ASSUME NEW q \in DOMAIN site
                   PROVE  Proper(site'[q]) /\ \A x \in site'[q] :
              /\ x.id <= born + 2
              /\ x.id \in Ids(site[q]) \/ (q = "threads" /\ x.id = born + 1) \/ (q = c /\ x.id = born + 2)
        OBVIOUS
      <3>1. CASE q = "threads"
        <4>1. \A x \in site'[q] : x = item \/ x \in site[q]
          BY <2>3, <3>1
        <4>2. Proper(site'[q])
          BY <2>3, <2>4, <3>1
        <4>3. \A x \in site[q] : x.id <= born /\ x.id \in Nat /\ x.id \in Ids(site[q])
          BY SiteIs
        <4>4. \A x \in site[q] : x.id <= born + 2
          BY <1>1, <4>3
        <4>5. item.id <= born + 2 /\ item.id = born + 1
          BY <1>1, <1>2
        <4> HIDE DEF item
        <4> QED
          BY <3>1, <4>1, <4>2, <4>3, <4>4, <4>5
      <3>2. CASE q = c
        <4>1. site'[q] = {other} /\ Proper(site'[q])
          BY <2>3, <2>5, <3>2
        <4>2. other.id = born + 2 /\ born + 2 <= born + 2
          BY <1>1, <1>2
        <4> HIDE DEF other
        <4> QED
          BY <3>2, <4>1, <4>2
      <3>3. CASE q # "threads" /\ q # c
        BY <1>1, <2>3, <3>3, SiteIs
      <3> QED
        BY <3>1, <3>2, <3>3
    <2>7. Grown
      BY <1>1, <2>1, <2>2, <2>6 DEF Grown
    <2>8. site' \in [DOMAIN site -> SUBSET Item]
      <3>1. \A q \in DOMAIN site : site'[q] \in SUBSET Item
        BY <2>6 DEF Proper
      <3> QED
        BY <2>1, <2>2, <3>1
    <2>9. \A q, r \in DOMAIN site : q # r =>
              \A x \in site'[q], y \in site'[r] : x.id > born => x.id # y.id
      <3> SUFFICES ASSUME NEW q \in DOMAIN site, NEW r \in DOMAIN site, q # r,
                          NEW x \in site'[q], NEW y \in site'[r], x.id > born, x.id = y.id
                   PROVE  FALSE
        OBVIOUS
      <3>1. \A s \in DOMAIN site : \A id \in Ids(site[s]) : id <= born /\ id \in Nat
        BY SiteIs DEF Ids
      <3>2. (q = "threads" /\ x.id = born + 1) \/ (q = c /\ x.id = born + 2)
        BY <1>1, <2>6, <3>1
      <3>3. (r = "threads" /\ y.id = born + 1) \/ (r = c /\ y.id = born + 2)
        BY <1>1, <2>6, <3>1, <3>2
      <3> QED
        BY <1>1, <3>2, <3>3
    <2>10. ThreadsOK'
      <3>1. Ids(site'["threads"]) = Ids(site["threads"]) \union {born + 1}
        BY <2>3, <2>4
      <3>2. Ids(site'["threads"]) \subseteq Threads
        BY <1>1, <1>3, <2>1, <3>1 DEF SiteOK, ThreadsOK
      <3>3. ASSUME NEW t \in Threads, Inner[t] \in DOMAIN site', site'[Inner[t]] # {}
            PROVE  t \in Ids(site'["threads"])
        <4>1. CASE Inner[t] = c
          <5>1. t = born + 1
            BY <2>1, <4>1, ThreadsAre DEF c
          <5> QED
            BY <3>1, <5>1
        <4>2. CASE Inner[t] # c
          <5>1. Inner[t] # "threads"
            BY ThreadsAre
          <5>2. site[Inner[t]] # {} /\ Inner[t] \in DOMAIN site
            BY <2>2, <2>3, <3>3, <4>2, <5>1
          <5> QED
            BY <1>1, <1>3, <3>1, <5>2 DEF SiteOK, ThreadsOK
        <4> QED
          BY <4>1, <4>2
      <3> QED
        BY <3>2, <3>3 DEF ThreadsOK
    <2>11. born' \in Nat /\ \A q \in DOMAIN site : Proper(site'[q]) /\ \A x \in site'[q] : x.id <= born'
      <3>1. born' \in Nat
        BY <1>1, <2>1
      <3>2. born' = born + 2
        BY <2>1
      <3> QED
        BY <3>1, <3>2, <2>6
    <2> QED
      BY <2>7, <2>8, <2>9, <2>10, <2>11, SiteGrows
  <1>4. CASE p # "threads"
    <2>1. /\ born' = born + 1 /\ (p \in Comments => site[p] # {})
          /\ site' = [site EXCEPT ![p] = @ \union {item}]
      BY <1>4 DEF Add, Change
    <2>2. DOMAIN site' = DOMAIN site /\ site'[p] = site[p] \union {item}
          /\ \A q \in DOMAIN site : q # p => site'[q] = site[q]
      BY <1>1, <2>1
    <2>3. Proper(site[p] \union {item})
          /\ Ids(site[p] \union {item}) = Ids(site[p]) \union {born + 1}
      <3>1. \A y \in site[p] : y.id < item.id
        BY <1>1, <1>2, SiteIs
      <3> HIDE DEF item
      <3> QED
        BY <1>1, <1>2, <3>1, SiteIs, ProperAdd
    <2>4. \A q \in DOMAIN site : Proper(site'[q]) /\ \A x \in site'[q] :
              /\ x.id <= born + 1
              /\ x.id \in Ids(site[q]) \/ (q = p /\ x.id = born + 1)
      <3> SUFFICES ASSUME NEW q \in DOMAIN site
                   PROVE  Proper(site'[q]) /\ \A x \in site'[q] :
              /\ x.id <= born + 1
              /\ x.id \in Ids(site[q]) \/ (q = p /\ x.id = born + 1)
        OBVIOUS
      <3>1. CASE q = p
        <4>1. \A x \in site'[q] : x = item \/ x \in site[q]
          BY <2>2, <3>1
        <4>2. Proper(site'[q])
          BY <2>2, <2>3, <3>1
        <4>3. \A x \in site[q] : x.id <= born /\ x.id \in Nat /\ x.id \in Ids(site[q])
          BY SiteIs
        <4>4. \A x \in site[q] : x.id <= born + 1
          BY <1>1, <4>3
        <4>5. item.id <= born + 1 /\ item.id = born + 1
          BY <1>1, <1>2
        <4> HIDE DEF item
        <4> QED
          BY <3>1, <4>1, <4>2, <4>3, <4>4, <4>5
      <3>2. CASE q # p
        BY <1>1, <2>2, <3>2, SiteIs
      <3> QED
        BY <3>1, <3>2
    <2>5. Grown
      BY <1>1, <2>1, <2>2, <2>4 DEF Grown
    <2>6. site' \in [DOMAIN site -> SUBSET Item]
      <3>1. \A q \in DOMAIN site : site'[q] \in SUBSET Item
        BY <2>4 DEF Proper
      <3> QED
        BY <2>1, <2>2, <3>1
    <2>7. \A q, r \in DOMAIN site : q # r =>
              \A x \in site'[q], y \in site'[r] : x.id > born => x.id # y.id
      <3> SUFFICES ASSUME NEW q \in DOMAIN site, NEW r \in DOMAIN site, q # r,
                          NEW x \in site'[q], NEW y \in site'[r], x.id > born, x.id = y.id
                   PROVE  FALSE
        OBVIOUS
      <3>1. \A s \in DOMAIN site : \A id \in Ids(site[s]) : id <= born /\ id \in Nat
        BY SiteIs DEF Ids
      <3>2. q = p /\ x.id = born + 1
        BY <1>1, <2>4, <3>1
      <3>3. ~(y.id <= born)
        BY <1>1, <3>2
      <3>4. r = p
        BY <2>4, <3>1, <3>3
      <3> QED
        BY <3>2, <3>4
    <2>8. "threads" \in DOMAIN site => ThreadsOK'
      <3> SUFFICES ASSUME "threads" \in DOMAIN site PROVE ThreadsOK'
        OBVIOUS
      <3>1. site'["threads"] = site["threads"]
        BY <1>4, <2>2
      <3>2. ASSUME NEW t \in Threads, Inner[t] \in DOMAIN site', site'[Inner[t]] # {}
            PROVE  Inner[t] \in DOMAIN site /\ site[Inner[t]] # {}
        BY <2>1, <2>2, <3>2, ThreadsAre
      <3> QED
        BY <3>1, <3>2 DEF SiteOK, ThreadsOK
    <2>9. born' \in Nat /\ \A q \in DOMAIN site : Proper(site'[q]) /\ \A x \in site'[q] : x.id <= born'
      <3>1. born' \in Nat
        BY <1>1, <2>1
      <3>2. born' = born + 1
        BY <2>1
      <3> QED
        BY <3>1, <3>2, <2>4
    <2> QED
      BY <2>5, <2>6, <2>7, <2>8, <2>9, SiteGrows
  <1> QED
    BY <1>3, <1>4

(* An item may be edited. *)
LEMMA SiteEdit ==
    ASSUME SiteOK, NEW p \in parent.changing, Edit(p)
    PROVE  SiteOK' /\ Grown
  <1>1. PICK item \in site[p] :
           site' = [site EXCEPT ![p] = (@ \ {item}) \union {[item EXCEPT !.version = @ + 1]}]
    BY DEF Edit, Change
  <1> DEFINE edited == [item EXCEPT !.version = @ + 1]
  <1>2. /\ p \in DOMAIN site /\ born' = born /\ parent' = parent /\ born \in Nat
        /\ site[p] \in SUBSET Item /\ IsFiniteSet(site[p])
    BY SiteIs DEF Edit, Change, Proper
  <1>3. edited \in Item /\ edited.id = item.id
    <2>1. item \in Item
      BY <1>2
    <2> QED
      BY <2>1 DEF Item
  <1>4. DOMAIN site' = DOMAIN site /\ site'[p] = (site[p] \ {item}) \union {edited}
        /\ \A q \in DOMAIN site : q # p => site'[q] = site[q]
    BY <1>1, <1>2
  <1> HIDE DEF edited
  <1>5. Proper(site'[p]) /\ Ids(site'[p]) = Ids(site[p])
    <2>1. \A x, y \in site[p] : x.id = y.id => x = y
      BY <1>2, SiteIs DEF Proper
    <2>2. IsFiniteSet(site'[p])
      <3>1. IsFiniteSet(site[p] \ {item})
        BY <1>2, FS_RemoveElement
      <3>2. IsFiniteSet((site[p] \ {item}) \union {edited})
        BY <3>1, FS_AddElement
      <3> QED
        BY <1>4, <3>2
    <2>3. site'[p] \in SUBSET Item
      BY <1>2, <1>3, <1>4
    <2>4. \A x, y \in site'[p] : x.id = y.id => x = y
      BY <1>3, <1>4, <2>1
    <2>5. Ids(site'[p]) = Ids(site[p])
      BY <1>3, <1>4 DEF Ids
    <2> QED
      BY <2>2, <2>3, <2>4, <2>5 DEF Proper
  <1>6. \A q \in DOMAIN site : Proper(site'[q]) /\ \A x \in site'[q] : x.id \in Ids(site[q])
    <2>1. \A q \in DOMAIN site : \A x \in site'[q] : x.id \in Ids(site'[q])
      BY DEF Ids
    <2> QED
      BY <1>4, <1>5, <2>1, SiteIs
  <1>7. Grown
    BY <1>2, <1>4, <1>6 DEF Grown
  <1>8. \A q \in DOMAIN site : \A id \in Ids(site[q]) : id <= born /\ id \in Nat
    BY SiteIs DEF Ids
  <1>9. \A q \in DOMAIN site : Proper(site'[q]) /\ \A x \in site'[q] : x.id <= born' /\ ~(x.id > born)
    BY <1>2, <1>6, <1>8
  <1>10. site' \in [DOMAIN site -> SUBSET Item]
    <2>1. \A q \in DOMAIN site : site'[q] \in SUBSET Item
      BY <1>6 DEF Proper
    <2> QED
      BY <1>1, <1>4, <2>1
  <1>11. "threads" \in DOMAIN site => ThreadsOK'
    <2> SUFFICES ASSUME "threads" \in DOMAIN site PROVE ThreadsOK'
      OBVIOUS
    <2>1. Ids(site'["threads"]) = Ids(site["threads"])
      BY <1>4, <1>5
    <2>2. \A q \in DOMAIN site : site'[q] # {} => site[q] # {}
      BY <1>4
    <2>3. ThreadsOK
      BY DEF SiteOK
    <2>4. \A t \in Threads : Inner[t] \in DOMAIN site' /\ site'[Inner[t]] # {}
                             => t \in Ids(site'["threads"])
      BY <1>4, <2>1, <2>2, <2>3 DEF ThreadsOK
    <2> QED
      BY <2>1, <2>3, <2>4 DEF ThreadsOK
  <1>12. born' \in Nat
    BY <1>2
  <1> QED
    BY <1>7, <1>9, <1>10, <1>11, <1>12, SiteGrows

(* An item may be withdrawn, with all that goes with it. *)
LEMMA SiteWithdraw ==
    ASSUME SiteOK, NEW p \in parent.changing, Withdraw(p)
    PROVE  SiteOK' /\ Grown
  <1>1. /\ p \in DOMAIN site /\ born' = born /\ parent' = parent /\ p # "threads"
        /\ site \in [DOMAIN site -> SUBSET Item]
    BY SiteIs DEF Withdraw, Change
  <1>2. PICK item \in site[p] :
          IF p \in Comments /\ site[p] = {item}
          THEN site' = [site EXCEPT ![p] = {}, !["threads"] = {x \in @ : Inner[x.id] # p}]
          ELSE site' = [q \in DOMAIN site |->
                    IF q = p THEN site[p] \ {item}
                    ELSE IF p = "comments" /\ q \in ReactionsTo(item.id) THEN {}
                    ELSE site[q]]
    BY DEF Withdraw, Change
  <1>3. CASE p \in Comments /\ site[p] = {item}
    <2>1. /\ DOMAIN site' = DOMAIN site /\ site'[p] = {}
          /\ "threads" \in DOMAIN site => site'["threads"] = {x \in site["threads"] : Inner[x.id] # p}
          /\ \A q \in DOMAIN site : q # p /\ q # "threads" => site'[q] = site[q]
      BY <1>1, <1>2, <1>3
    <2>2. \A q \in DOMAIN site : site'[q] \subseteq site[q]
      BY <2>1
    <2>3. site' \in [DOMAIN site -> SUBSET Item]
      <3>1. \A q \in DOMAIN site : site'[q] \in SUBSET Item
        BY <1>1, <2>2
      <3> QED
        BY <1>2, <1>3, <2>1, <3>1
    <2>4. "threads" \in DOMAIN site => ThreadsOK'
      <3> SUFFICES ASSUME "threads" \in DOMAIN site PROVE ThreadsOK'
        OBVIOUS
      <3>1. ThreadsOK
        BY DEF SiteOK
      <3>2. Ids(site'["threads"]) \subseteq Threads
        BY <2>1, <3>1 DEF ThreadsOK, Ids
      <3>3. ASSUME NEW t \in Threads, Inner[t] \in DOMAIN site', site'[Inner[t]] # {}
            PROVE  t \in Ids(site'["threads"])
        <4>1. Inner[t] # p /\ site[Inner[t]] # {} /\ Inner[t] \in DOMAIN site
          BY <2>1, <2>2, <3>3
        <4>2. PICK x \in site["threads"] : x.id = t
          BY <3>1, <4>1 DEF ThreadsOK, Ids
        <4>3. x \in site'["threads"]
          BY <2>1, <4>1, <4>2
        <4> QED
          BY <4>2, <4>3 DEF Ids
      <3> QED
        BY <3>2, <3>3 DEF ThreadsOK
    <2> QED
      BY <1>1, <2>2, <2>3, <2>4, SiteShrinks
  <1>4. CASE ~(p \in Comments /\ site[p] = {item})
    <2>1. site' = [q \in DOMAIN site |->
                    IF q = p THEN site[p] \ {item}
                    ELSE IF p = "comments" /\ q \in ReactionsTo(item.id) THEN {}
                    ELSE site[q]]
      BY <1>2, <1>4
    <2>2. DOMAIN site' = DOMAIN site /\ \A q \in DOMAIN site : site'[q] \subseteq site[q]
      BY <2>1
    <2>3. site' \in [DOMAIN site -> SUBSET Item]
      <3>1. \A q \in DOMAIN site : site'[q] \in SUBSET Item
        BY <1>1, <2>2
      <3> QED
        BY <2>1, <2>2, <3>1
    <2>4. "threads" \in DOMAIN site => ThreadsOK'
      <3> SUFFICES ASSUME "threads" \in DOMAIN site PROVE ThreadsOK'
        OBVIOUS
      <3>1. ThreadsOK
        BY DEF SiteOK
      <3>2. site'["threads"] = site["threads"] \/ ("threads" \in Reacted /\ site'["threads"] = {})
        BY <1>1, <2>1 DEF ReactionsTo, Reacted
      <3>3. "threads" \notin Reacted
        BY HydrationAssumption DEF FamiliesOf
      <3>4. \A t \in Threads : Inner[t] \in DOMAIN site' /\ site'[Inner[t]] # {}
                               => Inner[t] \in DOMAIN site /\ site[Inner[t]] # {}
        BY <2>2
      <3> QED
        BY <3>1, <3>2, <3>3, <3>4 DEF ThreadsOK
    <2> QED
      BY <1>1, <2>2, <2>3, <2>4, SiteShrinks
  <1> QED
    BY <1>3, <1>4

(* What holds of GitHub holds of it after any change. *)
LEMMA SiteStep ==
    ASSUME SiteOK, GitHubChanges
    PROVE  SiteOK' /\ Grown /\ ((site' = site /\ read' = read) \/ Carried)
  <1>1. CASE HideOrShow
    <2>1. site' = site /\ born' = born /\ parent' = parent /\ read' = read
      BY <1>1 DEF HideOrShow
    <2>2. SiteOK'
      BY <2>1 DEF SiteOK, ThreadsOK
    <2>3. Grown
      BY <2>1, SiteIs DEF Grown
    <2> QED
      BY <2>1, <2>2, <2>3
  <1>2. ASSUME NEW p \in parent.changing, Add(p) \/ Edit(p) \/ Withdraw(p)
        PROVE  SiteOK' /\ Grown /\ Carried
    <2>1. SiteOK' /\ Grown
      BY <1>2, SiteAdd, SiteEdit, SiteWithdraw
    <2>2. \E new : Change(new)
      BY <1>2 DEF Add, Edit, Withdraw
    <2>3. Carried
      BY <2>2 DEF Change, Carried
    <2> QED
      BY <2>1, <2>3
  <1> QED
    BY <1>1, <1>2 DEF GitHubChanges

(* What is read by a transport is held, item by item. *)
LEMMA HeldIs ==
    ASSUME SiteOK, NEW p, p = "review-comments" \/ p \in DOMAIN site
    PROVE  /\ Proper(Held(site, p)) /\ Held(site, p) \in SUBSET Item
           /\ \A x \in Held(site, p) : x.id <= born /\ x.id \in Nat /\ x.id \in Ids(Held(site, p))
           /\ Ids(Held(site, p)) \in SUBSET Nat /\ IsFiniteSet(Ids(Held(site, p)))
  <1>1. Proper(Held(site, p)) /\ \A x \in Held(site, p) : x.id <= born
    <2>1. CASE p # "review-comments"
      BY <2>1, SiteIs DEF Held
    <2>2. CASE p = "review-comments"
      <3> DEFINE D == Comments \intersect DOMAIN site
                 sets == {site[c] : c \in D}
                 f == [c \in D |-> site[c]]
      <3>1. Held(site, p) = UNION sets
        BY <2>2 DEF Held
      <3>2. IsFiniteSet(D)
        BY SiteIs, FS_Subset
      <3>3. IsFiniteSet(sets)
        <4>1. f \in [D -> sets] /\ \A s \in sets : \E c \in D : f[c] = s
          OBVIOUS
        <4> HIDE DEF f, sets, D
        <4>2. f \in Surjection(D, sets)
          BY <4>1, Fun_IsSurj
        <4> QED
          BY <3>2, <4>2, FS_Surjection
      <3>4. \A s \in sets : IsFiniteSet(s)
        BY SiteIs DEF Proper
      <3>5. IsFiniteSet(UNION sets)
        <4> HIDE DEF sets
        <4> QED
          BY <3>3, <3>4, FS_UNION
      <3>6. \A x \in UNION sets : x \in Item /\ x.id <= born
        BY SiteIs
      <3>7. ASSUME NEW x \in UNION sets, NEW y \in UNION sets, x.id = y.id PROVE x = y
        <4>1. PICK c \in D : x \in site[c]
          OBVIOUS
        <4>2. PICK d \in D : y \in site[d]
          OBVIOUS
        <4>3. c = d
          BY <3>7, <4>1, <4>2, SiteIs
        <4>4. Proper(site[c])
          BY SiteIs
        <4> QED
          BY <3>7, <4>1, <4>2, <4>3, <4>4 DEF Proper
      <3> HIDE DEF sets
      <3> QED
        BY <3>1, <3>5, <3>6, <3>7 DEF Proper
    <2> QED
      BY <2>1, <2>2
  <1>2. Held(site, p) \in SUBSET Item
    BY <1>1 DEF Proper
  <1>3. Ids(Held(site, p)) \in SUBSET Nat /\ IsFiniteSet(Ids(Held(site, p)))
    BY <1>1, IdsCounted
  <1>4. \A x \in Held(site, p) : x.id \in Ids(Held(site, p))
    BY DEF Ids
  <1> QED
    BY <1>1, <1>2, <1>3, <1>4

(* What is listed by numbers is never given an old identity. *)
LEMMA HeldGrows ==
    ASSUME SiteOK, Grown, NEW p, p = "review-comments" \/ p \in DOMAIN site
    PROVE  \A id \in Ids(Held(site', p)) : id \in Ids(Held(site, p)) \/ id > born
  <1> SUFFICES ASSUME NEW x \in Held(site', p)
               PROVE  x.id \in Ids(Held(site, p)) \/ x.id > born
    BY DEF Ids
  <1>1. CASE p # "review-comments"
    BY <1>1 DEF Held, Grown
  <1>2. CASE p = "review-comments"
    <2>1. PICK c \in Comments \intersect DOMAIN site' : x \in site'[c]
      BY <1>2 DEF Held
    <2>2. c \in DOMAIN site /\ (x.id \in Ids(site[c]) \/ x.id > born)
      BY <2>1 DEF Grown
    <2>3. site[c] \subseteq Held(site, p)
      BY <1>2, <2>1, <2>2 DEF Held
    <2> QED
      BY <2>2, <2>3 DEF Ids
  <1> QED
    BY <1>1, <1>2

(* Facts: the tags are those of the pages of the value.                    *)
Sequence(v) == v \in Seq(ToSet(v))
Sliced(value, cache) ==
    /\ value \in Seq(Item) /\ Ascending(value) /\ Sequence(cache)
    /\ \A i \in DOMAIN cache : cache[i] = Page(value, i)
CacheOK(f, value, cache) == IF f = "reviewers" THEN cache = <<value>> ELSE Sliced(value, cache)
HasTags(fact) == fact # None /\ fact.coverage = "complete" /\ fact.cache # None
FactOK(f, fact) ==
    fact.coverage = "complete" =>
        /\ fact.cache # None => CacheOK(f, fact.value, fact.cache)
        /\ f \in {"comments", "review-comments"} => Sequence(fact.value)
        /\ f = "threads" => Sequence(fact.comments)
(* The transports a family can be read by. *)
WayOK(family, via, previous) ==
    \/ via = "threads" /\ family \in {"threads", "review-comments"}
    \/ via = "connection" /\ family \notin {"threads", "review-comments", "reviewers"}
    \/ via = "list" /\ family \notin {"threads", "relations", "closing", "reviewers"}
    \/ /\ via = "validate" /\ family \notin {"threads", "relations", "closing", "reviewers"}
       /\ CachedPages(previous) # None
    \/ via = "compare" /\ family = "commits"
    \/ via = "object" /\ family = "reviewers"

Whole(r) ==
    r \in [state : {r.state}, family : {r.family}, parts : {r.parts}, via : {r.via},
           left : {r.left}, missing : {r.missing}, previous : {r.previous},
           detail : {r.detail}, page : {r.page}, got : {r.got}, tags : {r.tags},
           total : {r.total}, open : {r.open}, queue : {r.queue}, stay : {r.stay},
           ever : {r.ever}, shifted : {r.shifted}]
Shape(r) ==
    /\ Whole(r) /\ r.family \in parent.families /\ r.parts = PartsOf(r.family, r.via)
    /\ WayOK(r.family, r.via, r.previous) /\ \A v \in r.left : WayOK(r.family, v, r.previous)
    /\ r.via = "connection" => "connection" \notin r.left
    /\ HasTags(r.previous) => CacheOK(r.family, r.previous.value, r.previous.cache)
    /\ r.got \in [r.parts -> Seq(Item)] /\ r.page \in Nat \ {0}

(* What was read was there, in order. *)
Seen(r) ==
    /\ Tagged(r.parts, site) \subseteq r.ever /\ r.stay \subseteq Tagged(r.parts, site)
    /\ Pairs(r.got) \subseteq r.ever
    /\ \A p \in r.parts : Ascending(r.got[p]) /\ \A x \in ToSet(r.got[p]) : x.id <= born
Stays(r, p) == {x \in Held(site, p) : <<p, x>> \in r.stay}

(* Behind a cursor nothing is left out. *)
Cursors(r) ==
    /\ r.open \subseteq r.parts /\ DOMAIN r.total = r.parts
    /\ \A p \in r.parts :
        /\ \A x \in site[p] : Passed(ToSet(r.got[p]), x.id) => x.id \in Ids(ToSet(r.got[p]))
        /\ \A x \in Stays(r, p) :
              Passed(ToSet(r.got[p]), x.id) \/ (r.total[p] # None /\ p \notin r.open)
              => x \in ToSet(r.got[p])
InStepOK(r) == r.open # {} => \A p \in r.parts : r.total[p] # None
Nested(r) ==
    /\ Sequence(r.queue) /\ ToSet(r.queue) \subseteq Comments
    /\ r.open \subseteq {"threads"} \union ToSet(r.queue)
    /\ \A x \in ToSet(r.got["threads"]) : x.id \in Threads /\ r.total[Inner[x.id]] # None
    /\ r.total["threads"] # None /\ "threads" \notin r.open =>
          \A p \in Comments : Stays(r, p) # {} => \E x \in ToSet(r.got["threads"]) : Inner[x.id] = p

(* By numbers: as many items are behind as there were on the pages, and if *)
(* none was taken away, the same.                                          *)
Behind(s, p, n) == {x \in Held(s, p) : Rank(Ids(Held(s, p)), x.id) <= n}
Numbered(r) ==
    \A p \in r.parts :
        /\ Cardinality({id \in Ids(Held(site, p)) : Passed(ToSet(r.got[p]), id)}) <= Start(r.page)
        /\ ~r.shifted => Behind(site, p, Start(r.page)) \intersect Stays(r, p) \subseteq ToSet(r.got[p])
        /\ Len(r.got[p]) = Start(r.page)
        /\ r.page > 1 =>
            /\ Sequence(r.tags) /\ Len(r.tags) = r.page - 1
            /\ \A i \in DOMAIN r.tags : r.tags[i] = Page(r.got[p], i)
Validated(r) ==
    \A p \in r.parts :
        /\ r.got[p] = <<>> /\ r.page <= Len(r.previous.cache)
        /\ \A i \in DOMAIN r.previous.value :
              i <= Start(r.page) => <<p, r.previous.value[i]>> \in r.ever
        /\ ~r.shifted => Behind(site, p, Start(r.page)) \intersect Stays(r, p)
                            \subseteq ToSet(r.previous.value)

RunOK(r) ==
    /\ Shape(r) /\ Seen(r)
    /\ r.via \in {"connection", "threads"} => Cursors(r)
    /\ r.via = "connection" => InStepOK(r)
    /\ r.via = "threads" => Nested(r)
    /\ r.via = "list" => Numbered(r)
    /\ r.via = "validate" => Validated(r)

DoneOK(r) ==
    /\ WayOK(r.family, r.via, r.previous) /\ r.parts = PartsOf(r.family, r.via)
    /\ r.via # "compare" => r.got \in [r.parts -> Seq(Item)]
    /\ r.tags # None => r.via # "threads" /\ CacheOK(r.family, r.got[r.family], r.tags)

(* The connections a family is read from, by each transport. *)
LEMMA PartsAre ==
    ASSUME SiteOK, NEW family \in parent.families, NEW via, NEW previous, WayOK(family, via, previous)
    PROVE  LET parts == PartsOf(family, via) IN
           /\ \A p \in parts : p = "review-comments" \/ p \in DOMAIN site
           /\ IsFiniteSet(parts)
           /\ via \in {"connection", "threads"} =>
                 \A p \in parts : p # "review-comments" /\ p \in DOMAIN site /\ Held(site, p) = site[p]
           /\ via \in {"list", "validate", "object", "compare"} => parts = {family}
           /\ via = "threads" => parts = {"threads"} \union Comments
           /\ family # "review-comments" => family \in parts \/ via = "connection"
  <1> DEFINE parts == PartsOf(family, via)
  <1>1. Connections(family) \subseteq DOMAIN site
    BY SiteIs, ParentIs
  <1>2. CASE via = "threads"
    <2>1. family \in {"threads", "review-comments"}
      BY <1>2 DEF WayOK
    <2>2. parts = {"threads"} \union Comments /\ parts = Connections(family)
      BY <1>2, <2>1 DEF PartsOf, Connections
    <2>3. \A p \in parts : p # "review-comments" /\ p \in DOMAIN site
      BY <1>1, <2>2, ThreadsAre
    <2>4. \A p \in parts : Held(site, p) = site[p]
      BY <2>3 DEF Held
    <2>5. IsFiniteSet(parts)
      <3> HIDE DEF parts
      <3> QED
        BY <1>1, <2>2, SiteIs, FS_Subset
    <2> HIDE DEF parts
    <2>6. family # "review-comments" => family \in parts
      BY <2>1, <2>2
    <2> QED
      BY <1>2, <2>2, <2>3, <2>4, <2>5, <2>6 DEF parts
  <1>3. CASE via = "connection"
    <2>1. family \notin {"threads", "review-comments"}
      BY <1>3 DEF WayOK
    <2>2. parts = Connections(family)
      BY <1>3, <2>1 DEF PartsOf
    <2>3. "review-comments" \notin parts
      <3>1. Connections(family) \in {{"subIssues", "blockedBy", "blocking"},
                                     {"closing", "closing of another"}, {family}}
        BY <2>1 DEF Connections
      <3> HIDE DEF parts
      <3> QED
        BY <2>1, <2>2, <3>1
    <2>4. \A p \in parts : Held(site, p) = site[p]
      BY <2>3 DEF Held
    <2>5. IsFiniteSet(parts)
      <3> HIDE DEF parts
      <3> QED
        BY <1>1, <2>2, SiteIs, FS_Subset
    <2> HIDE DEF parts
    <2> QED
      BY <1>1, <1>3, <2>2, <2>3, <2>4, <2>5 DEF parts
  <1>4. CASE via \in {"list", "validate", "object", "compare"}
    <2>1. family \notin {"threads", "relations", "closing"}
      BY <1>4 DEF WayOK
    <2>2. parts = {family}
      BY <1>4, <2>1 DEF PartsOf, Connections
    <2>3. family # "review-comments" => family \in DOMAIN site
      BY <1>1, <2>1 DEF Connections
    <2>4. IsFiniteSet({family})
      BY FS_Singleton
    <2> HIDE DEF parts
    <2> QED
      BY <1>4, <2>2, <2>3, <2>4 DEF parts
  <1> QED
    BY <1>2, <1>3, <1>4 DEF WayOK

(* The fields of a read that runs. *)
LEMMA RunFields ==
    ASSUME NEW r, RunOK(r), SiteOK
    PROVE  /\ Whole(r) /\ r.family \in parent.families /\ r.parts = PartsOf(r.family, r.via)
           /\ \A p \in r.parts :  /\ p = "review-comments" \/ p \in DOMAIN site
                                  /\ r.got[p] \in Seq(Item) /\ Ascending(r.got[p])
                                  /\ ToSet(r.got[p]) \subseteq Item
                                  /\ \A x \in ToSet(r.got[p]) : x.id <= born /\ x.id \in Nat
           /\ IsFiniteSet(r.parts)
           /\ r.via \in {"connection", "threads"} =>
                 \A p \in r.parts : p # "review-comments" /\ p \in DOMAIN site /\ Held(site, p) = site[p]
           /\ r.via \in {"list", "validate", "object", "compare"} => r.parts = {r.family}
           /\ r.via = "threads" => r.parts = {"threads"} \union Comments
           /\ r.via \in {"connection", "threads", "list", "validate", "object", "compare"}
  <1>1. Shape(r) /\ Seen(r)
    BY DEF RunOK
  <1>2. WayOK(r.family, r.via, r.previous) /\ r.family \in parent.families
        /\ r.parts = PartsOf(r.family, r.via) /\ Whole(r) /\ r.got \in [r.parts -> Seq(Item)]
    BY <1>1 DEF Shape
  <1>3. \A p \in r.parts : Ascending(r.got[p]) /\ \A x \in ToSet(r.got[p]) : x.id <= born
    BY <1>1 DEF Seen
  <1>4. \A p \in r.parts : r.got[p] \in Seq(Item) /\ ToSet(r.got[p]) \subseteq Item
    BY <1>2, ToSetIs
  <1>5. \A x \in Item : x.id \in Nat
    BY DEF Item
  <1>6. r.via \in {"connection", "threads", "list", "validate", "object", "compare"}
    BY <1>2 DEF WayOK
  <1>7. /\ \A p \in r.parts : p = "review-comments" \/ p \in DOMAIN site
        /\ IsFiniteSet(r.parts)
        /\ r.via \in {"connection", "threads"} =>
                 \A p \in r.parts : p # "review-comments" /\ p \in DOMAIN site /\ Held(site, p) = site[p]
        /\ r.via \in {"list", "validate", "object", "compare"} => r.parts = {r.family}
        /\ r.via = "threads" => r.parts = {"threads"} \union Comments
    BY <1>2, PartsAre
  <1> QED
    BY <1>2, <1>3, <1>4, <1>5, <1>6, <1>7

(* A change on GitHub takes nothing from what a read can rely on. *)
LEMMA RunChange ==
    ASSUME SiteOK, SiteOK', Grown, Carried, read.state = "running", RunOK(read)
    PROVE  RunOK(read)' /\ read'.state = "running" /\ read'.family = read.family
  <1>1. /\ Whole(read) /\ IsFiniteSet(read.parts) /\ read.family \in parent.families
        /\ \A p \in read.parts : /\ p = "review-comments" \/ p \in DOMAIN site
                                 /\ ToSet(read.got[p]) \subseteq Item
                                 /\ \A x \in ToSet(read.got[p]) : x.id <= born /\ x.id \in Nat
        /\ read.via \in {"connection", "threads"} =>
                 \A p \in read.parts : p # "review-comments" /\ p \in DOMAIN site
    BY RunFields
  <1>2. /\ read'.stay = read.stay \cap Tagged(read.parts, site')
        /\ read'.ever = read.ever \union Tagged(read.parts, site')
        /\ read'.shifted = (read.shifted \/ \E p \in read.parts :
                                 ~(Ids(Held(site, p)) \subseteq Ids(Held(site', p))))
        /\ read'.state = "running" /\ read'.family = read.family /\ read'.parts = read.parts
        /\ read'.via = read.via /\ read'.left = read.left /\ read'.missing = read.missing
        /\ read'.previous = read.previous /\ read'.detail = read.detail /\ read'.page = read.page
        /\ read'.got = read.got /\ read'.tags = read.tags /\ read'.total = read.total
        /\ read'.open = read.open /\ read'.queue = read.queue /\ Whole(read')
    BY <1>1 DEF Carried, Whole
  <1>3. parent' = parent /\ born \in Nat /\ born' \in Nat /\ born <= born' /\ DOMAIN site' = DOMAIN site
    BY SiteIs DEF Grown, SiteOK
  <1>0. \A p \in read.parts : \A x \in Held(site', p) : x.id \in Nat
    <2>1. \A p \in DOMAIN site' : site'[p] \in SUBSET Item
      BY DEF SiteOK
    <2>2. \A p \in read.parts : Held(site', p) \subseteq Item
      BY <1>1, <1>3, <2>1 DEF Held
    <2> QED
      BY <2>2 DEF Item
  <1>4. Shape(read)'
    <2>1. Shape(read)
      BY DEF RunOK
    <2> QED
      BY <1>2, <1>3, <2>1 DEF Shape
  <1>5. Seen(read)
    BY DEF RunOK
  <1>6. Seen(read)'
    <2>1. Tagged(read'.parts, site') \subseteq read'.ever
      BY <1>2
    <2>2. read'.stay \subseteq Tagged(read'.parts, site')
      BY <1>2
    <2>3. Pairs(read'.got) \subseteq read'.ever
      BY <1>2, <1>5 DEF Seen
    <2>4. \A p \in read'.parts : Ascending(read'.got[p]) /\ \A x \in ToSet(read'.got[p]) : x.id <= born'
      <3>1. \A p \in read.parts : Ascending(read.got[p])
        BY <1>5 DEF Seen
      <3>2. \A p \in read.parts : \A x \in ToSet(read.got[p]) : x.id <= born'
        BY <1>1, <1>3
      <3> QED
        BY <1>2, <3>1, <3>2
    <2> QED
      BY <2>1, <2>2, <2>3, <2>4 DEF Seen
  <1>7. \A p \in read.parts : \A x \in Stays(read, p)' :
            x \in Stays(read, p) /\ x \in Held(site', p) /\ x \in Held(site, p) /\ x.id \in Nat /\ x.id <= born
    <2> SUFFICES ASSUME NEW p \in read.parts, NEW x \in Stays(read, p)'
                 PROVE  x \in Stays(read, p) /\ x \in Held(site', p) /\ x \in Held(site, p)
                        /\ x.id \in Nat /\ x.id <= born
      OBVIOUS
    <2>1. x \in Held(site', p) /\ <<p, x>> \in read'.stay
      BY DEF Stays
    <2>2. <<p, x>> \in read.stay /\ <<p, x>> \in Tagged(read.parts, site)
      BY <1>2, <1>5, <2>1 DEF Seen
    <2>3. x \in Held(site, p)
      BY <2>2 DEF Tagged
    <2>4. x.id \in Nat /\ x.id <= born
      BY <1>1, <2>3, HeldIs
    <2> QED
      BY <2>1, <2>2, <2>3, <2>4 DEF Stays
  <1>8. read'.via \in {"connection", "threads"} => Cursors(read)'
    <2> SUFFICES ASSUME read.via \in {"connection", "threads"} PROVE Cursors(read)'
      BY <1>2
    <2>1. Cursors(read)
      BY DEF RunOK
    <2>2. ASSUME NEW p \in read.parts, NEW x \in site'[p], Passed(ToSet(read.got[p]), x.id)
          PROVE  x.id \in Ids(ToSet(read.got[p]))
      <3>1. PICK y \in ToSet(read.got[p]) : x.id <= y.id
        BY <2>2 DEF Passed
      <3>2. p \in DOMAIN site /\ p \in DOMAIN site' /\ y.id <= born /\ y.id \in Nat
        BY <1>1, <1>3
      <3>3. x.id \in Nat
        BY <3>2, HeldIs DEF SiteOK, Proper, Item
      <3>4. x.id \in Ids(site[p])
        BY <1>3, <3>1, <3>2, <3>3 DEF Grown
      <3>5. PICK z \in site[p] : z.id = x.id
        BY <3>4 DEF Ids
      <3> QED
        BY <2>1, <2>2, <3>5 DEF Cursors
    <2>3. \A p \in read.parts : \A x \in Stays(read, p)' :
              Passed(ToSet(read.got[p]), x.id) \/ (read.total[p] # None /\ p \notin read.open)
              => x \in ToSet(read.got[p])
      BY <1>7, <2>1 DEF Cursors
    <2>4. read.open \subseteq read.parts /\ DOMAIN read.total = read.parts
      BY <2>1 DEF Cursors
    <2> QED
      BY <1>2, <2>2, <2>3, <2>4 DEF Cursors
  <1>9. read'.via = "connection" => InStepOK(read)'
    BY <1>2 DEF RunOK, InStepOK
  <1>10. read'.via = "threads" => Nested(read)'
    <2> SUFFICES ASSUME read.via = "threads" PROVE Nested(read)'
      BY <1>2
    <2>1. Nested(read)
      BY DEF RunOK
    <2>2. Comments \subseteq read.parts
      BY RunFields
    <2>3. \A p \in Comments : Stays(read, p)' # {} => Stays(read, p) # {}
      BY <1>7, <2>2
    <2> QED
      BY <1>2, <2>1, <2>3 DEF Nested
  <1>11. ASSUME NEW p \in read.parts, NEW k, ~read'.shifted
         PROVE  (Behind(site, p, k) \intersect Stays(read, p))' \subseteq Behind(site, p, k) \intersect Stays(read, p)
    <2> DEFINE old == Ids(Held(site, p))
               new == Ids(Held(site', p))
    <2>1. old \subseteq new
      BY <1>2, <1>11
    <2>2. \A id \in new : id \in old \/ id > born
      BY <1>1, HeldGrows
    <2>3. ASSUME NEW x \in Stays(read, p)' PROVE Rank(new, x.id) = Rank(old, x.id)
      <3>1. x.id \in Nat /\ x.id <= born
        BY <1>7
      <3>2. new \in SUBSET Nat
        BY <1>0 DEF Ids
      <3> HIDE DEF old, new
      <3>3. \A id \in new : id <= x.id => id \in old
        BY <1>3, <2>2, <3>1, <3>2
      <3>4. {id \in new : id <= x.id} = {id \in old : id <= x.id}
        BY <2>1, <3>3
      <3> QED
        BY <3>4 DEF Rank
    <2> QED
      BY <1>7, <2>3 DEF Behind
  <1>12. read'.via = "list" => Numbered(read)'
    <2> SUFFICES ASSUME read.via = "list", NEW p \in read.parts
                 PROVE  /\ Cardinality({id \in Ids(Held(site', p)) : Passed(ToSet(read'.got[p]), id)}) <= Start(read'.page)
                        /\ ~read'.shifted => (Behind(site, p, Start(read.page)) \intersect Stays(read, p))' \subseteq ToSet(read'.got[p])
                        /\ Len(read'.got[p]) = Start(read'.page)
                        /\ read'.page > 1 =>
                            /\ Sequence(read'.tags) /\ Len(read'.tags) = read'.page - 1
                            /\ \A i \in DOMAIN read'.tags : read'.tags[i] = Page(read'.got[p], i)
      BY <1>2 DEF Numbered
    <2> DEFINE passed == {id \in Ids(Held(site, p)) : Passed(ToSet(read.got[p]), id)}
               passed2 == {id \in Ids(Held(site', p)) : Passed(ToSet(read'.got[p]), id)}
    <2>1. Numbered(read)
      BY DEF RunOK
    <2>2. passed2 \subseteq passed
      <3> SUFFICES ASSUME NEW id \in passed2 PROVE id \in Ids(Held(site, p))
        BY <1>2
      <3>1. PICK y \in ToSet(read.got[p]) : id <= y.id
        BY <1>2 DEF Passed
      <3>2. y.id \in Nat /\ y.id <= born
        BY <1>1
      <3>3. id \in Nat
        BY <1>0 DEF Ids
      <3>4. ~(id > born)
        BY <1>3, <3>1, <3>2, <3>3
      <3>5. id \in Ids(Held(site, p))
        BY <1>1, <3>4, HeldGrows
      <3> QED
        BY <3>5
    <2>3. IsFiniteSet(passed) /\ Cardinality(passed) \in Nat
      <3>1. IsFiniteSet(Ids(Held(site, p)))
        BY <1>1, HeldIs
      <3>2. passed \subseteq Ids(Held(site, p))
        OBVIOUS
      <3> QED
        BY <3>1, <3>2, FS_Subset, FS_CardinalityType
    <2>4. Cardinality(passed2) <= Cardinality(passed) /\ Cardinality(passed2) \in Nat
      <3> HIDE DEF passed, passed2
      <3> QED
        BY <2>2, <2>3, FS_Subset, FS_CardinalityType
    <2>5. read.page \in Nat \ {0} /\ Start(read.page) \in Nat
      <3>1. read.page \in Nat \ {0}
        BY DEF RunOK, Shape
      <3> QED
        BY <3>1, Starts
    <2>6. Cardinality(passed) <= Start(read.page)
      BY <2>1 DEF Numbered
    <2>7. Cardinality(passed2) <= Start(read.page)
      <3> HIDE DEF passed, passed2
      <3> QED
        BY <2>3, <2>4, <2>5, <2>6
    <2>8. ~read'.shifted => (Behind(site, p, Start(read.page)) \intersect Stays(read, p))' \subseteq ToSet(read.got[p])
      <3> SUFFICES ASSUME ~read'.shifted
                   PROVE  (Behind(site, p, Start(read.page)) \intersect Stays(read, p))' \subseteq ToSet(read.got[p])
        OBVIOUS
      <3>1. ~read.shifted
        BY <1>2
      <3>2. Behind(site, p, Start(read.page)) \intersect Stays(read, p) \subseteq ToSet(read.got[p])
        BY <2>1, <3>1 DEF Numbered
      <3>3. (Behind(site, p, Start(read.page)) \intersect Stays(read, p))' \subseteq Behind(site, p, Start(read.page)) \intersect Stays(read, p)
        BY <1>11, <1>2
      <3> QED
        BY <3>2, <3>3
    <2>9. /\ Len(read'.got[p]) = Start(read'.page)
          /\ read'.page > 1 =>
                /\ Sequence(read'.tags) /\ Len(read'.tags) = read'.page - 1
                /\ \A i \in DOMAIN read'.tags : read'.tags[i] = Page(read'.got[p], i)
      BY <1>2, <2>1 DEF Numbered
    <2> HIDE DEF passed2
    <2>10. Cardinality(passed2) <= Start(read'.page)
      BY <1>2, <2>7
    <2>11. ~read'.shifted => (Behind(site, p, Start(read.page)) \intersect Stays(read, p))' \subseteq ToSet(read'.got[p])
      BY <1>2, <2>8
    <2> QED
      BY <2>9, <2>10, <2>11 DEF passed2
  <1>13. read'.via = "validate" => Validated(read)'
    <2> SUFFICES ASSUME read.via = "validate" PROVE Validated(read)'
      BY <1>2
    <2>1. Validated(read)
      BY DEF RunOK
    <2>2. ASSUME NEW p \in read.parts, ~read'.shifted
          PROVE  (Behind(site, p, Start(read.page)) \intersect Stays(read, p))' \subseteq ToSet(read.previous.value)
      <3>1. ~read.shifted
        BY <1>2, <2>2
      <3>2. Behind(site, p, Start(read.page)) \intersect Stays(read, p) \subseteq ToSet(read.previous.value)
        BY <2>1, <3>1 DEF Validated
      <3>3. (Behind(site, p, Start(read.page)) \intersect Stays(read, p))' \subseteq Behind(site, p, Start(read.page)) \intersect Stays(read, p)
        BY <1>11, <1>2, <2>2
      <3> QED
        BY <3>2, <3>3
    <2>3. \A p \in read.parts :
            /\ read.got[p] = <<>> /\ read.page <= Len(read.previous.cache)
            /\ \A i \in DOMAIN read.previous.value :
                  i <= Start(read.page) => <<p, read.previous.value[i]>> \in read'.ever
      BY <1>2, <2>1 DEF Validated
    <2> QED
      BY <1>2, <2>2, <2>3 DEF Validated
  <1> QED
    BY <1>2, <1>4, <1>6, <1>8, <1>9, <1>10, <1>12, <1>13 DEF RunOK

(* With GitHub as it is, what holds of a read holds of it in the next state. *)
LEMMA RunSame ==
    ASSUME NEW n, RunOK(n), read' = n, UNCHANGED <<parent, site, born>>
    PROVE  RunOK(read)'
  <1>1. parent' = parent /\ site' = site /\ born' = born
    OBVIOUS
  <1>2. \A p : Stays(read, p)' = Stays(n, p)
    BY <1>1 DEF Stays
  <1>3. Shape(read)'
    BY <1>1 DEF RunOK, Shape
  <1>4. Seen(read)'
    BY <1>1 DEF RunOK, Seen
  <1>5. Cursors(n) => Cursors(read)'
    BY <1>1, <1>2 DEF Cursors
  <1>6. InStepOK(n) => InStepOK(read)'
    BY DEF InStepOK
  <1>7. Nested(n) => Nested(read)'
    BY <1>2 DEF Nested
  <1>8. Numbered(n) => Numbered(read)'
    BY <1>1, <1>2 DEF Numbered
  <1>9. Validated(n) => Validated(read)'
    BY <1>1, <1>2 DEF Validated
  <1> QED
    BY <1>3, <1>4, <1>5, <1>6, <1>7, <1>8, <1>9 DEF RunOK

(* Tags that may be validated are those of the fact. *)
LEMMA CachedPagesAre ==
    ASSUME NEW fact, CachedPages(fact) # None
    PROVE  /\ CachedPages(fact) = fact.cache /\ Closed(fact.cache) /\ Sizes(fact.cache) = Len(fact.value)
           /\ HasTags(fact)
  BY DEF CachedPages, HasTags

(* Nothing is behind the start. *)
LEMMA NoneBehind ==
    ASSUME SiteOK, NEW p, p = "review-comments" \/ p \in DOMAIN site
    PROVE  Behind(site, p, 0) = {}
  <1> SUFFICES ASSUME NEW x \in Held(site, p), Rank(Ids(Held(site, p)), x.id) <= 0 PROVE FALSE
    BY DEF Behind
  <1> DEFINE ids == Ids(Held(site, p))
  <1>1. ids \in SUBSET Nat /\ IsFiniteSet(ids) /\ x.id \in ids
    BY HeldIs
  <1> HIDE DEF ids
  <1>2. Rank(ids, x.id) \in 1 .. Cardinality(ids) /\ Cardinality(ids) \in Nat
    BY <1>1, RankGrows, FS_CardinalityType
  <1> QED
    BY <1>2 DEF ids

(* A read that begins. *)
LEMMA RunStart ==
    ASSUME SiteOK, NEW f \in parent.families, NEW via, NEW left, NEW previous, NEW d,
           WayOK(f, via, previous), \A v \in left : WayOK(f, v, previous),
           via = "connection" => "connection" \notin left,
           HasTags(previous) => CacheOK(f, previous.value, previous.cache)
    PROVE  LET n == Reading(f, via, left, previous, d) IN
           RunOK(n) /\ n.state = "running" /\ n.family = f /\ n.via = via /\ n.left = left
  <1> DEFINE n == Reading(f, via, left, previous, d)
             parts == PartsOf(f, via)
  <1>1. /\ n.state = "running" /\ n.family = f /\ n.parts = parts /\ n.via = via /\ n.left = left
        /\ n.missing = None /\ n.previous = previous /\ n.detail = d /\ n.page = 1
        /\ n.got = [p \in parts |-> <<>>] /\ n.tags = None /\ n.total = [p \in parts |-> None]
        /\ n.open = {} /\ n.queue = <<>>
        /\ n.stay = Tagged(parts, site) /\ n.ever = Tagged(parts, site) /\ n.shifted = FALSE
        /\ Whole(n)
    BY DEF Reading, Whole
  <1> HIDE DEF n
  <1>2. /\ \A p \in parts : p = "review-comments" \/ p \in DOMAIN site
        /\ via = "threads" => parts = {"threads"} \union Comments
    BY PartsAre
  <1> HIDE DEF parts
  <1>3. \A p \in parts : n.got[p] = <<>> /\ ToSet(n.got[p]) = {}
    <2>1. ToSet(<<>>) = {}
      BY DEF ToSet
    <2> QED
      BY <1>1, <2>1
  <1>4. Shape(n)
    <2>1. n.got \in [parts -> Seq(Item)]
      BY <1>1
    <2> QED
      BY <1>1, <2>1 DEF Shape, parts
  <1>5. Seen(n)
    <2>1. Pairs(n.got) = {}
      BY <1>1, <1>3 DEF Pairs
    <2>2. Ascending(<<>>)
      BY DEF Ascending
    <2> QED
      BY <1>1, <1>3, <2>1, <2>2 DEF Seen
  <1>6. Cursors(n)
    <2>1. \A id : ~Passed({}, id)
      BY DEF Passed
    <2> QED
      BY <1>1, <1>3, <2>1 DEF Cursors
  <1>7. InStepOK(n)
    BY <1>1 DEF InStepOK
  <1>8. via = "threads" => Nested(n)
    <2>1. ToSet(<<>>) = {} /\ Sequence(<<>>)
      BY DEF ToSet, Sequence
    <2> QED
      BY <1>1, <1>2, <1>3, <2>1 DEF Nested
  <1>9. \A p \in parts : Behind(site, p, Start(n.page)) = {}
    BY <1>1, <1>2, NoneBehind, Starts
  <1>10. Numbered(n)
    <2> SUFFICES ASSUME NEW p \in parts
                 PROVE  /\ Cardinality({id \in Ids(Held(site, p)) : Passed(ToSet(n.got[p]), id)}) <= Start(n.page)
                        /\ Behind(site, p, Start(n.page)) \subseteq ToSet(n.got[p])
                        /\ Len(n.got[p]) = Start(n.page)
                        /\ ~(n.page > 1)
      BY <1>1 DEF Numbered
    <2>1. {id \in Ids(Held(site, p)) : Passed(ToSet(n.got[p]), id)} = {}
      BY <1>3 DEF Passed
    <2>2. Start(n.page) = 0 /\ Cardinality({}) = 0
      BY <1>1, Starts, FS_EmptySet
    <2>3. n.got[p] = <<>> /\ Len(<<>>) = 0 /\ ~(n.page > 1) /\ Behind(site, p, Start(n.page)) = {}
      BY <1>1, <1>3, <1>9
    <2>4. Cardinality({id \in Ids(Held(site, p)) : Passed(ToSet(n.got[p]), id)}) = 0
      BY <2>1, <2>2
    <2> QED
      BY <2>2, <2>3, <2>4
  <1>11. via = "validate" => Validated(n)
    <2> SUFFICES ASSUME via = "validate" PROVE Validated(n)
      OBVIOUS
    <2>1. CachedPages(previous) # None /\ f # "reviewers"
      BY DEF WayOK
    <2>2. Sliced(previous.value, previous.cache) /\ Closed(previous.cache)
      BY <2>1, CachedPagesAre DEF CacheOK
    <2>3. 1 <= Len(previous.cache)
      <3>1. previous.cache \in Seq(ToSet(previous.cache)) /\ previous.cache # <<>>
        BY <2>2 DEF Sliced, Sequence, Closed
      <3> QED
        BY <3>1
    <2>4. \A i \in DOMAIN previous.value : ~(i <= 0)
      BY <2>2 DEF Sliced
    <2>5. Start(1) = 0
      BY Starts
    <2> QED
      BY <1>1, <1>3, <1>9, <2>3, <2>4, <2>5 DEF Validated
  <1>12. RunOK(n)
    BY <1>1, <1>4, <1>5, <1>6, <1>7, <1>8, <1>10, <1>11 DEF RunOK
  <1> QED
    BY <1>1, <1>12 DEF n

(* What a failed attempt has learned does not matter to the next. *)
LEMMA RunMissing ==
    ASSUME NEW r, RunOK(r), NEW m
    PROVE  LET n == [r EXCEPT !.missing = m] IN
           RunOK(n) /\ n.state = r.state /\ n.family = r.family /\ n.via = r.via
  <1> DEFINE n == [r EXCEPT !.missing = m]
  <1>1. Whole(r)
    BY DEF RunOK, Shape
  <1>2. /\ n.state = r.state /\ n.family = r.family /\ n.parts = r.parts /\ n.via = r.via /\ n.left = r.left
        /\ n.previous = r.previous /\ n.page = r.page /\ n.got = r.got /\ n.tags = r.tags
        /\ n.total = r.total /\ n.open = r.open /\ n.queue = r.queue
        /\ n.stay = r.stay /\ n.ever = r.ever /\ n.shifted = r.shifted /\ Whole(n)
    BY <1>1 DEF Whole
  <1> HIDE DEF n
  <1>3. \A p : Stays(n, p) = Stays(r, p)
    BY <1>2 DEF Stays
  <1>4. Shape(n) /\ Seen(n)
    BY <1>2 DEF RunOK, Shape, Seen
  <1>5. (Cursors(r) => Cursors(n)) /\ (InStepOK(r) => InStepOK(n)) /\ (Nested(r) => Nested(n))
    BY <1>2, <1>3 DEF Cursors, InStepOK, Nested
  <1>6. (Numbered(r) => Numbered(n)) /\ (Validated(r) => Validated(n))
    <2>1. /\ n.parts = r.parts /\ n.page = r.page /\ n.got = r.got /\ n.tags = r.tags
          /\ n.shifted = r.shifted /\ n.previous = r.previous
      BY <1>2
    <2>2. ASSUME Numbered(r) PROVE Numbered(n)
      <3> SUFFICES ASSUME NEW p \in n.parts
                   PROVE  /\ Cardinality({id \in Ids(Held(site, p)) : Passed(ToSet(n.got[p]), id)})
                                 <= Start(n.page)
                          /\ ~n.shifted => Behind(site, p, Start(n.page)) \intersect Stays(n, p)
                                              \subseteq ToSet(n.got[p])
                          /\ Len(n.got[p]) = Start(n.page)
                          /\ n.page > 1 =>
                              /\ Sequence(n.tags) /\ Len(n.tags) = n.page - 1
                              /\ \A i \in DOMAIN n.tags : n.tags[i] = Page(n.got[p], i)
        BY DEF Numbered
      <3>1. n.got[p] = r.got[p] /\ Stays(n, p) = Stays(r, p) /\ p \in r.parts
        BY <1>3, <2>1
      <3>2. {id \in Ids(Held(site, p)) : Passed(ToSet(n.got[p]), id)}
              = {id \in Ids(Held(site, p)) : Passed(ToSet(r.got[p]), id)}
        BY <3>1
      <3>3. Cardinality({id \in Ids(Held(site, p)) : Passed(ToSet(n.got[p]), id)}) <= Start(n.page)
        BY <2>1, <2>2, <3>1, <3>2 DEF Numbered
      <3>4. /\ ~n.shifted => Behind(site, p, Start(n.page)) \intersect Stays(n, p)
                                              \subseteq ToSet(n.got[p])
            /\ Len(n.got[p]) = Start(n.page)
        BY <2>1, <2>2, <3>1 DEF Numbered
      <3>5. n.page > 1 => /\ Sequence(n.tags) /\ Len(n.tags) = n.page - 1
                          /\ \A i \in DOMAIN n.tags : n.tags[i] = Page(n.got[p], i)
        BY <2>1, <2>2, <3>1 DEF Numbered
      <3> QED
        BY <3>3, <3>4, <3>5
    <2>3. ASSUME Validated(r) PROVE Validated(n)
      <3> SUFFICES ASSUME NEW p \in n.parts
                   PROVE  /\ n.got[p] = <<>> /\ n.page <= Len(n.previous.cache)
                          /\ \A i \in DOMAIN n.previous.value :
                                i <= Start(n.page) => <<p, n.previous.value[i]>> \in n.ever
                          /\ ~n.shifted => Behind(site, p, Start(n.page)) \intersect Stays(n, p)
                                              \subseteq ToSet(n.previous.value)
        BY DEF Validated
      <3>1. n.ever = r.ever /\ Stays(n, p) = Stays(r, p) /\ p \in r.parts
        BY <1>2, <1>3
      <3>2. n.got[p] = <<>> /\ n.page <= Len(n.previous.cache)
        BY <2>1, <2>3, <3>1 DEF Validated
      <3>3. \A i \in DOMAIN n.previous.value :
                i <= Start(n.page) => <<p, n.previous.value[i]>> \in n.ever
        BY <2>1, <2>3, <3>1 DEF Validated
      <3>4. ~n.shifted => Behind(site, p, Start(n.page)) \intersect Stays(n, p)
                              \subseteq ToSet(n.previous.value)
        BY <2>1, <2>3, <3>1 DEF Validated
      <3> QED
        BY <3>2, <3>3, <3>4
    <2> QED
      BY <2>2, <2>3
  <1>7. RunOK(n)
    BY <1>2, <1>4, <1>5, <1>6 DEF RunOK
  <1> QED
    BY <1>2, <1>7 DEF n

(* A read that fails goes on by a transport that is left, or ends. *)
LEMMA RunFails ==
    ASSUME SiteOK, RunOK(read), read.state = "running", NEW conclusive
    PROVE  LET n == Failed(conclusive, OtherWay) IN
           /\ n.family = read.family
           /\ \/ n.state = "failed"
              \/ n.state = "running" /\ RunOK(n) /\ n.via \in read.left
  <1> DEFINE missing == IF read.missing = None THEN conclusive ELSE read.missing
             n == Failed(conclusive, OtherWay)
  <1>1. Shape(read) /\ Whole(read)
    BY DEF RunOK, Shape
  <1>2. CASE read.left = {}
    <2>1. n = [read EXCEPT !.state = "failed", !.missing = missing]
      BY <1>2 DEF Failed
    <2> QED
      BY <1>1, <2>1 DEF Whole
  <1>3. CASE read.left # {}
    <2> DEFINE v == CHOOSE v \in read.left : TRUE
    <2>1. n = [OtherWay EXCEPT !.missing = missing]
      BY <1>3 DEF Failed
    <2>2. v \in read.left
      BY <1>3
    <2>3. OtherWay = Reading(read.family, v, {}, read.previous, read.detail)
      BY DEF OtherWay
    <2> HIDE DEF v
    <2>4. RunOK(OtherWay) /\ OtherWay.state = "running" /\ OtherWay.family = read.family /\ OtherWay.via = v
      BY <1>1, <2>2, <2>3, RunStart DEF Shape
    <2> HIDE DEF missing, n
    <2>5. LET k == [OtherWay EXCEPT !.missing = missing] IN
          RunOK(k) /\ k.state = "running" /\ k.family = read.family /\ k.via = v
      BY <2>4, RunMissing
    <2>6. RunOK(n) /\ n.state = "running" /\ n.family = read.family /\ n.via = v
      BY <2>1, <2>5
    <2> QED
      BY <2>2, <2>6 DEF n
  <1> QED
    BY <1>2, <1>3

(* The length of a page. *)
LEMMA PageLength ==
    ASSUME NEW S, NEW s \in Seq(S), NEW n \in Nat \ {0}, NEW k, k = Start(n)
    PROVE  /\ Len(Page(s, n)) \in Nat /\ Len(Page(s, n)) <= PageSize
           /\ Len(s) <= k => Len(Page(s, n)) = 0
           /\ Len(s) > k /\ Len(s) <= k + PageSize => Len(Page(s, n)) = Len(s) - k
           /\ Len(s) >= k + PageSize => Len(Page(s, n)) = PageSize
  <1> DEFINE l == Len(Page(s, n))
  <1>1. l = IF Len(s) <= k THEN 0
            ELSE IF Len(s) <= k + PageSize THEN Len(s) - k ELSE PageSize
    BY PageIs
  <1>2. k \in Nat /\ Len(s) \in Nat /\ PageSize \in Nat /\ PageSize > 0
    BY Starts, PageSizeIs
  <1> HIDE DEF l
  <1>3. CASE Len(s) <= k
    <2>1. l = 0 /\ ~(Len(s) > k) /\ ~(Len(s) >= k + PageSize)
      BY <1>1, <1>2, <1>3
    <2> QED
      BY <1>2, <1>3, <2>1 DEF l
  <1>4. CASE Len(s) > k /\ Len(s) <= k + PageSize
    <2>1. ~(Len(s) <= k)
      BY <1>2, <1>4
    <2>2. l = Len(s) - k
      BY <1>1, <1>4, <2>1
    <2>3. l \in Nat /\ l <= PageSize /\ (Len(s) >= k + PageSize => l = PageSize)
      BY <1>2, <1>4, <2>2
    <2> QED
      BY <2>1, <2>2, <2>3 DEF l
  <1>5. CASE Len(s) > k + PageSize
    <2>1. ~(Len(s) <= k) /\ ~(Len(s) <= k + PageSize)
      BY <1>2, <1>5
    <2>2. l = PageSize
      BY <1>1, <2>1
    <2> QED
      BY <1>2, <2>1, <2>2 DEF l
  <1> QED
    BY <1>2, <1>3, <1>4, <1>5

(* A page by its number: what it holds of the list. *)
LEMMA PageHolds ==
    ASSUME NEW S, Proper(S), NEW n \in Nat \ {0}
    PROVE  LET list == ByAge(S)
               page == Page(list, n)
               k == Start(n) IN
           /\ page \in Seq(Item) /\ ToSet(page) \subseteq S /\ Ascending(page)
           /\ k \in Nat /\ Start(n + 1) = k + PageSize /\ Len(page) \in Nat /\ Len(page) <= PageSize
           /\ HasNext(list, n) => Len(page) = PageSize
           /\ Len(page) < PageSize => ~HasNext(list, n)
           /\ \A i \in 1 .. Len(page) : page[i] \in S /\ Rank(Ids(S), page[i].id) = k + i
           /\ \A y \in S : /\ Rank(Ids(S), y.id) \in Nat
                           /\ Rank(Ids(S), y.id) <= k + PageSize \/ ~HasNext(list, n)
                              => Rank(Ids(S), y.id) <= k \/ \E i \in 1 .. Len(page) :
                                     page[i] = y /\ k + i = Rank(Ids(S), y.id)
           /\ \A y \in S : Rank(Ids(S), y.id) <= k + PageSize \/ ~HasNext(list, n)
                           => Rank(Ids(S), y.id) <= k \/ y \in ToSet(page)
  <1> DEFINE list == ByAge(S)
             page == Page(list, n)
             k == Start(n)
             ids == Ids(S)
  <1>1. /\ list \in Seq(S) /\ Ascending(list) /\ DOMAIN list = 1 .. Len(list) /\ Len(list) \in Nat
        /\ \A i \in DOMAIN list : Rank(ids, list[i].id) = i
        /\ \A x \in S : Rank(ids, x.id) \in DOMAIN list /\ list[Rank(ids, x.id)] = x
    BY ByAgeIs
  <1>2. S \subseteq Item
    BY DEF Proper
  <1> HIDE DEF list, ids
  <1>3. page \in Seq(S) /\ k \in Nat
    BY <1>1, PageIs
  <1>13. \A i \in 1 .. Len(page) : page[i] = list[k + i] /\ k + i \in DOMAIN list
    BY <1>1, PageIs
  <1>14. HasNext(list, n) <=> Len(list) > k + PageSize
    BY <1>1, PageIs
  <1>4. Start(n + 1) = k + PageSize /\ PageSize \in Nat /\ PageSize > 0
    BY Starts, PageSizeIs
  <1>12. /\ Len(page) \in Nat /\ Len(page) <= PageSize
         /\ Len(list) > k /\ Len(list) <= k + PageSize => Len(page) = Len(list) - k
         /\ Len(list) >= k + PageSize => Len(page) = PageSize
    BY <1>1, PageLength
  <1> HIDE DEF page, k
  <1>5. Len(page) \in Nat /\ DOMAIN page = 1 .. Len(page)
    BY <1>3
  <1>6. Len(page) <= PageSize /\ (HasNext(list, n) => Len(page) = PageSize)
        /\ (Len(page) < PageSize => ~HasNext(list, n))
    <2>1. Len(page) <= PageSize
      BY <1>12
    <2>2. ASSUME HasNext(list, n) PROVE Len(page) = PageSize
      <3>1. Len(list) >= k + PageSize
        BY <1>1, <1>3, <1>4, <1>14, <2>2
      <3> QED
        BY <1>12, <3>1
    <2>3. ASSUME Len(page) < PageSize PROVE ~HasNext(list, n)
      <3>1. Len(page) # PageSize
        <4>1. \A a, b \in Nat : a < b => a # b
          OBVIOUS
        <4> QED
          BY <1>4, <1>5, <2>3, <4>1, Zenon
      <3> QED
        BY <2>2, <3>1
    <2> QED
      BY <2>1, <2>2, <2>3
  <1>7. ToSet(page) \subseteq S /\ page \in Seq(Item)
        /\ \A x : x \in ToSet(page) <=> \E i \in 1 .. Len(page) : page[i] = x
    BY <1>2, <1>3, ToSetIs
  <1>8. \A i \in 1 .. Len(page) : page[i] \in S /\ Rank(ids, page[i].id) = k + i
    <2> TAKE i \in 1 .. Len(page)
    <2>1. page[i] = list[k + i] /\ k + i \in DOMAIN list
      BY <1>13
    <2>2. list[k + i] \in S
      BY <1>1, <2>1
    <2> QED
      BY <1>1, <2>1, <2>2
  <1>9. Ascending(page)
    <2> SUFFICES ASSUME NEW i \in DOMAIN page, NEW j \in DOMAIN page, i < j PROVE page[i].id < page[j].id
      BY DEF Ascending
    <2>1. page[i] = list[k + i] /\ page[j] = list[k + j] /\ k + i \in DOMAIN list /\ k + j \in DOMAIN list
      BY <1>5, <1>13
    <2>2. k + i < k + j
      BY <1>3, <1>5
    <2> QED
      BY <1>1, <2>1, <2>2 DEF Ascending
  <1>10. ASSUME NEW y \in S
         PROVE  /\ Rank(ids, y.id) \in Nat
                /\ Rank(ids, y.id) <= k + PageSize \/ ~HasNext(list, n)
                   => Rank(ids, y.id) <= k \/ \E i \in 1 .. Len(page) : page[i] = y /\ k + i = Rank(ids, y.id)
    <2> DEFINE r == Rank(ids, y.id)
    <2>1. r \in 1 .. Len(list) /\ list[r] = y /\ r \in Nat
      BY <1>1
    <2> HIDE DEF r
    <2>2. ASSUME r <= k + PageSize \/ ~HasNext(list, n), ~(r <= k)
          PROVE  \E i \in 1 .. Len(page) : page[i] = y /\ k + i = r
      <3>1. r <= k + PageSize
        BY <1>1, <1>3, <1>4, <1>14, <2>1, <2>2
      <3>2. r - k \in 1 .. Len(page) /\ k + (r - k) = r
        <4>1. r - k <= Len(page)
          <5>1. CASE Len(list) <= k + PageSize
            <6>1. Len(list) > k
              BY <1>1, <1>3, <2>1, <2>2
            <6>2. Len(page) = Len(list) - k
              BY <1>12, <5>1, <6>1
            <6> QED
              BY <1>1, <1>3, <2>1, <6>2
          <5>2. CASE Len(list) > k + PageSize
            <6>0. Len(list) >= k + PageSize
              BY <1>1, <1>3, <1>4, <5>2
            <6>1. Len(page) = PageSize
              BY <1>12, <6>0
            <6> QED
              BY <1>3, <1>4, <2>1, <3>1, <6>1
          <5> QED
            BY <1>1, <1>3, <1>4, <5>1, <5>2
        <4> QED
          BY <1>3, <1>5, <2>1, <2>2, <4>1
      <3>3. page[r - k] = y
        BY <1>13, <2>1, <3>2
      <3> QED
        BY <3>2, <3>3
    <2>3. r <= k + PageSize \/ ~HasNext(list, n)
          => r <= k \/ \E i \in 1 .. Len(page) : page[i] = y /\ k + i = r
      BY <2>2
    <2> QED
      BY <2>1, <2>3 DEF r
  <1>11. \A y \in S : Rank(ids, y.id) <= k + PageSize \/ ~HasNext(list, n)
                       => Rank(ids, y.id) <= k \/ y \in ToSet(page)
    BY <1>7, <1>10
  <1> QED
    BY <1>3, <1>4, <1>5, <1>6, <1>7, <1>8, <1>9, <1>10, <1>11, <1>13, <1>14 DEF list, page, k, ids

(* The next page of a list that has changed since the last one. *)
LEMMA NextOfList ==
    ASSUME NEW S, Proper(S), NEW n \in Nat \ {0}, NEW items \in Seq(Item), Ascending(items),
           Cardinality({id \in Ids(S) : Passed(ToSet(items), id)}) <= Start(n)
    PROVE  LET list == ByAge(S)
               page == Page(list, n)
               got == items \o page IN
           /\ got \in Seq(Item) /\ Ascending(got) /\ ToSet(got) = ToSet(items) \union ToSet(page)
           /\ Len(got) = Len(items) + Len(page)
           /\ HasNext(list, n) => Cardinality({id \in Ids(S) : Passed(ToSet(got), id)}) <= Start(n + 1)
  <1> DEFINE list == ByAge(S)
             page == Page(list, n)
             got == items \o page
             k == Start(n)
             ids == Ids(S)
  <1>1. /\ page \in Seq(Item) /\ ToSet(page) \subseteq S /\ Ascending(page)
        /\ k \in Nat /\ Start(n + 1) = k + PageSize /\ Len(page) \in Nat
        /\ HasNext(list, n) => Len(page) = PageSize
        /\ \A i \in 1 .. Len(page) : page[i] \in S /\ Rank(ids, page[i].id) = k + i
    BY PageHolds
  <1>2. ids \in SUBSET Nat /\ IsFiniteSet(ids) /\ \A x \in S : x.id \in ids
    BY IdsCounted DEF Ids
  <1>3. PageSize \in Nat /\ PageSize > 0
    BY PageSizeIs
  <1> HIDE DEF list, page, k
  <1>4. got \in Seq(Item) /\ ToSet(got) = ToSet(items) \union ToSet(page) /\ Len(got) = Len(items) + Len(page)
    BY <1>1, ToSetOfConcat
  <1>5. \A x : x \in ToSet(page) <=> \E i \in 1 .. Len(page) : page[i] = x
    BY <1>1, ToSetIs
  <1>6. \A x \in ToSet(items) : x.id \in Nat
    <2>1. ToSet(items) \subseteq Item
      BY ToSetIs
    <2> QED
      BY <2>1 DEF Item
  <1> HIDE DEF got, ids
  <1>7. ASSUME NEW x \in ToSet(items), NEW y \in ToSet(page) PROVE x.id < y.id
    <2>1. PICK i \in 1 .. Len(page) : page[i] = y
      BY <1>5
    <2>2. y \in S /\ y.id \in ids /\ Rank(ids, y.id) = k + i /\ y.id \in Nat
      BY <1>1, <1>2, <2>1
    <2> DEFINE passed == {id \in ids : Passed(ToSet(items), id)}
               below == {id \in ids : id <= y.id}
    <2>3. Cardinality(passed) <= k
      BY DEF k, ids
    <2>4. SUFFICES ASSUME y.id <= x.id PROVE FALSE
      BY <1>6, <2>2
    <2>5. below \subseteq passed
      <3> SUFFICES ASSUME NEW id \in ids, id <= y.id PROVE Passed(ToSet(items), id)
        OBVIOUS
      <3>1. id \in Nat /\ x.id \in Nat
        BY <1>2, <1>6
      <3>2. id <= x.id
        BY <2>2, <2>4, <3>1
      <3> QED
        BY <3>2 DEF Passed
    <2>6. IsFiniteSet(passed)
      <3>1. passed \subseteq ids
        OBVIOUS
      <3> QED
        BY <1>2, <3>1, FS_Subset
    <2>7. Cardinality(below) <= Cardinality(passed) /\ Cardinality(below) \in Nat /\ Cardinality(passed) \in Nat
      <3> HIDE DEF below, passed
      <3> QED
        BY <2>5, <2>6, FS_Subset, FS_CardinalityType
    <2>8. Cardinality(below) = k + i
      BY <2>2 DEF Rank
    <2> HIDE DEF below, passed
    <2> QED
      BY <1>1, <2>3, <2>7, <2>8
  <1>8. Ascending(got)
    BY <1>1, <1>7, AscendingConcat DEF got
  <1>9. ASSUME HasNext(list, n)
        PROVE  Cardinality({id \in ids : Passed(ToSet(got), id)}) <= k + PageSize
    <2> DEFINE z == page[PageSize]
               passed == {id \in ids : Passed(ToSet(got), id)}
               below == {id \in ids : id <= z.id}
    <2>1. PageSize \in 1 .. Len(page)
      BY <1>1, <1>3, <1>9
    <2>2. z \in ToSet(page) /\ z \in S /\ z.id \in ids /\ z.id \in Nat /\ Rank(ids, z.id) = k + PageSize
      BY <1>1, <1>2, <1>5, <2>1
    <2>3. ASSUME NEW x \in ToSet(got) PROVE x.id <= z.id /\ x.id \in Nat
      <3>1. CASE x \in ToSet(items)
        BY <1>6, <1>7, <2>2, <3>1
      <3>2. CASE x \in ToSet(page)
        <4>1. PICK i \in 1 .. Len(page) : page[i] = x
          BY <1>5, <3>2
        <4>2. x \in S /\ x.id \in ids /\ x.id \in Nat /\ Rank(ids, x.id) = k + i
          BY <1>1, <1>2, <4>1
        <4>3. i <= PageSize
          BY <1>1, <1>9
        <4>4. z.id < x.id <=> Rank(ids, z.id) < Rank(ids, x.id)
          BY <1>2, <2>2, <4>2, RankGrows
        <4>5. ~(k + PageSize < k + i)
          BY <1>1, <1>3, <4>3
        <4> HIDE DEF z
        <4> QED
          BY <2>2, <4>2, <4>4, <4>5
      <3> QED
        BY <1>4, <3>1, <3>2
    <2> HIDE DEF z
    <2>4. passed \subseteq below
      <3> SUFFICES ASSUME NEW id \in ids, Passed(ToSet(got), id) PROVE id <= z.id
        OBVIOUS
      <3>1. PICK x \in ToSet(got) : id <= x.id
        BY DEF Passed
      <3> QED
        BY <1>2, <2>2, <2>3, <3>1
    <2>5. IsFiniteSet(below)
      <3>1. below \subseteq ids
        OBVIOUS
      <3> QED
        BY <1>2, <3>1, FS_Subset
    <2>6. Cardinality(passed) <= Cardinality(below)
      <3> HIDE DEF below, passed
      <3> QED
        BY <2>4, <2>5, FS_Subset
    <2>7. Cardinality(below) = k + PageSize
      BY <2>2 DEF Rank
    <2> QED
      BY <2>6, <2>7
  <1> QED
    BY <1>1, <1>4, <1>8, <1>9 DEF list, page, got, k, ids

(* The pages of a list that was read page by page. *)
LEMMA PageOfConcat ==
    ASSUME NEW S, NEW s \in Seq(S), NEW t \in Seq(S), NEW n \in Nat \ {0},
           Len(s) = Start(n), Len(t) <= PageSize
    PROVE  /\ Page(s \o t, n) = t
           /\ \A i \in Nat \ {0} : i < n => Page(s \o t, i) = Page(s, i)
  <1> DEFINE k == Start(n)
             w == s \o t
  <1>1. PageSize \in Nat /\ PageSize > 0 /\ k \in Nat /\ Len(s) \in Nat /\ Len(t) \in Nat
    BY PageSizeIs, Starts
  <1>2. w \in Seq(S) /\ Len(w) = k + Len(t)
        /\ (\A i \in 1 .. k : w[i] = s[i]) /\ \A i \in 1 .. Len(t) : w[k + i] = t[i]
    <2>1. w \in Seq(S) /\ Len(w) = Len(s) + Len(t)
          /\ (\A i \in 1 .. Len(s) : w[i] = s[i]) /\ \A i \in 1 .. Len(t) : w[Len(s) + i] = t[i]
      OBVIOUS
    <2> QED
      BY <2>1
  <1> HIDE DEF w
  <1>3. Page(w, n) = t
    <2> DEFINE page == Page(w, n)
    <2>1. /\ page \in Seq(S)
          /\ Len(page) = IF Len(w) <= k THEN 0
                         ELSE IF Len(w) <= k + PageSize THEN Len(w) - k ELSE PageSize
          /\ \A i \in 1 .. Len(page) : page[i] = w[k + i]
      <3>1. w \in Seq(S)
        BY <1>2
      <3> QED
        BY <3>1, PageIs
    <2> HIDE DEF page, k
    <2>2. Len(page) = Len(t)
      BY <1>1, <1>2, <2>1
    <2>3. \A i \in 1 .. Len(page) : page[i] = t[i]
      BY <1>2, <2>1, <2>2
    <2>4. page = t
      BY <2>1, <2>2, <2>3, SeqEqual
    <2> QED
      BY <2>4 DEF page
  <1>4. ASSUME NEW i \in Nat \ {0}, i < n PROVE Page(w, i) = Page(s, i)
    <2> DEFINE a == Page(w, i)
               b == Page(s, i)
               j == Start(i)
    <2>1. j \in Nat /\ j + PageSize <= k
      BY <1>4, Starts
    <2>2. /\ a \in Seq(S)
          /\ \A m \in 1 .. Len(a) : a[m] = w[j + m]
      <3>1. w \in Seq(S) /\ i \in Nat \ {0}
        BY <1>2
      <3> QED
        BY <3>1, PageIs
    <2>3. /\ b \in Seq(S)
          /\ \A m \in 1 .. Len(b) : b[m] = s[j + m]
      BY PageIs
    <2>4. Len(s) = k
      OBVIOUS
    <2>8. (Len(w) >= j + PageSize => Len(a) = PageSize) /\ (Len(s) >= j + PageSize => Len(b) = PageSize)
      BY <1>2, PageLength
    <2> HIDE DEF a, b, j, k
    <2>5. Len(a) = PageSize /\ Len(b) = PageSize
      BY <1>1, <1>2, <2>1, <2>4, <2>8
    <2>6. \A m \in 1 .. Len(a) : a[m] = b[m]
      <3> SUFFICES ASSUME NEW m \in 1 .. PageSize PROVE a[m] = b[m]
        BY <2>5
      <3>1. j + m \in 1 .. k
        BY <1>1, <2>1
      <3> QED
        BY <1>2, <2>2, <2>3, <2>5, <3>1
    <2>7. a = b
      BY <2>2, <2>3, <2>5, <2>6, SeqEqual
    <2> QED
      BY <2>7 DEF a, b
  <1> QED
    BY <1>3, <1>4 DEF w

(* What a step of a read may come to. *)
DoneWhole(got) ==
    /\ Pairs(got) \subseteq read.ever
    /\ (read.via \in {"list", "validate"} /\ read.shifted) \/ read.stay \subseteq Pairs(got)
    /\ \A p \in read.parts : Cardinality(Ids(ToSet(got[p]))) = Len(got[p])
StepOK(n) ==
    /\ n.family = read.family
    /\ \/ n.state = "failed"
       \/ n.state = "running" /\ RunOK(n)
       \/ n.state = "read" /\ DoneOK(n) /\ (read.via # "compare" => DoneWhole(n.got))

(* A read is whole if each of its parts is. *)
LEMMA PartsWhole ==
    ASSUME SiteOK, RunOK(read), NEW got \in [read.parts -> Seq(Item)],
           \A p \in read.parts : /\ Ascending(got[p])
                                 /\ \A x \in ToSet(got[p]) : <<p, x>> \in read.ever,
           \/ read.via \in {"list", "validate"} /\ read.shifted
           \/ \A p \in read.parts : Stays(read, p) \subseteq ToSet(got[p])
    PROVE  DoneWhole(got)
  <1>1. Pairs(got) \subseteq read.ever
    <2> SUFFICES ASSUME NEW e \in Pairs(got) PROVE e \in read.ever
      OBVIOUS
    <2>1. PICK p \in DOMAIN got : e \in {<<p, item>> : item \in ToSet(got[p])}
      BY DEF Pairs
    <2>2. PICK x \in ToSet(got[p]) : e = <<p, x>>
      BY <2>1
    <2> QED
      BY <2>1, <2>2
  <1>2. ASSUME NEW e \in read.stay, \A p \in read.parts : Stays(read, p) \subseteq ToSet(got[p])
        PROVE  e \in Pairs(got)
    <2>1. e \in Tagged(read.parts, site)
      BY DEF RunOK, Seen
    <2>2. PICK p \in read.parts : e \in {<<p, item>> : item \in Held(site, p)}
      BY <2>1 DEF Tagged
    <2>3. PICK x \in Held(site, p) : e = <<p, x>>
      BY <2>2
    <2>4. x \in ToSet(got[p])
      BY <1>2, <2>3 DEF Stays
    <2> QED
      BY <2>3, <2>4 DEF Pairs
  <1>3. \A p \in read.parts : Cardinality(Ids(ToSet(got[p]))) = Len(got[p])
    BY AscendingCount
  <1> QED
    BY <1>1, <1>2, <1>3 DEF DoneWhole

(* A failed attempt. *)
LEMMA FailStep ==
    ASSUME SiteOK, RunOK(read), read.state = "running", NEW conclusive
    PROVE  StepOK(Failed(conclusive, OtherWay))
  BY RunFails DEF StepOK

(* What is read to its end is published, or does not fit the detail. *)
LEMMA DoneStep ==
    ASSUME SiteOK, RunOK(read), read.state = "running", NEW got, NEW tags,
           read.via # "compare" => DoneWhole(got) /\ got \in [read.parts -> Seq(Item)],
           tags # None => read.via # "threads" /\ CacheOK(read.family, got[read.family], tags)
    PROVE  StepOK(Done(got, tags))
  <1>1. CASE SizeFits(got)
    <2> DEFINE n == Done(got, tags)
    <2>1. n = [read EXCEPT !.state = "read", !.got = got, !.tags = tags, !.open = {}]
      BY <1>1 DEF Done
    <2>2. Whole(read) /\ Shape(read)
      BY DEF RunOK, Shape
    <2>3. /\ n.state = "read" /\ n.family = read.family /\ n.via = read.via /\ n.parts = read.parts
          /\ n.got = got /\ n.tags = tags /\ n.previous = read.previous
      BY <2>1, <2>2 DEF Whole
    <2> HIDE DEF n
    <2>4. DoneOK(n)
      BY <2>2, <2>3 DEF DoneOK, Shape
    <2>5. StepOK(n)
      BY <2>3, <2>4 DEF StepOK
    <2> QED
      BY <2>5 DEF n
  <1>2. CASE ~SizeFits(got)
    BY <1>2, FailStep DEF Done
  <1> QED
    BY <1>1, <1>2

(* The tags of the pages of a list are kept as they come. *)
LEMMA TagsAppend ==
    ASSUME NEW s \in Seq(Item), NEW t \in Seq(Item), NEW n \in Nat \ {0},
           Len(s) = Start(n), Len(t) <= PageSize, NEW tags,
           n > 1 => /\ Sequence(tags) /\ Len(tags) = n - 1
                    /\ \A i \in DOMAIN tags : tags[i] = Page(s, i)
    PROVE  LET new == IF n = 1 THEN <<t>> ELSE Append(tags, t) IN
           /\ Sequence(new) /\ Len(new) = n
           /\ \A i \in DOMAIN new : new[i] = Page(s \o t, i)
  <1>1. Page(s \o t, n) = t /\ \A i \in Nat \ {0} : i < n => Page(s \o t, i) = Page(s, i)
    BY PageOfConcat
  <1>2. CASE n = 1
    <2>1. <<t>> \in Seq({t})
      OBVIOUS
    <2>2. Sequence(<<t>>)
      BY <2>1, ToSetIs DEF Sequence
    <2>3. Len(<<t>>) = 1 /\ DOMAIN <<t>> = {1} /\ <<t>>[1] = t
      OBVIOUS
    <2> QED
      BY <1>1, <1>2, <2>2, <2>3
  <1>3. CASE n # 1
    <2> DEFINE new == Append(tags, t)
               T == ToSet(tags) \union {t}
    <2>1. n > 1 /\ n - 1 \in Nat
      BY <1>3
    <2>2. tags \in Seq(ToSet(tags)) /\ Len(tags) = n - 1 /\ \A i \in DOMAIN tags : tags[i] = Page(s, i)
      BY <2>1 DEF Sequence
    <2>3. tags \in Seq(T) /\ t \in T
      BY <2>2
    <2> HIDE DEF T
    <2>4. new \in Seq(T) /\ Len(new) = Len(tags) + 1 /\ new[Len(tags) + 1] = t
          /\ \A i \in 1 .. Len(tags) : new[i] = tags[i]
      BY <2>3
    <2>5. Len(new) = n /\ DOMAIN new = 1 .. n /\ new[n] = t /\ \A i \in 1 .. n - 1 : new[i] = tags[i]
      BY <2>1, <2>2, <2>4
    <2>6. Sequence(new)
      BY <2>4, ToSetIs DEF Sequence
    <2>7. DOMAIN tags = 1 .. n - 1
      BY <2>2
    <2> HIDE DEF new
    <2>8. \A i \in DOMAIN new : new[i] = Page(s \o t, i)
      <3> SUFFICES ASSUME NEW i \in 1 .. n PROVE new[i] = Page(s \o t, i)
        BY <2>5
      <3>1. CASE i = n
        BY <1>1, <2>5, <3>1
      <3>2. CASE i # n
        <4>1. i \in 1 .. n - 1 /\ i \in Nat \ {0} /\ i < n
          BY <3>2
        <4> QED
          BY <1>1, <2>2, <2>5, <2>7, <4>1
      <3> QED
        BY <3>1, <3>2
    <2> QED
      BY <1>3, <2>5, <2>6, <2>8 DEF new
  <1> QED
    BY <1>2, <1>3

(* What is read of one collection. *)
LEMMA OnePart ==
    ASSUME SiteOK, NEW r, RunOK(r), r.via \in {"list", "validate", "object"}
    PROVE  LET p == r.family
               S == Held(site, p) IN
           /\ r.parts = {p} /\ Proper(S) /\ Listed(site, p) = ByAge(S)
           /\ DOMAIN r.got = {p} /\ r.got[p] \in Seq(Item) /\ Ascending(r.got[p])
           /\ \A x \in S : <<p, x>> \in r.ever /\ x.id <= born
           /\ \A x \in ToSet(r.got[p]) : <<p, x>> \in r.ever /\ x.id <= born
           /\ \A x \in Stays(r, p) : x \in S
           /\ Shape(r) /\ Whole(r) /\ Seen(r) /\ r.page \in Nat \ {0}
  <1> DEFINE p == r.family
  <1>1. r.parts = {p} /\ r.got[p] \in Seq(Item) /\ Ascending(r.got[p])
        /\ (p = "review-comments" \/ p \in DOMAIN site)
    BY RunFields
  <1> HIDE DEF p
  <1>4. Shape(r) /\ Whole(r) /\ Seen(r) /\ r.page \in Nat \ {0}
        /\ r.got \in [r.parts -> Seq(Item)]
    BY DEF RunOK, Shape
  <1>5. Proper(Held(site, p)) /\ \A x \in Held(site, p) : x.id <= born
    BY <1>1, HeldIs
  <1>6. \A x \in Held(site, p) : <<p, x>> \in r.ever
    <2> SUFFICES ASSUME NEW x \in Held(site, p) PROVE <<p, x>> \in r.ever
      OBVIOUS
    <2>1. <<p, x>> \in Tagged(r.parts, site)
      BY <1>1 DEF Tagged
    <2> QED
      BY <1>4, <2>1 DEF Seen
  <1>7. Pairs(r.got) \subseteq r.ever /\ \A x \in ToSet(r.got[p]) : x.id <= born
    BY <1>1, <1>4 DEF Seen
  <1>8. \A x \in ToSet(r.got[p]) : <<p, x>> \in Pairs(r.got)
    BY <1>1, <1>4 DEF Pairs
  <1> QED
    BY <1>1, <1>4, <1>5, <1>6, <1>7, <1>8 DEF Listed, Stays, p

(* The items of a read of one connection. *)
LEMMA OnePairs ==
    ASSUME NEW p, NEW got, DOMAIN got = {p}, NEW ever, \A x \in ToSet(got[p]) : <<p, x>> \in ever
    PROVE  Pairs(got) \subseteq ever
  <1> SUFFICES ASSUME NEW e \in Pairs(got) PROVE e \in ever
    OBVIOUS
  <1>1. PICK q \in DOMAIN got : e \in {<<q, item>> : item \in ToSet(got[q])}
    BY DEF Pairs
  <1>2. PICK x \in ToSet(got[q]) : e = <<q, x>>
    BY <1>1
  <1>3. q = p
    OBVIOUS
  <1> QED
    BY <1>2, <1>3

(* A page of a list, behind what was read of it. *)
LEMMA ListNext ==
    ASSUME NEW S, Proper(S), NEW n \in Nat \ {0}, NEW items \in Seq(Item), Ascending(items),
           Cardinality({id \in Ids(S) : Passed(ToSet(items), id)}) <= Start(n)
    PROVE  LET page == Page(ByAge(S), n)
               got == items \o page IN
           /\ page \in Seq(Item) /\ ToSet(page) \subseteq S
           /\ Len(page) \in Nat /\ Len(page) <= PageSize
           /\ Start(n) \in Nat /\ Start(n + 1) = Start(n) + PageSize
           /\ got \in Seq(Item) /\ Ascending(got) /\ ToSet(got) = ToSet(items) \union ToSet(page)
           /\ Len(got) = Len(items) + Len(page)
           /\ HasNext(ByAge(S), n) => Len(page) = PageSize
           /\ HasNext(ByAge(S), n) =>
                 Cardinality({id \in Ids(S) : Passed(ToSet(got), id)}) <= Start(n) + PageSize
           /\ \A y \in S : Rank(Ids(S), y.id) <= Start(n) + PageSize \/ ~HasNext(ByAge(S), n)
                           => Rank(Ids(S), y.id) <= Start(n) \/ y \in ToSet(page)
  <1>1. LET page == Page(ByAge(S), n) IN
        /\ page \in Seq(Item) /\ ToSet(page) \subseteq S
        /\ Len(page) \in Nat /\ Len(page) <= PageSize
        /\ Start(n) \in Nat /\ Start(n + 1) = Start(n) + PageSize
        /\ HasNext(ByAge(S), n) => Len(page) = PageSize
        /\ \A y \in S : Rank(Ids(S), y.id) <= Start(n) + PageSize \/ ~HasNext(ByAge(S), n)
                        => Rank(Ids(S), y.id) <= Start(n) \/ y \in ToSet(page)
    BY PageHolds
  <1>2. LET page == Page(ByAge(S), n)
            got == items \o page IN
        /\ got \in Seq(Item) /\ Ascending(got) /\ ToSet(got) = ToSet(items) \union ToSet(page)
        /\ Len(got) = Len(items) + Len(page)
        /\ HasNext(ByAge(S), n) => Cardinality({id \in Ids(S) : Passed(ToSet(got), id)}) <= Start(n + 1)
    BY NextOfList
  <1> DEFINE page == Page(ByAge(S), n)
             got == items \o page
  <1> HIDE DEF page, got
  <1> QED
    BY <1>1, <1>2 DEF page, got

(* The next page of a list. *)
LEMMA NumberedPage ==
    ASSUME SiteOK, NEW r, RunOK(r), r.state = "running", r.via = "list"
    PROVE  LET p == r.family
               list == Listed(site, p)
               page == Page(list, r.page)
               got == [r.got EXCEPT ![p] = @ \o page]
               tags == IF r.page = 1 THEN <<page>> ELSE Append(r.tags, page)
               n == [r EXCEPT !.page = @ + 1, !.got = got, !.tags = tags]
           IN  /\ got \in [r.parts -> Seq(Item)] /\ Sliced(got[p], tags)
               /\ \A x \in ToSet(got[p]) : <<p, x>> \in r.ever
               /\ r.shifted \/ HasNext(list, r.page) \/ Stays(r, p) \subseteq ToSet(got[p])
               /\ HasNext(list, r.page) => RunOK(n) /\ n.state = "running" /\ n.family = p
  <1> DEFINE p == r.family
             S == Held(site, p)
             m == r.page
             k == Start(m)
             items == r.got[p]
             page == Page(Listed(site, p), m)
             got == [r.got EXCEPT ![p] = @ \o page]
             all == got[p]
             tags == IF m = 1 THEN <<page>> ELSE Append(r.tags, page)
             n == [r EXCEPT !.page = @ + 1, !.got = got, !.tags = tags]
  <1>1. /\ r.parts = {p} /\ Proper(S) /\ Listed(site, p) = ByAge(S)
        /\ DOMAIN r.got = {p} /\ items \in Seq(Item) /\ Ascending(items)
        /\ \A x \in S : <<p, x>> \in r.ever /\ x.id <= born
        /\ \A x \in ToSet(items) : <<p, x>> \in r.ever /\ x.id <= born
        /\ \A x \in Stays(r, p) : x \in S
        /\ Shape(r) /\ Whole(r) /\ Seen(r) /\ m \in Nat \ {0}
    BY OnePart
  <1>2. /\ Cardinality({id \in Ids(S) : Passed(ToSet(items), id)}) <= k
        /\ ~r.shifted => Behind(site, p, k) \intersect Stays(r, p) \subseteq ToSet(items)
        /\ Len(items) = k
        /\ m > 1 => /\ Sequence(r.tags) /\ Len(r.tags) = m - 1
                    /\ \A i \in DOMAIN r.tags : r.tags[i] = Page(items, i)
    BY <1>1 DEF RunOK, Numbered
  <1>3. page = Page(ByAge(S), m) /\ all = items \o page /\ DOMAIN got = {p}
        /\ got = [q \in {p} |-> all] /\ Listed(site, p) = ByAge(S)
    BY <1>1
  <1>7. /\ n.state = r.state /\ n.family = r.family /\ n.parts = r.parts /\ n.via = r.via
        /\ n.left = r.left /\ n.previous = r.previous /\ n.page = m + 1 /\ n.got = got
        /\ n.tags = tags /\ n.total = r.total /\ n.open = r.open /\ n.queue = r.queue
        /\ n.stay = r.stay /\ n.ever = r.ever /\ n.shifted = r.shifted /\ Whole(n)
    <2> HIDE DEF got, tags
    <2> QED
      BY <1>1 DEF Whole
  <1>9. tags = IF m = 1 THEN <<page>> ELSE Append(r.tags, page)
    OBVIOUS
  <1> HIDE DEF S, k, items, all, m, page, got, tags, n
  <1> DEFINE next == HasNext(ByAge(S), m)
  <1>4. /\ page \in Seq(Item) /\ ToSet(page) \subseteq S
        /\ Len(page) \in Nat /\ Len(page) <= PageSize
        /\ k \in Nat /\ Start(m + 1) = k + PageSize
        /\ all \in Seq(Item) /\ Ascending(all) /\ ToSet(all) = ToSet(items) \union ToSet(page)
        /\ Len(all) = Len(items) + Len(page)
        /\ next => Len(page) = PageSize
        /\ next => Cardinality({id \in Ids(S) : Passed(ToSet(all), id)}) <= Start(m + 1)
        /\ \A y \in S : Rank(Ids(S), y.id) <= k + PageSize \/ ~next
                        => Rank(Ids(S), y.id) <= k \/ y \in ToSet(page)
    <2> DEFINE new == Page(ByAge(S), m)
               both == items \o new
    <2>1. /\ new \in Seq(Item) /\ ToSet(new) \subseteq S
          /\ Len(new) \in Nat /\ Len(new) <= PageSize
          /\ Start(m) \in Nat /\ Start(m + 1) = Start(m) + PageSize
          /\ both \in Seq(Item) /\ Ascending(both) /\ ToSet(both) = ToSet(items) \union ToSet(new)
          /\ Len(both) = Len(items) + Len(new)
          /\ HasNext(ByAge(S), m) => Len(new) = PageSize
          /\ HasNext(ByAge(S), m) =>
                Cardinality({id \in Ids(S) : Passed(ToSet(both), id)}) <= Start(m) + PageSize
          /\ \A y \in S : Rank(Ids(S), y.id) <= Start(m) + PageSize \/ ~HasNext(ByAge(S), m)
                          => Rank(Ids(S), y.id) <= Start(m) \/ y \in ToSet(new)
      BY <1>1, <1>2, ListNext DEF k
    <2>2. new = page /\ both = all /\ Start(m) = k
      BY <1>3 DEF k
    <2> HIDE DEF new, both
    <2> QED
      BY <2>1, <2>2
  <1> HIDE DEF next
  <1>6. Sequence(tags) /\ Len(tags) = m /\ \A i \in DOMAIN tags : tags[i] = Page(all, i)
    <2> DEFINE old == r.tags
    <2>1. m > 1 => /\ Sequence(old) /\ Len(old) = m - 1
                   /\ \A i \in DOMAIN old : old[i] = Page(items, i)
      BY <1>2
    <2>2. tags = (IF m = 1 THEN <<page>> ELSE Append(old, page)) /\ Len(items) = Start(m)
      BY <1>2, <1>9 DEF k
    <2> HIDE DEF old
    <2>3. LET t == IF m = 1 THEN <<page>> ELSE Append(old, page) IN
          /\ Sequence(t) /\ Len(t) = m
          /\ \A i \in DOMAIN t : t[i] = Page(items \o page, i)
      <3>1. items \in Seq(Item) /\ page \in Seq(Item) /\ m \in Nat \ {0}
            /\ Len(items) = Start(m) /\ Len(page) <= PageSize
        BY <1>1, <1>4, <2>2
      <3> QED
        BY <2>1, <3>1, TagsAppend
    <2> DEFINE t == IF m = 1 THEN <<page>> ELSE Append(old, page)
    <2>4. Sequence(t) /\ Len(t) = m /\ (\A i \in DOMAIN t : t[i] = Page(items \o page, i)) /\ t = tags
      BY <2>2, <2>3
    <2> HIDE DEF t
    <2> QED
      BY <1>3, <2>4
  <1>5. got \in [{p} -> Seq(Item)] /\ got[p] = all
    BY <1>3, <1>4
  <1>8. Sliced(got[p], tags)
    BY <1>4, <1>5, <1>6 DEF Sliced
  <1>10. \A x \in ToSet(all) : <<p, x>> \in r.ever /\ x.id <= born
    BY <1>1, <1>4
  <1>11. ASSUME ~r.shifted, NEW x \in Stays(r, p), Rank(Ids(S), x.id) <= k + PageSize \/ ~next
         PROVE  x \in ToSet(all)
    <2>1. x \in S
      BY <1>1
    <2>2. CASE Rank(Ids(S), x.id) <= k
      <3>1. x \in Behind(site, p, k)
        BY <2>1, <2>2 DEF Behind, S
      <3> QED
        BY <1>2, <1>4, <1>11, <3>1
    <2> QED
      BY <1>4, <1>11, <2>1, <2>2
  <1>12. r.shifted \/ next \/ Stays(r, p) \subseteq ToSet(all)
    BY <1>11
  <1>13. ASSUME next PROVE RunOK(n)
    <2>1. Shape(n)
      <3>1. n.got \in [n.parts -> Seq(Item)] /\ n.page \in Nat \ {0}
        BY <1>1, <1>5, <1>7
      <3> QED
        BY <1>1, <1>7, <3>1 DEF Shape
    <2>2. Seen(n)
      <3>1. Pairs(got) \subseteq r.ever
        <4> DEFINE ever == r.ever
        <4>1. DOMAIN got = {p} /\ \A x \in ToSet(got[p]) : <<p, x>> \in ever
          BY <1>3, <1>5, <1>10
        <4> HIDE DEF ever
        <4>2. Pairs(got) \subseteq ever
          BY <4>1, OnePairs
        <4> QED
          BY <4>2 DEF ever
      <3> QED
        BY <1>1, <1>4, <1>5, <1>7, <1>10, <3>1 DEF Seen
    <2>3. Numbered(n)
      <3>1. Stays(n, p) = Stays(r, p)
        BY <1>7 DEF Stays
      <3>2. ~r.shifted => Behind(site, p, k + PageSize) \intersect Stays(r, p) \subseteq ToSet(all)
        <4> SUFFICES ASSUME ~r.shifted, NEW x \in Behind(site, p, k + PageSize), x \in Stays(r, p)
                     PROVE  x \in ToSet(all)
          OBVIOUS
        <4>1. Rank(Ids(S), x.id) <= k + PageSize
          BY DEF Behind, S
        <4> QED
          BY <1>11, <4>1
      <3>3. m + 1 - 1 = m /\ Start(n.page) = k + PageSize
        BY <1>1, <1>4, <1>7
      <3>4. Len(all) = k + PageSize
        BY <1>2, <1>4, <1>13
      <3>5. /\ Cardinality({id \in Ids(S) : Passed(ToSet(n.got[p]), id)}) <= Start(n.page)
            /\ ~n.shifted => Behind(site, p, Start(n.page)) \intersect Stays(n, p) \subseteq ToSet(n.got[p])
            /\ Len(n.got[p]) = Start(n.page)
        BY <1>4, <1>5, <1>7, <1>13, <3>1, <3>2, <3>3, <3>4
      <3>6. Sequence(n.tags) /\ Len(n.tags) = n.page - 1
            /\ \A i \in DOMAIN n.tags : n.tags[i] = Page(n.got[p], i)
        BY <1>5, <1>6, <1>7, <3>3
      <3>7. n.parts = {p}
        BY <1>1, <1>7
      <3> QED
        BY <3>5, <3>6, <3>7 DEF Numbered, S
    <2> QED
      BY <1>7, <2>1, <2>2, <2>3 DEF RunOK
  <1>14. next <=> HasNext(Listed(site, p), m)
    BY <1>3 DEF next
  <1>15. got \in [r.parts -> Seq(Item)]
    BY <1>1, <1>5
  <1>16. n.state = "running" /\ n.family = p
    BY <1>7
  <1> HIDE DEF p
  <1>17. /\ got \in [r.parts -> Seq(Item)] /\ Sliced(got[p], tags)
         /\ \A x \in ToSet(got[p]) : <<p, x>> \in r.ever
         /\ r.shifted \/ HasNext(Listed(site, p), m) \/ Stays(r, p) \subseteq ToSet(got[p])
         /\ HasNext(Listed(site, p), m) => RunOK(n) /\ n.state = "running" /\ n.family = p
    BY <1>5, <1>8, <1>10, <1>12, <1>13, <1>14, <1>15, <1>16
  <1> QED
    BY <1>17 DEF p, m, page, got, tags, n

(* The connection of a read that has one. *)
LEMMA PartIs ==
    ASSUME SiteOK, RunOK(read), read.via \in {"list", "validate", "object", "compare"}
    PROVE  Part = read.family /\ read.parts = {read.family}
  <1>1. read.parts = {read.family}
    BY RunFields
  <1>2. Part \in read.parts
    BY <1>1 DEF Part
  <1> QED
    BY <1>1, <1>2

(* The reviewers are one object, not a list. *)
LEMMA NotReviewers ==
    ASSUME NEW r, RunOK(r), r.via \in {"list", "validate"}
    PROVE  r.family # "reviewers"
  BY DEF RunOK, Shape, WayOK

(* A page of a list. *)
LEMMA ListPageStep ==
    ASSUME SiteOK, RunOK(read), ListPage
    PROVE  StepOK(read')
  <1> DEFINE p == read.family
             list == Listed(site, p)
             page == Page(list, read.page)
             got == [read.got EXCEPT ![p] = @ \o page]
             tags == IF read.page = 1 THEN <<page>> ELSE Append(read.tags, page)
             n == [read EXCEPT !.page = @ + 1, !.got = got, !.tags = tags]
             kept == IF Closed(tags) THEN tags ELSE None
  <1>1. read.state = "running" /\ read.via = "list"
    BY DEF ListPage, Running
  <1>2. Part = p /\ read.parts = {p}
    BY <1>1, PartIs
  <1>3. read' = IF Gone(p) THEN Failed(TRUE, OtherWay)
                ELSE IF HasNext(list, read.page) THEN n ELSE Done(got, kept)
    BY <1>2 DEF ListPage, NotFound
  <1>4. /\ got \in [read.parts -> Seq(Item)] /\ Sliced(got[p], tags)
        /\ \A x \in ToSet(got[p]) : <<p, x>> \in read.ever
        /\ read.shifted \/ HasNext(list, read.page) \/ Stays(read, p) \subseteq ToSet(got[p])
        /\ HasNext(list, read.page) => RunOK(n) /\ n.state = "running" /\ n.family = p
    BY <1>1, NumberedPage
  <1> HIDE DEF p, list, page, got, tags, n
  <1>5. StepOK(Failed(TRUE, OtherWay))
    BY <1>1, FailStep
  <1>6. HasNext(list, read.page) => StepOK(n)
    BY <1>4 DEF StepOK, p
  <1>7. ASSUME ~HasNext(list, read.page) PROVE StepOK(Done(got, kept))
    <2>1. Ascending(got[p])
      BY <1>4 DEF Sliced
    <2>2. DoneWhole(got)
      BY <1>1, <1>2, <1>4, <1>7, <2>1, PartsWhole
    <2>3. kept # None => CacheOK(p, got[p], kept)
      BY <1>1, <1>4, NotReviewers DEF CacheOK, p
    <2> HIDE DEF kept
    <2> QED
      BY <1>1, <1>4, <2>2, <2>3, DoneStep DEF p
  <1> QED
    BY <1>3, <1>5, <1>6, <1>7

(* The comparison of two commits. *)
LEMMA CompareStep ==
    ASSUME SiteOK, RunOK(read), Compare
    PROVE  StepOK(read')
  <1>1. read.state = "running" /\ read.via = "compare"
    BY DEF Compare, Running
  <1>2. \/ read' = Done([read.got EXCEPT ![Part] = read.detail.range], None)
        \/ \E c \in {TRUE, FALSE} : read' = Failed(c, OtherWay)
    BY DEF Compare, NotFound, Inconsistent
  <1>3. StepOK(Done([read.got EXCEPT ![Part] = read.detail.range], None))
    BY <1>1, DoneStep
  <1>4. \A c : StepOK(Failed(c, OtherWay))
    BY <1>1, FailStep
  <1> QED
    BY <1>2, <1>3, <1>4

(* One object: the list of reviewers that there is. *)
LEMMA ObjectReadStep ==
    ASSUME SiteOK, RunOK(read), ObjectRead
    PROVE  StepOK(read')
  <1> DEFINE p == read.family
             S == Held(site, p)
             content == Listed(site, p)
             value == IF read.previous # None /\ read.previous.coverage = "complete"
                         /\ read.previous.cache # None /\ read.previous.cache = <<content>>
                      THEN read.previous.value ELSE content
             got == [read.got EXCEPT ![p] = value]
  <1>1. read.state = "running" /\ read.via = "object"
    BY DEF ObjectRead, Running
  <1>2. Part = p /\ read.parts = {p}
    BY <1>1, PartIs
  <1>3. read' = IF Gone(p) THEN Failed(TRUE, OtherWay) ELSE Done(got, <<content>>)
    BY <1>2 DEF ObjectRead, NotFound
  <1>4. /\ Proper(S) /\ content = ByAge(S) /\ DOMAIN read.got = {p}
        /\ \A x \in S : <<p, x>> \in read.ever
        /\ \A x \in Stays(read, p) : x \in S
    BY <1>1, OnePart
  <1>5. p = "reviewers"
    BY <1>1 DEF RunOK, Shape, WayOK
  <1> HIDE DEF S
  <1>6. content \in Seq(S) /\ Ascending(content) /\ ToSet(content) = S /\ S \subseteq Item
    BY <1>4, ByAgeIs DEF Proper
  <1> HIDE DEF content
  <1>7. value = content
    <2> SUFFICES ASSUME read.previous # None, read.previous.coverage = "complete",
                        read.previous.cache # None, read.previous.cache = <<content>>
                 PROVE  read.previous.value = content
      OBVIOUS
    <2>1. HasTags(read.previous)
      BY DEF HasTags
    <2>2. CacheOK(p, read.previous.value, read.previous.cache)
      BY <2>1 DEF RunOK, Shape
    <2>3. <<content>> = <<read.previous.value>>
      BY <1>5, <2>2 DEF CacheOK
    <2>4. \A a, b : <<a>> = <<b>> => a = b
      <3> SUFFICES ASSUME NEW a, NEW b, <<a>> = <<b>> PROVE a = b
        OBVIOUS
      <3>1. <<a>>[1] = a /\ <<b>>[1] = b
        OBVIOUS
      <3> QED
        BY <3>1
    <2> QED
      BY <2>3, <2>4
  <1>8. got = [q \in {p} |-> content]
    BY <1>4, <1>7
  <1>9. content \in Seq(Item)
    BY <1>6
  <1> HIDE DEF p, value, got
  <1>10. got \in [read.parts -> Seq(Item)] /\ got[p] = content
    BY <1>2, <1>8, <1>9
  <1>11. DoneWhole(got)
    <2>1. \A q \in read.parts : Ascending(got[q]) /\ \A x \in ToSet(got[q]) : <<q, x>> \in read.ever
      BY <1>2, <1>4, <1>6, <1>10
    <2>2. \A q \in read.parts : Stays(read, q) \subseteq ToSet(got[q])
      BY <1>2, <1>4, <1>6, <1>10
    <2> QED
      BY <1>10, <2>1, <2>2, PartsWhole
  <1>12. CacheOK(p, got[p], <<content>>)
    BY <1>5, <1>10 DEF CacheOK
  <1>13. StepOK(Done(got, <<content>>))
    BY <1>1, <1>10, <1>11, <1>12, DoneStep DEF p
  <1>14. StepOK(Failed(TRUE, OtherWay))
    BY <1>1, FailStep
  <1> QED
    BY <1>3, <1>13, <1>14

(* What a page of a list has. *)
LEMMA PageOf ==
    ASSUME NEW S, NEW s \in Seq(S), NEW n \in Nat \ {0}
    PROVE  /\ ToSet(Page(s, n)) \subseteq ToSet(s)
           /\ \A j \in DOMAIN s : j > Start(n) /\ j <= Start(n) + PageSize => s[j] \in ToSet(Page(s, n))
  <1> DEFINE page == Page(s, n)
             k == Start(n)
  <1>1. /\ page \in Seq(S) /\ k \in Nat /\ Len(page) \in Nat
        /\ \A i \in 1 .. Len(page) : page[i] = s[k + i] /\ k + i \in DOMAIN s
    BY PageIs
  <1>2. /\ Len(s) > k /\ Len(s) <= k + PageSize => Len(page) = Len(s) - k
        /\ Len(s) >= k + PageSize => Len(page) = PageSize
    BY PageLength
  <1>3. \A x : x \in ToSet(page) <=> \E i \in 1 .. Len(page) : page[i] = x
    BY <1>1, ToSetIs
  <1>4. PageSize \in Nat /\ Len(s) \in Nat /\ DOMAIN s = 1 .. Len(s)
    BY PageSizeIs
  <1> HIDE DEF page, k
  <1>5. ToSet(page) \subseteq ToSet(s)
    <2> SUFFICES ASSUME NEW x \in ToSet(page) PROVE x \in ToSet(s)
      OBVIOUS
    <2>1. PICK i \in 1 .. Len(page) : page[i] = x
      BY <1>3
    <2> QED
      BY <1>1, <2>1 DEF ToSet
  <1>6. ASSUME NEW j \in DOMAIN s, j > k, j <= k + PageSize PROVE s[j] \in ToSet(page)
    <2>1. j - k \in Nat \ {0} /\ j - k <= PageSize /\ j - k <= Len(s) - k /\ Len(s) > k /\ k + (j - k) = j
      BY <1>1, <1>4, <1>6
    <2>2. j - k <= Len(page)
      <3>1. CASE Len(s) <= k + PageSize
        BY <1>2, <2>1, <3>1
      <3>2. CASE Len(s) >= k + PageSize
        BY <1>2, <2>1, <3>2
      <3> QED
        BY <1>1, <1>4, <3>1, <3>2
    <2>3. j - k \in 1 .. Len(page)
      BY <1>1, <2>1, <2>2
    <2>4. page[j - k] = s[k + (j - k)]
      BY <1>1, <2>3
    <2> QED
      BY <1>3, <2>1, <2>3, <2>4
  <1> QED
    BY <1>5, <1>6 DEF page, k

(* A list that is begun anew. *)
LEMMA FreshRun ==
    ASSUME SiteOK, RunOK(read), read.state = "running", read.via = "validate"
    PROVE  LET n == [read EXCEPT !.via = "list", !.page = 1] IN
           /\ RunOK(n) /\ n.state = "running" /\ n.family = read.family /\ n.via = "list" /\ n.page = 1
           /\ n.got = read.got /\ n.parts = read.parts /\ n.stay = read.stay /\ n.ever = read.ever
           /\ n.shifted = read.shifted /\ Whole(n)
           /\ read.got[read.family] = <<>>
  <1> DEFINE n == [read EXCEPT !.via = "list", !.page = 1]
             p == read.family
             S == Held(site, p)
  <1>1. Whole(read) /\ Shape(read) /\ Seen(read) /\ read.parts = {p}
    BY OnePart
  <1>2. /\ n.state = read.state /\ n.family = read.family /\ n.parts = read.parts /\ n.via = "list"
        /\ n.left = read.left /\ n.previous = read.previous /\ n.page = 1 /\ n.got = read.got
        /\ n.stay = read.stay /\ n.ever = read.ever /\ n.shifted = read.shifted /\ Whole(n)
    BY <1>1 DEF Whole
  <1>3. read.got[p] = <<>>
    BY <1>1 DEF RunOK, Validated
  <1> HIDE DEF n, p, S
  <1>4. Shape(n)
    <2>1. WayOK(n.family, n.via, n.previous)
      BY <1>1, <1>2 DEF Shape, WayOK
    <2>2. n.parts = PartsOf(n.family, n.via)
      BY <1>1, <1>2 DEF Shape, PartsOf
    <2>3. n.page \in Nat \ {0}
      BY <1>2
    <2> QED
      BY <1>1, <1>2, <2>1, <2>2, <2>3 DEF Shape
  <1>5. Seen(n)
    BY <1>1, <1>2 DEF Seen
  <1>6. Numbered(n)
    <2>1. p = "review-comments" \/ p \in DOMAIN site
      BY RunFields DEF p
    <2>2. Behind(site, p, 0) = {}
      BY <2>1, NoneBehind
    <2>3. Start(1) = 0 /\ ~(1 > 1) /\ Len(<<>>) = 0
      BY Starts
    <2>4. ToSet(<<>>) = {}
      BY DEF ToSet
    <2>5. {id \in Ids(S) : Passed(ToSet(<<>>), id)} = {}
      BY <2>4 DEF Passed
    <2>6. Cardinality({id \in Ids(S) : Passed(ToSet(<<>>), id)}) = 0
      BY <2>5, FS_EmptySet
    <2>7. n.parts = {p} /\ n.got[p] = <<>> /\ n.page = 1
      BY <1>1, <1>2, <1>3
    <2>8. Cardinality({id \in Ids(Held(site, p)) : Passed(ToSet(n.got[p]), id)}) <= Start(n.page)
      BY <2>3, <2>6, <2>7 DEF S
    <2>9. Behind(site, p, Start(n.page)) = {} /\ Len(n.got[p]) = Start(n.page) /\ ~(n.page > 1)
      BY <2>2, <2>3, <2>7
    <2> QED
      BY <2>7, <2>8, <2>9 DEF Numbered
  <1>7. RunOK(n)
    BY <1>2, <1>4, <1>5, <1>6 DEF RunOK
  <1> QED
    BY <1>2, <1>3, <1>7 DEF n, p

(* A page that has not changed. *)
LEMMA ValidatedPage ==
    ASSUME SiteOK, RunOK(read), read.state = "running", read.via = "validate",
           Page(Listed(site, read.family), read.page) = read.previous.cache[read.page]
    PROVE  LET p == read.family
               cached == read.previous.cache
               value == read.previous.value
               n == [read EXCEPT !.page = @ + 1]
               got == [read.got EXCEPT ![p] = value]
           IN  /\ read.page <= Len(cached)
               /\ read.page < Len(cached) => RunOK(n) /\ n.state = "running" /\ n.family = p
               /\ ~(read.page < Len(cached)) =>
                     got \in [read.parts -> Seq(Item)] /\ DoneWhole(got) /\ CacheOK(p, got[p], cached)
  <1> DEFINE p == read.family
             S == Held(site, p)
             cached == read.previous.cache
             value == read.previous.value
             m == read.page
             k == Start(m)
             page == Page(Listed(site, p), m)
             n == [read EXCEPT !.page = @ + 1]
             got == [read.got EXCEPT ![p] = value]
  <1>1. /\ Whole(read) /\ Shape(read) /\ Seen(read) /\ read.parts = {p} /\ m \in Nat \ {0}
        /\ Proper(S) /\ Listed(site, p) = ByAge(S) /\ DOMAIN read.got = {p}
        /\ \A x \in S : <<p, x>> \in read.ever /\ x.id <= born
        /\ \A x \in Stays(read, p) : x \in S
    BY OnePart
  <1>2. p # "reviewers" /\ CachedPages(read.previous) # None
    BY DEF RunOK, Shape, WayOK
  <1>3. HasTags(read.previous) /\ Closed(cached) /\ Sizes(cached) = Len(value)
    BY <1>2, CachedPagesAre
  <1>4. CacheOK(p, value, cached)
    BY <1>1, <1>3 DEF Shape
  <1>5. value \in Seq(Item) /\ Ascending(value) /\ Sequence(cached)
        /\ \A i \in DOMAIN cached : cached[i] = Page(value, i)
    BY <1>2, <1>4 DEF CacheOK, Sliced
  <1>6. /\ read.got[p] = <<>> /\ m <= Len(cached)
        /\ \A i \in DOMAIN value : i <= k => <<p, value[i]>> \in read.ever
        /\ ~read.shifted => Behind(site, p, k) \intersect Stays(read, p) \subseteq ToSet(value)
    BY <1>1 DEF RunOK, Validated
  <1>7. cached[m] = Page(value, m) /\ page = cached[m] /\ page = Page(ByAge(S), m) /\ Len(cached) \in Nat
    <2>1. DOMAIN cached = 1 .. Len(cached) /\ Len(cached) \in Nat
      BY <1>5 DEF Sequence
    <2> QED
      BY <1>1, <1>5, <1>6, <2>1
  <1>8. /\ n.state = read.state /\ n.family = read.family /\ n.parts = read.parts /\ n.via = read.via
        /\ n.left = read.left /\ n.previous = read.previous /\ n.page = m + 1 /\ n.got = read.got
        /\ n.stay = read.stay /\ n.ever = read.ever /\ n.shifted = read.shifted /\ Whole(n)
    BY <1>1 DEF Whole
  <1>9. got = [q \in {p} |-> value]
    BY <1>1
  <1> HIDE DEF S, cached, value, m, k, page, n, got
  <1>10. /\ k \in Nat /\ Start(m + 1) = k + PageSize /\ PageSize \in Nat
         /\ ToSet(page) \subseteq ToSet(value)
         /\ \A j \in DOMAIN value : j > k /\ j <= k + PageSize => value[j] \in ToSet(page)
    <2>1. /\ ToSet(Page(value, m)) \subseteq ToSet(value)
          /\ \A j \in DOMAIN value : j > Start(m) /\ j <= Start(m) + PageSize
                                     => value[j] \in ToSet(Page(value, m))
      BY <1>1, <1>5, PageOf
    <2> QED
      BY <1>1, <1>7, <2>1, Starts, PageSizeIs DEF k
  <1>11. /\ ToSet(page) \subseteq S /\ Len(page) \in Nat
         /\ Len(page) < PageSize => ~HasNext(ByAge(S), m)
         /\ \A y \in S : Rank(Ids(S), y.id) <= k + PageSize \/ ~HasNext(ByAge(S), m)
                         => Rank(Ids(S), y.id) <= k \/ y \in ToSet(page)
    <2> DEFINE new == Page(ByAge(S), m)
    <2>1. /\ ToSet(new) \subseteq S /\ Len(new) \in Nat
          /\ Len(new) < PageSize => ~HasNext(ByAge(S), m)
          /\ \A y \in S : Rank(Ids(S), y.id) <= Start(m) + PageSize \/ ~HasNext(ByAge(S), m)
                          => Rank(Ids(S), y.id) <= Start(m) \/ y \in ToSet(new)
      BY <1>1, PageHolds
    <2>2. new = page /\ Start(m) = k
      BY <1>7 DEF k
    <2> HIDE DEF new
    <2> QED
      BY <2>1, <2>2
  <1>12. ASSUME NEW i \in DOMAIN value, i <= k + PageSize PROVE <<p, value[i]>> \in read.ever
    <2>1. CASE i <= k
      BY <1>6, <2>1
    <2>2. CASE ~(i <= k)
      <3>1. i \in Nat
        BY <1>5
      <3>2. value[i] \in ToSet(page)
        BY <1>10, <1>12, <2>2, <3>1
      <3> QED
        BY <1>1, <1>11, <3>2
    <2> QED
      BY <2>1, <2>2
  <1>13. ASSUME ~read.shifted, NEW x \in Stays(read, p),
                Rank(Ids(S), x.id) <= k + PageSize \/ ~HasNext(ByAge(S), m)
         PROVE  x \in ToSet(value)
    <2>1. x \in S
      BY <1>1
    <2>2. CASE Rank(Ids(S), x.id) <= k
      <3>1. x \in Behind(site, p, k)
        BY <2>1, <2>2 DEF Behind, S
      <3> QED
        BY <1>6, <1>13, <3>1
    <2> QED
      BY <1>10, <1>11, <1>13, <2>1, <2>2
  <1>14. ASSUME m < Len(cached) PROVE RunOK(n) /\ n.state = "running" /\ n.family = p
    <2>1. m + 1 \in Nat \ {0} /\ m + 1 <= Len(cached)
      BY <1>1, <1>7, <1>14
    <2>2. Shape(n)
      <3>1. n.page \in Nat \ {0}
        BY <1>8, <2>1
      <3> QED
        BY <1>1, <1>8, <3>1 DEF Shape
    <2>3. Seen(n)
      BY <1>1, <1>8 DEF Seen
    <2>4. Validated(n)
      <3>1. Stays(n, p) = Stays(read, p) /\ Start(n.page) = k + PageSize
        BY <1>8, <1>10 DEF Stays
      <3>2. ~read.shifted => Behind(site, p, k + PageSize) \intersect Stays(read, p) \subseteq ToSet(value)
        <4> SUFFICES ASSUME ~read.shifted, NEW x \in Behind(site, p, k + PageSize), x \in Stays(read, p)
                     PROVE  x \in ToSet(value)
          OBVIOUS
        <4>1. Rank(Ids(S), x.id) <= k + PageSize
          BY DEF Behind, S
        <4> QED
          BY <1>13, <4>1
      <3>3. n.parts = {p} /\ n.got[p] = <<>> /\ n.page <= Len(cached)
        BY <1>1, <1>6, <1>8, <2>1
      <3>4. \A i \in DOMAIN value : i <= Start(n.page) => <<p, value[i]>> \in n.ever
        BY <1>8, <1>12, <3>1
      <3>5. n.previous.value = value /\ n.previous.cache = cached /\ n.shifted = read.shifted
        BY <1>8 DEF value, cached
      <3> QED
        BY <3>1, <3>2, <3>3, <3>4, <3>5 DEF Validated
    <2> QED
      BY <1>8, <2>2, <2>3, <2>4 DEF RunOK
  <1>15. ASSUME ~(m < Len(cached))
         PROVE  got \in [read.parts -> Seq(Item)] /\ DoneWhole(got) /\ CacheOK(p, got[p], cached)
    <2>1. m = Len(cached)
      BY <1>1, <1>6, <1>7, <1>15
    <2>2. Last(cached) = page
      BY <1>7, <2>1 DEF Last
    <2>3. Len(page) < PageSize /\ Len(value) = k + Len(page)
      BY <1>3, <2>1, <2>2 DEF Closed, Sizes, Start, k
    <2>4. ~HasNext(ByAge(S), m) /\ Len(value) <= k + PageSize
      BY <1>10, <1>11, <2>3
    <2>5. \A x \in ToSet(value) : <<p, x>> \in read.ever
      <3> SUFFICES ASSUME NEW x \in ToSet(value) PROVE <<p, x>> \in read.ever
        OBVIOUS
      <3>1. PICK i \in 1 .. Len(value) : value[i] = x
        BY <1>5, ToSetIs
      <3>2. i \in DOMAIN value /\ i <= k + PageSize
        BY <1>5, <1>10, <2>4, <3>1
      <3> QED
        BY <1>12, <3>1, <3>2
    <2>6. read.shifted \/ Stays(read, p) \subseteq ToSet(value)
      BY <1>13, <2>4
    <2>7. got \in [read.parts -> Seq(Item)] /\ got[p] = value
      BY <1>1, <1>5, <1>9
    <2>8. DoneWhole(got)
      <3>1. \A q \in read.parts : Ascending(got[q]) /\ \A x \in ToSet(got[q]) : <<q, x>> \in read.ever
        BY <1>1, <1>5, <2>5, <2>7
      <3>2. \/ read.via \in {"list", "validate"} /\ read.shifted
            \/ \A q \in read.parts : Stays(read, q) \subseteq ToSet(got[q])
        BY <1>1, <2>6, <2>7
      <3> QED
        BY <2>7, <3>1, <3>2, PartsWhole
    <2> QED
      BY <1>4, <2>7, <2>8
  <1> HIDE DEF p
  <1> QED
    BY <1>6, <1>14, <1>15 DEF p, cached, value, m, n, got

(* A page that is asked for by its tag. *)
LEMMA ValidatePageStep ==
    ASSUME SiteOK, RunOK(read), ValidatePage
    PROVE  StepOK(read')
  <1> DEFINE p == read.family
             cached == read.previous.cache
             list == Listed(site, p)
             content == Page(list, read.page)
             same == content = cached[read.page]
             fresh == [read EXCEPT !.via = "list", !.page = 1]
             next == [read EXCEPT !.page = @ + 1]
             all == [read.got EXCEPT ![p] = read.previous.value]
             second == [fresh EXCEPT !.page = 2, !.got[p] = content, !.tags = <<content>>]
             one == [read.got EXCEPT ![p] = content]
             kept == IF Closed(<<content>>) THEN <<content>> ELSE None
  <1>1. read.state = "running" /\ read.via = "validate"
    BY DEF ValidatePage, Running
  <1>2. Part = p /\ read.parts = {p}
    BY <1>1, PartIs
  <1>3. read' = IF Gone(p) THEN Failed(TRUE, OtherWay)
                ELSE IF same
                THEN IF read.page < Len(cached) THEN next ELSE Done(all, cached)
                ELSE IF read.page > 1 THEN fresh
                ELSE IF HasNext(list, 1) THEN second ELSE Done(one, kept)
    BY <1>2 DEF ValidatePage, NotFound
  <1>4. StepOK(Failed(TRUE, OtherWay))
    BY <1>1, FailStep
  <1>5. ASSUME same
        PROVE  /\ read.page < Len(cached) => StepOK(next)
               /\ ~(read.page < Len(cached)) => StepOK(Done(all, cached))
    <2>1. /\ read.page < Len(cached) => RunOK(next) /\ next.state = "running" /\ next.family = p
          /\ ~(read.page < Len(cached)) =>
                all \in [read.parts -> Seq(Item)] /\ DoneWhole(all) /\ CacheOK(p, all[p], cached)
      BY <1>1, <1>5, ValidatedPage
    <2> HIDE DEF next, all, cached
    <2>2. read.page < Len(cached) => StepOK(next)
      BY <2>1 DEF StepOK
    <2>3. ~(read.page < Len(cached)) => StepOK(Done(all, cached))
      BY <1>1, <2>1, DoneStep
    <2> QED
      BY <2>2, <2>3
  <1>6. /\ RunOK(fresh) /\ fresh.state = "running" /\ fresh.family = p /\ fresh.via = "list" /\ fresh.page = 1
        /\ fresh.got = read.got /\ fresh.parts = read.parts /\ fresh.stay = read.stay
        /\ fresh.ever = read.ever /\ fresh.shifted = read.shifted /\ Whole(fresh)
        /\ read.got[p] = <<>>
    BY <1>1, FreshRun
  <1>7. StepOK(fresh)
    <2> HIDE DEF fresh
    <2> QED
      BY <1>6 DEF StepOK
  <1>8. ASSUME read.page <= 1
        PROVE  (HasNext(list, 1) => StepOK(second)) /\ (~HasNext(list, 1) => StepOK(Done(one, kept)))
    <2>1. read.page = 1 /\ read.got = [q \in {p} |-> <<>>]
      <3>1. read.page \in Nat \ {0} /\ DOMAIN read.got = {p} /\ read.got \in [{p} -> Seq(Item)]
        BY <1>2 DEF RunOK, Shape
      <3> QED
        BY <1>6, <1>8, <3>1
    <2> DEFINE page == Page(Listed(site, fresh.family), fresh.page)
               got == [fresh.got EXCEPT ![fresh.family] = @ \o page]
               tags == IF fresh.page = 1 THEN <<page>> ELSE Append(fresh.tags, page)
               n == [fresh EXCEPT !.page = @ + 1, !.got = got, !.tags = tags]
    <2>2. /\ got \in [fresh.parts -> Seq(Item)] /\ Sliced(got[fresh.family], tags)
          /\ \A x \in ToSet(got[fresh.family]) : <<fresh.family, x>> \in fresh.ever
          /\ \/ fresh.shifted \/ HasNext(Listed(site, fresh.family), fresh.page)
             \/ Stays(fresh, fresh.family) \subseteq ToSet(got[fresh.family])
          /\ HasNext(Listed(site, fresh.family), fresh.page) =>
                RunOK(n) /\ n.state = "running" /\ n.family = fresh.family
      <3> DEFINE r == fresh
      <3>1. RunOK(r) /\ r.state = "running" /\ r.via = "list"
        BY <1>6
      <3> HIDE DEF fresh
      <3> QED
        BY <3>1, NumberedPage
    <2>3. page = content
      BY <1>6, <2>1
    <2>4. content \in Seq(Item)
      <3>1. Proper(Held(site, p)) /\ list = ByAge(Held(site, p))
        BY <1>1, OnePart
      <3> HIDE DEF p, list
      <3> QED
        BY <2>1, <3>1, PageHolds
    <2>5. tags = <<content>>
      BY <1>6, <2>3
    <2> HIDE DEF page, content
    <2>6. got = one /\ one = [q \in {p} |-> content]
      <3>1. <<>> \o content = content
        BY <2>4
      <3> QED
        BY <1>6, <2>1, <2>3, <3>1
    <2>7. second = n
      <3>1. Whole(fresh) /\ fresh.got = read.got /\ fresh.page = 1
        BY <1>6
      <3>2. second = [fresh EXCEPT !.page = 2, !.got = one, !.tags = <<content>>]
        <4> HIDE DEF fresh
        <4> QED
          BY <3>1 DEF Whole
      <3>3. n = [fresh EXCEPT !.page = 2, !.got = got, !.tags = tags]
        <4> HIDE DEF fresh, got, tags
        <4> QED
          BY <3>1
      <3> HIDE DEF second, n, fresh, got, one, tags
      <3> QED
        BY <2>5, <2>6, <3>2, <3>3
    <2>8. Stays(fresh, p) = Stays(read, p)
      BY <1>6 DEF Stays
    <2> HIDE DEF second, n, fresh, got, one, tags, list, p
    <2>9. HasNext(list, 1) => StepOK(second)
      BY <1>6, <2>2, <2>7 DEF StepOK, p, list
    <2>10. ~HasNext(list, 1) => StepOK(Done(one, kept))
      <3> SUFFICES ASSUME ~HasNext(list, 1) PROVE StepOK(Done(one, kept))
        OBVIOUS
      <3>1. /\ one \in [read.parts -> Seq(Item)] /\ Sliced(one[p], <<content>>)
            /\ \A x \in ToSet(one[p]) : <<p, x>> \in read.ever
            /\ read.shifted \/ Stays(read, p) \subseteq ToSet(one[p])
        BY <1>6, <2>2, <2>5, <2>6, <2>8 DEF list
      <3>2. Ascending(one[p])
        BY <3>1 DEF Sliced
      <3>3. DoneWhole(one)
        BY <1>1, <1>2, <3>1, <3>2, PartsWhole
      <3>4. kept # None => CacheOK(p, one[p], kept)
        BY <1>1, <3>1, NotReviewers DEF CacheOK, p
      <3> HIDE DEF kept
      <3> QED
        BY <1>1, <3>1, <3>3, <3>4, DoneStep DEF p
    <2> QED
      BY <2>9, <2>10
  <1>9. read.page > 1 \/ read.page <= 1
    <2>1. read.page \in Nat
      BY DEF RunOK, Shape
    <2> QED
      BY <2>1
  <1> HIDE DEF p, cached, list, content, fresh, next, all, second, one, kept
  <1> QED
    BY <1>3, <1>4, <1>5, <1>7, <1>8, <1>9

(* What was read of a connection leaves nothing out behind the cursor. *)
CursorOK(p, items) ==
    /\ items \in Seq(Item) /\ Ascending(items)
    /\ \A x \in ToSet(items) : <<p, x>> \in read.ever /\ x.id <= born
    /\ \A x \in site[p] : Passed(ToSet(items), x.id) => x.id \in Ids(ToSet(items))
    /\ \A x \in Stays(read, p) : Passed(ToSet(items), x.id) => x \in ToSet(items)

(* A connection that was not begun. *)
LEMMA CursorStart ==
    ASSUME NEW p
    PROVE  CursorOK(p, <<>>)
  <1>1. ToSet(<<>>) = {} /\ \A id : ~Passed({}, id)
    BY DEF ToSet, Passed
  <1>2. <<>> \in Seq(Item) /\ Ascending(<<>>)
    BY DEF Ascending
  <1> QED
    BY <1>1, <1>2 DEF CursorOK

(* A connection that is read. *)
LEMMA CursorIs ==
    ASSUME SiteOK, RunOK(read), read.via \in {"connection", "threads"}, NEW p \in read.parts
    PROVE  /\ CursorOK(p, read.got[p]) /\ p \in DOMAIN site /\ Proper(site[p]) /\ Held(site, p) = site[p]
           /\ \A x \in site[p] : <<p, x>> \in read.ever /\ x.id <= born
           /\ \A x \in Stays(read, p) : x \in site[p]
           /\ read.total[p] # None /\ p \notin read.open => Stays(read, p) \subseteq ToSet(read.got[p])
  <1>1. /\ read.got[p] \in Seq(Item) /\ Ascending(read.got[p]) /\ p \in DOMAIN site
        /\ Held(site, p) = site[p] /\ \A x \in ToSet(read.got[p]) : x.id <= born
    BY RunFields
  <1>2. Proper(site[p]) /\ \A x \in site[p] : x.id <= born
    BY <1>1, SiteIs
  <1>3. Seen(read) /\ Cursors(read) /\ read.got \in [read.parts -> Seq(Item)]
    BY DEF RunOK, Shape
  <1>4. \A x \in ToSet(read.got[p]) : <<p, x>> \in Pairs(read.got)
    BY <1>3 DEF Pairs
  <1>5. \A x \in ToSet(read.got[p]) : <<p, x>> \in read.ever
    BY <1>3, <1>4 DEF Seen
  <1>6. \A x \in site[p] : <<p, x>> \in Tagged(read.parts, site)
    BY <1>1 DEF Tagged
  <1>7. \A x \in site[p] : <<p, x>> \in read.ever
    BY <1>3, <1>6 DEF Seen
  <1>8. \A x \in Stays(read, p) : x \in site[p]
    BY <1>1 DEF Stays
  <1>9. /\ \A x \in site[p] : Passed(ToSet(read.got[p]), x.id) => x.id \in Ids(ToSet(read.got[p]))
        /\ \A x \in Stays(read, p) :
              Passed(ToSet(read.got[p]), x.id) \/ (read.total[p] # None /\ p \notin read.open)
              => x \in ToSet(read.got[p])
    BY <1>3 DEF Cursors
  <1>10. CursorOK(p, read.got[p])
    BY <1>1, <1>5, <1>9 DEF CursorOK
  <1> QED
    BY <1>1, <1>2, <1>7, <1>8, <1>9, <1>10

(* The next page behind a cursor. *)
LEMMA CursorNext ==
    ASSUME SiteOK, RunOK(read), read.via \in {"connection", "threads"}, NEW p \in read.parts,
           NEW items, CursorOK(p, items)
    PROVE  LET a == After(p, items)
               got == items \o a.nodes IN
           /\ CursorOK(p, got) /\ a.total \in Nat /\ a.nodes \in Seq(Item)
           /\ ToSet(a.nodes) \subseteq site[p] /\ ToSet(got) = ToSet(items) \union ToSet(a.nodes)
           /\ ~a.more => Stays(read, p) \subseteq ToSet(got)
           /\ ~a.more => Ids(site[p]) \subseteq Ids(ToSet(got))
           /\ ~a.more /\ Len(got) = a.total => Ids(ToSet(got)) = Ids(site[p])
  <1> DEFINE a == After(p, items)
             got == items \o a.nodes
  <1>1. /\ Proper(site[p])
        /\ \A x \in site[p] : <<p, x>> \in read.ever /\ x.id <= born
        /\ \A x \in Stays(read, p) : x \in site[p]
    BY CursorIs
  <1>2. /\ items \in Seq(Item) /\ Ascending(items)
        /\ \A x \in ToSet(items) : <<p, x>> \in read.ever /\ x.id <= born
        /\ \A x \in site[p] : Passed(ToSet(items), x.id) => x.id \in Ids(ToSet(items))
        /\ \A x \in Stays(read, p) : Passed(ToSet(items), x.id) => x \in ToSet(items)
    BY DEF CursorOK
  <1>3. /\ a.nodes \in Seq(Item) /\ ToSet(a.nodes) \subseteq site[p]
        /\ got \in Seq(Item) /\ Ascending(got) /\ ToSet(got) = ToSet(items) \union ToSet(a.nodes)
        /\ \A y \in site[p] : Passed(ToSet(got), y.id) \/ ~a.more
                              => Passed(ToSet(items), y.id) \/ y \in ToSet(a.nodes)
        /\ a.total = Cardinality(site[p]) /\ a.total \in Nat
    BY <1>1, <1>2, AfterIs
  <1> HIDE DEF a, got
  <1>4. Ids(ToSet(items)) \subseteq Ids(ToSet(got)) /\ \A x \in ToSet(got) : x.id \in Ids(ToSet(got))
    BY <1>3 DEF Ids
  <1>5. \A x \in site[p] : Passed(ToSet(got), x.id) \/ ~a.more => x.id \in Ids(ToSet(got))
    <2> SUFFICES ASSUME NEW x \in site[p], Passed(ToSet(got), x.id) \/ ~a.more
                 PROVE  x.id \in Ids(ToSet(got))
      OBVIOUS
    <2>1. CASE Passed(ToSet(items), x.id)
      BY <1>2, <1>4, <2>1
    <2>2. CASE x \in ToSet(a.nodes)
      BY <1>3, <1>4, <2>2
    <2> QED
      BY <1>3, <2>1, <2>2
  <1>6. \A x \in Stays(read, p) : Passed(ToSet(got), x.id) \/ ~a.more => x \in ToSet(got)
    <2> SUFFICES ASSUME NEW x \in Stays(read, p), Passed(ToSet(got), x.id) \/ ~a.more
                 PROVE  x \in ToSet(got)
      OBVIOUS
    <2>0. x \in site[p]
      BY <1>1
    <2>1. CASE Passed(ToSet(items), x.id)
      BY <1>2, <1>3, <2>1
    <2>2. CASE x \in ToSet(a.nodes)
      BY <1>3, <2>2
    <2> QED
      BY <1>3, <2>0, <2>1, <2>2
  <1>7. \A x \in ToSet(got) : <<p, x>> \in read.ever /\ x.id <= born
    BY <1>1, <1>2, <1>3
  <1>8. CursorOK(p, got)
    BY <1>3, <1>5, <1>6, <1>7 DEF CursorOK
  <1>9. ASSUME ~a.more, Len(got) = a.total PROVE Ids(ToSet(got)) = Ids(site[p])
    <2>1. Ids(site[p]) \subseteq Ids(ToSet(got))
      BY <1>5, <1>9 DEF Ids
    <2>2. /\ Cardinality(Ids(site[p])) = Cardinality(site[p])
          /\ IsFiniteSet(Ids(ToSet(got))) /\ Cardinality(Ids(ToSet(got))) = Len(got)
      BY <1>1, <1>3, IdsCounted, AscendingCount
    <2>3. Cardinality(Ids(site[p])) = Cardinality(Ids(ToSet(got)))
      BY <1>3, <1>9, <2>2
    <2> DEFINE A == Ids(site[p])
               B == Ids(ToSet(got))
    <2> HIDE DEF A, B
    <2>4. A \subseteq B /\ IsFiniteSet(B) /\ Cardinality(A) = Cardinality(B)
      BY <2>1, <2>2, <2>3 DEF A, B
    <2>5. A = B
      BY <2>4, FS_Subset, FS_CardinalityType
    <2> QED
      BY <2>5 DEF A, B
  <1>10. ~a.more => Ids(site[p]) \subseteq Ids(ToSet(got))
    BY <1>5 DEF Ids
  <1> QED
    BY <1>3, <1>6, <1>8, <1>9, <1>10 DEF a, got

(* A read goes on: all its cursors leave nothing out. *)
LEMMA CursorsGoOn ==
    ASSUME SiteOK, RunOK(read), NEW n, Whole(n),
           n.family = read.family, n.parts = read.parts, n.via = read.via, n.left = read.left,
           n.previous = read.previous, n.page = read.page, n.stay = read.stay, n.ever = read.ever,
           n.got \in [read.parts -> Seq(Item)], n.open \subseteq read.parts, DOMAIN n.total = read.parts,
           \A p \in read.parts : CursorOK(p, n.got[p]),
           \A p \in read.parts :
              n.total[p] # None /\ p \notin n.open => Stays(read, p) \subseteq ToSet(n.got[p])
    PROVE  Shape(n) /\ Seen(n) /\ Cursors(n)
  <1>1. Shape(read) /\ Seen(read)
    BY DEF RunOK
  <1>2. Shape(n)
    BY <1>1 DEF Shape
  <1>3. \A p : Stays(n, p) = Stays(read, p)
    BY DEF Stays
  <1>4. Pairs(n.got) \subseteq read.ever
    <2> SUFFICES ASSUME NEW e \in Pairs(n.got) PROVE e \in read.ever
      OBVIOUS
    <2>1. PICK q \in DOMAIN n.got : e \in {<<q, item>> : item \in ToSet(n.got[q])}
      BY DEF Pairs
    <2>2. PICK x \in ToSet(n.got[q]) : e = <<q, x>>
      BY <2>1
    <2>3. q \in read.parts
      OBVIOUS
    <2>4. CursorOK(q, n.got[q])
      BY <2>3
    <2> QED
      BY <2>2, <2>4 DEF CursorOK
  <1>5. Seen(n)
    BY <1>1, <1>4 DEF Seen, CursorOK
  <1>6. Cursors(n)
    BY <1>3 DEF Cursors, CursorOK
  <1> QED
    BY <1>2, <1>5, <1>6

(* One request of a pager: all active connections go on by a page. *)
LEMMA PagesNext ==
    ASSUME SiteOK, RunOK(read), read.state = "running", read.via = "connection"
    PROVE  LET page == [p \in Active |-> After(p, read.got[p])]
               next == Appended(page) IN
           /\ RunOK(next) /\ next.state = "running" /\ next.family = read.family
           /\ next.via = "connection" /\ next.got \in [read.parts -> Seq(Item)]
           /\ next.open = {} => DoneWhole(next.got)
           /\ \A p \in Active : Consistent(read.total[p], page[p], next.got[p]) /\ p \notin next.open
                                => Ids(ToSet(next.got[p])) = Ids(site[p])
           /\ read.open \subseteq Active
  <1> DEFINE page == [p \in Active |-> After(p, read.got[p])]
             next == Appended(page)
  <1>1. Shape(read) /\ Whole(read) /\ Seen(read) /\ Cursors(read) /\ InStepOK(read)
        /\ read.got \in [read.parts -> Seq(Item)]
    BY DEF RunOK, Shape
  <1>2. /\ Active \subseteq read.parts /\ read.open \subseteq Active
        /\ read.open = {} => Active = read.parts
        /\ \A p \in read.parts \ Active : read.open # {} /\ p \notin read.open
    BY <1>1 DEF Active, Cursors
  <1>3. DOMAIN read.total = read.parts /\ \A p \in read.parts \ Active : read.total[p] # None
    BY <1>1, <1>2 DEF InStepOK, Cursors
  <1>4. /\ next.state = read.state /\ next.family = read.family /\ next.parts = read.parts
        /\ next.via = read.via /\ next.left = read.left /\ next.previous = read.previous
        /\ next.page = read.page /\ next.stay = read.stay /\ next.ever = read.ever
        /\ next.got = [p \in read.parts |->
                          IF p \in Active THEN read.got[p] \o page[p].nodes ELSE read.got[p]]
        /\ next.total = [p \in read.parts |-> IF p \in Active THEN page[p].total ELSE read.total[p]]
        /\ next.open = {p \in Active : page[p].more}
        /\ Whole(next)
    BY <1>1 DEF Whole, Appended
  <1>5. \A p \in Active : page[p] = After(p, read.got[p])
    OBVIOUS
  <1> HIDE DEF page, next
  <1>6. \A p \in read.parts :
            /\ p \in Active => /\ next.got[p] = read.got[p] \o page[p].nodes
                               /\ next.total[p] = page[p].total
                               /\ p \in next.open <=> page[p].more
            /\ p \notin Active => /\ next.got[p] = read.got[p] /\ next.total[p] = read.total[p]
                                  /\ p \notin next.open
    <2> TAKE p \in read.parts
    <2>1. next.got[p] = IF p \in Active THEN read.got[p] \o page[p].nodes ELSE read.got[p]
      BY <1>4
    <2>2. next.total[p] = IF p \in Active THEN page[p].total ELSE read.total[p]
      BY <1>4
    <2>3. p \in next.open <=> p \in Active /\ page[p].more
      BY <1>4
    <2> QED
      BY <2>1, <2>2, <2>3
  <1>7. ASSUME NEW p \in Active
        PROVE  /\ CursorOK(p, next.got[p]) /\ next.total[p] # None
               /\ p \notin next.open => Stays(read, p) \subseteq ToSet(next.got[p])
               /\ Consistent(read.total[p], page[p], next.got[p]) /\ p \notin next.open
                  => Ids(ToSet(next.got[p])) = Ids(site[p])
    <2> DEFINE items == read.got[p]
               a == After(p, items)
               got == items \o a.nodes
    <2>1. p \in read.parts
      BY <1>2
    <2>2. CursorOK(p, items)
      BY <2>1, CursorIs
    <2>3. /\ CursorOK(p, got) /\ a.total \in Nat
          /\ ~a.more => Stays(read, p) \subseteq ToSet(got)
          /\ ~a.more /\ Len(got) = a.total => Ids(ToSet(got)) = Ids(site[p])
      BY <2>1, <2>2, CursorNext
    <2>4. page[p] = a /\ next.got[p] = got /\ next.total[p] = a.total /\ (p \in next.open <=> a.more)
      BY <1>5, <1>6, <2>1
    <2> HIDE DEF items, a, got
    <2>5. a.total # None
      BY <2>3, ReadsAssumption
    <2>6. Consistent(read.total[p], page[p], next.got[p]) /\ ~a.more => Len(got) = a.total
      BY <2>4 DEF Consistent
    <2> QED
      BY <2>3, <2>4, <2>5, <2>6
  <1>8. ASSUME NEW p \in read.parts
        PROVE  /\ CursorOK(p, next.got[p]) /\ next.total[p] # None
               /\ p \notin next.open => Stays(read, p) \subseteq ToSet(next.got[p])
    <2>1. CASE p \in Active
      BY <1>7, <2>1
    <2>2. CASE p \notin Active
      <3>1. next.got[p] = read.got[p] /\ next.total[p] = read.total[p] /\ p \notin read.open
            /\ read.total[p] # None
        BY <1>2, <1>3, <1>6, <2>2
      <3>2. /\ CursorOK(p, read.got[p])
            /\ read.total[p] # None /\ p \notin read.open => Stays(read, p) \subseteq ToSet(read.got[p])
        BY CursorIs
      <3> QED
        BY <3>1, <3>2
    <2> QED
      BY <2>1, <2>2
  <1>9. next.got \in [read.parts -> Seq(Item)]
    <2>1. \A p \in read.parts : next.got[p] \in Seq(Item)
      BY <1>8 DEF CursorOK
    <2> QED
      BY <1>4, <2>1
  <1>14. Shape(next) /\ Seen(next) /\ Cursors(next)
    <2>1. /\ next.open \subseteq read.parts /\ DOMAIN next.total = read.parts
          /\ \A p \in read.parts :
                next.total[p] # None /\ p \notin next.open => Stays(read, p) \subseteq ToSet(next.got[p])
      BY <1>2, <1>4, <1>8
    <2> QED
      BY <1>4, <1>8, <1>9, <2>1, CursorsGoOn
  <1>15. InStepOK(next)
    BY <1>4, <1>8 DEF InStepOK
  <1>16. RunOK(next)
    BY <1>4, <1>14, <1>15 DEF RunOK
  <1>17. next.open = {} => DoneWhole(next.got)
    <2> SUFFICES ASSUME next.open = {} PROVE DoneWhole(next.got)
      OBVIOUS
    <2>1. \A p \in read.parts : Ascending(next.got[p]) /\ \A x \in ToSet(next.got[p]) : <<p, x>> \in read.ever
      BY <1>8 DEF CursorOK
    <2>2. \A p \in read.parts : Stays(read, p) \subseteq ToSet(next.got[p])
      BY <1>8
    <2> QED
      BY <1>9, <2>1, <2>2, PartsWhole
  <1> QED
    BY <1>2, <1>4, <1>7, <1>9, <1>16, <1>17 DEF page, next

(* What a request of a pager may do. *)
PageStep ==
    LET page == [p \in Active |-> After(p, read.got[p])]
        next == Appended(page) IN
    /\ Running("connection")
    /\ \/ read' = Failed(TRUE, OtherWay)
       \/ read' = Failed(FALSE, OtherWay)
       \/ /\ \A p \in Active : Consistent(read.total[p], page[p], next.got[p])
          /\ read' = IF next.open = {} THEN Done(next.got, None) ELSE next

(* All pagers work by the same step. *)
LEMMA PagersStep ==
    ASSUME ParentPage \/ PullPage \/ NodePage \/ RelationsPage \/ ClosingPage
    PROVE  PageStep
  <1>1. ASSUME NEW families, NextPage(families, Inconsistent) PROVE PageStep
    BY <1>1 DEF NextPage, PageStep, Inconsistent
  <1>2. ASSUME NEW families, NextPage(families, IF read.open = {} THEN NotFound ELSE Inconsistent)
        PROVE  PageStep
    BY <1>2 DEF NextPage, PageStep, Inconsistent, NotFound
  <1> QED
    BY <1>1, <1>2 DEF ParentPage, PullPage, NodePage, RelationsPage, ClosingPage

(* A transport that failed is not tried again. *)
LEMMA FailedGoesOn ==
    ASSUME SiteOK, RunOK(read), read.state = "running", read.via = "connection", NEW conclusive
    PROVE  LET n == Failed(conclusive, OtherWay) IN
           ~(n.state \in {"running", "read"} /\ n.via = "connection")
  <1> DEFINE n == Failed(conclusive, OtherWay)
  <1>1. n.state = "failed" \/ (n.state = "running" /\ n.via \in read.left)
    BY RunFails
  <1>2. "connection" \notin read.left
    BY DEF RunOK, Shape
  <1> HIDE DEF n
  <1>3. ~(n.state \in {"running", "read"} /\ n.via = "connection")
    BY <1>1, <1>2
  <1> QED
    BY <1>3 DEF n

CountFits ==
    read.via = "connection" /\ read'.state \in {"running", "read"} /\ read'.via = "connection" =>
        \A p \in read.open \ read'.open : Ids(ToSet(read'.got[p])) = Ids(site[p])

(* A page of the connections that are open. *)
LEMMA PageStepOK ==
    ASSUME SiteOK, RunOK(read), PageStep
    PROVE  StepOK(read') /\ CountFits
  <1> DEFINE page == [p \in Active |-> After(p, read.got[p])]
             next == Appended(page)
             done == Done(next.got, None)
  <1>1. read.state = "running" /\ read.via = "connection"
    BY DEF PageStep, Running
  <1>2. /\ RunOK(next) /\ next.state = "running" /\ next.family = read.family
        /\ next.via = "connection" /\ next.got \in [read.parts -> Seq(Item)]
        /\ next.open = {} => DoneWhole(next.got)
        /\ \A p \in Active : Consistent(read.total[p], page[p], next.got[p]) /\ p \notin next.open
                             => Ids(ToSet(next.got[p])) = Ids(site[p])
        /\ read.open \subseteq Active
    BY <1>1, PagesNext
  <1>3. \/ read' = Failed(TRUE, OtherWay)
        \/ read' = Failed(FALSE, OtherWay)
        \/ /\ \A p \in Active : Consistent(read.total[p], page[p], next.got[p])
           /\ read' = IF next.open = {} THEN done ELSE next
    BY DEF PageStep
  <1>4. ASSUME NEW conclusive, read' = Failed(conclusive, OtherWay) PROVE StepOK(read') /\ CountFits
    <2>1. StepOK(read')
      BY <1>1, <1>4, FailStep
    <2>2. CountFits
      BY <1>1, <1>4, FailedGoesOn DEF CountFits
    <2> QED
      BY <2>1, <2>2
  <1> HIDE DEF page, next
  <1>5. CASE /\ \A p \in Active : Consistent(read.total[p], page[p], next.got[p])
             /\ read' = IF next.open = {} THEN done ELSE next
    <2>1. CASE next.open # {}
      <3>1. read' = next
        BY <1>5, <2>1
      <3>2. StepOK(next)
        BY <1>2 DEF StepOK
      <3>3. \A p \in read.open \ next.open : Ids(ToSet(next.got[p])) = Ids(site[p])
        BY <1>2, <1>5
      <3> QED
        BY <3>1, <3>2, <3>3 DEF CountFits
    <2>2. CASE next.open = {}
      <3>1. read' = done
        BY <1>5, <2>2
      <3>2. StepOK(done)
        BY <1>1, <1>2, <2>2, DoneStep
      <3>3. \A p \in read.open : Ids(ToSet(next.got[p])) = Ids(site[p])
        BY <1>2, <1>5, <2>2
      <3>4. CASE SizeFits(next.got)
        <4>1. done = [read EXCEPT !.state = "read", !.got = next.got, !.tags = None, !.open = {}]
          BY <3>4 DEF Done
        <4>2. done.got = next.got
          BY <4>1 DEF RunOK, Shape, Whole
        <4> HIDE DEF done
        <4> QED
          BY <3>1, <3>2, <3>3, <4>2 DEF CountFits
      <3>5. CASE ~SizeFits(next.got)
        <4>1. done = Failed(FALSE, OtherWay)
          BY <3>5 DEF Done
        <4> QED
          BY <1>4, <3>1, <4>1
      <3> QED
        BY <3>4, <3>5
    <2> QED
      BY <2>1, <2>2
  <1> QED
    BY <1>3, <1>4, <1>5

(* The connections of a read of threads. *)
LEMMA NestedIs ==
    ASSUME SiteOK, RunOK(read), read.via = "threads"
    PROVE  /\ read.parts = {"threads"} \union Comments /\ "threads" \notin Comments
           /\ Shape(read) /\ Whole(read) /\ Nested(read) /\ Cursors(read)
           /\ read.got \in [read.parts -> Seq(Item)] /\ DOMAIN read.total = read.parts
           /\ read.open \subseteq {"threads"} \union ToSet(read.queue)
           /\ read.queue \in Seq(Comments) /\ ToSet(read.queue) \subseteq Comments
           /\ \A x \in ToSet(read.got["threads"]) : x.id \in Threads /\ read.total[Inner[x.id]] # None
           /\ read.total["threads"] # None /\ "threads" \notin read.open =>
                 \A p \in Comments : Stays(read, p) # {} => \E x \in ToSet(read.got["threads"]) : Inner[x.id] = p
           /\ \A p \in read.parts : CursorOK(p, read.got[p])
           /\ \A p \in read.parts :
                 read.total[p] # None /\ p \notin read.open => Stays(read, p) \subseteq ToSet(read.got[p])
  <1>1. read.parts = {"threads"} \union Comments /\ "threads" \notin Comments
    BY RunFields, ThreadsAre
  <1>2. Shape(read) /\ Whole(read) /\ Nested(read) /\ Cursors(read) /\ read.got \in [read.parts -> Seq(Item)]
    BY DEF RunOK, Shape
  <1>3. Sequence(read.queue) /\ ToSet(read.queue) \subseteq Comments
    BY <1>2 DEF Nested
  <1>4. read.queue \in Seq(Comments)
    BY <1>3 DEF Sequence
  <1>5. DOMAIN read.total = read.parts
    BY <1>2 DEF Cursors
  <1>6. \A p \in read.parts :
            /\ CursorOK(p, read.got[p])
            /\ read.total[p] # None /\ p \notin read.open => Stays(read, p) \subseteq ToSet(read.got[p])
    BY CursorIs
  <1>7. /\ read.open \subseteq {"threads"} \union ToSet(read.queue)
        /\ \A x \in ToSet(read.got["threads"]) : x.id \in Threads /\ read.total[Inner[x.id]] # None
        /\ read.total["threads"] # None /\ "threads" \notin read.open =>
                 \A p \in Comments : Stays(read, p) # {} => \E x \in ToSet(read.got["threads"]) : Inner[x.id] = p
    BY <1>2 DEF Nested
  <1> QED
    BY <1>1, <1>2, <1>3, <1>4, <1>5, <1>6, <1>7

(* What holds of a queue holds of its rest. *)
LEMMA QueueIs ==
    ASSUME NEW S, NEW q \in Seq(S), q # <<>>
    PROVE  /\ Head(q) \in ToSet(q) /\ Tail(q) \in Seq(S) /\ Sequence(Tail(q))
           /\ ToSet(Tail(q)) \subseteq ToSet(q) /\ ToSet(q) \subseteq {Head(q)} \union ToSet(Tail(q))
  <1>1. Len(q) \in Nat /\ Len(q) > 0 /\ Tail(q) \in Seq(S) /\ Len(Tail(q)) = Len(q) - 1
        /\ Head(q) = q[1] /\ \A i \in 1 .. Len(q) - 1 : Tail(q)[i] = q[i + 1]
    OBVIOUS
  <1>2. /\ \A x : x \in ToSet(q) <=> \E i \in 1 .. Len(q) : q[i] = x
        /\ \A x : x \in ToSet(Tail(q)) <=> \E i \in 1 .. Len(q) - 1 : Tail(q)[i] = x
    <2>1. \A x : x \in ToSet(q) <=> \E i \in 1 .. Len(q) : q[i] = x
      BY ToSetIs
    <2> DEFINE u == Tail(q)
    <2>2. u \in Seq(S) /\ Len(u) = Len(q) - 1
      BY <1>1
    <2> HIDE DEF u
    <2>3. \A x : x \in ToSet(u) <=> \E i \in 1 .. Len(u) : u[i] = x
      BY <2>2, ToSetIs
    <2> QED
      BY <2>1, <2>2, <2>3 DEF u
  <1>3. Sequence(Tail(q))
    BY <1>1, ToSetIs DEF Sequence
  <1> DEFINE t == Tail(q)
  <1> HIDE DEF t
  <1>4. ASSUME NEW x \in ToSet(q), x # Head(q) PROVE x \in ToSet(Tail(q))
    <2>1. PICK i \in 1 .. Len(q) : q[i] = x
      BY <1>2
    <2>2. i # 1
      BY <1>1, <1>4, <2>1
    <2>3. i - 1 \in 1 .. Len(q) - 1 /\ (i - 1) + 1 = i
      BY <1>1, <2>1, <2>2
    <2>4. Tail(q)[i - 1] = x
      BY <1>1, <2>1, <2>3
    <2> QED
      BY <1>2, <2>3, <2>4
  <1>5. ASSUME NEW x \in ToSet(Tail(q)) PROVE x \in ToSet(q)
    <2>1. PICK i \in 1 .. Len(q) - 1 : Tail(q)[i] = x
      BY <1>2
    <2>2. q[i + 1] = x /\ i + 1 \in 1 .. Len(q)
      BY <1>1, <2>1
    <2> QED
      BY <1>2, <2>2
  <1>6. Head(q) \in ToSet(q)
    BY <1>1, <1>2
  <1> QED
    BY <1>1, <1>3, <1>4, <1>5, <1>6

(* The end of the comments of one thread. *)
LEMMA ThreadEndsStep ==
    ASSUME SiteOK, RunOK(read), ThreadEnds
    PROVE  StepOK(read')
  <1> DEFINE p == Head(read.queue)
             n == [read EXCEPT !.queue = Tail(@)]
  <1>1. read.state = "running" /\ read.via = "threads" /\ read.queue # <<>> /\ p \notin read.open
    BY DEF ThreadEnds, Running
  <1>2. read' = Failed(FALSE, OtherWay) \/ read' = n
    BY DEF ThreadEnds, Inconsistent
  <1>3. StepOK(Failed(FALSE, OtherWay))
    BY <1>1, FailStep
  <1>4. /\ read.parts = {"threads"} \union Comments /\ Shape(read) /\ Whole(read) /\ Nested(read)
        /\ read.got \in [read.parts -> Seq(Item)] /\ DOMAIN read.total = read.parts
        /\ read.open \subseteq {"threads"} \union ToSet(read.queue) /\ Cursors(read)
        /\ read.queue \in Seq(Comments) /\ ToSet(read.queue) \subseteq Comments
        /\ \A q \in read.parts : CursorOK(q, read.got[q])
        /\ \A q \in read.parts :
              read.total[q] # None /\ q \notin read.open => Stays(read, q) \subseteq ToSet(read.got[q])
    BY <1>1, NestedIs
  <1>5. /\ Tail(read.queue) \in Seq(Comments) /\ Sequence(Tail(read.queue))
        /\ ToSet(Tail(read.queue)) \subseteq ToSet(read.queue)
        /\ ToSet(read.queue) \subseteq {p} \union ToSet(Tail(read.queue))
    BY <1>1, <1>4, QueueIs
  <1>6. /\ n.state = read.state /\ n.family = read.family /\ n.parts = read.parts /\ n.via = read.via
        /\ n.left = read.left /\ n.previous = read.previous /\ n.page = read.page /\ n.got = read.got
        /\ n.total = read.total /\ n.open = read.open /\ n.queue = Tail(read.queue)
        /\ n.stay = read.stay /\ n.ever = read.ever /\ Whole(n)
    BY <1>4 DEF Whole
  <1> HIDE DEF n, p
  <1>7. Shape(n) /\ Seen(n) /\ Cursors(n)
    <2>1. read.open \subseteq read.parts
      BY <1>4 DEF Cursors
    <2> QED
      BY <1>4, <1>6, <2>1, CursorsGoOn
  <1>8. Nested(n)
    <2>1. \A q : Stays(n, q) = Stays(read, q)
      BY <1>6 DEF Stays
    <2>2. n.open \subseteq {"threads"} \union ToSet(n.queue)
      BY <1>1, <1>4, <1>5, <1>6
    <2>3. Sequence(n.queue) /\ ToSet(n.queue) \subseteq Comments
      BY <1>4, <1>5, <1>6
    <2>4. /\ \A x \in ToSet(n.got["threads"]) : x.id \in Threads /\ n.total[Inner[x.id]] # None
          /\ n.total["threads"] # None /\ "threads" \notin n.open =>
                \A q \in Comments : Stays(n, q) # {} => \E x \in ToSet(n.got["threads"]) : Inner[x.id] = q
      BY <1>4, <1>6, <2>1 DEF Nested
    <2> QED
      BY <2>2, <2>3, <2>4 DEF Nested
  <1>9. StepOK(n)
    BY <1>1, <1>6, <1>7, <1>8 DEF StepOK, RunOK
  <1> QED
    BY <1>2, <1>3, <1>9

(* The end of all threads. *)
LEMMA ThreadsEndStep ==
    ASSUME SiteOK, RunOK(read), ThreadsEnd
    PROVE  StepOK(read')
  <1>1. /\ read.state = "running" /\ read.via = "threads" /\ read.queue = <<>>
        /\ read.total["threads"] # None /\ "threads" \notin read.open
    BY DEF ThreadsEnd, Running
  <1>2. read' = Failed(FALSE, OtherWay) \/ read' = Done(read.got, None)
    BY DEF ThreadsEnd, Inconsistent
  <1>3. StepOK(Failed(FALSE, OtherWay))
    BY <1>1, FailStep
  <1>4. /\ read.parts = {"threads"} \union Comments
        /\ read.got \in [read.parts -> Seq(Item)]
        /\ read.open \subseteq {"threads"} \union ToSet(read.queue)
        /\ \A x \in ToSet(read.got["threads"]) : x.id \in Threads /\ read.total[Inner[x.id]] # None
        /\ \A p \in Comments : Stays(read, p) # {} => \E x \in ToSet(read.got["threads"]) : Inner[x.id] = p
        /\ \A q \in read.parts : CursorOK(q, read.got[q])
        /\ \A q \in read.parts :
              read.total[q] # None /\ q \notin read.open => Stays(read, q) \subseteq ToSet(read.got[q])
    BY <1>1, NestedIs
  <1>5. read.open = {}
    <2>1. ToSet(<<>>) = {}
      BY DEF ToSet
    <2> QED
      BY <1>1, <1>4, <2>1
  <1>6. ASSUME NEW p \in read.parts PROVE Stays(read, p) \subseteq ToSet(read.got[p])
    <2>1. CASE p = "threads"
      BY <1>1, <1>4, <2>1
    <2>2. CASE p \in Comments
      <3> SUFFICES ASSUME Stays(read, p) # {} PROVE Stays(read, p) \subseteq ToSet(read.got[p])
        OBVIOUS
      <3>1. PICK x \in ToSet(read.got["threads"]) : Inner[x.id] = p
        BY <1>4, <2>2
      <3>2. read.total[p] # None
        BY <1>4, <3>1
      <3> QED
        BY <1>4, <1>5, <3>2
    <2> QED
      BY <1>4, <2>1, <2>2
  <1>7. \A p \in read.parts : Ascending(read.got[p]) /\ \A x \in ToSet(read.got[p]) : <<p, x>> \in read.ever
    BY <1>4 DEF CursorOK
  <1>8. DoneWhole(read.got)
    BY <1>4, <1>6, <1>7, PartsWhole
  <1>9. StepOK(Done(read.got, None))
    BY <1>1, <1>4, <1>8, DoneStep
  <1> QED
    BY <1>2, <1>3, <1>9

(* A page of the comments of one thread. *)
LEMMA CommentsPageStep ==
    ASSUME SiteOK, RunOK(read), CommentsPage
    PROVE  StepOK(read')
  <1> DEFINE p == Head(read.queue)
             page == After(p, read.got[p])
             got == read.got[p] \o page.nodes
             n == [read EXCEPT !.got[p] = got, !.open = IF page.more THEN @ ELSE @ \ {p}]
  <1>1. read.state = "running" /\ read.via = "threads" /\ read.queue # <<>> /\ p \in read.open
    BY DEF CommentsPage, Running
  <1>2. read' = Failed(FALSE, OtherWay) \/ read' = n
    BY DEF CommentsPage, Inconsistent
  <1>3. StepOK(Failed(FALSE, OtherWay))
    BY <1>1, FailStep
  <1>4. /\ read.parts = {"threads"} \union Comments /\ "threads" \notin Comments
        /\ Shape(read) /\ Whole(read) /\ Nested(read)
        /\ read.got \in [read.parts -> Seq(Item)] /\ DOMAIN read.total = read.parts
        /\ read.open \subseteq {"threads"} \union ToSet(read.queue) /\ Cursors(read)
        /\ read.queue \in Seq(Comments) /\ ToSet(read.queue) \subseteq Comments
        /\ \A q \in read.parts : CursorOK(q, read.got[q])
        /\ \A q \in read.parts :
              read.total[q] # None /\ q \notin read.open => Stays(read, q) \subseteq ToSet(read.got[q])
    BY <1>1, NestedIs
  <1>5. p \in ToSet(read.queue)
    BY <1>1, <1>4, QueueIs
  <1>6. p \in Comments /\ p \in read.parts /\ p # "threads"
    BY <1>4, <1>5
  <1> HIDE DEF p
  <1>7. CursorOK(p, got) /\ (~page.more => Stays(read, p) \subseteq ToSet(got))
    <2> DEFINE items == read.got[p]
    <2>1. CursorOK(p, items)
      BY <1>4, <1>6
    <2> HIDE DEF items
    <2>2. LET a == After(p, items)
              all == items \o a.nodes IN
          CursorOK(p, all) /\ (~a.more => Stays(read, p) \subseteq ToSet(all))
      BY <1>1, <1>6, <2>1, CursorNext
    <2> QED
      BY <2>2 DEF items
  <1> HIDE DEF page, got
  <1>8. /\ n.state = read.state /\ n.family = read.family /\ n.parts = read.parts /\ n.via = read.via
        /\ n.left = read.left /\ n.previous = read.previous /\ n.page = read.page
        /\ n.got = [read.got EXCEPT ![p] = got]
        /\ n.total = read.total /\ n.open = (IF page.more THEN read.open ELSE read.open \ {p})
        /\ n.queue = read.queue
        /\ n.stay = read.stay /\ n.ever = read.ever /\ Whole(n)
    BY <1>4 DEF Whole
  <1> HIDE DEF n
  <1>9. /\ n.got[p] = got /\ \A q \in read.parts : q # p => n.got[q] = read.got[q]
        /\ DOMAIN n.got = read.parts
    BY <1>4, <1>6, <1>8
  <1>10. \A q \in read.parts : CursorOK(q, n.got[q])
    BY <1>4, <1>7, <1>9
  <1>11. n.got \in [read.parts -> Seq(Item)]
    <2>1. got \in Seq(Item)
      BY <1>7 DEF CursorOK
    <2>2. read.got \in [read.parts -> Seq(Item)]
      BY <1>4
    <2>3. n.got = [read.got EXCEPT ![p] = got]
      BY <1>8
    <2> QED
      BY <2>1, <2>2, <2>3
  <1>12. n.open \subseteq read.open /\ (p \notin n.open <=> ~page.more)
         /\ \A q : q # p => (q \in n.open <=> q \in read.open)
    BY <1>1, <1>8
  <1>13. ASSUME NEW q \in read.parts, n.total[q] # None, q \notin n.open
         PROVE  Stays(read, q) \subseteq ToSet(n.got[q])
    <2>1. CASE q = p
      BY <1>7, <1>9, <1>12, <1>13, <2>1
    <2>2. CASE q # p
      BY <1>4, <1>8, <1>9, <1>12, <1>13, <2>2
    <2> QED
      BY <2>1, <2>2
  <1>14. Shape(n) /\ Seen(n) /\ Cursors(n)
    <2>1. n.open \subseteq read.parts
      BY <1>4, <1>12 DEF Cursors
    <2> QED
      BY <1>4, <1>8, <1>10, <1>11, <1>13, <2>1, CursorsGoOn
  <1>15. Nested(n)
    <2>1. \A q : Stays(n, q) = Stays(read, q)
      BY <1>8 DEF Stays
    <2>2. n.open \subseteq {"threads"} \union ToSet(n.queue)
      BY <1>4, <1>8, <1>12
    <2>3. Sequence(n.queue) /\ ToSet(n.queue) \subseteq Comments
      BY <1>4, <1>8 DEF Nested
    <2>4. n.got["threads"] = read.got["threads"] /\ n.total = read.total
          /\ ("threads" \in n.open <=> "threads" \in read.open)
      BY <1>4, <1>6, <1>8, <1>9, <1>12
    <2>5. /\ \A x \in ToSet(n.got["threads"]) : x.id \in Threads /\ n.total[Inner[x.id]] # None
          /\ n.total["threads"] # None /\ "threads" \notin n.open =>
                \A q \in Comments : Stays(n, q) # {} => \E x \in ToSet(n.got["threads"]) : Inner[x.id] = q
      BY <1>4, <2>1, <2>4 DEF Nested
    <2> QED
      BY <2>2, <2>3, <2>5 DEF Nested
  <1>16. StepOK(n)
    BY <1>1, <1>8, <1>14, <1>15 DEF StepOK, RunOK
  <1> QED
    BY <1>2, <1>3, <1>16

(* A page of threads. *)
LEMMA ThreadsPageStep ==
    ASSUME SiteOK, RunOK(read), ThreadsPage
    PROVE  StepOK(read')
  <1> DEFINE items == read.got["threads"]
             page == After("threads", items)
             found == [i \in DOMAIN page.nodes |-> Inner[page.nodes[i].id]]
             new == ToSet(found)
             first == [p \in new |-> After(p, <<>>)]
             n == [read EXCEPT
                !.got = [p \in read.parts |->
                            IF p = "threads" THEN @["threads"] \o page.nodes
                            ELSE IF p \in new THEN first[p].nodes ELSE @[p]],
                !.total = [p \in read.parts |->
                            IF p = "threads" THEN page.total
                            ELSE IF p \in new THEN first[p].total ELSE @[p]],
                !.open = {p \in new : first[p].more}
                            \union (IF page.more THEN {"threads"} ELSE {}),
                !.queue = found]
  <1>1. read.state = "running" /\ read.via = "threads" /\ read.queue = <<>>
    BY DEF ThreadsPage, Running
  <1>2. (\E c \in {TRUE, FALSE} : read' = Failed(c, OtherWay)) \/ read' = n
    <2>1. read' = Failed(read.family = "threads", OtherWay) \/ read' = Failed(FALSE, OtherWay) \/ read' = n
      BY DEF ThreadsPage, Inconsistent
    <2>2. (read.family = "threads") \in {TRUE, FALSE}
      OBVIOUS
    <2> HIDE DEF n
    <2> QED
      BY <2>1, <2>2
  <1>3. \A c : StepOK(Failed(c, OtherWay))
    BY <1>1, FailStep
  <1>4. /\ read.parts = {"threads"} \union Comments /\ "threads" \notin Comments
        /\ Shape(read) /\ Whole(read)
        /\ read.got \in [read.parts -> Seq(Item)] /\ DOMAIN read.total = read.parts
        /\ read.open \subseteq {"threads"} \union ToSet(read.queue)
        /\ \A x \in ToSet(read.got["threads"]) : x.id \in Threads /\ read.total[Inner[x.id]] # None
        /\ \A q \in read.parts : CursorOK(q, read.got[q])
        /\ \A q \in read.parts :
              read.total[q] # None /\ q \notin read.open => Stays(read, q) \subseteq ToSet(read.got[q])
    BY <1>1, NestedIs
  <1>5. \A q \in Comments : q \notin read.open
    <2>1. ToSet(<<>>) = {}
      BY DEF ToSet
    <2> QED
      BY <1>1, <1>4, <2>1
  <1> HIDE DEF items
  <1> DEFINE got == items \o page.nodes
  <1>6. /\ CursorOK("threads", got) /\ page.total \in Nat /\ page.nodes \in Seq(Item)
        /\ ToSet(page.nodes) \subseteq site["threads"] /\ ToSet(got) = ToSet(items) \union ToSet(page.nodes)
        /\ ~page.more => Stays(read, "threads") \subseteq ToSet(got)
        /\ ~page.more => Ids(site["threads"]) \subseteq Ids(ToSet(got))
    <2>1. CursorOK("threads", items) /\ "threads" \in read.parts
      BY <1>4 DEF items
    <2> QED
      BY <1>1, <2>1, CursorNext
  <1>7. ThreadsOK /\ \A p \in read.parts : p \in DOMAIN site
    <2>1. \A p \in read.parts : p \in DOMAIN site
      BY <1>1, CursorIs
    <2> QED
      BY <1>4, <2>1 DEF SiteOK
  <1>8. \A x \in ToSet(page.nodes) : x.id \in Threads /\ Inner[x.id] \in Comments
    <2>1. \A x \in ToSet(page.nodes) : x.id \in Ids(site["threads"])
      BY <1>6 DEF Ids
    <2>2. \A x \in ToSet(page.nodes) : x.id \in Threads
      BY <1>7, <2>1 DEF ThreadsOK
    <2> QED
      BY <2>2, ThreadsAre
  <1> HIDE DEF page, got
  <1>9. found \in Seq(Comments) /\ new \subseteq Comments /\ Sequence(found)
        /\ \A x \in ToSet(page.nodes) : Inner[x.id] \in new
    <2> DEFINE nodes == page.nodes
    <2>1. nodes \in Seq(Item) /\ DOMAIN nodes = 1 .. Len(nodes) /\ Len(nodes) \in Nat
      BY <1>6
    <2>2. \A x : x \in ToSet(nodes) <=> \E i \in 1 .. Len(nodes) : nodes[i] = x
      BY <2>1, ToSetIs
    <2>3. \A i \in DOMAIN nodes : Inner[nodes[i].id] \in Comments
      BY <1>8, <2>1, <2>2
    <2>4. found = [i \in 1 .. Len(nodes) |-> Inner[nodes[i].id]]
      BY <2>1
    <2> HIDE DEF nodes
    <2>5. found \in Seq(Comments) /\ Len(found) = Len(nodes)
          /\ \A i \in 1 .. Len(nodes) : found[i] = Inner[nodes[i].id]
      <3> HIDE DEF found
      <3>1. found \in [1 .. Len(nodes) -> Comments]
        BY <2>1, <2>3, <2>4
      <3> QED
        BY <2>1, <2>4, <3>1
    <2> HIDE DEF found
    <2>6. /\ ToSet(found) \subseteq Comments /\ Sequence(found)
          /\ \A x : x \in ToSet(found) <=> \E i \in 1 .. Len(found) : found[i] = x
      BY <2>5, ToSetIs DEF Sequence
    <2>7. \A x \in ToSet(nodes) : Inner[x.id] \in ToSet(found)
      <3> SUFFICES ASSUME NEW x \in ToSet(nodes) PROVE Inner[x.id] \in ToSet(found)
        OBVIOUS
      <3>1. PICK i \in 1 .. Len(nodes) : nodes[i] = x
        BY <2>2
      <3>2. found[i] = Inner[x.id] /\ i \in 1 .. Len(found)
        BY <2>5, <3>1
      <3> QED
        BY <2>6, <3>2
    <2> QED
      BY <2>5, <2>6, <2>7 DEF nodes
  <1>10. \A p \in new : first[p] = After(p, <<>>)
    OBVIOUS
  <1> HIDE DEF found, new, first
  <1>11. ASSUME NEW p \in new
         PROVE  /\ CursorOK(p, first[p].nodes) /\ first[p].total \in Nat
                /\ ~first[p].more => Stays(read, p) \subseteq ToSet(first[p].nodes)
    <2> DEFINE a == After(p, <<>>)
               all == <<>> \o a.nodes
    <2>1. p \in read.parts
      BY <1>4, <1>9
    <2>2. /\ CursorOK(p, all) /\ a.total \in Nat /\ a.nodes \in Seq(Item)
          /\ ~a.more => Stays(read, p) \subseteq ToSet(all)
      BY <1>1, <2>1, CursorStart, CursorNext
    <2>3. first[p] = a
      BY <1>10
    <2> HIDE DEF a
    <2>4. all = a.nodes
      BY <2>2
    <2> HIDE DEF all
    <2>5. CursorOK(p, a.nodes) /\ a.total \in Nat /\ (~a.more => Stays(read, p) \subseteq ToSet(a.nodes))
      BY <2>2, <2>4
    <2> QED
      BY <2>3, <2>5
  <1>12. /\ n.state = read.state /\ n.family = read.family /\ n.parts = read.parts /\ n.via = read.via
         /\ n.left = read.left /\ n.previous = read.previous /\ n.page = read.page
         /\ n.got = [p \in read.parts |->
                        IF p = "threads" THEN got ELSE IF p \in new THEN first[p].nodes ELSE read.got[p]]
         /\ n.total = [p \in read.parts |->
                        IF p = "threads" THEN page.total
                        ELSE IF p \in new THEN first[p].total ELSE read.total[p]]
         /\ n.open = {p \in new : first[p].more} \union (IF page.more THEN {"threads"} ELSE {})
         /\ n.queue = found
         /\ n.stay = read.stay /\ n.ever = read.ever /\ Whole(n)
    BY <1>4 DEF Whole, got, items
  <1> HIDE DEF n
  <1>13. /\ n.got["threads"] = got /\ n.total["threads"] = page.total
         /\ \A p \in new : n.got[p] = first[p].nodes /\ n.total[p] = first[p].total
         /\ \A p \in Comments \ new : n.got[p] = read.got[p] /\ n.total[p] = read.total[p]
    BY <1>4, <1>9, <1>12
  <1>14. /\ "threads" \in n.open <=> page.more
         /\ \A p \in new : p \in n.open <=> first[p].more
         /\ n.open \subseteq {"threads"} \union new
    BY <1>4, <1>9, <1>12
  <1>15. page.total # None /\ \A p \in new : first[p].total # None
    BY <1>6, <1>11, ReadsAssumption
  <1>16. \A p \in read.parts : CursorOK(p, n.got[p])
    <2> SUFFICES ASSUME NEW p \in read.parts PROVE CursorOK(p, n.got[p])
      OBVIOUS
    <2>1. CASE p = "threads"
      BY <1>6, <1>13, <2>1
    <2>2. CASE p \in new
      BY <1>11, <1>13, <2>2
    <2>3. CASE p \in Comments \ new
      BY <1>4, <1>13, <2>3
    <2> QED
      BY <1>4, <2>1, <2>2, <2>3
  <1>17. ASSUME NEW p \in read.parts, n.total[p] # None, p \notin n.open
         PROVE  Stays(read, p) \subseteq ToSet(n.got[p])
    <2>1. CASE p = "threads"
      BY <1>6, <1>13, <1>14, <1>17, <2>1
    <2>2. CASE p \in new
      BY <1>11, <1>13, <1>14, <1>17, <2>2
    <2>3. CASE p \in Comments \ new
      BY <1>4, <1>5, <1>13, <1>17, <2>3
    <2> QED
      BY <1>4, <2>1, <2>2, <2>3
  <1>18. n.got \in [read.parts -> Seq(Item)] /\ DOMAIN n.total = read.parts /\ n.open \subseteq read.parts
    <2>1. \A p \in read.parts : n.got[p] \in Seq(Item)
      BY <1>16 DEF CursorOK
    <2> QED
      BY <1>4, <1>9, <1>12, <1>14, <2>1
  <1>19. Shape(n) /\ Seen(n) /\ Cursors(n)
    BY <1>12, <1>16, <1>17, <1>18, CursorsGoOn
  <1>20. Nested(n)
    <2>1. \A q : Stays(n, q) = Stays(read, q)
      BY <1>12 DEF Stays
    <2>2. Sequence(n.queue) /\ ToSet(n.queue) \subseteq Comments /\ n.open \subseteq {"threads"} \union ToSet(n.queue)
      BY <1>9, <1>12, <1>14 DEF new
    <2>3. ASSUME NEW x \in ToSet(n.got["threads"]) PROVE x.id \in Threads /\ n.total[Inner[x.id]] # None
      <3>1. CASE x \in ToSet(items)
        <4>1. x.id \in Threads /\ read.total[Inner[x.id]] # None
          BY <1>4, <3>1 DEF items
        <4>2. Inner[x.id] \in Comments
          BY <4>1, ThreadsAre
        <4> QED
          BY <1>13, <1>15, <4>1, <4>2
      <3>2. CASE x \in ToSet(page.nodes)
        BY <1>8, <1>9, <1>13, <1>15, <3>2
      <3> QED
        BY <1>6, <1>13, <2>3, <3>1, <3>2
    <2>4. ASSUME "threads" \notin n.open, NEW q \in Comments, NEW y \in Stays(n, q)
          PROVE  \E x \in ToSet(n.got["threads"]) : Inner[x.id] = q
      <3>1. q \in read.parts
        BY <1>4
      <3>2. y \in site[q] /\ q \in DOMAIN site
        BY <1>1, <2>1, <2>4, <3>1, CursorIs
      <3>3. PICK t \in Threads : Inner[t] = q
        BY ThreadsAre
      <3>4. t \in Ids(site["threads"])
        BY <1>7, <3>2, <3>3 DEF ThreadsOK
      <3>5. t \in Ids(ToSet(got))
        BY <1>6, <1>14, <2>4, <3>4
      <3>6. PICK x \in ToSet(got) : x.id = t
        BY <3>5 DEF Ids
      <3> QED
        BY <1>13, <3>3, <3>6
    <2> QED
      BY <2>2, <2>3, <2>4 DEF Nested
  <1>21. StepOK(n)
    BY <1>1, <1>12, <1>19, <1>20 DEF StepOK, RunOK
  <1> QED
    BY <1>2, <1>3, <1>21

(* Every step of a read, and an answer without the form it must have. *)
LEMMA ReadStepOK ==
    ASSUME SiteOK, read.state = "running" => RunOK(read), ReadStep \/ Malformed
    PROVE  read.state = "running" /\ RunOK(read) /\ StepOK(read') /\ UNCHANGED github /\ CountFits
  <1>1. read.state = "running" /\ UNCHANGED github
    BY DEF ReadStep, Malformed, MalformedPage, MalformedConnection, ListPage, ValidatePage, Compare,
           ObjectRead, ParentPage, PullPage, NodePage, RelationsPage, ClosingPage, NextPage,
           ThreadsPage, CommentsPage, ThreadEnds, ThreadsEnd, Running
  <1>2. RunOK(read)
    BY <1>1
  <1>3. CASE ParentPage \/ PullPage \/ NodePage \/ RelationsPage \/ ClosingPage
    BY <1>1, <1>2, <1>3, PagersStep, PageStepOK
  <1>4. CASE Malformed
    <2>1. read' = Failed(FALSE, OtherWay)
      BY <1>4 DEF Malformed, MalformedPage, MalformedConnection, Inconsistent
    <2>2. StepOK(read')
      BY <1>1, <1>2, <2>1, FailStep
    <2>3. CountFits
      <3>1. CASE read.via = "connection"
        BY <1>1, <1>2, <2>1, <3>1, FailedGoesOn DEF CountFits
      <3>2. CASE read.via # "connection"
        BY <3>2 DEF CountFits
      <3> QED
        BY <3>1, <3>2
    <2> QED
      BY <1>1, <1>2, <2>2, <2>3
  <1>5. CASE ListPage \/ ValidatePage \/ Compare \/ ObjectRead
             \/ ThreadsPage \/ CommentsPage \/ ThreadEnds \/ ThreadsEnd
    <2>1. StepOK(read')
      BY <1>2, <1>5, ListPageStep, ValidatePageStep, CompareStep, ObjectReadStep,
         ThreadsPageStep, CommentsPageStep, ThreadEndsStep, ThreadsEndStep
    <2>2. read.via # "connection"
      BY <1>5 DEF ListPage, ValidatePage, Compare, ObjectRead, ThreadsPage, CommentsPage,
                  ThreadEnds, ThreadsEnd, Running
    <2>3. CountFits
      BY <2>2 DEF CountFits
    <2> QED
      BY <1>1, <1>2, <2>1, <2>3
  <1> QED
    BY <1>3, <1>4, <1>5 DEF ReadStep

FactsOK ==
    /\ current = [f \in parent.families |-> current[f]]
    /\ \A f \in parent.families : current[f] # None \/ f \in published => FactOK(f, current[f])
ReadOK ==
    /\ read.state \in {"none", "running", "read", "failed"}
    /\ read.state = "running" => RunOK(read)
    /\ read.state = "read" => DoneOK(read)
    /\ read.state # "none" =>
          attempt /\ read.family \in parent.families \intersect task.families
WholeTask ==
    task \in [number : {task.number}, kind : {task.kind}, state : {task.state},
              families : {task.families}, item : {task.item}, force : {task.force},
              outcome : {task.outcome}]
RefreshOK(families) ==
    /\ "issue" \in families /\ families \intersect Reacted \in {{}, Reacted}
    /\ families \subseteq parent.families \union {"issue"} \union
                          (IF parent.kind = "pull" THEN {"pull"} ELSE {})
TaskOK ==
    /\ WholeTask
    /\ published \subseteq task.families
    /\ attempt => task.state = "pending"
    /\ task.state = "pending" => task.outcome = None
    /\ task.kind = "refresh" => RefreshOK(task.families)

ReadsInv == SiteOK /\ FactsOK /\ ReadOK /\ TaskOK

(* Nothing is read at the start. *)
LEMMA ReadsInit == Init => ReadsInv
  <1> SUFFICES ASSUME Init PROVE ReadsInv
    OBVIOUS
  <1>1. SiteOK
    BY SiteInit DEF Init
  <1>2. /\ read = [state |-> "none"] /\ published = {} /\ attempt = FALSE
        /\ task = [number |-> 0, kind |-> "sync", state |-> "done", families |-> {}, item |-> None,
                   force |-> FALSE, outcome |-> None]
        /\ current = [f \in parent.families |-> None]
    BY DEF Init, InitReads, NoRead
  <1>3. FactsOK
    BY <1>2 DEF FactsOK
  <1>4. ReadOK
    BY <1>2 DEF ReadOK
  <1>5. TaskOK
    BY <1>2 DEF TaskOK, WholeTask
  <1> QED
    BY <1>1, <1>3, <1>4, <1>5 DEF ReadsInv

-----------------------------------------------------------------------------
(* The families of a parent, and what each is read from. *)
LEMMA FamiliesAre ==
    ASSUME NEW k \in Parents
    PROVE  /\ k.kind \in {"issue", "pull"}
           /\ k.families \subseteq FamiliesOf(k.kind) \union Reacted
           /\ "review-comments" \in k.families => "threads" \in k.families
           /\ \A f \in k.families \intersect Reacted :
                 (IF k.kind = "issue" THEN "comments" ELSE "review-comments") \in k.families
           /\ \A f \in Reacted : f \notin {"comments", "timeline", "events", "reactions", "relations",
                 "reviews", "threads", "review-comments", "commits", "reviewers", "closing", "issue", "pull"}
           /\ "issue" \notin k.families /\ "pull" \notin k.families
  <1>1. k.kind \in {"issue", "pull"}
    BY ReadsAssumption
  <1>2. /\ k.families \subseteq FamiliesOf(k.kind) \union Reacted
        /\ "review-comments" \in k.families => "threads" \in k.families
        /\ k.families \intersect Reacted # {} =>
              (IF k.kind = "issue" THEN "comments" ELSE "review-comments") \in k.families
    BY HydrationAssumption
  <1>3. Reacted \intersect (FamiliesOf("issue") \union FamiliesOf("pull") \union {"issue", "pull"}) = {}
    BY HydrationAssumption
  <1>4. FamiliesOf("issue") = {"comments", "timeline", "events", "reactions", "relations"}
    BY DEF FamiliesOf
  <1>5. FamiliesOf("pull") = {"comments", "timeline", "events", "reactions", "reviews", "threads",
                              "review-comments", "commits", "reviewers", "closing"}
    BY DEF FamiliesOf
  <1>6. \A f \in Reacted : f \notin {"comments", "timeline", "events", "reactions", "relations",
                 "reviews", "threads", "review-comments", "commits", "reviewers", "closing", "issue", "pull"}
    <2> SUFFICES ASSUME NEW f \in Reacted
                 PROVE  f \notin {"comments", "timeline", "events", "reactions", "relations", "reviews",
                                  "threads", "review-comments", "commits", "reviewers", "closing",
                                  "issue", "pull"}
      OBVIOUS
    <2>1. f \notin FamiliesOf("issue") /\ f \notin FamiliesOf("pull") /\ f \notin {"issue", "pull"}
      BY <1>3
    <2> QED
      BY <2>1, <1>4, <1>5
  <1>7. "issue" \notin k.families /\ "pull" \notin k.families
    <2>1. "issue" \notin Reacted /\ "pull" \notin Reacted
      BY <1>6
    <2> QED
      BY <1>1, <1>2, <1>4, <1>5, <2>1
  <1> QED
    BY <1>1, <1>2, <1>6, <1>7

(* Every transport of a family is one that it can be read by. *)
LEMMA WaysOK ==
    ASSUME SiteOK, NEW f \in parent.families
    PROVE  \A via \in Ways(f) : WayOK(f, via, current[f])
  <1>1. parent \in Parents
    BY DEF SiteOK
  <1>2. parent.kind \in {"issue", "pull"} /\ f \in FamiliesOf(parent.kind) \union Reacted
    BY <1>1, FamiliesAre
  <1>3. f \in {"comments", "timeline", "events", "reactions", "relations", "reviews", "threads",
               "review-comments", "commits", "reviewers", "closing"} \union Reacted
    BY <1>2 DEF FamiliesOf
  <1>4. \/ Listing(f) = "validate" /\ CachedPages(current[f]) # None
        \/ Listing(f) = "list"
    BY DEF Listing
  <1>5. CASE f \in {"timeline", "events"}
    <2>1. f \notin Reacted
      BY <1>1, <1>5, FamiliesAre
    <2>2. Ways(f) = {Listing(f)}
      BY <1>5, <2>1 DEF Ways, OneWay
    <2> QED
      BY <1>4, <1>5, <2>2 DEF WayOK
  <1>6. CASE f \in {"comments", "reactions"} \union Reacted
    <2>1. f \notin {"timeline", "events", "relations", "reviews", "threads", "review-comments", "commits",
                    "reviewers", "closing"}
      BY <1>1, <1>6, FamiliesAre
    <2>2. Ways(f) = {Listing(f), "connection"}
      BY <1>6, <2>1 DEF Ways, EitherWay
    <2> QED
      BY <1>4, <2>1, <2>2 DEF WayOK
  <1>7. CASE f \in {"relations", "closing"}
    <2>1. f \notin Reacted
      BY <1>1, <1>7, FamiliesAre
    <2>2. Ways(f) = {"connection"}
      BY <1>7, <2>1 DEF Ways, RelationWays, ClosingWays
    <2> QED
      BY <1>7, <2>2 DEF WayOK
  <1>8. CASE f = "reviews"
    <2>1. f \notin Reacted
      BY <1>1, <1>8, FamiliesAre
    <2>2. Ways(f) = {Listing(f), "connection"}
      BY <1>8, <2>1 DEF Ways, ReviewWays, EitherWay
    <2> QED
      BY <1>4, <1>8, <2>2 DEF WayOK
  <1>9. CASE f = "threads"
    <2>1. f \notin Reacted
      BY <1>1, <1>9, FamiliesAre
    <2>2. Ways(f) = {"threads"}
      BY <1>9, <2>1 DEF Ways, ThreadWays
    <2> QED
      BY <1>9, <2>2 DEF WayOK
  <1>10. CASE f = "review-comments"
    <2>1. f \notin Reacted
      BY <1>1, <1>10, FamiliesAre
    <2>2. Ways(f) = {Listing("review-comments"), "threads"}
      BY <1>10, <2>1 DEF Ways, ReviewCommentWays
    <2> QED
      BY <1>4, <1>10, <2>2 DEF WayOK
  <1>11. CASE f = "commits"
    <2>1. f \notin Reacted
      BY <1>1, <1>11, FamiliesAre
    <2>2. Ways(f) \subseteq {"compare", Listing("commits"), "connection"}
      BY <1>11, <2>1 DEF Ways, CommitWays
    <2> QED
      BY <1>4, <1>11, <2>2 DEF WayOK
  <1>12. CASE f = "reviewers"
    <2>1. f \notin Reacted
      BY <1>1, <1>12, FamiliesAre
    <2>2. Ways(f) = {"object"}
      BY <1>12, <2>1 DEF Ways, ReviewerWays
    <2> QED
      BY <1>12, <2>2 DEF WayOK
  <1> QED
    BY <1>3, <1>5, <1>6, <1>7, <1>8, <1>9, <1>10, <1>11, <1>12

(* What a refresh reads of what it is asked for. *)
LEMMA EffectiveIs ==
    ASSUME SiteOK, NEW requested \in Applicable
    PROVE  RefreshOK(Effective(requested))
  <1> DEFINE U == parent.families \union {"issue", "pull"}
             Complete(e) == requested \union {"issue"} \subseteq e /\ \A f \in e : Sources(f) \subseteq e
             closures == {e \in SUBSET U : Complete(e)}
             least == {f \in U : \A e \in closures : f \in e}
             E == Effective(requested)
  <1>1. parent \in Parents /\ requested \in Selections /\ requested \subseteq parent.families
    BY DEF SiteOK, Applicable
  <1>2. /\ parent.kind \in {"issue", "pull"} /\ parent.families \subseteq FamiliesOf(parent.kind) \union Reacted
        /\ "review-comments" \in parent.families => "threads" \in parent.families
        /\ \A f \in parent.families \intersect Reacted :
              (IF parent.kind = "issue" THEN "comments" ELSE "review-comments") \in parent.families
        /\ \A f \in Reacted : f \notin {"comments", "timeline", "events", "reactions", "relations",
              "reviews", "threads", "review-comments", "commits", "reviewers", "closing", "issue", "pull"}
        /\ "issue" \notin parent.families /\ "pull" \notin parent.families
    BY <1>1, FamiliesAre
  <1>3. requested \intersect Reacted \in {{}, Reacted}
    BY <1>1, HydrationAssumption
  <1>4. /\ \A f : f \in {"commits", "reviewers"} => Sources(f) = {"pull"}
        /\ Sources("review-comments") = {"pull", "threads"}
        /\ \A f \in Reacted : Sources(f) =
              {IF parent.kind = "issue" THEN "comments" ELSE "review-comments"}
        /\ \A f : f \notin {"commits", "reviewers", "review-comments"} \union Reacted => Sources(f) = {}
    BY <1>2 DEF Sources
  <1>5. \A f \in U : Sources(f) \subseteq U
    <2> TAKE f \in U
    <2>1. CASE f \in {"commits", "reviewers"}
      BY <1>4, <2>1
    <2>2. CASE f = "review-comments"
      BY <1>2, <1>4, <2>2
    <2>3. CASE f \in Reacted
      BY <1>2, <1>4, <2>3
    <2>4. CASE f \notin {"commits", "reviewers", "review-comments"} \union Reacted
      BY <1>4, <2>4
    <2> QED
      BY <2>1, <2>2, <2>3, <2>4
  <1>6. \A f : Sources(f) \intersect Reacted = {}
    <2> TAKE f
    <2>1. CASE f \in {"commits", "reviewers"}
      BY <1>2, <1>4, <2>1
    <2>2. CASE f = "review-comments"
      BY <1>2, <1>4, <2>2
    <2>3. CASE f \in Reacted
      BY <1>2, <1>4, <2>3
    <2>4. CASE f \notin {"commits", "reviewers", "review-comments"} \union Reacted
      BY <1>4, <2>4
    <2> QED
      BY <2>1, <2>2, <2>3, <2>4
  <1>7. least \in closures
    <2>1. requested \union {"issue"} \subseteq least
      BY <1>1
    <2>2. \A f \in least : Sources(f) \subseteq least
      <3> SUFFICES ASSUME NEW f \in least, NEW g \in Sources(f) PROVE g \in least
        OBVIOUS
      <3>1. g \in U
        BY <1>5
      <3>2. \A e \in closures : g \in e
        OBVIOUS
      <3> QED
        BY <3>1, <3>2
    <2> QED
      BY <2>1, <2>2
  <1>8. E \in closures /\ \A other \in closures : E \subseteq other
    <2>1. \E e \in closures : \A other \in closures : e \subseteq other
      <3>1. \A other \in closures : least \subseteq other
        OBVIOUS
      <3> QED
        BY <1>7, <3>1
    <2>2. E = CHOOSE e \in closures : \A other \in closures : e \subseteq other
      BY DEF Effective
    <2> HIDE DEF closures, E
    <2> QED
      BY <2>1, <2>2
  <1>9. "issue" \in E /\ E \subseteq U /\ requested \subseteq E
    BY <1>8
  <1>10. E \intersect Reacted = requested \intersect Reacted
    <2> DEFINE e == U \ (Reacted \ requested)
    <2>1. requested \union {"issue"} \subseteq e
      BY <1>1, <1>2
    <2>2. \A f \in e : Sources(f) \subseteq e
      BY <1>5, <1>6
    <2>3. e \in closures
      BY <2>1, <2>2
    <2> HIDE DEF closures, E
    <2>4. E \subseteq e
      BY <1>8, <2>3
    <2> QED
      BY <1>9, <2>4
  <1>11. CASE parent.kind = "issue"
    <2> DEFINE e == U \ {"pull"}
    <2>1. requested \union {"issue"} \subseteq e
      BY <1>1, <1>2
    <2>2. \A f \in parent.families : f \notin {"commits", "reviewers", "review-comments"}
      <3>1. FamiliesOf("issue") = {"comments", "timeline", "events", "reactions", "relations"}
        BY DEF FamiliesOf
      <3> QED
        BY <1>2, <1>11, <3>1
    <2>3. \A f \in e : Sources(f) \subseteq e
      <3> TAKE f \in e
      <3>1. CASE f \in Reacted
        <4>1. Sources(f) = {"comments"} /\ "comments" \in parent.families
          BY <1>2, <1>4, <1>11, <3>1
        <4> QED
          BY <4>1
      <3>2. CASE f \notin Reacted
        <4>1. f \notin {"commits", "reviewers", "review-comments"}
          BY <2>2
        <4> QED
          BY <1>4, <3>2, <4>1
      <3> QED
        BY <3>1, <3>2
    <2>4. e \in closures
      BY <2>1, <2>3
    <2> HIDE DEF closures, E
    <2>5. E \subseteq e
      BY <1>8, <2>4
    <2>6. E \subseteq parent.families \union {"issue"}
      BY <2>5
    <2> HIDE DEF e, U
    <2>7. RefreshOK(E)
      BY <1>3, <1>9, <1>10, <1>11, <2>6 DEF RefreshOK
    <2> QED
      BY <2>7 DEF E
  <1>12. CASE parent.kind = "pull"
    <2> HIDE DEF closures, E
    <2>1. RefreshOK(E)
      BY <1>3, <1>9, <1>10, <1>12 DEF RefreshOK
    <2> QED
      BY <2>1 DEF E
  <1> QED
    BY <1>2, <1>11, <1>12

(* The comments of all threads, listed by age. *)
LEMMA FlatIs ==
    ASSUME NEW parts, IsFiniteSet(parts), NEW got \in [parts -> Seq(Item)]
    PROVE  Sequence(Flat(parts, got))
  <1> DEFINE inner == parts \ {"threads"}
             f == [c \in inner |-> ToSet(got[c])]
             sets == {ToSet(got[c]) : c \in inner}
             S == UNION sets
  <1>1. IsFiniteSet(inner)
    BY FS_Subset
  <1>2. f \in Surjection(inner, sets)
    <2>1. f \in [inner -> sets] /\ \A t \in sets : \E c \in inner : f[c] = t
      OBVIOUS
    <2> QED
      BY <2>1, Fun_IsSurj
  <1>3. \A T \in sets : IsFiniteSet(T)
    BY ToSetIs
  <1> HIDE DEF f, sets, inner
  <1>4. IsFiniteSet(S)
    BY <1>1, <1>2, <1>3, FS_Surjection, FS_UNION
  <1> HIDE DEF S
  <1>5. Cardinality(S) \in Nat
    BY <1>4, FS_CardinalityType
  <1>6. Flat(parts, got) = ByAge(S)
    BY DEF Flat, S, sets, inner
  <1>7. ByAge(S) \in Seq(ToSet(ByAge(S)))
    <2> DEFINE s == ByAge(S)
               chosen(i) == CHOOSE x \in S : Rank(Ids(S), x.id) = i
    <2>1. s = [i \in 1 .. Cardinality(S) |-> chosen(i)]
      BY DEF ByAge, Rank
    <2> HIDE DEF chosen, s
    <2>2. DOMAIN s = 1 .. Cardinality(S) /\ s = [i \in DOMAIN s |-> s[i]]
      BY <2>1
    <2>3. \A i \in DOMAIN s : s[i] \in ToSet(s)
      BY DEF ToSet
    <2>4. s \in [1 .. Cardinality(S) -> ToSet(s)]
      BY <2>2, <2>3
    <2>5. s \in Seq(ToSet(s))
      BY <1>5, <2>4
    <2> QED
      BY <2>5 DEF s
  <1> QED
    BY <1>6, <1>7 DEF Sequence

(* A list of items is one of its own items. *)
LEMMA ListIs ==
    ASSUME NEW S, NEW s \in Seq(S)
    PROVE  Sequence(s)
  BY ToSetIs DEF Sequence

(* Where nothing changes, what holds of GitHub, of facts and of a read stays. *)
LEMMA SiteSame == SiteOK /\ UNCHANGED <<parent, site, born>> => SiteOK'
  BY DEF SiteOK, ThreadsOK

(* The same for the facts. *)
LEMMA FactsSame == FactsOK /\ UNCHANGED <<parent, current, published>> => FactsOK'
  BY DEF FactsOK

(* The same for a read. *)
LEMMA ReadSame ==
    ASSUME ReadOK, UNCHANGED <<parent, site, born, read, attempt, task>>
    PROVE  ReadOK'
  <1>1. read.state = "running" => RunOK(read)'
    BY RunSame DEF ReadOK
  <1>2. read.state = "read" => DoneOK(read)'
    BY DEF ReadOK, DoneOK
  <1> QED
    BY <1>1, <1>2 DEF ReadOK

(* Without a read nothing is to be shown of one. *)
LEMMA ReadEnds ==
    ASSUME read' = NoRead
    PROVE  ReadOK'
  <1>1. read' = [state |-> "none"]
    BY DEF NoRead
  <1> QED
    BY <1>1 DEF ReadOK

(* A task that goes on. *)
LEMMA TaskSame ==
    ASSUME TaskOK, UNCHANGED <<parent, task>>, published' \subseteq task.families, attempt' => attempt
    PROVE  TaskOK'
  <1>1. WholeTask'
    BY DEF TaskOK, WholeTask
  <1>2. RefreshOK(task.families) => RefreshOK(task.families)'
    BY DEF RefreshOK
  <1> QED
    BY <1>1, <1>2 DEF TaskOK

(* What is published has to be a proper fact. *)
LEMMA Published ==
    ASSUME FactsOK, parent' = parent, NEW f \in parent.families, NEW fact, FactOK(f, fact),
           Publish(f, fact)
    PROVE  FactsOK' /\ published' = published \union {f}
  <1>1. current' = [current EXCEPT ![f] = fact] /\ published' = published \union {f}
    BY DEF Publish
  <1>2. current = [g \in parent.families |-> current[g]]
    BY DEF FactsOK
  <1>3. current' = [g \in parent.families |-> current'[g]]
    BY <1>1, <1>2
  <1>4. current'[f] = fact /\ \A g \in parent.families \ {f} : current'[g] = current[g]
    BY <1>1, <1>2
  <1>5. \A g \in parent.families : current'[g] # None \/ g \in published' => FactOK(g, current'[g])
    BY <1>1, <1>4 DEF FactsOK
  <1> QED
    BY <1>1, <1>3, <1>5 DEF FactsOK

-----------------------------------------------------------------------------
(* A new task. *)
LEMMA NewTaskStep ==
    ASSUME ReadsInv, NEW kind, NEW families, NEW item, NEW force, NewTask(kind, families, item, force),
           kind = "refresh" => RefreshOK(families)
    PROVE  ReadsInv'
  <1>1. /\ task.state = "done" /\ published' = {} /\ UNCHANGED <<parent, site, born, read, attempt, current>>
        /\ task' = [number |-> task.number + 1, kind |-> kind, state |-> "pending",
                    families |-> families, item |-> item, force |-> force, outcome |-> None]
    BY DEF NewTask, github
  <1>2. ~attempt /\ read.state = "none"
    BY <1>1 DEF ReadsInv, TaskOK, ReadOK
  <1>3. SiteOK'
    BY <1>1, SiteSame DEF ReadsInv
  <1>4. FactsOK'
    BY <1>1 DEF ReadsInv, FactsOK
  <1>5. ReadOK'
    BY <1>1, <1>2 DEF ReadOK
  <1>6. TaskOK'
    <2>1. task'.families = families /\ task'.kind = kind /\ task'.outcome = None /\ WholeTask'
      BY <1>1 DEF WholeTask
    <2>2. RefreshOK(families) => RefreshOK(families)'
      BY <1>1 DEF RefreshOK
    <2>3. kind = "refresh" => RefreshOK(task.families)'
      BY <2>1, <2>2 DEF RefreshOK
    <2> QED
      BY <1>1, <1>2, <2>1, <2>3 DEF TaskOK
  <1> QED
    BY <1>3, <1>4, <1>5, <1>6 DEF ReadsInv

(* A task of a cycle or of a refresh. *)
LEMMA NewTasksStep ==
    ASSUME ReadsInv, SyncTask \/ RefreshTask
    PROVE  ReadsInv'
  <1>1. CASE SyncTask
    <2>1. PICK item, force : NewTask("sync", (parent.families \ {"closing"}) \union {"issue", "pull"}, item, force)
      BY <1>1 DEF SyncTask
    <2> QED
      BY <2>1, NewTaskStep
  <1>2. CASE RefreshTask
    <2>1. PICK requested \in Applicable : NewTask("refresh", Effective(requested), None, FALSE)
      BY <1>2 DEF RefreshTask
    <2>2. RefreshOK(Effective(requested))
      BY EffectiveIs DEF ReadsInv
    <2> QED
      BY <2>1, <2>2, NewTaskStep
  <1> QED
    BY <1>1, <1>2

(* An attempt begins. *)
LEMMA AttemptStep ==
    ASSUME ReadsInv, Attempt
    PROVE  ReadsInv'
  <1>1. /\ task.state = "pending" /\ ~attempt /\ attempt' = TRUE
        /\ UNCHANGED <<parent, site, born, read, task, current, published>>
    BY DEF Attempt, github
  <1>2. read.state = "none"
    BY <1>1 DEF ReadsInv, ReadOK
  <1>3. ReadOK'
    BY <1>1, <1>2 DEF ReadOK
  <1>4. TaskOK'
    <2>1. WholeTask'
      BY <1>1 DEF ReadsInv, TaskOK, WholeTask
    <2>2. RefreshOK(task.families) => RefreshOK(task.families)'
      BY <1>1 DEF RefreshOK
    <2> QED
      BY <1>1, <2>1, <2>2 DEF ReadsInv, TaskOK
  <1> QED
    BY <1>1, <1>3, <1>4, SiteSame, FactsSame DEF ReadsInv

(* An attempt stops. *)
LEMMA StopStep ==
    ASSUME ReadsInv, Stop
    PROVE  ReadsInv'
  <1>1. /\ attempt' = FALSE /\ read' = NoRead
        /\ UNCHANGED <<parent, site, born, task, current, published>>
    BY DEF Stop, GiveUp, github
  <1>2. TaskOK'
    BY <1>1, TaskSame DEF ReadsInv, TaskOK
  <1> QED
    BY <1>1, <1>2, SiteSame, FactsSame, ReadEnds DEF ReadsInv

(* A task is done. *)
LEMMA FinishStep ==
    ASSUME ReadsInv, NEW outcome, FinishTask(outcome)
    PROVE  ReadsInv' /\ task'.outcome = outcome /\ task'.state = "done"
  <1>1. /\ attempt /\ read.state = "none" /\ task' = [task EXCEPT !.state = "done", !.outcome = outcome]
        /\ attempt' = FALSE /\ UNCHANGED <<parent, site, born, read, current, published>>
    BY DEF FinishTask, github
  <1>2. /\ task'.number = task.number /\ task'.kind = task.kind /\ task'.state = "done"
        /\ task'.families = task.families /\ task'.item = task.item /\ task'.force = task.force
        /\ task'.outcome = outcome /\ WholeTask'
    BY <1>1 DEF ReadsInv, TaskOK, WholeTask
  <1>3. ReadOK'
    BY <1>1 DEF ReadOK
  <1>4. TaskOK'
    <2>1. RefreshOK(task.families) => RefreshOK(task.families)'
      BY <1>1, <1>2 DEF RefreshOK
    <2> QED
      BY <1>1, <1>2, <2>1 DEF ReadsInv, TaskOK
  <1> QED
    BY <1>1, <1>2, <1>3, <1>4, SiteSame, FactsSame DEF ReadsInv

(* The family at which a task is is one of it. *)
LEMMA AtIs ==
    ASSUME NEW f, At(f)
    PROVE  attempt /\ read.state = "none" /\ f \in task.families /\ f \notin published
  <1>1. attempt /\ read.state = "none" /\ \E step \in Left : step[2] = f
    BY DEF At
  <1>2. PICK step \in Left : step[2] = f
    BY <1>1
  <1>3. step \in Steps /\ step[2] \notin published
    BY DEF Left
  <1>4. PICK i \in {k \in DOMAIN Order : Order[k] \in task.families} : step = <<i, Order[i]>>
    BY <1>3 DEF Steps
  <1> QED
    BY <1>1, <1>2, <1>3, <1>4

(* The issue or the detail of the pull is read. *)
LEMMA ReadParentStep ==
    ASSUME ReadsInv, ReadIssue \/ ReadPull
    PROVE  ReadsInv'
  <1>1. /\ UNCHANGED <<parent, site, born, task, current>>
        /\ \/ read' = read /\ attempt' = attempt
              /\ \/ published' = published
                 \/ \E f \in {"issue", "pull"} : At(f) /\ published' = published \union {f}
           \/ read' = NoRead /\ attempt' = FALSE /\ published' = published
    BY DEF ReadIssue, ReadPull, github, GiveUp
  <1>2. published' \subseteq task.families
    BY <1>1, AtIs DEF ReadsInv, TaskOK
  <1>3. TaskOK'
    BY <1>1, <1>2, TaskSame DEF ReadsInv
  <1>4. ReadOK'
    BY <1>1, ReadSame, ReadEnds DEF ReadsInv
  <1>5. FactsOK'
    <2>1. "issue" \notin parent.families /\ "pull" \notin parent.families
      BY FamiliesAre DEF ReadsInv, SiteOK
    <2>2. \A f \in parent.families : f \in published' => f \in published
      BY <1>1, <2>1
    <2> QED
      BY <1>1, <2>2 DEF ReadsInv, FactsOK
  <1> QED
    BY <1>1, <1>3, <1>4, <1>5, SiteSame DEF ReadsInv

(* An answer that is known. *)
LEMMA DeriveStep ==
    ASSUME ReadsInv, NEW f \in parent.families, Derive(f)
    PROVE  ReadsInv'
  <1> DEFINE fact == [coverage |-> "complete", value |-> Answer(f), cache |-> None]
  <1>1. /\ At(f) /\ MayBeKnown(f) /\ Publish(f, fact)
        /\ UNCHANGED <<parent, site, born, read, task, attempt>>
    BY DEF Derive, github
  <1>2. f # "threads"
    <2>1. "threads" \notin Reacted
      BY FamiliesAre DEF ReadsInv, SiteOK
    <2> QED
      BY <1>1, <2>1 DEF MayBeKnown, Known, CommentSaysNone, Embedded
  <1>3. f \in {"comments", "review-comments"} => Sequence(Answer(f))
    <2>1. CASE f = "review-comments" /\ InThreads
      <3>1. "threads" \in parent.families
        BY <2>1, FamiliesAre DEF ReadsInv, SiteOK
      <3>2. FactOK("threads", current["threads"]) /\ current["threads"].coverage = "complete"
        BY <2>1, <3>1 DEF ReadsInv, FactsOK, InThreads
      <3>3. Sequence(current["threads"].comments)
        BY <3>2 DEF FactOK
      <3> QED
        BY <2>1, <3>3 DEF Answer
    <2>2. CASE ~(f = "review-comments" /\ InThreads) /\ f \in {"comments", "review-comments"}
      <3>1. Answer(f) = <<>>
        BY <2>2 DEF Answer
      <3> QED
        BY <3>1 DEF Sequence
    <2> QED
      BY <2>1, <2>2
  <1>4. FactOK(f, fact)
    BY <1>2, <1>3 DEF FactOK
  <1>5. FactsOK' /\ published' = published \union {f}
    BY <1>1, <1>4, Published DEF ReadsInv
  <1>6. TaskOK'
    BY <1>1, <1>5, AtIs, TaskSame DEF ReadsInv, TaskOK
  <1> QED
    BY <1>1, <1>5, <1>6, SiteSame, ReadSame DEF ReadsInv

(* A collection is begun. *)
LEMMA StartReadStep ==
    ASSUME ReadsInv, NEW f \in parent.families, StartRead(f)
    PROVE  ReadsInv' /\ read.state = "none" /\ read'.state = "running"
  <1>1. PICK via \in Ways(f) : read' = Reading(f, via, Ways(f) \ {via}, current[f], detail)
    BY DEF StartRead
  <1>2. /\ At(f) /\ UNCHANGED <<parent, site, born, task, attempt, published, current>>
    BY DEF StartRead, github, hydration
  <1>3. attempt /\ read.state = "none" /\ f \in task.families
    BY <1>2, AtIs
  <1>4. SiteOK /\ \A v \in Ways(f) : WayOK(f, v, current[f])
    BY WaysOK DEF ReadsInv
  <1>5. HasTags(current[f]) => CacheOK(f, current[f].value, current[f].cache)
    BY DEF HasTags, ReadsInv, FactsOK, FactOK
  <1> DEFINE n == Reading(f, via, Ways(f) \ {via}, current[f], detail)
  <1>6. RunOK(n) /\ n.state = "running" /\ n.family = f
    BY <1>1, <1>4, <1>5, RunStart
  <1> HIDE DEF n
  <1>7. read' = n
    BY <1>1 DEF n
  <1>8. RunOK(read)'
    BY <1>2, <1>6, <1>7, RunSame
  <1>9. ReadOK'
    BY <1>2, <1>3, <1>6, <1>7, <1>8 DEF ReadOK
  <1> QED
    BY <1>2, <1>3, <1>6, <1>7, <1>9, SiteSame, FactsSame, TaskSame DEF ReadsInv, TaskOK

(* What is published of a read that was done. *)
LEMMA DoneFacts ==
    ASSUME SiteOK, DoneOK(read), NEW f, f = read.family, f \in parent.families
    PROVE  /\ f = "threads" => FactOK(f, ThreadsFact)
           /\ f = "relations" => FactOK(f, RelationsFact)
           /\ f = "closing" => FactOK(f, ClosingFact)
           /\ f \notin {"threads", "relations", "closing"} => FactOK(f, ResourceFact)
  <1> DEFINE parts == read.parts
             got == read.got
  <1>1. /\ WayOK(f, read.via, read.previous) /\ parts = PartsOf(f, read.via)
        /\ read.via # "compare" => got \in [parts -> Seq(Item)]
        /\ read.tags # None => read.via # "threads" /\ CacheOK(f, got[f], read.tags)
    BY DEF DoneOK
  <1>2. IsFiniteSet(parts) /\ (read.via \in {"list", "validate", "object", "compare"} => parts = {f})
    BY <1>1, PartsAre
  <1>3. read.via = "threads" => Sequence(Flat(parts, got))
    BY <1>1, <1>2, FlatIs
  <1>4. f = "threads" => FactOK(f, ThreadsFact)
    BY <1>1, <1>3 DEF ThreadsFact, FactOK, WayOK
  <1>5. (f = "relations" => FactOK(f, RelationsFact)) /\ (f = "closing" => FactOK(f, ClosingFact))
    BY DEF RelationsFact, ClosingFact, FactOK
  <1>6. ASSUME f \notin {"threads", "relations", "closing"}
        PROVE  FactOK(f, ResourceFact)
    <2> DEFINE value == IF read.via = "threads" THEN Flat(parts, got) ELSE got[f]
    <2>1. ResourceFact = [coverage |-> "complete", cache |-> read.tags, value |-> value]
      BY DEF ResourceFact
    <2>2. read.tags # None => CacheOK(f, value, read.tags)
      BY <1>1
    <2>3. ASSUME f \in {"comments", "review-comments"} PROVE Sequence(value)
      <3>1. CASE read.via = "threads"
        BY <1>3, <3>1
      <3>2. CASE read.via # "threads"
        <4>1. f \in parts /\ read.via # "compare"
          <5>1. CASE f = "review-comments"
            <6>1. read.via \in {"list", "validate"}
              BY <1>1, <3>2, <5>1 DEF WayOK
            <6> QED
              BY <1>2, <6>1
          <5>2. CASE f = "comments"
            <6>1. read.via \in {"list", "validate", "connection"}
              BY <1>1, <3>2, <5>2 DEF WayOK
            <6>2. PartsOf(f, read.via) = {f}
              BY <5>2 DEF PartsOf, Connections
            <6> QED
              BY <1>1, <6>1, <6>2
          <5> QED
            BY <2>3, <5>1, <5>2
        <4>2. got[f] \in Seq(Item)
          BY <1>1, <4>1
        <4> QED
          BY <3>2, <4>2, ListIs
      <3> QED
        BY <3>1, <3>2
    <2> HIDE DEF value
    <2> QED
      BY <1>6, <2>1, <2>2, <2>3 DEF FactOK
  <1> QED
    BY <1>4, <1>5, <1>6

(* A collection is published. *)
LEMMA PublishStep ==
    ASSUME ReadsInv, PublishRead
    PROVE  ReadsInv' /\ read.state = "read"
  <1> DEFINE f == read.family
             fact == CASE read.family = "threads" -> ThreadsFact
                       [] read.family = "relations" -> RelationsFact
                       [] read.family = "closing" -> ClosingFact
                       [] OTHER -> ResourceFact
  <1>1. /\ read.state = "read" /\ Publish(f, fact) /\ read' = NoRead
        /\ UNCHANGED <<parent, site, born, task, attempt>>
    BY DEF PublishRead, github
  <1>2. DoneOK(read) /\ f \in parent.families /\ f \in task.families
    BY <1>1 DEF ReadsInv, ReadOK
  <1>3. FactOK(f, fact)
    <2>1. SiteOK
      BY DEF ReadsInv
    <2>2. /\ f = "threads" => FactOK(f, ThreadsFact)
          /\ f = "relations" => FactOK(f, RelationsFact)
          /\ f = "closing" => FactOK(f, ClosingFact)
          /\ f \notin {"threads", "relations", "closing"} => FactOK(f, ResourceFact)
      BY <1>2, <2>1, DoneFacts
    <2> QED
      BY <2>2
  <1> HIDE DEF fact, f
  <1>4. FactsOK' /\ published' = published \union {f}
    BY <1>1, <1>2, <1>3, Published DEF ReadsInv
  <1>5. TaskOK'
    BY <1>1, <1>2, <1>4, TaskSame DEF ReadsInv, TaskOK
  <1> QED
    BY <1>1, <1>4, <1>5, SiteSame, ReadEnds DEF ReadsInv

(* A collection that could not be read. *)
LEMMA FailsStep ==
    ASSUME ReadsInv, ReadFails
    PROVE  ReadsInv' /\ read.state = "failed"
  <1>1. /\ read.state = "failed" /\ UNCHANGED <<parent, site, born, task>> /\ read' = NoRead
        /\ \/ Publish(read.family, Unavailable) /\ attempt' = attempt
           \/ attempt' = FALSE /\ UNCHANGED <<current, published>>
    BY DEF ReadFails, GiveUp, github
  <1>2. read.family \in parent.families /\ read.family \in task.families
    BY <1>1 DEF ReadsInv, ReadOK
  <1>3. FactOK(read.family, Unavailable)
    BY DEF FactOK, Unavailable
  <1>4. FactsOK' /\ published' \subseteq published \union {read.family}
    <2>1. CASE Publish(read.family, Unavailable)
      BY <1>1, <1>2, <1>3, <2>1, Published DEF ReadsInv
    <2>2. CASE UNCHANGED <<current, published>>
      BY <1>1, <2>2, FactsSame DEF ReadsInv
    <2> QED
      BY <1>1, <2>1, <2>2
  <1>5. TaskOK'
    BY <1>1, <1>2, <1>4, TaskSame DEF ReadsInv, TaskOK
  <1> QED
    BY <1>1, <1>4, <1>5, SiteSame, ReadEnds DEF ReadsInv

(* A request of a read. *)
LEMMA RequestStep ==
    ASSUME ReadsInv, ReadStep \/ Malformed, UNCHANGED hydration
    PROVE  ReadsInv' /\ read.state = "running" /\ StepOK(read') /\ CountFits
  <1>1. read.state = "running" /\ RunOK(read) /\ StepOK(read') /\ UNCHANGED github /\ CountFits
    BY ReadStepOK DEF ReadsInv, ReadOK
  <1>2. UNCHANGED <<parent, site, born, task, attempt, published, current>>
    BY <1>1 DEF github, hydration
  <1>3. ReadOK'
    <2>1. /\ read'.family = read.family /\ read'.state \in {"failed", "running", "read"}
          /\ read'.state = "running" => RunOK(read')
          /\ read'.state = "read" => DoneOK(read')
      BY <1>1 DEF StepOK
    <2>2. read'.state = "running" => RunOK(read)'
      BY <1>2, <2>1, RunSame
    <2>3. attempt /\ read.family \in parent.families \intersect task.families
      BY <1>1 DEF ReadsInv, ReadOK
    <2> QED
      BY <1>2, <2>1, <2>2, <2>3 DEF ReadOK
  <1> QED
    BY <1>1, <1>2, <1>3, SiteSame, FactsSame, TaskSame DEF ReadsInv, TaskOK

(* A change on GitHub. *)
LEMMA ChangesStep ==
    ASSUME ReadsInv, GitHubChanges, UNCHANGED hydration
    PROVE  ReadsInv' /\ read'.state = read.state /\ (read.state = "running" => read'.open = read.open)
  <1>1. SiteOK' /\ Grown /\ ((site' = site /\ read' = read) \/ Carried) /\ SiteOK
    BY SiteStep DEF ReadsInv
  <1>2. UNCHANGED <<parent, task, attempt, published, current>>
    BY <1>1 DEF Grown, hydration, GitHubChanges, HideOrShow, Add, Edit, Withdraw, Change
  <1>3. CASE read.state # "running"
    <2>1. read' = read
      BY <1>1, <1>3 DEF Carried
    <2>2. ReadOK'
      BY <1>2, <1>3, <2>1 DEF ReadsInv, ReadOK, DoneOK
    <2> QED
      BY <1>1, <1>2, <1>3, <2>1, <2>2, FactsSame, TaskSame DEF ReadsInv, TaskOK
  <1>4. CASE read.state = "running"
    <2>1. RunOK(read) /\ Whole(read) /\ attempt /\ read.family \in parent.families \intersect task.families
      BY <1>4 DEF ReadsInv, ReadOK, RunOK, Shape
    <2>2. RunOK(read)' /\ read'.state = "running" /\ read'.family = read.family /\ read'.open = read.open
      <3>1. CASE Carried
        <4>1. RunOK(read)' /\ read'.state = "running" /\ read'.family = read.family
          BY <1>1, <1>4, <2>1, <3>1, RunChange
        <4>2. read'.open = read.open
          BY <2>1, <3>1, <1>4 DEF Carried, Whole
        <4> QED
          BY <4>1, <4>2
      <3>2. CASE site' = site /\ read' = read /\ ~Carried
        <4>1. born' = born
          BY <3>2 DEF Carried, GitHubChanges, HideOrShow, Add, Edit, Withdraw, Change
        <4> QED
          BY <1>2, <1>4, <2>1, <3>2, <4>1, RunSame
      <3> QED
        BY <1>1, <3>1, <3>2
    <2>3. ReadOK'
      BY <1>2, <2>1, <2>2 DEF ReadOK
    <2> QED
      BY <1>1, <1>2, <1>4, <2>2, <2>3, FactsSame, TaskSame DEF ReadsInv, TaskOK
  <1> QED
    BY <1>3, <1>4

(* The reactions to comments have a place for each comment. *)
LEMMA ReactionsAre ==
    ASSUME FactsOK, NEW f \in {"comments", "review-comments"}, f \in published => f \in parent.families
    PROVE  /\ Sequence(ReactionsIn(f))
           /\ f \in published /\ ~Missing(f) =>
                \A c \in Ids(ToSet(current[f].value)) : ReactionsTo(c) \subseteq ToSet(ReactionsIn(f))
  <1> DEFINE value == current[f].value
             place(i) == IF value[i].id \in DOMAIN Reactions THEN Reactions[value[i].id] ELSE None
  <1>1. CASE f \in published /\ current[f].coverage = "complete"
    <2>1. FactOK(f, current[f])
      BY <1>1 DEF FactsOK
    <2>2. Sequence(value)
      BY <1>1, <2>1 DEF FactOK
    <2>3. ReactionsIn(f) = [i \in DOMAIN value |-> place(i)]
      BY <1>1 DEF ReactionsIn
    <2>4. Len(value) \in Nat /\ DOMAIN value = 1 .. Len(value)
      BY <2>2 DEF Sequence
    <2> DEFINE list == ReactionsIn(f)
    <2>5. /\ DOMAIN list = 1 .. Len(value) /\ list = [i \in DOMAIN list |-> list[i]]
          /\ \A i \in 1 .. Len(value) : list[i] = place(i)
      <3> HIDE DEF place
      <3> QED
        BY <2>3, <2>4
    <2> HIDE DEF list
    <2>6. \A i \in DOMAIN list : list[i] \in ToSet(list)
      BY DEF ToSet
    <2>7. list \in [1 .. Len(value) -> ToSet(list)]
      BY <2>5, <2>6
    <2>8. list \in Seq(ToSet(list))
      BY <2>4, <2>7
    <2>9. ASSUME NEW c \in Ids(ToSet(value)) PROVE ReactionsTo(c) \subseteq ToSet(list)
      <3>1. PICK x \in ToSet(value) : c = x.id
        BY <2>9 DEF Ids
      <3>2. PICK i \in 1 .. Len(value) : value[i] = x
        BY <2>4 DEF ToSet
      <3>3. CASE c \in DOMAIN Reactions
        <4>1. place(i) = Reactions[c]
          BY <3>1, <3>2, <3>3
        <4> HIDE DEF place
        <4>2. list[i] = Reactions[c] /\ i \in DOMAIN list
          BY <2>5, <3>2, <4>1
        <4>3. Reactions[c] \in ToSet(list)
          BY <2>6, <4>2
        <4> QED
          BY <3>3, <4>3 DEF ReactionsTo
      <3>4. CASE c \notin DOMAIN Reactions
        BY <3>4 DEF ReactionsTo
      <3> QED
        BY <3>3, <3>4
    <2> QED
      BY <2>8, <2>9 DEF list, Sequence
  <1>2. CASE ~(f \in published /\ current[f].coverage = "complete")
    <2>1. ReactionsIn(f) = <<>>
      BY <1>2 DEF ReactionsIn
    <2>2. f \in published => Missing(f)
      BY <1>2 DEF Missing
    <2> QED
      BY <2>1, <2>2 DEF Sequence
  <1> QED
    BY <1>1, <1>2

(* Every family a refresh may read has a place in it. *)
LEMMA OrderIs ==
    ASSUME ReadsInv, task.kind = "refresh"
    PROVE  /\ task.families \ Reacted \subseteq ToSet(Order)
           /\ ToSet(ReactionsIn("comments")) \subseteq ToSet(Order)
  <1> DEFINE one == <<"issue", "comments", "timeline", "events", "reactions">>
             two == <<"pull", "reviews", "threads", "review-comments", "commits", "reviewers">>
             a == ReactionsIn("comments")
             b == ReactionsIn("review-comments")
             T == ToSet(a) \union ToSet(b) \union {"issue", "comments", "timeline", "events", "reactions", "pull",
                    "reviews", "threads", "review-comments", "commits", "reviewers", "relations", "closing"}
  <1>1. /\ parent \in Parents /\ FactsOK /\ RefreshOK(task.families) /\ published \subseteq task.families
    BY DEF ReadsInv, SiteOK, TaskOK
  <1>2. \A f \in {"comments", "review-comments"} : f \in published => f \in parent.families
    BY <1>1 DEF RefreshOK
  <1>3. Sequence(a) /\ Sequence(b)
    BY <1>1, <1>2, ReactionsAre
  <1>4. a \in Seq(T) /\ b \in Seq(T)
    <2> HIDE DEF a, b
    <2> QED
      BY <1>3 DEF Sequence
  <1>5. one \in Seq(T) /\ two \in Seq(T) /\ <<"relations">> \in Seq(T) /\ <<"closing">> \in Seq(T)
    OBVIOUS
  <1>6. {"issue", "comments", "timeline", "events", "reactions"} \subseteq ToSet(one)
    <2>1. /\ DOMAIN one = 1 .. 5 /\ one[1] = "issue" /\ one[2] = "comments" /\ one[3] = "timeline"
          /\ one[4] = "events" /\ one[5] = "reactions"
      OBVIOUS
    <2> HIDE DEF one
    <2>2. \A i \in 1 .. 5 : one[i] \in ToSet(one)
      BY <2>1 DEF ToSet
    <2> QED
      BY <2>1, <2>2
  <1>7. {"pull", "reviews", "threads", "review-comments", "commits", "reviewers"} \subseteq ToSet(two)
    <2>1. /\ DOMAIN two = 1 .. 6 /\ two[1] = "pull" /\ two[2] = "reviews" /\ two[3] = "threads"
          /\ two[4] = "review-comments" /\ two[5] = "commits" /\ two[6] = "reviewers"
      OBVIOUS
    <2> HIDE DEF two
    <2>2. \A i \in 1 .. 6 : two[i] \in ToSet(two)
      BY <2>1 DEF ToSet
    <2> QED
      BY <2>1, <2>2
  <1>8. "relations" \in ToSet(<<"relations">>) /\ "closing" \in ToSet(<<"closing">>)
    BY DEF ToSet
  <1> HIDE DEF one, two, a, b, T
  <1> DEFINE front == one \o a
             middle == two \o b
             last == <<"closing">>
             pull == middle \o last
             rest == IF parent.kind = "issue" THEN <<"relations">> ELSE pull
  <1>9. front \in Seq(T) /\ ToSet(front) = ToSet(one) \union ToSet(a)
    BY <1>4, <1>5, ToSetOfConcat
  <1>10. middle \in Seq(T) /\ ToSet(middle) = ToSet(two) \union ToSet(b)
    BY <1>4, <1>5, ToSetOfConcat
  <1>11. pull \in Seq(T) /\ ToSet(pull) = ToSet(middle) \union ToSet(last)
    <2>1. last \in Seq(T)
      BY <1>5
    <2> HIDE DEF middle, last
    <2> QED
      BY <1>10, <2>1, ToSetOfConcat
  <1>12. Order = front \o rest
    BY DEF Order, PullOrder, one, two, a, b
  <1> HIDE DEF front, pull
  <1>13. rest \in Seq(T)
    BY <1>5, <1>11
  <1> HIDE DEF rest
  <1>14. ToSet(Order) = ToSet(front) \union ToSet(rest)
    BY <1>9, <1>12, <1>13, ToSetOfConcat
  <1>15. ASSUME NEW f \in task.families, f \notin Reacted PROVE f \in ToSet(Order)
    <2>1. f \in parent.families \union {"issue"} \union (IF parent.kind = "pull" THEN {"pull"} ELSE {})
      BY <1>1 DEF RefreshOK
    <2>2. parent.kind \in {"issue", "pull"} /\ parent.families \subseteq FamiliesOf(parent.kind) \union Reacted
      BY <1>1, FamiliesAre
    <2>3. CASE parent.kind = "issue"
      <3>1. f \in {"comments", "timeline", "events", "reactions", "relations", "issue"}
        BY <1>15, <2>1, <2>2, <2>3 DEF FamiliesOf
      <3>2. rest = <<"relations">>
        BY <2>3 DEF rest
      <3>3. ToSet(rest) = ToSet(<<"relations">>)
        BY <3>2
      <3> QED
        BY <1>6, <1>8, <1>9, <1>14, <3>1, <3>3
    <2>4. CASE parent.kind = "pull"
      <3>1. f \in {"comments", "timeline", "events", "reactions", "reviews", "threads",
                   "review-comments", "commits", "reviewers", "closing", "issue", "pull"}
        BY <1>15, <2>1, <2>2, <2>4 DEF FamiliesOf
      <3>2. rest = pull
        BY <2>4 DEF rest
      <3> QED
        BY <1>6, <1>7, <1>8, <1>9, <1>10, <1>11, <1>14, <3>1, <3>2
    <2> QED
      BY <2>2, <2>3, <2>4
  <1>16. ToSet(a) \subseteq ToSet(Order)
    BY <1>9, <1>14
  <1> QED
    BY <1>15, <1>16 DEF a

(* A refresh that comes to complete has read all it has a place for. *)
RefreshDone ==
    /\ task.families \ Reacted \subseteq published
    /\ \A f \in published : ~Missing(f)
    /\ "comments" \in published /\ task.families \intersect Reacted # {} =>
            \A c \in Ids(ToSet(current["comments"].value)) : ReactionsTo(c) \subseteq published

(* A refresh is complete only if nothing is left. *)
LEMMA RefreshFinishes ==
    ASSUME ReadsInv, task.kind = "refresh", Answered, Outcome = "complete"
    PROVE  RefreshDone
  <1>1. RefreshOK(task.families) /\ published \subseteq task.families /\ FactsOK
    BY DEF ReadsInv, TaskOK
  <1>2. \A f \in task.families : IF f \in published THEN ~Missing(f) ELSE ~PassedOver(f)
    BY DEF Outcome
  <1>3. \A f \in published : ~Missing(f)
    BY <1>1, <1>2
  <1>4. Left = {}
    BY <1>3 DEF Answered
  <1>5. ASSUME NEW f \in ToSet(Order), f \in task.families PROVE f \in published
    <2>1. PICK i \in DOMAIN Order : Order[i] = f
      BY DEF ToSet
    <2> DEFINE order == Order
               step == <<i, order[i]>>
    <2>2. i \in {k \in DOMAIN order : order[k] \in task.families}
      BY <1>5, <2>1
    <2>3. step \in Steps
      <3> HIDE DEF order
      <3>1. Steps = {<<k, order[k]>> : k \in {j \in DOMAIN order : order[j] \in task.families}}
        BY DEF Steps, order
      <3> QED
        BY <2>2, <3>1
    <2>4. step[2] = f
      BY <2>1
    <2> HIDE DEF step
    <2>5. step \notin Left
      BY <1>4
    <2>6. f \in published \/ PassedOver(f)
      BY <2>3, <2>4, <2>5 DEF Left
    <2> QED
      BY <1>2, <1>5, <2>6
  <1>6. /\ task.families \ Reacted \subseteq ToSet(Order)
        /\ ToSet(ReactionsIn("comments")) \subseteq ToSet(Order)
    BY OrderIs
  <1>7. task.families \ Reacted \subseteq published
    BY <1>5, <1>6
  <1>8. ASSUME "comments" \in published, task.families \intersect Reacted # {},
               NEW c \in Ids(ToSet(current["comments"].value)), NEW r \in ReactionsTo(c)
        PROVE  r \in published
    <2>1. "comments" \in parent.families
      BY <1>1, <1>8 DEF RefreshOK
    <2>2. ReactionsTo(c) \subseteq ToSet(ReactionsIn("comments"))
      BY <1>1, <1>3, <1>8, <2>1, ReactionsAre
    <2>3. Reacted \subseteq task.families
      BY <1>1, <1>8 DEF RefreshOK
    <2>4. r \in Reacted
      <3>1. c \in DOMAIN Reactions
        BY <1>8 DEF ReactionsTo
      <3> QED
        BY <1>8, <3>1 DEF Reacted
    <2> QED
      BY <1>5, <1>6, <1>8, <2>2, <2>3, <2>4
  <1> QED
    BY <1>3, <1>7, <1>8 DEF RefreshDone

(* What a step may do to a read and to a task. *)
WholeStep == Ends /\ read.via # "compare" => DoneWhole(read'.got)
CountStep ==
    InStep => (read'.via = "connection" =>
        \A p \in read.open \ read'.open : Ids(ToSet(read'.got[p])) = Ids(site[p]))
RefreshStep == task.state = "pending" /\ task'.outcome = "complete" => RefreshDone
StepWhole == WholeStep /\ CountStep /\ RefreshStep

(* A step that ends no read and closes no connection. *)
LEMMA ReadStays ==
    ASSUME read' = read \/ read.state # "running" \/ read'.state = "none"
           \/ (read'.state = read.state /\ read'.open = read.open)
    PROVE  WholeStep /\ CountStep
  BY DEF WholeStep, CountStep, Ends, InStep, Running

(* A step that completes no refresh. *)
LEMMA TaskStays ==
    ASSUME ReadsInv, task' = task \/ task.state # "pending" \/ task'.outcome = None
    PROVE  RefreshStep
  <1>1. None # "complete"
    BY HydrationAssumption
  <1> QED
    BY <1>1 DEF RefreshStep, ReadsInv, TaskOK

(* Every step. *)
LEMMA NextStep ==
    ASSUME ReadsInv, Next
    PROVE  ReadsInv' /\ StepWhole
  <1>1. CASE SyncTask \/ RefreshTask
    <2>1. \E kind, families, item, force : NewTask(kind, families, item, force)
      BY <1>1 DEF SyncTask, RefreshTask
    <2>2. task.state = "done" /\ read' = read
      BY <2>1 DEF NewTask
    <2> QED
      BY <1>1, <2>2, NewTasksStep, ReadStays, TaskStays DEF StepWhole
  <1>2. CASE Attempt
    <2>1. read' = read /\ task' = task
      BY <1>2 DEF Attempt
    <2> QED
      BY <1>2, <2>1, AttemptStep, ReadStays, TaskStays DEF StepWhole
  <1>3. CASE Stop
    <2>1. read'.state = "none" /\ task' = task
      BY <1>3 DEF Stop, GiveUp, NoRead
    <2> QED
      BY <1>3, <2>1, StopStep, ReadStays, TaskStays DEF StepWhole
  <1>4. CASE Finish
    <2>1. FinishTask(None) /\ read' = read
      BY <1>4 DEF Finish, FinishTask
    <2>2. ReadsInv' /\ task'.outcome = None
      BY <2>1, FinishStep
    <2> QED
      BY <2>1, <2>2, ReadStays, TaskStays DEF StepWhole
  <1>5. CASE FinishRefresh
    <2>1. FinishTask(Outcome) /\ read' = read /\ Answered /\ task.kind = "refresh"
      BY <1>5 DEF FinishRefresh, FinishTask
    <2>2. ReadsInv' /\ task'.outcome = Outcome
      BY <2>1, FinishStep
    <2>3. RefreshStep
      BY <2>1, <2>2, RefreshFinishes DEF RefreshStep
    <2> QED
      BY <2>1, <2>2, <2>3, ReadStays DEF StepWhole
  <1>6. CASE ReadIssue \/ ReadPull
    <2>1. task' = task /\ (read' = read \/ read'.state = "none")
      BY <1>6 DEF ReadIssue, ReadPull, GiveUp, NoRead
    <2> QED
      BY <1>6, <2>1, ReadParentStep, ReadStays, TaskStays DEF StepWhole
  <1>7. CASE \E f \in parent.families : Derive(f)
    <2>1. PICK f \in parent.families : Derive(f)
      BY <1>7
    <2>2. task' = task /\ read' = read
      BY <2>1 DEF Derive
    <2> QED
      BY <2>1, <2>2, DeriveStep, ReadStays, TaskStays DEF StepWhole
  <1>8. CASE \E f \in parent.families : StartRead(f)
    <2>1. PICK f \in parent.families : StartRead(f)
      BY <1>8
    <2>2. task' = task
      BY <2>1 DEF StartRead, hydration
    <2>3. ReadsInv' /\ read.state # "running"
      BY <2>1, StartReadStep
    <2> QED
      BY <2>2, <2>3, ReadStays, TaskStays DEF StepWhole
  <1>9. CASE PublishRead
    <2>1. task' = task
      BY <1>9 DEF PublishRead
    <2>2. ReadsInv' /\ read.state # "running"
      BY <1>9, PublishStep
    <2> QED
      BY <2>1, <2>2, ReadStays, TaskStays DEF StepWhole
  <1>10. CASE ReadFails
    <2>1. task' = task
      BY <1>10 DEF ReadFails
    <2>2. ReadsInv' /\ read.state # "running"
      BY <1>10, FailsStep
    <2> QED
      BY <2>1, <2>2, ReadStays, TaskStays DEF StepWhole
  <1>11. CASE (ReadStep \/ Malformed) /\ UNCHANGED hydration
    <2>1. task' = task
      BY <1>11 DEF hydration
    <2>2. ReadsInv' /\ read.state = "running" /\ StepOK(read') /\ CountFits
      BY <1>11, RequestStep
    <2>3. WholeStep
      BY <2>2 DEF WholeStep, Ends, StepOK
    <2>4. CountStep
      BY <2>2 DEF CountStep, InStep, Running, CountFits
    <2> QED
      BY <2>1, <2>2, <2>3, <2>4, TaskStays DEF StepWhole
  <1>12. CASE GitHubChanges /\ UNCHANGED hydration
    <2>1. task' = task
      BY <1>12 DEF hydration
    <2>2. ReadsInv' /\ read'.state = read.state /\ (read.state = "running" => read'.open = read.open)
      BY <1>12, ChangesStep
    <2> QED
      BY <2>1, <2>2, ReadStays, TaskStays DEF StepWhole
  <1> QED
    BY <1>1, <1>2, <1>3, <1>4, <1>5, <1>6, <1>7, <1>8, <1>9, <1>10, <1>11, <1>12 DEF Next, Work

(* No step. *)
LEMMA Stutters ==
    ASSUME ReadsInv, UNCHANGED vars
    PROVE  ReadsInv'
  <1>1. UNCHANGED <<parent, site, born, read, task, attempt, published, current>>
    BY DEF vars, github, hydration
  <1> QED
    BY <1>1, SiteSame, FactsSame, ReadSame, TaskSame DEF ReadsInv, TaskOK

(* Everything that is read at a parent, at any point of any task: what     *)
(* GitHub holds is consistent, the current facts have the tags of their    *)
(* own pages, and a read that runs has left out nothing it has passed.     *)
THEOREM ReadsInvariant == Spec => []ReadsInv
  <1>1. Init => ReadsInv
    BY ReadsInit
  <1>2. ReadsInv /\ [Next]_vars => ReadsInv'
    BY NextStep, Stutters
  <1> QED
    BY <1>1, <1>2, PTL DEF Spec

(* A collection that was read by any transport but the comparison of two   *)
(* commits is whole, however GitHub changes meanwhile.                     *)
THEOREM CollectionsAreWhole == Spec => ReadIsWhole
  <1>1. ReadsInv /\ [Next]_vars =>
            [Ends /\ read.via # "compare" =>
                LET items == Pairs(read'.got) IN
                /\ items \subseteq read.ever
                /\ (read.via \in {"list", "validate"} /\ read.shifted) \/ read.stay \subseteq items
                /\ \A p \in read.parts :
                      Cardinality(Ids(ToSet(read'.got[p]))) = Len(read'.got[p])]_read
    <2>1. CASE Next /\ ReadsInv
      BY <2>1, NextStep DEF StepWhole, WholeStep, DoneWhole
    <2>2. CASE UNCHANGED vars
      BY <2>2 DEF vars
    <2> QED
      BY <2>1, <2>2
  <1> QED
    BY <1>1, ReadsInvariant, PTL DEF Spec, ReadIsWhole

(* At its last page a connection that is paged by its count has the items  *)
(* that are there.                                                         *)
THEOREM CountsAreCurrent == Spec => CountedIsCurrent
  <1>1. ReadsInv /\ [Next]_vars =>
            [InStep => (read'.via = "connection" =>
                \A p \in read.open \ read'.open : Ids(ToSet(read'.got[p])) = Ids(site[p]))]_read
    <2>1. CASE Next /\ ReadsInv
      BY <2>1, NextStep DEF StepWhole, CountStep
    <2>2. CASE UNCHANGED vars
      BY <2>2 DEF vars
    <2> QED
      BY <2>1, <2>2
  <1> QED
    BY <1>1, ReadsInvariant, PTL DEF Spec, CountedIsCurrent

(* A refresh that comes to complete has a complete fact of its own for     *)
(* every family it was asked for and what these are read from, and for the *)
(* reactions to every comment it found.                                    *)
THEOREM RefreshesAreWhole == Spec => RefreshIsWhole
  <1>1. ReadsInv /\ [Next]_vars =>
            [task.state = "pending" /\ task'.outcome = "complete" =>
                /\ task.families \ Reacted \subseteq published
                /\ \A f \in published : ~Missing(f)
                /\ "comments" \in published /\ task.families \intersect Reacted # {} =>
                        \A c \in Ids(ToSet(current["comments"].value)) :
                            ReactionsTo(c) \subseteq published]_task
    <2>1. CASE Next /\ ReadsInv
      BY <2>1, NextStep DEF StepWhole, RefreshStep, RefreshDone
    <2>2. CASE UNCHANGED vars
      BY <2>2 DEF vars, hydration
    <2> QED
      BY <2>1, <2>2
  <1> QED
    BY <1>1, ReadsInvariant, PTL DEF Spec, RefreshIsWhole

=============================================================================
