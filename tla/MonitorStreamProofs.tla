-------------------------- MODULE MonitorStreamProofs --------------------------
(***************************************************************************)
(* Proofs about MonitorStream, for sessions, batches, pages and queues of  *)
(* any size and any number of breaks, restarts, cuts and clicks.           *)
(***************************************************************************)
EXTENDS MonitorStream, FiniteSetTheorems, NaturalsInduction, SequenceTheorems, TLAPS

-----------------------------------------------------------------------------
(* Types.                                                                  *)
Marks == {-1} \union Events
UpFrames ==
    [type : {"subscribe"}] \union [type : {"history"}, before : 0 .. Total]
DownFrames ==
    [type : {"evt_ready"}, last : Marks]
    \union [type : {"history"}, events : SUBSET Compact, more : BOOLEAN]
    \union [type : {"evts"}, events : SUBSET Events]
Viewers ==
    [selected : BOOLEAN, loading : BOOLEAN, history : SUBSET Compact,
     pending : SUBSET Events, live : SUBSET Events, fold : SUBSET Events,
     next : 0 .. Total, last : Marks, loaded : BOOLEAN, open : BOOLEAN]

LineTypes ==
    /\ made \in 0 .. Total /\ file \in SUBSET Compact
    /\ queue \in Seq(Events) /\ spool \in Seq(Events) /\ batch \in Seq(Events)
OtherTypes ==
    /\ link \in {"up", "broken", "down"} /\ delivered \in BOOLEAN /\ subscribed \in BOOLEAN
    /\ clicks \in 0 .. MaxClicks /\ faults \in 0 .. MaxFaults
HubTypes == hub \in [events : SUBSET Compact, high : Marks]
WireTypes == up \in Seq(UpFrames) /\ down \in Seq(DownFrames) /\ v \in Viewers
TypeOK == LineTypes /\ OtherTypes /\ HubTypes /\ WireTypes

-----------------------------------------------------------------------------
(* The order of the stream.                                                *)
Below(S, T) == \A s \in S, t \in T : s < t
Increasing(s) == \A i, j \in DOMAIN s : i < j => s[i] < s[j]

(* Events that have left the bus.                                          *)
Behind(S) == \A e \in S : e < made /\ \A q \in ToSet(queue) : e < q

(* What the connection still has to send.                                  *)
Unsent == ToSet(batch) \union ToSet(spool)

LineOK ==
    /\ Increasing(queue) /\ Increasing(spool) /\ Len(batch) <= 1
    /\ Below(ToSet(batch), ToSet(spool))
    /\ \A q \in ToSet(queue) : q < made
    /\ Behind(Unsent) /\ Behind(file)
    /\ file \union (ToSet(queue) \ Deltas) = {s \in Compact : s < made}

HubOK == hub.events \subseteq file /\ Behind({hub.high})

-----------------------------------------------------------------------------
(* The frames to the viewer.                                               *)
Live == UNION {f.events : f \in {g \in ToSet(down) : g.type = "evts"}}

(* There is an event to be read below b.                                   *)
Older(b) == \E s \in file : s < b

UpOK ==
    \A f \in ToSet(up) : f.type = "history" => f.before = Total \/ Older(f.before)

FrameOK(f) ==
    /\ f.type = "evt_ready" => Behind({f.last})
    /\ f.type = "history" =>
          f.events \subseteq file /\ (f.more => f.events # {} /\ Older(Min(f.events)))
    /\ f.type = "evts" => Behind(f.events) /\ Below(f.events, Unsent)

InTurn(frames) ==
    \A i, j \in DOMAIN frames :
        i < j /\ frames[i].type = "evts" /\ frames[j].type = "evts" =>
            Below(frames[i].events, frames[j].events)

DownOK == (\A f \in ToSet(down) : FrameOK(f)) /\ InTurn(down)

ViewOK ==
    /\ ~v.open => up = <<>> /\ down = <<>> /\ ~subscribed
    /\ v.loading => v.selected /\ v.live = {} /\ v.fold = {} /\ ~v.loaded
    /\ Behind(v.pending) /\ Behind({v.last}) /\ v.history \subseteq file
    /\ Below(v.pending, Unsent) /\ Below(v.pending, Live)

(* A viewer that loads the session has one request or answer on its way.   *)
AllLive(frames) == \A f \in ToSet(frames) : f.type = "evts"
AllLiveBut(frames) ==
    \E i \in DOMAIN frames : \A j \in DOMAIN frames : frames[j].type = "evts" <=> j # i
TokenOK ==
    IF v.open /\ v.loading
    THEN \/ Len(up) = 1 /\ AllLive(down)
         \/ up = <<>> /\ AllLiveBut(down)
    ELSE up = <<>> /\ AllLive(down)

-----------------------------------------------------------------------------
(* From b on, the history that was read and the live events on their way   *)
(* are all there is, and the history alone as far as it goes.              *)
Flight == v.pending \union Live \union Unsent
Reach(b, read) ==
    /\ subscribed
    /\ \A s \in file : s >= b =>
          /\ s \in read \union Flight
          /\ (s <= v.last \/ \E t \in read : s <= t) => s \in read

(* What an answer of the history lets the viewer reach. *)
Start(f) == IF f.more THEN Min(f.events) ELSE 0

UpCover(f) == IF f.type = "history" THEN Reach(f.before, v.history) ELSE v.history = {}
DownCover(f) ==
    /\ f.type = "evt_ready" => subscribed /\ v.history = {}
    /\ f.type = "history" => Reach(Start(f), v.history \union f.events)
CoverOK ==
    v.open /\ v.loading =>
        (\A f \in ToSet(up) : UpCover(f)) /\ (\A f \in ToSet(down) : DownCover(f))

Patient == ~LateLoss /\ ~Impatient
Whole == TokenOK /\ CoverOK /\ NoHole

StreamOK == LineTypes /\ LineOK /\ HubTypes /\ HubOK
ClientOK == WireTypes /\ UpOK /\ DownOK /\ ViewOK /\ (Patient => Whole)
IInv == StreamOK /\ ClientOK /\ OtherTypes

-----------------------------------------------------------------------------
(* Numbers and sets of events.                                             *)

LEMMA Least ==
    ASSUME NEW T \in SUBSET Nat, T # {} PROVE \E n \in T : \A m \in T : n <= m
  <1>1. PICK n \in T : \A m \in T : ~(<<m, n>> \in OpToRel(<, Nat))
    BY WFMin, NatLessThanWellFounded
  <1>2. \A m \in T : ~(m < n)
    BY <1>1 DEF OpToRel
  <1> QED
    BY <1>2

LEMMA Earliest ==
    ASSUME NEW S \in SUBSET Events, S # {} PROVE Min(S) \in S /\ \A y \in S : Min(S) <= y
  <1>1. S \in SUBSET Nat /\ \A x \in S : x \in Int
    BY StreamAssumption DEF Events
  <1>2. PICK n \in S : \A m \in S : n <= m
    BY <1>1, Least
  <1> QED
    BY <1>2 DEF Min

LEMMA Latest ==
    ASSUME NEW S \in SUBSET Int, S # {}, NEW n \in Int, \A x \in S : x <= n
    PROVE  Max(S) \in S /\ \A y \in S : y <= Max(S)
  <1> DEFINE Distances == {n - x : x \in S}
  <1>0. \A x \in S : x \in Int /\ n - x \in Nat
    OBVIOUS
  <1>1. Distances \in SUBSET Nat /\ Distances # {}
    BY <1>0
  <1>2. PICK d \in Distances : \A m \in Distances : d <= m
    BY <1>1, Least
  <1>3. PICK x \in S : d = n - x
    BY <1>2
  <1>4. \A y \in S : y <= x
    <2> SUFFICES ASSUME NEW y \in S PROVE y <= x
      OBVIOUS
    <2>1. n - x <= n - y
      BY <1>2, <1>3
    <2> QED
      BY <1>0, <2>1
  <1>5. \E z \in S : \A y \in S : z >= y
    BY <1>0, <1>4
  <1> QED
    BY <1>0, <1>5 DEF Max

LEMMA MarksAreIntegers == Marks \in SUBSET Int /\ \A x \in Marks : x < Total
  BY StreamAssumption DEF Marks, Events

LEMMA HighestIs ==
    ASSUME NEW S \in SUBSET Marks
    PROVE  /\ Highest(S) \in Marks /\ \A y \in S : y <= Highest(S)
           /\ Highest(S) = -1 \/ Highest(S) \in S
  <1> DEFINE T == S \union {-1}
  <1>1. T \in SUBSET Int /\ T # {} /\ T \in SUBSET Marks
    BY MarksAreIntegers DEF Marks
  <1>2. \A x \in T : x <= Total
    BY <1>1, MarksAreIntegers, StreamAssumption
  <1>3. Max(T) \in T /\ \A y \in T : y <= Max(T)
    <2>1. Total \in Int
      BY StreamAssumption
    <2> HIDE DEF T
    <2> QED
      BY <1>1, <1>2, <2>1, Latest
  <1> QED
    BY <1>1, <1>3 DEF Highest

-----------------------------------------------------------------------------
(* Sequences of events and what they hold.                                 *)

LEMMA Appended ==
    ASSUME NEW S, NEW s \in Seq(S), NEW e \in S
    PROVE  /\ Append(s, e) \in Seq(S)
           /\ DOMAIN Append(s, e) = (DOMAIN s) \union {Len(s) + 1}
           /\ \A i \in DOMAIN s : Append(s, e)[i] = s[i] /\ i < Len(s) + 1
           /\ Append(s, e)[Len(s) + 1] = e
           /\ ToSet(Append(s, e)) = ToSet(s) \union {e}
  <1>1. /\ Append(s, e) \in Seq(S) /\ Len(Append(s, e)) = Len(s) + 1 /\ Len(s) \in Nat
        /\ \A i \in 1 .. Len(s) : Append(s, e)[i] = s[i]
        /\ Append(s, e)[Len(s) + 1] = e /\ DOMAIN s = 1 .. Len(s)
    OBVIOUS
  <1>2. DOMAIN Append(s, e) = 1 .. Len(s) + 1
    BY <1>1
  <1>3. 1 .. Len(s) + 1 = 1 .. Len(s) \union {Len(s) + 1} /\ \A i \in 1 .. Len(s) : i < Len(s) + 1
    BY <1>1
  <1>4. ToSet(Append(s, e)) = ToSet(s) \union {e}
    BY <1>1, <1>2, <1>3 DEF ToSet
  <1> QED
    BY <1>1, <1>2, <1>3, <1>4

LEMMA Tailed ==
    ASSUME NEW S, NEW s \in Seq(S), s # <<>>
    PROVE  /\ Head(s) \in S /\ Head(s) = s[1] /\ 1 \in DOMAIN s
           /\ Tail(s) \in Seq(S)
           /\ \A i \in DOMAIN Tail(s) : i + 1 \in DOMAIN s /\ Tail(s)[i] = s[i + 1] /\ 1 < i + 1
           /\ \A i \in DOMAIN s : i # 1 => i - 1 \in DOMAIN Tail(s) /\ Tail(s)[i - 1] = s[i]
           /\ \A i, j \in DOMAIN Tail(s) : i < j => i + 1 < j + 1
           /\ ToSet(s) = {Head(s)} \union ToSet(Tail(s))
  <1>1. /\ Head(s) \in S /\ Head(s) = s[1] /\ Len(s) \in Nat /\ Len(s) # 0
        /\ Tail(s) \in Seq(S) /\ Len(Tail(s)) = Len(s) - 1
        /\ \A i \in 1 .. Len(s) - 1 : Tail(s)[i] = s[i + 1]
        /\ DOMAIN s = 1 .. Len(s)
    OBVIOUS
  <1>2. DOMAIN Tail(s) = 1 .. Len(s) - 1
    BY <1>1
  <1>3. \A i \in DOMAIN Tail(s) : i + 1 \in DOMAIN s /\ Tail(s)[i] = s[i + 1] /\ 1 < i + 1
    BY <1>1, <1>2
  <1>4. \A i \in DOMAIN s : i # 1 => i - 1 \in DOMAIN Tail(s) /\ Tail(s)[i - 1] = s[i]
    <2> SUFFICES ASSUME NEW i \in DOMAIN s, i # 1
                 PROVE  i - 1 \in DOMAIN Tail(s) /\ Tail(s)[i - 1] = s[i]
      OBVIOUS
    <2>1. i - 1 \in 1 .. Len(s) - 1 /\ (i - 1) + 1 = i
      BY <1>1
    <2> QED
      BY <1>1, <1>2, <2>1
  <1>5. ToSet(s) = {Head(s)} \union ToSet(Tail(s))
    <2>1. ASSUME NEW x \in ToSet(s) PROVE x \in {Head(s)} \union ToSet(Tail(s))
      <3>1. PICK i \in DOMAIN s : x = s[i]
        BY DEF ToSet
      <3>2. i # 1 => x \in ToSet(Tail(s))
        BY <1>4, <3>1 DEF ToSet
      <3> QED
        BY <1>1, <3>1, <3>2
    <2>2. \A x \in {Head(s)} \union ToSet(Tail(s)) : x \in ToSet(s)
      <3>1. 1 \in DOMAIN s
        BY <1>1
      <3> QED
        BY <1>1, <1>3, <3>1 DEF ToSet
    <2> QED
      BY <2>1, <2>2
  <1>6. \A i, j \in DOMAIN Tail(s) : i < j => i + 1 < j + 1
    BY <1>2
  <1>7. 1 \in DOMAIN s
    BY <1>1
  <1> QED
    BY <1>1, <1>3, <1>4, <1>5, <1>6, <1>7

LEMMA NothingIn == ToSet(<<>>) = {} /\ Increasing(<<>>)
  BY DEF ToSet, Increasing

LEMMA Members ==
    ASSUME NEW s \in Seq(Events) PROVE ToSet(s) \in SUBSET Events
  BY DEF ToSet

(* A sequence that grows by a later event stays in order.                  *)
LEMMA GrowsInOrder ==
    ASSUME NEW s \in Seq(Events), Increasing(s), NEW e \in Events, \A x \in ToSet(s) : x < e
    PROVE  Increasing(Append(s, e))
  <1>1. \A i \in DOMAIN s : s[i] < e
    BY DEF ToSet
  <1>2. \A i \in DOMAIN s : i \in Nat /\ i <= Len(s)
    OBVIOUS
  <1>3. Len(s) \in Nat
    OBVIOUS
  <1>4. ASSUME NEW i \in DOMAIN Append(s, e), NEW j \in DOMAIN Append(s, e), i < j
        PROVE  Append(s, e)[i] < Append(s, e)[j]
    <2>1. i \in DOMAIN s
      BY <1>2, <1>3, <1>4, Appended
    <2> QED
      BY <1>1, <1>4, <2>1, Appended DEF Increasing
  <1> QED
    BY <1>4 DEF Increasing

-----------------------------------------------------------------------------
(* The queues.                                                             *)

PutStep(q, events, h, i) == IF i = 0 THEN q ELSE PutEvent(h[i - 1], events[i])

LEMMA PutsUnfold ==
    ASSUME NEW q, NEW events \in Seq(Events)
    PROVE  \A i \in 0 .. Len(events) : Puts(q, events)[i] = PutStep(q, events, Puts(q, events), i)
  <1> DEFINE Solves(h, n) == h = [i \in 0 .. n |-> PutStep(q, events, h, i)]
             T == {n \in 0 .. Len(events) : ~\E h : Solves(h, n)}
  <1>1. T = {}
    <2> SUFFICES ASSUME T # {} PROVE FALSE
      OBVIOUS
    <2>1. PICK n \in T : \A m \in T : n <= m
      <3>1. T \in SUBSET Nat
        OBVIOUS
      <3> QED
        BY <3>1, Least
    <2>2. CASE n = 0
      <3> DEFINE h == [i \in 0 .. 0 |-> q]
      <3>1. Solves(h, 0)
        BY DEF PutStep
      <3> QED
        BY <2>2, <3>1
    <2>3. CASE n # 0
      <3>1. n \in 1 .. Len(events) /\ n - 1 \in 0 .. Len(events) /\ n - 1 \notin T
        BY <2>1, <2>3
      <3>2. PICK h : Solves(h, n - 1)
        BY <3>1
      <3> DEFINE more == [i \in 0 .. n |-> PutStep(q, events, h, i)]
      <3>3. \A i \in 0 .. n - 1 : more[i] = h[i]
        <4> HIDE DEF T
        <4>1. n \in Nat /\ n - 1 \in Nat
          BY <3>1
        <4>2. \A i \in 0 .. n - 1 : h[i] = PutStep(q, events, h, i)
          BY <3>2
        <4>3. \A i \in 0 .. n : more[i] = PutStep(q, events, h, i)
          OBVIOUS
        <4> HIDE DEF more, Solves
        <4> QED
          BY <4>1, <4>2, <4>3
      <3>4. \A i \in 0 .. n : i # 0 => i - 1 \in 0 .. n - 1
        OBVIOUS
      <3>5. \A i \in 0 .. n : PutStep(q, events, more, i) = PutStep(q, events, h, i)
        <4> HIDE DEF more
        <4> QED
          BY <3>3, <3>4 DEF PutStep
      <3>6. Solves(more, n)
        BY <3>5
      <3> QED
        BY <3>6
    <2> QED
      BY <2>2, <2>3
  <1>2. Len(events) \in Nat
    OBVIOUS
  <1>3. \E h : Solves(h, Len(events))
    BY <1>1, <1>2
  <1>4. Puts(q, events) = CHOOSE h : Solves(h, Len(events))
    BY DEF Puts, PutStep
  <1>5. Solves(Puts(q, events), Len(events))
    BY <1>3, <1>4
  <1> QED
    BY <1>5

(* A queue takes each event that is not a delta, and keeps the order.      *)
LEMMA PutEventKeeps ==
    ASSUME NEW q \in Seq(Events), Increasing(q), NEW e \in Events, \A x \in ToSet(q) : x < e
    PROVE  /\ PutEvent(q, e) \in Seq(Events) /\ Increasing(PutEvent(q, e))
           /\ ToSet(q) \subseteq ToSet(PutEvent(q, e))
           /\ ToSet(PutEvent(q, e)) \subseteq ToSet(q) \union {e}
           /\ e \notin Deltas => e \in ToSet(PutEvent(q, e))
  <1>1. /\ Append(q, e) \in Seq(Events) /\ Increasing(Append(q, e))
        /\ ToSet(Append(q, e)) = ToSet(q) \union {e}
    BY Appended, GrowsInOrder
  <1> QED
    BY <1>1 DEF PutEvent

LEMMA PutAllKeeps ==
    ASSUME NEW q \in Seq(Events), Increasing(q),
           NEW events \in Seq(Events), Increasing(events), Below(ToSet(q), ToSet(events))
    PROVE  LET all == PutAll(q, events) IN
           /\ all \in Seq(Events) /\ Increasing(all)
           /\ ToSet(q) \subseteq ToSet(all) /\ ToSet(all) \subseteq ToSet(q) \union ToSet(events)
           /\ ToSet(events) \ Deltas \subseteq ToSet(all)
  <1> DEFINE Prefix(i) == {events[j] : j \in 1 .. i}
             P(i) == /\ Puts(q, events)[i] \in Seq(Events) /\ Increasing(Puts(q, events)[i])
                     /\ ToSet(q) \subseteq ToSet(Puts(q, events)[i])
                     /\ ToSet(Puts(q, events)[i]) \subseteq ToSet(q) \union Prefix(i)
                     /\ Prefix(i) \ Deltas \subseteq ToSet(Puts(q, events)[i])
             T == {i \in 0 .. Len(events) : ~P(i)}
  <1>0. Len(events) \in Nat /\ DOMAIN events = 1 .. Len(events)
        /\ \A i \in 1 .. Len(events) : events[i] \in Events
    OBVIOUS
  <1>1. P(0)
    <2>1. Puts(q, events)[0] = q
      BY <1>0, PutsUnfold DEF PutStep
    <2>2. Prefix(0) = {}
      OBVIOUS
    <2> QED
      BY <2>1, <2>2
  <1>2. T = {}
    <2> SUFFICES ASSUME T # {} PROVE FALSE
      OBVIOUS
    <2>1. PICK i \in T : \A m \in T : i <= m
      <3>1. T \in SUBSET Nat
        BY <1>0
      <3> QED
        BY <3>1, Least
    <2>2. i # 0
      BY <1>1, <2>1
    <2>3. i \in 1 .. Len(events) /\ i - 1 \in 0 .. Len(events) /\ i - 1 \notin T /\ ~P(i)
      <3>1. i \in 0 .. Len(events) /\ ~P(i)
        BY <2>1
      <3>2. i \in 1 .. Len(events) /\ i - 1 \in 0 .. Len(events) /\ i - 1 < i
        BY <1>0, <2>2, <3>1
      <3>3. i - 1 \in T => i <= i - 1
        BY <2>1
      <3> HIDE DEF T, P
      <3> QED
        BY <1>0, <3>1, <3>2, <3>3
    <2>4. P(i - 1)
      BY <2>3
    <2>5. Puts(q, events)[i] = PutEvent(Puts(q, events)[i - 1], events[i])
      BY <2>2, <2>3, PutsUnfold DEF PutStep
    <2>6. Prefix(i) = Prefix(i - 1) \union {events[i]}
      BY <1>0, <2>3
    <2>7. \A x \in ToSet(q) \union Prefix(i - 1) : x < events[i]
      <3>1. \A x \in ToSet(q) : x < events[i]
        <4>1. events[i] \in ToSet(events)
          BY <1>0, <2>3 DEF ToSet
        <4> QED
          BY <4>1 DEF Below
      <3>2. \A j \in 1 .. i - 1 : events[j] < events[i]
        BY <1>0, <2>3 DEF Increasing
      <3> QED
        BY <3>1, <3>2
    <2>8. \A x \in ToSet(Puts(q, events)[i - 1]) : x < events[i]
      BY <2>4, <2>7
    <2> HIDE DEF Prefix, T
    <2>9. P(i)
      BY <1>0, <2>3, <2>4, <2>5, <2>6, <2>8, PutEventKeeps
    <2> QED
      BY <2>3, <2>9
  <1>3. P(Len(events))
    <2>1. Len(events) \in 0 .. Len(events)
      BY <1>0
    <2> HIDE DEF P
    <2> QED
      BY <1>2, <2>1
  <1>4. Prefix(Len(events)) = ToSet(events)
    BY <1>0 DEF ToSet
  <1> QED
    BY <1>3, <1>4 DEF PutAll

LEMMA OneAndMore ==
    ASSUME NEW one \in Seq(Events), Len(one) = 1, NEW more \in Seq(Events)
    PROVE  /\ one \o more \in Seq(Events) /\ Len(one \o more) = Len(more) + 1
           /\ (one \o more)[1] = one[1]
           /\ \A i \in 2 .. Len(more) + 1 : (one \o more)[i] = more[i - 1]
  <1>1. /\ one \o more \in Seq(Events) /\ Len(one \o more) = Len(one) + Len(more)
        /\ \A i \in 1 .. Len(one) + Len(more) :
              (one \o more)[i] = IF i <= Len(one) THEN one[i] ELSE more[i - Len(one)]
    BY ConcatProperties
  <1>2. Len(more) \in Nat
    OBVIOUS
  <1> QED
    BY <1>1, <1>2

LEMMA TheRest ==
    ASSUME NEW s \in Seq(Events), NEW k \in 0 .. Len(s)
    PROVE  LET rest == SubSeq(s, k + 1, Len(s)) IN
           /\ rest \in Seq(Events) /\ Len(rest) = Len(s) - k
           /\ \A i \in 1 .. Len(s) - k : rest[i] = s[k + i] /\ k + i \in k + 1 .. Len(s)
  <1>1. Len(s) \in Nat /\ k \in Nat /\ k <= Len(s)
    OBVIOUS
  <1>2. \A i \in k + 1 .. Len(s) : s[i] \in Events
    BY <1>1
  <1>3. \A i \in 1 .. Len(s) - k : k + i \in k + 1 .. Len(s)
    BY <1>1
  <1> QED
    BY <1>1, <1>2, <1>3

(* A batch is the event that was taken and the next ones of the queue.     *)
LEMMA BatchGathered ==
    ASSUME spool \in Seq(Events), Increasing(spool), batch \in Seq(Events), Len(batch) = 1,
           Below(ToSet(batch), ToSet(spool))
    PROVE  /\ Left \in Seq(Events) /\ Increasing(Left)
           /\ ToSet(Gathered) \in SUBSET Events
           /\ ToSet(Gathered) \union ToSet(Left) = Unsent
           /\ Below(ToSet(Gathered), ToSet(Left))
  <1> DEFINE n == Len(spool)
             k == Min({BatchSize - 1, n})
             first == SubSeq(spool, 1, k)
  <1>1. n \in Nat /\ BatchSize - 1 \in Nat /\ DOMAIN spool = 1 .. n
        /\ \A i \in 1 .. n : spool[i] \in Events
    BY StreamAssumption
  <1>2. k \in 0 .. n
    <2>1. \E x \in {BatchSize - 1, n} : \A y \in {BatchSize - 1, n} : x <= y
      BY <1>1
    <2>2. k \in {BatchSize - 1, n} /\ \A y \in {BatchSize - 1, n} : k <= y
      BY <2>1 DEF Min
    <2> QED
      BY <1>1, <2>2
  <1> HIDE DEF k
  <1>3. /\ first \in Seq(Events) /\ Len(first) = k /\ \A i \in 1 .. k : first[i] = spool[i]
    <2>1. \A i \in 1 .. k : spool[i] \in Events
      BY <1>1, <1>2
    <2> QED
      BY <1>1, <1>2, <2>1
  <1>4. /\ Gathered \in Seq(Events) /\ Len(Gathered) = k + 1 /\ Gathered[1] = batch[1]
        /\ \A i \in 2 .. k + 1 : Gathered[i] = spool[i - 1]
    <2>1. Gathered = batch \o first
      BY DEF Gathered, k
    <2> HIDE DEF first
    <2> QED
      BY <1>2, <1>3, <2>1, OneAndMore
  <1>5. /\ Left \in Seq(Events) /\ Len(Left) = n - k
        /\ \A i \in 1 .. n - k : Left[i] = spool[k + i] /\ k + i \in k + 1 .. n
    <2>1. Left = SubSeq(spool, k + 1, n)
      BY <1>4 DEF Left
    <2> QED
      BY <1>1, <1>2, <2>1, TheRest
  <1>6. ToSet(batch) = {batch[1]}
    BY DEF ToSet
  <1>7. ToSet(Gathered) = {batch[1]} \union {spool[i] : i \in 1 .. k}
    <2>1. ToSet(Gathered) = {Gathered[i] : i \in 1 .. k + 1}
      <3>1. DOMAIN Gathered = 1 .. k + 1
        BY <1>4
      <3> QED
        BY <3>1 DEF ToSet
    <2>2. \A i \in 1 .. k : i + 1 \in 2 .. k + 1 /\ Gathered[i + 1] = spool[i]
      BY <1>2, <1>4
    <2>3. \A i \in 1 .. k + 1 : i = 1 \/ (i \in 2 .. k + 1 /\ i - 1 \in 1 .. k)
      BY <1>2
    <2>4. 1 \in 1 .. k + 1 /\ \A i \in 1 .. k : i + 1 \in 1 .. k + 1
      BY <1>2
    <2>5. ASSUME NEW x \in ToSet(Gathered) PROVE x \in {batch[1]} \union {spool[i] : i \in 1 .. k}
      BY <1>4, <2>1, <2>3
    <2>6. ASSUME NEW x \in {batch[1]} \union {spool[i] : i \in 1 .. k} PROVE x \in ToSet(Gathered)
      BY <1>4, <2>1, <2>2, <2>4
    <2> QED
      BY <2>5, <2>6
  <1>8. ToSet(Left) = {spool[i] : i \in k + 1 .. n}
    <2>1. ToSet(Left) = {Left[i] : i \in 1 .. n - k}
      BY <1>2, <1>5 DEF ToSet
    <2>2. \A i \in k + 1 .. n : i - k \in 1 .. n - k /\ Left[i - k] = spool[i]
      BY <1>1, <1>2, <1>5
    <2>3. ASSUME NEW x \in ToSet(Left) PROVE x \in {spool[i] : i \in k + 1 .. n}
      BY <1>5, <2>1
    <2>4. ASSUME NEW x \in {spool[i] : i \in k + 1 .. n} PROVE x \in ToSet(Left)
      BY <2>1, <2>2
    <2> QED
      BY <2>3, <2>4
  <1>9. ToSet(spool) = {spool[i] : i \in 1 .. k} \union {spool[i] : i \in k + 1 .. n}
    BY <1>1, <1>2 DEF ToSet
  <1>10. Below(ToSet(Gathered), ToSet(Left))
    <2>1. \A i \in 1 .. k, j \in k + 1 .. n : spool[i] < spool[j]
      BY <1>1, <1>2 DEF Increasing
    <2>2. \A j \in k + 1 .. n : batch[1] < spool[j]
      BY <1>6, <1>9 DEF Below
    <2> QED
      BY <1>7, <1>8, <2>1, <2>2 DEF Below
  <1>11. Increasing(Left)
    <2> SUFFICES ASSUME NEW i \in 1 .. n - k, NEW j \in 1 .. n - k, i < j
                 PROVE  spool[k + i] < spool[k + j]
      BY <1>2, <1>5 DEF Increasing
    <2>1. k + i \in 1 .. n /\ k + j \in 1 .. n /\ k + i < k + j
      BY <1>1, <1>2
    <2> QED
      BY <1>1, <2>1 DEF Increasing
  <1>12. ToSet(Gathered) \in SUBSET Events
    BY <1>4, Members
  <1> QED
    BY <1>5, <1>6, <1>7, <1>8, <1>9, <1>10, <1>11, <1>12 DEF Unsent

LEMMA TailInOrder ==
    ASSUME NEW s \in Seq(Events), s # <<>>, Increasing(s)
    PROVE  Increasing(Tail(s)) /\ Below({Head(s)}, ToSet(Tail(s)))
  <1>1. \A i, j \in DOMAIN Tail(s) : i < j => Tail(s)[i] < Tail(s)[j]
    BY Tailed DEF Increasing
  <1>2. \A i \in DOMAIN Tail(s) : s[1] < Tail(s)[i]
    BY Tailed DEF Increasing
  <1>3. Head(s) = s[1]
    BY Tailed
  <1> QED
    BY <1>1, <1>2, <1>3 DEF Increasing, Below, ToSet

LEMMA Alone ==
    ASSUME NEW e \in Events
    PROVE  <<e>> \in Seq(Events) /\ Len(<<e>>) = 1 /\ ToSet(<<e>>) = {e}
  BY DEF ToSet

(* What has left the bus and is not a delta is in the file.                *)
LEMMA Settled ==
    ASSUME LineTypes, LineOK, NEW x \in Marks, Behind({x}), NEW s \in Compact, s <= x
    PROVE  s \in file
  <1>1. s \in Int /\ x \in Int /\ made \in Int
    BY MarksAreIntegers, StreamAssumption DEF Compact, LineTypes, Marks, Events
  <1>2. s < made /\ s \notin ToSet(queue)
    BY <1>1 DEF Behind
  <1> QED
    BY <1>2 DEF LineOK

LEMMA BehindAll ==
    ASSUME NEW S PROVE Behind(S) <=> \A x \in S : Behind({x})
  BY DEF Behind

(* A page leaves nothing out above the oldest event it holds.              *)
LEMMA PageTop ==
    ASSUME NEW E \in SUBSET Events, NEW b \in Int
    PROVE  /\ Page(E, b) \subseteq {s \in E : s < b}
           /\ \A s \in Page(E, b), t \in E : s < t /\ t < b => t \in Page(E, b)
           /\ (\E s \in E : s < b) => Page(E, b) # {}
  <1> DEFINE older == {s \in E : s < b}
             above(s) == {t \in older : t > s}
  <1>1. IsFiniteSet(Events)
    BY FS_Interval, StreamAssumption DEF Events
  <1>2. \A s \in Int : IsFiniteSet(above(s)) /\ Cardinality(above(s)) \in Nat
    <2>1. \A s \in Int : above(s) \in SUBSET Events
      OBVIOUS
    <2> QED
      BY <1>1, <2>1, FS_Subset, FS_CardinalityType
  <1>3. E \in SUBSET Int
    BY DEF Events
  <1>4. ASSUME NEW s \in Page(E, b), NEW t \in E, s < t, t < b PROVE t \in Page(E, b)
    <2>1. s \in older /\ t \in older /\ Cardinality(above(s)) < PageSize
      BY <1>4 DEF Page
    <2>2. above(t) \in SUBSET above(s)
      <3> SUFFICES ASSUME NEW u \in above(t) PROVE u \in above(s)
        OBVIOUS
      <3>1. u \in older /\ u > t
        OBVIOUS
      <3>2. s \in Int /\ t \in Int /\ u \in Int
        BY <1>3, <2>1, <3>1
      <3> QED
        BY <1>4, <3>1, <3>2
    <2>3. Cardinality(above(t)) <= Cardinality(above(s))
      BY <1>2, <1>3, <2>1, <2>2, FS_Subset
    <2>4. Cardinality(above(t)) < PageSize
      <3> HIDE DEF above, older
      <3> QED
        BY <1>2, <1>3, <1>4, <2>1, <2>3, StreamAssumption
    <2> QED
      BY <2>1, <2>4 DEF Page
  <1>5. ASSUME NEW s \in E, s < b PROVE Page(E, b) # {}
    <2>1. older \in SUBSET Int /\ older # {} /\ \A x \in older : x <= b
      <3>1. \A x \in older : x \in Int /\ x <= b
        BY <1>3
      <3>2. s \in older
        BY <1>5
      <3> QED
        BY <3>1, <3>2
    <2>2. Max(older) \in older /\ \A y \in older : y <= Max(older)
      <3> HIDE DEF older
      <3> QED
        BY <2>1, Latest
    <2>3. above(Max(older)) = {}
      BY <1>3, <2>1, <2>2
    <2>4. Cardinality(above(Max(older))) < PageSize
      <3>1. Cardinality(above(Max(older))) = 0
        BY <2>3, FS_EmptySet
      <3>2. PageSize \in Nat /\ PageSize # 0
        BY StreamAssumption
      <3> HIDE DEF above, older
      <3> QED
        BY <3>1, <3>2
    <2> QED
      BY <2>2, <2>4 DEF Page
  <1> QED
    BY <1>4, <1>5 DEF Page

-----------------------------------------------------------------------------
(* The stream moves on: what has left the bus stays behind it, what the    *)
(* connection is past stays before what it has to send, and what is new in *)
(* the file is still to be sent and comes after everything that had left.  *)
Advance ==
    /\ file \subseteq file'
    /\ \A S \in SUBSET Marks : Behind(S) => Behind(S)'
    /\ \A S \in SUBSET Marks : Behind(S) /\ Below(S, Unsent) => Below(S, Unsent')
    /\ \A s \in file' \ file : s \in Unsent' /\ \A x \in Marks : Behind({x}) => x < s
LineStep == LineTypes' /\ LineOK' /\ Advance

LEMMA LineKept ==
    ASSUME LineTypes, LineOK, UNCHANGED <<made, queue, file, spool, batch>>
    PROVE  LineStep /\ Unsent' = Unsent
  <1>1. LineTypes' /\ LineOK' /\ Unsent' = Unsent
    BY DEF LineTypes, LineOK, Unsent, Behind
  <1>2. Advance
    BY <1>1 DEF Advance, Behind
  <1> QED
    BY <1>1, <1>2 DEF LineStep

LEMMA UnsentAreEvents ==
    ASSUME LineTypes
    PROVE  /\ Unsent \in SUBSET Events /\ ToSet(queue) \in SUBSET Events
           /\ ToSet(batch) \in SUBSET Events /\ ToSet(spool) \in SUBSET Events
  BY Members DEF LineTypes, Unsent

LEMMA Published ==
    ASSUME LineTypes, LineOK, Publish
    PROVE  LineStep /\ Unsent' = Unsent
  <1>1. /\ made \in Events /\ made' = made + 1 /\ queue' = PutEvent(queue, made)
        /\ UNCHANGED <<file, spool, batch>> /\ made' \in 0 .. Total /\ made \in Int
    BY StreamAssumption DEF Publish, sender, LineTypes, Events
  <1>2. Unsent' = Unsent
    BY <1>1 DEF Unsent
  <1>3. \A q \in ToSet(queue) : q \in Int /\ q < made
    BY UnsentAreEvents DEF LineOK, Events
  <1>4. /\ queue' \in Seq(Events) /\ Increasing(queue')
        /\ ToSet(queue) \subseteq ToSet(queue') /\ ToSet(queue') \subseteq ToSet(queue) \union {made}
        /\ made \notin Deltas => made \in ToSet(queue')
    BY <1>1, <1>3, PutEventKeeps DEF LineTypes, LineOK
  <1>5. LineTypes'
    BY <1>1, <1>4 DEF LineTypes
  <1>6. ASSUME NEW S \in SUBSET Marks, Behind(S) PROVE Behind(S)'
    <2>1. \A e \in S : e < made /\ e \in Int /\ e < made + 1
      BY <1>1, <1>6, MarksAreIntegers DEF Behind
    <2>2. \A e \in S, q \in ToSet(queue') : e < q
      BY <1>4, <1>6, <2>1 DEF Behind
    <2> QED
      BY <1>1, <2>1, <2>2 DEF Behind
  <1>7. Advance
    BY <1>1, <1>2, <1>6 DEF Advance
  <1>8. file \union (ToSet(queue') \ Deltas) = {s \in Compact : s < made'}
    <2>1. file \union (ToSet(queue) \ Deltas) = {s \in Compact : s < made}
      BY DEF LineOK
    <2>2. ToSet(queue') \ Deltas = (ToSet(queue) \ Deltas) \union ({made} \ Deltas)
      BY <1>4
    <2>3. {s \in Compact : s < made'} = {s \in Compact : s < made} \union ({made} \ Deltas)
      BY <1>1 DEF Compact, Events
    <2> QED
      BY <2>1, <2>2, <2>3
  <1>9. Behind(Unsent)' /\ Behind(file)'
    <2>1. Unsent \in SUBSET Marks /\ file \in SUBSET Marks
      BY UnsentAreEvents DEF Marks, LineTypes, Compact
    <2>2. Behind(Unsent) /\ Behind(file)
      BY DEF LineOK
    <2> QED
      BY <1>1, <1>2, <1>6, <2>1, <2>2 DEF Behind
  <1>10. \A q \in ToSet(queue') : q < made'
    BY <1>1, <1>3, <1>4
  <1>11. LineOK'
    BY <1>1, <1>4, <1>8, <1>9, <1>10 DEF LineOK
  <1> QED
    BY <1>2, <1>5, <1>7, <1>11 DEF LineStep

LEMMA Drained ==
    ASSUME LineTypes, LineOK, Drain
    PROVE  LineStep /\ Unsent \subseteq Unsent'
  <1>1. /\ queue' = <<>> /\ file' = file \union (ToSet(queue) \ Deltas)
        /\ spool' = PutAll(spool, queue) /\ UNCHANGED <<made, batch>>
    BY DEF Drain
  <1>2. /\ \A e \in Unsent \union file, q \in ToSet(queue) : e < q
        /\ \A e \in Unsent \union file \union ToSet(queue) : e < made
    BY DEF LineOK, Behind
  <1>3. /\ spool' \in Seq(Events) /\ Increasing(spool')
        /\ ToSet(spool) \subseteq ToSet(spool') /\ ToSet(spool') \subseteq ToSet(spool) \union ToSet(queue)
        /\ ToSet(queue) \ Deltas \subseteq ToSet(spool')
    <2>1. Below(ToSet(spool), ToSet(queue))
      BY <1>2 DEF Below, Unsent
    <2> QED
      BY <1>1, <2>1, PutAllKeeps DEF LineTypes, LineOK
  <1>4. /\ Unsent \subseteq Unsent' /\ Unsent' \subseteq Unsent \union ToSet(queue)
        /\ ToSet(queue) \ Deltas \subseteq Unsent'
    BY <1>1, <1>3 DEF Unsent
  <1>5. ToSet(queue) \in SUBSET Events /\ ToSet(queue') = {} /\ <<>> \in Seq(Events)
    BY <1>1, UnsentAreEvents, NothingIn
  <1>6. LineTypes'
    BY <1>1, <1>3, <1>5 DEF LineTypes, Compact
  <1>7. \A S : Behind(S) => Behind(S)'
    BY <1>1, <1>5 DEF Behind
  <1>8. \A S : Behind(S) /\ Below(S, Unsent) => Below(S, Unsent')
    BY <1>4 DEF Behind, Below
  <1>9. \A s \in file' \ file : s \in Unsent' /\ \A x \in Marks : Behind({x}) => x < s
    BY <1>1, <1>4 DEF Behind
  <1>10. Advance
    BY <1>1, <1>7, <1>8, <1>9 DEF Advance
  <1>11. Behind(Unsent)' /\ Behind(file)'
    BY <1>1, <1>2, <1>4, <1>5 DEF Behind
  <1>12. Below(ToSet(batch), ToSet(spool'))
    BY <1>2, <1>3 DEF LineOK, Below, Unsent
  <1>13. LineOK'
    <2>1. file' \union (ToSet(queue') \ Deltas) = {s \in Compact : s < made'}
      BY <1>1, <1>5 DEF LineOK
    <2>2. Increasing(queue') /\ \A q \in ToSet(queue') : q < made'
      BY <1>1, <1>5, NothingIn
    <2> QED
      BY <1>1, <1>3, <1>11, <1>12, <2>1, <2>2 DEF LineOK
  <1> QED
    BY <1>4, <1>6, <1>10, <1>13 DEF LineStep

LEMMA Taken ==
    ASSUME LineTypes, LineOK, Take
    PROVE  LineStep /\ Unsent' = Unsent
  <1>1. /\ batch = <<>> /\ spool # <<>> /\ batch' = <<Head(spool)>> /\ spool' = Tail(spool)
        /\ UNCHANGED <<made, queue, file>> /\ spool \in Seq(Events)
    BY DEF Take, bus, LineTypes
  <1>2. /\ Head(spool) \in Events /\ spool' \in Seq(Events)
        /\ ToSet(spool) = {Head(spool)} \union ToSet(spool')
    BY <1>1, Tailed
  <1>3. batch' \in Seq(Events) /\ Len(batch') = 1 /\ ToSet(batch') = {Head(spool)}
    BY <1>1, <1>2, Alone
  <1>4. Increasing(spool') /\ Below(ToSet(batch'), ToSet(spool'))
    BY <1>1, <1>3, TailInOrder DEF LineOK
  <1>5. Unsent' = Unsent
    BY <1>1, <1>2, <1>3, NothingIn DEF Unsent
  <1>6. LineTypes'
    BY <1>1, <1>2, <1>3 DEF LineTypes
  <1>7. LineOK'
    BY <1>1, <1>3, <1>4, <1>5 DEF LineOK, Behind
  <1>8. Advance
    BY <1>1, <1>5 DEF Advance, Behind
  <1> QED
    BY <1>5, <1>6, <1>7, <1>8 DEF LineStep

(* A batch leaves the connection, sent or lost.                            *)
Pass ==
    /\ batch # <<>> /\ batch' = <<>> /\ spool' = Left
    /\ UNCHANGED <<made, queue, file>>

LEMMA Passed ==
    ASSUME LineTypes, LineOK, Pass
    PROVE  /\ LineStep /\ Unsent = ToSet(Gathered) \union Unsent'
           /\ ToSet(Gathered) \in SUBSET Events /\ Below(ToSet(Gathered), Unsent')
  <1>1. Len(batch) = 1
    <2>1. batch \in Seq(Events) /\ batch # <<>> /\ Len(batch) <= 1
      BY DEF LineTypes, LineOK, Pass
    <2>2. \A s \in Seq(Events) : s # <<>> => Len(s) \in Nat \ {0}
      BY EmptySeq
    <2>3. Len(batch) \in Nat \ {0}
      BY <2>1, <2>2, Zenon
    <2>4. \A n \in Nat \ {0} : n <= 1 => n = 1
      OBVIOUS
    <2> QED
      BY <2>1, <2>3, <2>4, Zenon
  <1>2. /\ Left \in Seq(Events) /\ Increasing(Left) /\ ToSet(Gathered) \in SUBSET Events
        /\ ToSet(Gathered) \union ToSet(Left) = Unsent
        /\ Below(ToSet(Gathered), ToSet(Left))
    BY <1>1, BatchGathered DEF LineTypes, LineOK
  <1>3. Unsent' = ToSet(Left)
    BY NothingIn DEF Pass, Unsent
  <1>4. LineTypes'
    BY <1>2 DEF LineTypes, Pass
  <1>5. Len(batch') <= 1 /\ Below(ToSet(batch'), ToSet(spool'))
    BY NothingIn DEF Pass, Below
  <1>6. Behind(Unsent)' /\ Behind(file)'
    BY <1>2, <1>3 DEF LineOK, Behind, Pass
  <1>7. LineOK'
    BY <1>2, <1>5, <1>6 DEF LineOK, Pass
  <1>8. Advance
    BY <1>2, <1>3 DEF Advance, Behind, Below, Pass
  <1> QED
    BY <1>2, <1>3, <1>4, <1>7, <1>8 DEF LineStep

-----------------------------------------------------------------------------
(* Frames and sequences of frames.                                         *)

LEMMA DownKinds ==
    ASSUME NEW f \in DownFrames
    PROVE  /\ f.type \in {"evt_ready", "history", "evts"}
           /\ f.type = "evt_ready" => f.last \in Marks
           /\ f.type = "history" => f.events \in SUBSET Compact /\ f.more \in BOOLEAN
           /\ f.type = "evts" => f.events \in SUBSET Events
  BY DEF DownFrames

LEMMA UpKinds ==
    ASSUME NEW f \in UpFrames
    PROVE  f.type \in {"subscribe", "history"} /\ (f.type = "history" => f.before \in 0 .. Total)
  BY DEF UpFrames

LEMMA FramesOf == ASSUME NEW S, NEW s \in Seq(S) PROVE ToSet(s) \in SUBSET S
  BY DEF ToSet

LEMMA LiveTypes == ASSUME WireTypes PROVE Live \in SUBSET Events
  <1>1. \A f \in ToSet(down) : f \in DownFrames
    BY FramesOf DEF WireTypes
  <1> QED
    BY <1>1, DownKinds DEF Live

LEMMA LiveGrown ==
    ASSUME WireTypes, NEW f \in DownFrames, down' = Append(down, f)
    PROVE  Live' = IF f.type = "evts" THEN Live \union f.events ELSE Live
  <1>1. ToSet(down') = ToSet(down) \union {f}
    BY Appended DEF WireTypes
  <1>2. {g \in ToSet(down') : g.type = "evts"} =
            {g \in ToSet(down) : g.type = "evts"} \union {g \in {f} : g.type = "evts"}
    BY <1>1
  <1>3. Live' = UNION {g.events : g \in {h \in ToSet(down') : h.type = "evts"}}
    BY DEF Live
  <1> QED
    BY <1>2, <1>3 DEF Live

LEMMA LiveShorter ==
    ASSUME WireTypes, down # <<>>, down' = Tail(down)
    PROVE  Live = IF Head(down).type = "evts" THEN Head(down).events \union Live' ELSE Live'
  <1>1. ToSet(down) = {Head(down)} \union ToSet(down')
    BY Tailed DEF WireTypes
  <1>2. {g \in ToSet(down) : g.type = "evts"} =
            {g \in ToSet(down') : g.type = "evts"} \union {g \in {Head(down)} : g.type = "evts"}
    BY <1>1
  <1>3. Live' = UNION {g.events : g \in {h \in ToSet(down') : h.type = "evts"}}
    BY DEF Live
  <1> QED
    BY <1>2, <1>3 DEF Live

LEMMA AllLiveGrown ==
    ASSUME NEW s \in Seq(DownFrames), NEW f \in DownFrames
    PROVE  /\ AllLive(Append(s, f)) <=> AllLive(s) /\ f.type = "evts"
           /\ AllLive(s) /\ f.type # "evts" => AllLiveBut(Append(s, f))
           /\ AllLiveBut(s) /\ f.type = "evts" => AllLiveBut(Append(s, f))
  <1> DEFINE n == Len(s) + 1
             more == Append(s, f)
  <1>1. /\ DOMAIN more = DOMAIN s \union {n} /\ more[n] = f /\ ToSet(more) = ToSet(s) \union {f}
        /\ \A i \in DOMAIN s : more[i] = s[i] /\ i # n
    <2>1. \A i \in DOMAIN s : i < n => i # n
      OBVIOUS
    <2> QED
      BY <2>1, Appended
  <1> HIDE DEF more, n
  <1>2. AllLive(more) <=> AllLive(s) /\ f.type = "evts"
    BY <1>1 DEF AllLive
  <1>3. ASSUME AllLive(s), f.type # "evts" PROVE AllLiveBut(more)
    <2>1. \A j \in DOMAIN s : s[j].type = "evts"
      BY <1>3 DEF AllLive, ToSet
    <2>2. \A j \in DOMAIN more : more[j].type = "evts" <=> j # n
      BY <1>1, <1>3, <2>1
    <2> QED
      BY <1>1, <2>2 DEF AllLiveBut
  <1>4. ASSUME AllLiveBut(s), f.type = "evts" PROVE AllLiveBut(more)
    <2>1. PICK i \in DOMAIN s : \A j \in DOMAIN s : s[j].type = "evts" <=> j # i
      BY <1>4 DEF AllLiveBut
    <2>2. \A j \in DOMAIN more : more[j].type = "evts" <=> j # i
      BY <1>1, <1>4, <2>1
    <2> QED
      BY <1>1, <2>2 DEF AllLiveBut
  <1> QED
    BY <1>2, <1>3, <1>4 DEF more

LEMMA AllLiveShorter ==
    ASSUME NEW s \in Seq(DownFrames), s # <<>>
    PROVE  /\ AllLive(s) => Head(s).type = "evts" /\ AllLive(Tail(s))
           /\ AllLiveBut(s) /\ Head(s).type = "evts" => AllLiveBut(Tail(s))
           /\ AllLiveBut(s) /\ Head(s).type # "evts" => AllLive(Tail(s))
  <1>1. /\ Head(s) = s[1] /\ 1 \in DOMAIN s /\ ToSet(s) = {Head(s)} \union ToSet(Tail(s))
        /\ \A i \in DOMAIN Tail(s) : i + 1 \in DOMAIN s /\ Tail(s)[i] = s[i + 1] /\ i + 1 # 1
        /\ \A i \in DOMAIN s : i # 1 => i - 1 \in DOMAIN Tail(s) /\ Tail(s)[i - 1] = s[i]
        /\ \A i \in DOMAIN Tail(s) \union DOMAIN s : i \in Int
    <2>1. \A i \in DOMAIN Tail(s) \union DOMAIN s : i \in Int
      <3>1. Tail(s) \in Seq(DownFrames)
        BY Tailed
      <3> QED
        BY <3>1, LenProperties
    <2>2. \A i \in DOMAIN Tail(s) : 1 < i + 1 => i + 1 # 1
      BY <2>1
    <2> QED
      BY <2>1, <2>2, Tailed
  <1>2. AllLive(s) => Head(s).type = "evts" /\ AllLive(Tail(s))
    BY <1>1 DEF AllLive
  <1>3. ASSUME AllLiveBut(s), Head(s).type = "evts" PROVE AllLiveBut(Tail(s))
    <2>1. PICK i \in DOMAIN s : \A j \in DOMAIN s : s[j].type = "evts" <=> j # i
      BY <1>3 DEF AllLiveBut
    <2>2. i # 1 /\ i - 1 \in DOMAIN Tail(s)
      BY <1>1, <1>3, <2>1
    <2>3. \A j \in DOMAIN Tail(s) : j # i - 1 <=> j + 1 # i
      BY <1>1
    <2>4. \A j \in DOMAIN Tail(s) : Tail(s)[j].type = "evts" <=> j # i - 1
      BY <1>1, <2>1, <2>3
    <2> QED
      BY <2>2, <2>4 DEF AllLiveBut
  <1>4. ASSUME AllLiveBut(s), Head(s).type # "evts" PROVE AllLive(Tail(s))
    <2>1. PICK i \in DOMAIN s : \A j \in DOMAIN s : s[j].type = "evts" <=> j # i
      BY <1>4 DEF AllLiveBut
    <2>2. i = 1
      BY <1>1, <1>4, <2>1
    <2>3. \A j \in DOMAIN Tail(s) : Tail(s)[j].type = "evts"
      BY <1>1, <2>1, <2>2
    <2> QED
      BY <2>3 DEF AllLive, ToSet
  <1> QED
    BY <1>2, <1>3, <1>4

LEMMA InTurnGrown ==
    ASSUME NEW s \in Seq(DownFrames), InTurn(s), NEW f \in DownFrames,
           f.type = "evts" => \A g \in ToSet(s) : g.type = "evts" => Below(g.events, f.events)
    PROVE  InTurn(Append(s, f))
  <1> DEFINE n == Len(s) + 1
             more == Append(s, f)
  <1>1. /\ DOMAIN more = DOMAIN s \union {n} /\ more[n] = f
        /\ \A i \in DOMAIN s : more[i] = s[i] /\ i < n
    BY Appended
  <1>2. n \in Int /\ \A i \in DOMAIN s : i \in Int /\ ~(n < i)
    BY LenProperties
  <1>3. \A i \in DOMAIN s : s[i] \in ToSet(s)
    BY DEF ToSet
  <1> HIDE DEF more, n
  <1>4. ASSUME NEW i \in DOMAIN more, NEW j \in DOMAIN more, i < j,
               more[i].type = "evts", more[j].type = "evts"
        PROVE  Below(more[i].events, more[j].events)
    <2>1. i \in DOMAIN s
      BY <1>1, <1>2, <1>4
    <2>2. CASE j \in DOMAIN s
      BY <1>1, <1>4, <2>1, <2>2 DEF InTurn
    <2>3. CASE j = n
      BY <1>1, <1>3, <1>4, <2>1, <2>3
    <2> QED
      BY <1>1, <2>2, <2>3
  <1> QED
    BY <1>4 DEF InTurn, more

LEMMA InTurnShorter ==
    ASSUME NEW s \in Seq(DownFrames), s # <<>>, InTurn(s)
    PROVE  /\ InTurn(Tail(s))
           /\ Head(s).type = "evts" =>
                 \A g \in ToSet(Tail(s)) : g.type = "evts" => Below(Head(s).events, g.events)
  <1>1. /\ Head(s) = s[1] /\ 1 \in DOMAIN s
        /\ \A i \in DOMAIN Tail(s) : i + 1 \in DOMAIN s /\ Tail(s)[i] = s[i + 1] /\ 1 < i + 1
        /\ \A i, j \in DOMAIN Tail(s) : i < j => i + 1 < j + 1
    BY Tailed
  <1> QED
    BY <1>1 DEF InTurn, ToSet

-----------------------------------------------------------------------------
(* The stream and the hub.                                                 *)

(* A state the hub may be in. *)
HubMay(h) ==
    h \in [events : SUBSET Compact, high : Marks] /\ h.events \subseteq file /\ Behind({h.high})

LEMMA Lowest == ASSUME LineTypes PROVE Behind({-1})
  <1>1. \A q \in ToSet(queue) : q \in 0 .. Total - 1
    BY UnsentAreEvents DEF Events
  <1> QED
    BY <1>1 DEF Behind, LineTypes

LEMMA HighestBehind ==
    ASSUME LineTypes, NEW x \in Marks, Behind({x}), NEW S \in SUBSET Marks, Behind(S)
    PROVE  Highest({x} \union S) \in Marks /\ Behind({Highest({x} \union S)})
  <1>1. {x} \union S \in SUBSET Marks
    OBVIOUS
  <1>2. \A y \in {-1} \union {x} \union S : Behind({y})
    BY Lowest, BehindAll
  <1> QED
    BY <1>1, <1>2, HighestIs

LEMMA HubRefreshed ==
    ASSUME LineTypes, LineOK, NEW h, HubMay(h)
    PROVE  HubMay(Refreshed(h)) /\ Refreshed(h).events = file
  <1>1. file \in SUBSET Compact /\ file \in SUBSET Marks /\ Behind(file)
    BY DEF LineTypes, LineOK, Compact, Marks
  <1>2. h.events \union file = file /\ h.high \in Marks /\ Behind({h.high})
    BY DEF HubMay
  <1>3. Highest({h.high} \union file) \in Marks /\ Behind({Highest({h.high} \union file)})
    BY <1>1, <1>2, HighestBehind
  <1> QED
    BY <1>1, <1>2, <1>3 DEF HubMay, Refreshed

LEMMA HubIngests ==
    ASSUME LineTypes, LineOK, NEW h, HubMay(h), NEW E \in SUBSET Events, Behind(E)
    PROVE  HubMay(Ingest(h, E))
  <1>1. E \in SUBSET Marks /\ h.high \in Marks /\ Behind({h.high})
    BY DEF HubMay, Marks
  <1>2. Highest({h.high} \union E) \in Marks /\ Behind({Highest({h.high} \union E)})
    BY <1>1, HighestBehind
  <1>3. ASSUME NEW s \in E \ Deltas PROVE s \in file
    <2>1. s \in Compact /\ s \in Marks /\ Behind({s}) /\ s <= s
      BY BehindAll DEF Compact, Marks, Events
    <2> QED
      BY <2>1, Settled
  <1>4. h.events \union (E \ Deltas) \in SUBSET Compact /\ h.events \union (E \ Deltas) \subseteq file
    BY <1>3 DEF HubMay, Compact
  <1> QED
    BY <1>2, <1>4 DEF HubMay, Ingest

LEMMA GatheredBehind ==
    ASSUME LineTypes, LineOK, Pass
    PROVE  Behind(ToSet(Gathered)) /\ ToSet(Gathered) \in SUBSET Events
  <1>1. ToSet(Gathered) \in SUBSET Unsent /\ ToSet(Gathered) \in SUBSET Events
    BY Passed
  <1> QED
    BY <1>1 DEF Behind, LineOK

LEMMA LineSteps == ASSUME StreamOK, [Next]_vars PROVE LineStep
  <1>0. LineTypes /\ LineOK
    BY DEF StreamOK
  <1>1. CASE Publish
    BY <1>0, <1>1, Published
  <1>2. CASE Drain
    BY <1>0, <1>2, Drained
  <1>3. CASE Take
    BY <1>0, <1>3, Taken
  <1>4. CASE Send \/ Lose
    <2>1. Pass
      BY <1>4 DEF Send, Lose, Pass, bus
    <2> QED
      BY <1>0, <2>1, Passed
  <1>5. CASE UNCHANGED <<made, queue, file, spool, batch>>
    BY <1>0, <1>5, LineKept
  <1>6. Next => Publish \/ Drain \/ Take \/ Send \/ Lose
                \/ UNCHANGED <<made, queue, file, spool, batch>>
    BY DEF Next, Step, Connect, ServeSubscribe, ServeHistory, Reopen, HandleReady, HandleHistory,
           HandleLive, Flush, Scan, Click, Break, CutViewer, Restart, Cut, Frame, bus, sender
  <1>7. UNCHANGED vars => UNCHANGED <<made, queue, file, spool, batch>>
    BY DEF vars, bus, sender
  <1> QED
    BY <1>1, <1>2, <1>3, <1>4, <1>5, <1>6, <1>7

LEMMA HubSteps == ASSUME StreamOK, [Next]_vars PROVE HubMay(hub')
  <1>0. LineTypes /\ LineOK /\ HubMay(hub)
    BY DEF StreamOK, HubTypes, HubOK, HubMay
  <1>1. CASE hub' = hub
    BY <1>0, <1>1
  <1>2. CASE Send
    <2>1. Pass /\ hub' = Ingest(hub, ToSet(Gathered))
      BY <1>2 DEF Send, Pass, bus
    <2> QED
      BY <1>0, <2>1, GatheredBehind, HubIngests
  <1>3. CASE hub' = Refreshed(hub)
    BY <1>0, <1>3, HubRefreshed
  <1>4. CASE hub' = Refreshed(Nothing)
    <2>1. HubMay(Nothing)
      BY <1>0, Lowest DEF HubMay, Nothing, Marks
    <2> QED
      BY <1>0, <1>4, <2>1, HubRefreshed
  <1>5. Next => Send \/ hub' = hub \/ hub' = Refreshed(hub) \/ hub' = Refreshed(Nothing)
    BY DEF Next, Step, Publish, Drain, Take, Lose, Connect, ServeSubscribe, ServeHistory, Reopen,
           HandleReady, HandleHistory, HandleLive, Flush, Scan, Click, Break, CutViewer, Restart,
           Frame
  <1>6. UNCHANGED vars => hub' = hub
    BY DEF vars
  <1> QED
    BY <1>1, <1>2, <1>3, <1>4, <1>5, <1>6

LEMMA StreamStep == ASSUME StreamOK, [Next]_vars PROVE LineStep /\ StreamOK'
  <1>1. LineStep /\ HubMay(hub')
    BY LineSteps, HubSteps
  <1>2. HubTypes' /\ hub'.high \in Marks
    BY <1>1 DEF HubMay, HubTypes
  <1>3. hub'.events \subseteq file' /\ Behind({hub.high})'
    <2>1. {hub'.high} \in SUBSET Marks /\ Behind({hub'.high})
      BY <1>1, <1>2 DEF HubMay
    <2> QED
      BY <1>1, <2>1 DEF HubMay, LineStep, Advance, Behind
  <1> QED
    BY <1>1, <1>2, <1>3 DEF StreamOK, HubOK, LineStep

LEMMA OtherStep == ASSUME OtherTypes, [Next]_vars PROVE OtherTypes'
  <1>1. CASE UNCHANGED vars
    BY <1>1 DEF vars, wires, sender, OtherTypes
  <1>2. CASE Step
    <2>1. link' \in {"up", "broken", "down"} /\ clicks' = clicks /\ faults' = faults
      BY <1>2 DEF OtherTypes, Step, Publish, Drain, Take, Send, Lose, Connect, ServeSubscribe,
             ServeHistory, Reopen, HandleReady, HandleHistory, HandleLive, Flush, Frame, sender
    <2>2. delivered' \in BOOLEAN /\ subscribed' \in BOOLEAN
      BY <1>2 DEF OtherTypes, Step, Publish, Drain, Take, Send, Lose, Connect, ServeSubscribe,
             ServeHistory, Reopen, HandleReady, HandleHistory, HandleLive, Flush, Frame, sender,
             wires
    <2> QED
      BY <2>1, <2>2 DEF OtherTypes
  <1>3. CASE Scan \/ Click \/ Break \/ CutViewer \/ Restart
    <2>1. clicks' \in 0 .. MaxClicks /\ faults' \in 0 .. MaxFaults
      BY <1>3, StreamAssumption DEF OtherTypes, Scan, Click, Break, CutViewer, Restart, Cut
    <2>2. /\ link' \in {"up", "broken", "down"}
          /\ delivered' \in BOOLEAN /\ subscribed' \in BOOLEAN
      BY <1>3 DEF OtherTypes, Scan, Click, Break, CutViewer, Restart, Cut, sender, wires
    <2> QED
      BY <2>1, <2>2 DEF OtherTypes
  <1> QED
    BY <1>1, <1>2, <1>3 DEF Next

-----------------------------------------------------------------------------
(* What a step leaves true of the frames and of what the history reaches.  *)

LEMMA BehindStays ==
    ASSUME LineStep, NEW S \in SUBSET Marks, Behind(S)
    PROVE  Behind(S)' /\ (Below(S, Unsent) => Below(S, Unsent'))
  BY DEF LineStep, Advance

LEMMA OlderStays == ASSUME LineStep, NEW b, Older(b) PROVE Older(b)'
  BY DEF LineStep, Advance, Older

LEMMA FrameStays ==
    ASSUME LineStep, NEW f \in DownFrames, FrameOK(f) PROVE FrameOK(f)'
  <1>1. f.type = "evt_ready" => Behind({f.last})'
    <2>1. f.type = "evt_ready" => {f.last} \in SUBSET Marks /\ Behind({f.last})
      BY DownKinds DEF FrameOK
    <2> QED
      BY <2>1, BehindStays
  <1>2. f.type = "history" =>
            f.events \subseteq file' /\ (f.more => f.events # {} /\ Older(Min(f.events))')
    BY OlderStays DEF FrameOK, LineStep, Advance
  <1>3. f.type = "evts" => Behind(f.events)' /\ Below(f.events, Unsent')
    <2>1. f.type = "evts" => f.events \in SUBSET Marks /\ Behind(f.events) /\ Below(f.events, Unsent)
      BY DownKinds DEF FrameOK, Marks
    <2> QED
      BY <2>1, BehindStays
  <1> QED
    BY <1>1, <1>2, <1>3 DEF FrameOK

LEMMA DownStays == ASSUME LineStep, WireTypes, DownOK, down' = down PROVE DownOK'
  <1>1. \A f \in ToSet(down) : f \in DownFrames
    BY FramesOf DEF WireTypes
  <1>2. \A f \in ToSet(down) : FrameOK(f)'
    BY <1>1, FrameStays DEF DownOK
  <1> QED
    BY <1>2 DEF DownOK

LEMMA DownGrown ==
    ASSUME LineStep, WireTypes, DownOK, NEW f \in DownFrames, down' = Append(down, f), FrameOK(f)',
           f.type = "evts" => Below(Live, f.events)
    PROVE  DownOK' /\ down' \in Seq(DownFrames)
  <1>1. \A g \in ToSet(down) : g \in DownFrames
    BY FramesOf DEF WireTypes
  <1>2. \A g \in ToSet(down) : FrameOK(g)'
    BY <1>1, FrameStays DEF DownOK
  <1>3. ToSet(down') = ToSet(down) \union {f} /\ down' \in Seq(DownFrames)
    BY Appended DEF WireTypes
  <1>4. InTurn(down')
    <2>1. f.type = "evts" => \A g \in ToSet(down) : g.type = "evts" => Below(g.events, f.events)
      BY DEF Live, Below
    <2> QED
      BY <2>1, InTurnGrown DEF DownOK, WireTypes
  <1> QED
    BY <1>2, <1>3, <1>4 DEF DownOK

LEMMA DownShorter ==
    ASSUME LineStep, WireTypes, DownOK, down # <<>>, down' = Tail(down)
    PROVE  DownOK' /\ down' \in Seq(DownFrames)
  <1>1. \A g \in ToSet(down) : g \in DownFrames
    BY FramesOf DEF WireTypes
  <1>2. \A g \in ToSet(down) : FrameOK(g)'
    BY <1>1, FrameStays DEF DownOK
  <1>3. ToSet(down') \subseteq ToSet(down) /\ down' \in Seq(DownFrames)
    BY Tailed DEF WireTypes
  <1>4. InTurn(down')
    BY InTurnShorter DEF DownOK, WireTypes
  <1> QED
    BY <1>2, <1>3, <1>4 DEF DownOK

LEMMA UpStays ==
    ASSUME LineStep, UpOK, ToSet(up') \subseteq ToSet(up)
    PROVE  UpOK'
  BY OlderStays DEF UpOK

(* Nothing that is on its way is lost, and the mark of the viewer stays.   *)
Carried ==
    /\ LineStep /\ v'.last = v.last
    /\ subscribed => subscribed' /\ Flight \subseteq Flight'

LEMMA ReachStays ==
    ASSUME StreamOK, ClientOK, Carried, NEW b \in Int, NEW read \in SUBSET file, Reach(b, read)
    PROVE  Reach(b, read)'
  <1>1. subscribed' /\ Flight \subseteq Flight'
    BY DEF Carried, Reach
  <1>2. v.last \in Marks /\ Behind({v.last})
    BY DEF ClientOK, WireTypes, Viewers, ViewOK
  <1>3. \A t \in read : t \in Marks /\ Behind({t})
    BY BehindAll DEF StreamOK, LineTypes, LineOK, Compact, Marks
  <1>4. ASSUME NEW s \in file', s >= b
        PROVE  /\ s \in read \union Flight'
               /\ (s <= v.last \/ \E t \in read : s <= t) => s \in read
    <2>1. CASE s \in file
      BY <1>1, <1>4, <2>1 DEF Reach
    <2>2. CASE s \notin file
      <3>1. s \in Unsent' /\ v.last < s /\ \A t \in read : t < s
        BY <1>2, <1>3, <2>2 DEF Carried, LineStep, Advance
      <3>2. s \in Marks
        BY <1>4 DEF Carried, LineStep, LineTypes, Marks, Compact
      <3>3. s \in Int /\ v.last \in Int /\ \A t \in read : t \in Int
        BY <1>2, <1>3, <3>2, MarksAreIntegers
      <3>4. ~(s <= v.last) /\ ~\E t \in read : s <= t
        BY <3>1, <3>3
      <3> QED
        BY <3>1, <3>4 DEF Flight
    <2> QED
      BY <2>1, <2>2
  <1> QED
    BY <1>1, <1>4 DEF Reach, Carried

LEMMA StartIs ==
    ASSUME StreamOK, NEW f \in DownFrames, f.type = "history", FrameOK(f)
    PROVE  Start(f) \in Int /\ (f.more => Start(f) \in f.events /\ \A s \in f.events : Start(f) <= s)
  <1>1. f.events \in SUBSET Events
    BY DownKinds DEF Compact
  <1>2. f.more => Min(f.events) \in f.events /\ \A y \in f.events : Min(f.events) <= y
    BY <1>1, Earliest DEF FrameOK
  <1> QED
    BY <1>1, <1>2 DEF Start, Events

LEMMA UpCoverStays ==
    ASSUME StreamOK, ClientOK, Carried, v'.history = v.history, NEW f \in UpFrames, UpCover(f)
    PROVE  UpCover(f)'
  <1>1. CASE f.type = "history"
    <2>1. f.before \in Int /\ v.history \in SUBSET file
      BY <1>1, UpKinds, StreamAssumption DEF ClientOK, ViewOK
    <2>2. Reach(f.before, v.history)
      BY <1>1 DEF UpCover
    <2>3. Reach(f.before, v.history)'
      <3> DEFINE read == v.history
      <3>1. Reach(f.before, read)
        BY <2>2
      <3>2. v'.history = v.history
        OBVIOUS
      <3> QED
        BY <2>1, <2>2, <3>2, ReachStays DEF Reach
    <2> QED
      BY <1>1, <2>3 DEF UpCover
  <1>2. CASE f.type # "history"
    BY <1>2 DEF UpCover
  <1> QED
    BY <1>1, <1>2

LEMMA DownCoverStays ==
    ASSUME StreamOK, ClientOK, Carried, v'.history = v.history, NEW f \in DownFrames, FrameOK(f),
           DownCover(f)
    PROVE  DownCover(f)'
  <1>1. CASE f.type = "history"
    <2> DEFINE read == v.history \union f.events
    <2>1. Start(f) \in Int /\ read \in SUBSET file
      BY <1>1, StartIs DEF ClientOK, ViewOK, FrameOK
    <2>2. Reach(Start(f), read)
      BY <1>1 DEF DownCover
    <2>3. Reach(Start(f), v.history \union f.events)'
      BY <2>1, <2>2, ReachStays DEF Reach
    <2> QED
      BY <1>1, <2>3 DEF DownCover
  <1>2. CASE f.type # "history"
    BY <1>2 DEF DownCover, Carried
  <1> QED
    BY <1>1, <1>2

-----------------------------------------------------------------------------
(* The frames and the viewer, one kind of step at a time.                  *)

LEMMA Still ==
    ASSUME StreamOK, ClientOK, LineStep, UNCHANGED <<wires, v>>,
           Patient /\ v.open /\ v.loading /\ subscribed => Unsent \subseteq Unsent'
    PROVE  ClientOK'
  <1>0. /\ WireTypes /\ UpOK /\ DownOK /\ ViewOK
        /\ up' = up /\ down' = down /\ subscribed' = subscribed /\ v' = v
    BY DEF ClientOK, wires
  <1>1. WireTypes' /\ UpOK' /\ DownOK' /\ Live' = Live
    BY <1>0, UpStays, DownStays DEF WireTypes, Live
  <1>2. ViewOK'
    <2>1. v.pending \in SUBSET Marks /\ {v.last} \in SUBSET Marks
      BY <1>0 DEF WireTypes, Viewers, Marks
    <2>2. Behind(v.pending) /\ Below(v.pending, Unsent) /\ Behind({v.last})
      BY <1>0 DEF ViewOK
    <2>3. Behind(v.pending)' /\ Below(v.pending, Unsent)' /\ Behind({v.last})'
      BY <1>0, <2>1, <2>2, BehindStays DEF Behind
    <2>4. file \subseteq file'
      BY DEF LineStep, Advance
    <2> QED
      BY <1>0, <1>1, <2>3, <2>4 DEF ViewOK
  <1>3. ASSUME Patient PROVE Whole'
    <2>1. TokenOK /\ CoverOK /\ NoHole
      BY <1>3 DEF ClientOK, Whole
    <2>2. TokenOK' /\ NoHole'
      BY <1>0, <2>1 DEF TokenOK, NoHole
    <2>3. ASSUME v.open, v.loading PROVE Carried
      BY <1>0, <1>1, <1>3, <2>3 DEF Carried, Flight
    <2>4. ASSUME v.open, v.loading, NEW f \in ToSet(up) PROVE UpCover(f)'
      <3>1. f \in UpFrames /\ UpCover(f)
        BY <1>0, <2>1, <2>4, FramesOf DEF CoverOK, WireTypes
      <3> QED
        BY <1>0, <2>3, <2>4, <3>1, UpCoverStays
    <2>5. ASSUME v.open, v.loading, NEW f \in ToSet(down) PROVE DownCover(f)'
      <3>1. f \in DownFrames /\ DownCover(f) /\ FrameOK(f)
        BY <1>0, <2>1, <2>5, FramesOf DEF CoverOK, WireTypes, DownOK
      <3> QED
        BY <1>0, <2>3, <2>5, <3>1, DownCoverStays
    <2>6. CoverOK'
      BY <1>0, <2>4, <2>5 DEF CoverOK
    <2> QED
      BY <2>2, <2>6 DEF Whole
  <1> QED
    BY <1>0, <1>1, <1>2, <1>3 DEF ClientOK

LEMMA Patience == Patient' <=> Patient
  BY DEF Patient

LEMMA SendPassesOn ==
    ASSUME StreamOK, ClientOK, LineStep, Send, subscribed
    PROVE  ClientOK'
  <1>a. /\ WireTypes /\ UpOK /\ DownOK /\ ViewOK /\ LineTypes /\ LineOK /\ Pass
        /\ up' = up /\ subscribed' = subscribed /\ v' = v
        /\ down' = Append(down, [type |-> "evts", events |-> ToSet(Gathered)])
    BY DEF ClientOK, StreamOK, Send, Pass, bus
  <1>b. /\ ToSet(Gathered) \in SUBSET Events /\ Unsent = ToSet(Gathered) \union Unsent'
        /\ Below(ToSet(Gathered), Unsent') /\ Behind(ToSet(Gathered))
    BY <1>a, Passed, GatheredBehind
  <1>c. PICK G \in SUBSET Events : G = ToSet(Gathered)
    BY <1>b
  <1>d. PICK f \in DownFrames : f = [type |-> "evts", events |-> G]
    BY DEF DownFrames
  <1>0. /\ WireTypes /\ UpOK /\ DownOK /\ ViewOK /\ LineTypes /\ LineOK
        /\ up' = up /\ down' = Append(down, f) /\ subscribed' = subscribed /\ v' = v
    BY <1>a, <1>c, <1>d
  <1>1. /\ G \in SUBSET Events /\ Unsent = G \union Unsent'
        /\ Below(G, Unsent') /\ Behind(G) /\ G \in SUBSET Marks
    BY <1>b, <1>c DEF Marks
  <1>2. f \in DownFrames /\ f.type = "evts" /\ f.events = G
    BY <1>d
  <1>3. FrameOK(f)'
    <2>1. Behind(G)'
      BY <1>1, BehindStays
    <2> QED
      BY <1>1, <1>2, <2>1 DEF FrameOK, Behind
  <1>4. Below(Live, G)
    BY <1>0, <1>1 DEF Live, DownOK, FrameOK, Below
  <1>5. DownOK' /\ WireTypes' /\ UpOK' /\ Live' = Live \union G
    BY <1>0, <1>2, <1>3, <1>4, DownGrown, UpStays, LiveGrown DEF WireTypes
  <1>6. ViewOK'
    <2>1. v.pending \in SUBSET Marks /\ {v.last} \in SUBSET Marks
      BY <1>0 DEF WireTypes, Viewers, Marks
    <2>2. Behind(v.pending) /\ Below(v.pending, Unsent) /\ Behind({v.last})
      BY <1>0 DEF ViewOK
    <2>3. Behind(v.pending)' /\ Below(v.pending, Unsent)' /\ Behind({v.last})'
      BY <1>0, <2>1, <2>2, BehindStays DEF Behind
    <2>4. file \subseteq file' /\ v.open
      BY <1>0 DEF LineStep, Advance, ViewOK
    <2>5. Below(v.pending, Live')
      BY <1>0, <1>1, <1>5 DEF ViewOK, Below
    <2> QED
      BY <1>0, <2>3, <2>4, <2>5 DEF ViewOK
  <1>7. ASSUME Patient PROVE Whole'
    <2>1. TokenOK /\ CoverOK /\ NoHole
      BY <1>7 DEF ClientOK, Whole
    <2>2. TokenOK'
      BY <1>0, <1>2, <2>1, AllLiveGrown DEF TokenOK, WireTypes
    <2>3. NoHole'
      BY <1>0, <2>1 DEF NoHole
    <2>4. Carried
      BY <1>0, <1>1, <1>5 DEF Carried, Flight
    <2>5. ASSUME v.open, v.loading, NEW g \in ToSet(up) PROVE UpCover(g)'
      <3>1. g \in UpFrames /\ UpCover(g)
        BY <1>0, <2>1, <2>5, FramesOf DEF CoverOK, WireTypes
      <3> QED
        BY <1>0, <2>4, <2>5, <3>1, UpCoverStays
    <2>6. ASSUME v.open, v.loading, NEW g \in ToSet(down) PROVE DownCover(g)'
      <3>1. g \in DownFrames /\ DownCover(g) /\ FrameOK(g)
        BY <1>0, <2>1, <2>6, FramesOf DEF CoverOK, WireTypes, DownOK
      <3> QED
        BY <1>0, <2>4, <2>6, <3>1, DownCoverStays
    <2>7. ToSet(down') = ToSet(down) \union {f}
      BY <1>0, <1>2, Appended DEF WireTypes
    <2>8. DownCover(f)'
      BY <1>2 DEF DownCover
    <2>9. CoverOK'
      BY <1>0, <2>5, <2>6, <2>7, <2>8 DEF CoverOK
    <2> QED
      BY <2>2, <2>3, <2>9 DEF Whole
  <1> QED
    BY <1>5, <1>6, <1>7, Patience DEF ClientOK

(* Whatever was on its way is gone, and nobody is subscribed.              *)
LEMMA CutOff ==
    ASSUME StreamOK, ClientOK, LineStep, Cut
    PROVE  ClientOK'
  <1>0. /\ WireTypes /\ UpOK /\ DownOK /\ ViewOK /\ v' = [v EXCEPT !.open = FALSE]
        /\ up' = <<>> /\ down' = <<>> /\ subscribed' = FALSE
    BY DEF ClientOK, Cut
  <1>1. ToSet(<<>>) = {} /\ \A S : <<>> \in Seq(S)
    BY NothingIn
  <1>2. /\ v' \in Viewers /\ v'.pending = v.pending /\ v'.last = v.last /\ v'.history = v.history
        /\ v'.loading = v.loading /\ v'.selected = v.selected /\ v'.live = v.live
        /\ v'.fold = v.fold /\ v'.loaded = v.loaded /\ v'.next = v.next /\ v'.open = FALSE
    BY <1>0 DEF WireTypes, Viewers
  <1>3. WireTypes' /\ UpOK' /\ DownOK'
    BY <1>0, <1>1, <1>2 DEF WireTypes, UpOK, DownOK, InTurn
  <1>4. Live' = {}
    BY <1>0, <1>1 DEF Live
  <1>5. ViewOK'
    <2>1. v.pending \in SUBSET Marks /\ {v.last} \in SUBSET Marks
      BY <1>0 DEF WireTypes, Viewers, Marks
    <2>2. Behind(v.pending) /\ Below(v.pending, Unsent) /\ Behind({v.last})
      BY <1>0 DEF ViewOK
    <2>3. Behind(v.pending)' /\ Below(v.pending, Unsent)' /\ Behind({v.last})'
      BY <1>2, <2>1, <2>2, BehindStays DEF Behind
    <2>4. file \subseteq file' /\ Below(v'.pending, Live')
      BY <1>4 DEF LineStep, Advance, Below
    <2> QED
      BY <1>0, <1>2, <2>3, <2>4 DEF ViewOK
  <1>6. Patient => Whole'
    <2>1. TokenOK' /\ CoverOK'
      BY <1>0, <1>1, <1>2 DEF TokenOK, CoverOK, AllLive
    <2>2. Patient => NoHole'
      BY <1>2 DEF ClientOK, Whole, NoHole
    <2> QED
      BY <2>1, <2>2 DEF Whole
  <1> QED
    BY <1>3, <1>5, <1>6, Patience DEF ClientOK

LEMMA MarksStay ==
    ASSUME LineStep, WireTypes, ViewOK
    PROVE  /\ v'.pending = v.pending => Behind(v.pending)' /\ Below(v.pending, Unsent)'
           /\ v'.last = v.last => Behind({v.last})'
           /\ v'.history = v.history => (v.history \subseteq file)'
  <1>1. v.pending \in SUBSET Marks /\ {v.last} \in SUBSET Marks
    BY DEF WireTypes, Viewers, Marks
  <1>2. Behind(v.pending) /\ Below(v.pending, Unsent) /\ Behind({v.last}) /\ v.history \subseteq file
    BY DEF ViewOK
  <1> QED
    BY <1>1, <1>2, BehindStays DEF Behind, LineStep, Advance

LEMMA ShorterUp ==
    ASSUME WireTypes, up # <<>>
    PROVE  /\ Tail(up) \in Seq(UpFrames) /\ ToSet(Tail(up)) \subseteq ToSet(up)
           /\ Head(up) \in UpFrames /\ Head(up) \in ToSet(up)
           /\ Len(up) = 1 => Tail(up) = <<>>
  <1>1. Len(up) = 1 => Tail(up) = <<>>
    <2> SUFFICES ASSUME Len(up) = 1, Tail(up) # <<>> PROVE FALSE
      OBVIOUS
    <2>1. Tail(up) \in Seq(UpFrames)
      BY Tailed DEF WireTypes
    <2>2. 1 \in DOMAIN Tail(up)
      BY <2>1, Tailed
    <2>3. 1 + 1 \in DOMAIN up
      BY <2>2, Tailed DEF WireTypes
    <2>4. DOMAIN up = 1 .. 1
      BY LenProperties DEF WireTypes
    <2> QED
      BY <2>3, <2>4
  <1> QED
    BY <1>1, Tailed DEF WireTypes

(* The server answers: the request is off, an answer is on its way.        *)
LEMMA Answers ==
    ASSUME StreamOK, ClientOK, LineStep, UNCHANGED <<bus, file, sender, v>>,
           up # <<>>, up' = Tail(up), subscribed => subscribed',
           NEW f \in DownFrames, f.type # "evts", down' = Append(down, f), FrameOK(f)',
           Patient /\ v.open /\ v.loading => DownCover(f)'
    PROVE  ClientOK'
  <1>0. /\ WireTypes /\ UpOK /\ DownOK /\ ViewOK /\ LineTypes /\ LineOK /\ v' = v /\ v.open
        /\ Unsent' = Unsent
    <2>1. UNCHANGED <<made, queue, file, spool, batch>>
      BY DEF bus, sender
    <2> QED
      BY <2>1, LineKept DEF ClientOK, StreamOK, ViewOK
  <1>1. DownOK' /\ down' \in Seq(DownFrames) /\ Live' = Live
    BY <1>0, DownGrown, LiveGrown
  <1>2. WireTypes' /\ UpOK'
    BY <1>0, <1>1, ShorterUp, UpStays DEF WireTypes
  <1>3. ViewOK'
    BY <1>0, <1>1, MarksStay DEF ViewOK
  <1>4. ASSUME Patient PROVE Whole'
    <2>1. TokenOK /\ CoverOK /\ NoHole
      BY <1>4 DEF ClientOK, Whole
    <2>2. v.loading /\ Len(up) = 1 /\ AllLive(down)
      BY <1>0, <2>1 DEF TokenOK
    <2>3. up' = <<>> /\ ToSet(up') = {}
      BY <1>0, <2>2, ShorterUp, NothingIn
    <2>4. TokenOK'
      BY <1>0, <2>2, <2>3, AllLiveGrown DEF TokenOK, WireTypes
    <2>5. NoHole'
      BY <1>0, <2>1 DEF NoHole
    <2>6. ToSet(down') = ToSet(down) \union {f}
      BY <1>0, Appended DEF WireTypes
    <2>7. \A g \in ToSet(down) : DownCover(g)'
      BY <2>2 DEF AllLive, DownCover
    <2>8. DownCover(f)'
      BY <1>0, <1>4, <2>2
    <2>9. CoverOK'
      BY <2>3, <2>6, <2>7, <2>8 DEF CoverOK
    <2> QED
      BY <2>4, <2>5, <2>9 DEF Whole
  <1> QED
    BY <1>1, <1>2, <1>3, <1>4, Patience DEF ClientOK

LEMMA ServesSubscribe ==
    ASSUME StreamOK, ClientOK, LineStep, ServeSubscribe
    PROVE  ClientOK'
  <1>1. /\ up # <<>> /\ Head(up).type = "subscribe" /\ subscribed' = TRUE /\ up' = Tail(up)
        /\ UNCHANGED <<bus, file, sender, v>>
        /\ down' = Append(down, [type |-> "evt_ready", last |-> hub.high])
    BY DEF ServeSubscribe
  <1>2. hub.high \in Marks /\ Behind({hub.high})
    BY DEF StreamOK, HubTypes, HubOK
  <1>3. PICK x \in Marks : x = hub.high
    BY <1>2
  <1>4. PICK f \in DownFrames : f = [type |-> "evt_ready", last |-> x]
    BY DEF DownFrames
  <1>5. f.type = "evt_ready" /\ f.last = x /\ down' = Append(down, f)
    BY <1>1, <1>3, <1>4
  <1>6. FrameOK(f)'
    <2>1. {x} \in SUBSET Marks /\ Behind({x})
      BY <1>2, <1>3
    <2>2. Behind({x})'
      BY <2>1, BehindStays
    <2> QED
      BY <1>5, <2>2 DEF FrameOK, Behind
  <1>7. Patient /\ v.open /\ v.loading => DownCover(f)'
    <2>1. Head(up) \in ToSet(up)
      BY <1>1, ShorterUp DEF ClientOK
    <2>2. Patient /\ v.open /\ v.loading => v.history = {}
      BY <1>1, <2>1 DEF ClientOK, Whole, CoverOK, UpCover
    <2> QED
      BY <1>1, <1>5, <2>2 DEF DownCover
  <1> QED
    BY <1>1, <1>5, <1>6, <1>7, Answers

LEMMA ServesHistory ==
    ASSUME StreamOK, ClientOK, LineStep, ServeHistory
    PROVE  ClientOK'
  <1> DEFINE P == Page(file, Head(up).before)
             Rest == \E s \in file : \A t \in P : s < t
  <1>1. /\ up # <<>> /\ Head(up).type = "history" /\ up' = Tail(up) /\ hub' = Refreshed(hub)
        /\ subscribed' = subscribed /\ UNCHANGED <<bus, file, sender, v>>
        /\ LET page == Page(hub'.events, Head(up).before) IN
           down' = Append(down, [type |-> "history", events |-> page,
                                 more |-> \E s \in hub'.events : \A t \in page : s < t])
    BY DEF ServeHistory
  <1>2. hub'.events = file
    <2>1. HubMay(hub)
      BY DEF StreamOK, HubTypes, HubOK, HubMay
    <2> QED
      BY <1>1, <2>1, HubRefreshed DEF StreamOK
  <1>3. /\ Head(up) \in ToSet(up) /\ Head(up) \in UpFrames /\ Head(up).before \in Int
        /\ Head(up).before = Total \/ Older(Head(up).before)
    <2>1. Head(up) \in ToSet(up) /\ Head(up) \in UpFrames
      BY <1>1, ShorterUp DEF ClientOK
    <2> QED
      BY <1>1, <2>1, UpKinds, StreamAssumption DEF ClientOK, UpOK
  <1>4. PICK b \in Int : b = Head(up).before
    BY <1>3
  <1>5. file \in SUBSET Compact /\ file \in SUBSET Events /\ file \in SUBSET Int
    BY DEF StreamOK, LineTypes, Compact, Events
  <1>6. /\ P \subseteq {s \in file : s < b}
        /\ \A s \in P, t \in file : s < t /\ t < b => t \in P
        /\ (\E s \in file : s < b) => P # {}
    BY <1>4, <1>5, PageTop
  <1>7. PICK E \in SUBSET Compact : E = P
    BY <1>5, <1>6
  <1>8. PICK f \in DownFrames : f = [type |-> "history", events |-> E, more |-> Rest]
    <2>1. Rest \in BOOLEAN
      OBVIOUS
    <2> HIDE DEF Rest
    <2> QED
      BY <2>1 DEF DownFrames
  <1>9. f.type = "history" /\ f.events = E /\ f.more = Rest /\ down' = Append(down, f)
    BY <1>1, <1>2, <1>7, <1>8
  <1> HIDE DEF P
  <1>10. f.more => E # {} /\ Min(E) \in E /\ Older(Min(E))
    <2>1. ASSUME f.more PROVE E # {}
      <3>1. PICK s \in file : \A t \in P : s < t
        BY <1>9, <2>1
      <3>2. \E r \in file : r < b
        <4>1. b = Total => s < b
          BY <1>5, <3>1 DEF Events
        <4> QED
          BY <1>3, <1>4, <3>1, <4>1 DEF Older
      <3> QED
        BY <1>6, <1>7, <3>2
    <2>2. f.more => Min(E) \in E
      BY <2>1, Earliest DEF Compact
    <2> QED
      BY <1>7, <1>9, <2>1, <2>2 DEF Older
  <1>11. FrameOK(f)'
    <2>1. FrameOK(f)
      BY <1>6, <1>7, <1>9, <1>10 DEF FrameOK
    <2> QED
      BY <2>1, FrameStays
  <1>12. ASSUME Patient, v.open, v.loading PROVE DownCover(f)'
    <2> DEFINE read == v.history \union E
    <2>1. Reach(b, v.history)
      BY <1>1, <1>3, <1>4, <1>12 DEF ClientOK, Whole, CoverOK, UpCover
    <2>2. v.history \in SUBSET file /\ read \in SUBSET file
      BY <1>6, <1>7 DEF ClientOK, ViewOK
    <2>3. Start(f) \in Int /\ \A s \in file : s >= Start(f) /\ s < b => s \in E
      <3>1. ASSUME f.more PROVE Start(f) \in E /\ Start(f) \in Int
        <4>1. Start(f) = Min(E) /\ Min(E) \in E
          BY <1>9, <1>10, <3>1 DEF Start
        <4>2. E \in SUBSET Int
          BY DEF Compact, Events
        <4> QED
          BY <4>1, <4>2
      <3>2. ASSUME f.more, NEW s \in file, s >= Start(f), s < b PROVE s \in E
        BY <1>5, <1>6, <1>7, <3>1, <3>2
      <3>3. ASSUME ~f.more, NEW s \in file, s < b PROVE s \in E
        <4>1. P # {} /\ ~(\A t \in P : s < t)
          BY <1>6, <1>9, <3>3
        <4>2. PICK t \in P : ~(s < t)
          BY <4>1
        <4>3. t \in Int /\ s \in Int /\ (s = t \/ t < s)
          BY <1>5, <1>6, <4>2
        <4> QED
          BY <1>6, <1>7, <3>3, <4>3
      <3> QED
        BY <3>1, <3>2, <3>3 DEF Start
    <2>4. Reach(Start(f), read)
      <3>1. ASSUME NEW s \in file, s >= Start(f)
            PROVE  /\ s \in read \union Flight
                   /\ (s <= v.last \/ \E t \in read : s <= t) => s \in read
        <4>1. CASE s < b
          BY <2>3, <3>1, <4>1
        <4>2. CASE s >= b
          <5>1. \A t \in E : ~(s <= t)
            BY <1>5, <1>6, <1>7, <4>2
          <5> QED
            BY <2>1, <4>2, <5>1 DEF Reach
        <4> QED
          BY <1>5, <4>1, <4>2
      <3> QED
        BY <2>1, <3>1 DEF Reach
    <2>5. Carried
      <3>1. Live' = Live
        BY <1>9, LiveGrown DEF ClientOK
      <3>2. Unsent' = Unsent
        BY <1>1 DEF Unsent, sender
      <3> QED
        BY <1>1, <3>1, <3>2 DEF Carried, Flight
    <2>6. Reach(Start(f), v.history \union f.events)'
      <3>1. v' = v /\ f.events = E
        BY <1>1, <1>9
      <3> QED
        BY <2>2, <2>3, <2>4, <2>5, <3>1, ReachStays DEF Reach
    <2> QED
      BY <1>9, <2>6 DEF DownCover
  <1> QED
    BY <1>1, <1>9, <1>11, <1>12, Answers

LEMMA Fresh ==
    ASSUME NEW o \in BOOLEAN,
           NEW r, r = [selected |-> TRUE, loading |-> TRUE, history |-> {}, pending |-> {},
                       live |-> {}, fold |-> {}, next |-> 0, last |-> -1, loaded |-> FALSE,
                       open |-> o]
    PROVE  /\ r \in Viewers /\ r.pending = {} /\ r.last = -1 /\ r.history = {} /\ r.loading
           /\ r.selected /\ r.live = {} /\ r.fold = {} /\ ~r.loaded /\ r.open = o
  <1>1. 0 \in 0 .. Total /\ -1 \in Marks
    BY StreamAssumption DEF Marks
  <1> QED
    BY <1>1 DEF Viewers

LEMMA Selecting ==
    ASSUME StreamOK, ClientOK, LineStep, UNCHANGED <<subscribed, down>>, NEW o \in BOOLEAN,
           v' = [Blank EXCEPT !.selected = TRUE, !.loading = TRUE, !.open = o],
           up' = IF o THEN Append(up, [type |-> "subscribe"]) ELSE up,
           ~o => ~v.open, Patient => ~(v.open /\ v.loading)
    PROVE  ClientOK'
  <1>0. WireTypes /\ UpOK /\ DownOK /\ ViewOK /\ LineTypes
    BY DEF ClientOK, StreamOK
  <1>1. /\ v' \in Viewers /\ v'.pending = {} /\ v'.last = -1 /\ v'.history = {} /\ v'.loading
        /\ v'.selected /\ v'.live = {} /\ v'.fold = {} /\ ~v'.loaded /\ v'.open = o
    <2>1. v' = [selected |-> TRUE, loading |-> TRUE, history |-> {}, pending |-> {}, live |-> {},
                fold |-> {}, next |-> 0, last |-> -1, loaded |-> FALSE, open |-> o]
      BY DEF Blank
    <2> QED
      BY <2>1, Fresh, Zenon
  <1>2. PICK f \in UpFrames : f = [type |-> "subscribe"]
    BY DEF UpFrames
  <1>3. /\ up' \in Seq(UpFrames) /\ ToSet(up') \subseteq ToSet(up) \union {f}
        /\ f.type = "subscribe"
    <2>1. Append(up, f) \in Seq(UpFrames) /\ ToSet(Append(up, f)) = ToSet(up) \union {f}
      BY <1>0, Appended DEF WireTypes
    <2> QED
      BY <1>0, <1>2, <2>1 DEF WireTypes
  <1>4. WireTypes' /\ UpOK' /\ DownOK' /\ Live' = Live
    <2>1. UpOK'
      BY <1>0, <1>3, OlderStays DEF UpOK
    <2>2. DownOK' /\ Live' = Live
      BY <1>0, DownStays DEF Live
    <2> QED
      BY <1>0, <1>1, <1>3, <2>1, <2>2 DEF WireTypes
  <1>5. ViewOK'
    <2>1. {-1} \in SUBSET Marks /\ Behind({-1})
      BY <1>0, Lowest DEF Marks
    <2>2. Behind({-1})'
      BY <2>1, BehindStays
    <2>3. \A S : Below({}, S)
      BY DEF Below
    <2>4. Behind({})'
      BY DEF Behind
    <2> QED
      BY <1>0, <1>1, <2>2, <2>3, <2>4 DEF ViewOK, Behind
  <1>6. ASSUME Patient PROVE Whole'
    <2>1. up = <<>> /\ AllLive(down) /\ ToSet(up) = {}
      BY <1>6, NothingIn DEF ClientOK, Whole, TokenOK
    <2>2. o => Len(up') = 1
      BY <2>1
    <2>3. TokenOK'
      BY <1>1, <2>1, <2>2 DEF TokenOK
    <2>4. NoHole'
      BY <1>1 DEF NoHole
    <2>5. \A g \in ToSet(up') : UpCover(g)'
      BY <1>1, <1>3, <2>1 DEF UpCover
    <2>6. \A g \in ToSet(down) : DownCover(g)'
      BY <2>1 DEF AllLive, DownCover
    <2>7. CoverOK'
      BY <2>5, <2>6 DEF CoverOK
    <2> QED
      BY <2>3, <2>4, <2>7 DEF Whole
  <1> QED
    BY <1>4, <1>5, <1>6, Patience DEF ClientOK

LEMMA SelectingStep ==
    ASSUME StreamOK, ClientOK, LineStep, UNCHANGED <<subscribed, down>>, Select,
           Patient => ~v.loading
    PROVE  ClientOK'
  <1>1. v.open \in BOOLEAN
    BY DEF ClientOK, WireTypes, Viewers
  <1>2. /\ v' = [Blank EXCEPT !.selected = TRUE, !.loading = TRUE, !.open = v.open]
        /\ up' = IF v.open THEN Append(up, [type |-> "subscribe"]) ELSE up
    BY DEF Select, Selected, Ask
  <1>3. PICK o \in BOOLEAN : o = v.open
    BY <1>1
  <1> QED
    BY <1>2, <1>3, Selecting

LEMMA Clicking ==
    ASSUME StreamOK, ClientOK, LineStep, Click
    PROVE  ClientOK'
  <1>1. Patient => ~v.loading
    BY DEF Click, Patient
  <1> QED
    BY <1>1, SelectingStep DEF Click

LEMMA Reopening ==
    ASSUME StreamOK, ClientOK, LineStep, Reopen
    PROVE  ClientOK'
  <1>0. /\ WireTypes /\ UpOK /\ DownOK /\ ViewOK /\ ~v.open /\ up = <<>> /\ down = <<>>
        /\ subscribed' = subscribed /\ down' = down
    BY DEF ClientOK, ViewOK, Reopen
  <1>1. CASE v.selected
    <2>1. v' = [Blank EXCEPT !.selected = TRUE, !.loading = TRUE, !.open = TRUE]
      BY <1>1 DEF Reopen, Selected, Blank
    <2>2. up' = Append(up, [type |-> "subscribe"])
      BY <1>0, <1>1 DEF Reopen
    <2> QED
      BY <1>0, <2>1, <2>2, Selecting
  <1>2. CASE ~v.selected
    <2>1. up' = up /\ v' = [v EXCEPT !.open = TRUE]
      BY <1>0, <1>2 DEF Reopen
    <2>2. /\ v' \in Viewers /\ v'.pending = v.pending /\ v'.last = v.last /\ v'.history = v.history
          /\ v'.loading = v.loading /\ v'.selected = v.selected /\ v'.live = v.live
          /\ v'.fold = v.fold /\ v'.loaded = v.loaded /\ v'.next = v.next /\ v'.open
      BY <1>0, <2>1 DEF WireTypes, Viewers
    <2>3. WireTypes' /\ UpOK' /\ DownOK' /\ Live' = Live
      <3>1. UpOK' /\ DownOK'
        BY <1>0, <2>1, UpStays, DownStays
      <3> QED
        BY <1>0, <2>1, <2>2, <3>1 DEF WireTypes, Live
    <2>4. Live = {} /\ AllLive(down)
      BY <1>0, NothingIn DEF Live, AllLive
    <2>5. ViewOK'
      BY <1>0, <2>2, <2>3, <2>4, MarksStay DEF ViewOK, Below
    <2>6. ~v.loading
      BY <1>0, <1>2 DEF ViewOK
    <2>7. Patient => Whole'
      BY <1>0, <2>1, <2>2, <2>4, <2>6 DEF ClientOK, Whole, TokenOK, CoverOK, NoHole
    <2> QED
      BY <2>3, <2>5, <2>7, Patience DEF ClientOK
  <1> QED
    BY <1>1, <1>2

(* What a viewer that reads a frame knows of it.                           *)
LEMMA Reading ==
    ASSUME StreamOK, ClientOK, LineStep, NEW type, Frame(type)
    PROVE  /\ WireTypes /\ UpOK /\ DownOK /\ ViewOK /\ LineTypes /\ LineOK
           /\ v.open /\ down # <<>> /\ subscribed' = subscribed /\ down' = Tail(down)
           /\ Unsent' = Unsent /\ file' = file
           /\ DownOK' /\ down' \in Seq(DownFrames) /\ ToSet(down') \subseteq ToSet(down)
           /\ Head(down) \in DownFrames /\ Head(down) \in ToSet(down) /\ FrameOK(Head(down))
           /\ Head(down).type = type
  <1>1. /\ WireTypes /\ UpOK /\ DownOK /\ ViewOK /\ LineTypes /\ LineOK
        /\ down # <<>> /\ Head(down).type = type /\ down' = Tail(down) /\ subscribed' = subscribed
        /\ UNCHANGED <<made, queue, file, spool, batch>>
    BY DEF ClientOK, StreamOK, Frame, bus, sender
  <1>2. v.open /\ file' = file
    BY <1>1 DEF ViewOK
  <1>3. Unsent' = Unsent
    BY <1>1, LineKept
  <1>4. DownOK' /\ down' \in Seq(DownFrames)
    BY <1>1, DownShorter
  <1>5. /\ ToSet(down') \subseteq ToSet(down)
        /\ Head(down) \in DownFrames /\ Head(down) \in ToSet(down)
    BY <1>1, Tailed DEF WireTypes
  <1> QED
    BY <1>1, <1>2, <1>3, <1>4, <1>5 DEF DownOK

LEMMA HandlesReady ==
    ASSUME StreamOK, ClientOK, LineStep, HandleReady
    PROVE  ClientOK'
  <1>0. /\ WireTypes /\ UpOK /\ DownOK /\ ViewOK /\ LineTypes /\ LineOK
        /\ v.open /\ down # <<>> /\ subscribed' = subscribed /\ down' = Tail(down)
        /\ Unsent' = Unsent /\ file' = file
        /\ DownOK' /\ down' \in Seq(DownFrames) /\ ToSet(down') \subseteq ToSet(down)
        /\ Head(down) \in DownFrames /\ Head(down) \in ToSet(down) /\ FrameOK(Head(down))
        /\ Head(down).type = "evt_ready"
    BY Reading DEF HandleReady
  <1>1. PICK x \in Marks : x = Head(down).last
    BY <1>0, DownKinds
  <1>2. v' = [v EXCEPT !.last = x] /\ up' = Append(up, History(Total))
    BY <1>0, <1>1 DEF HandleReady, Ask
  <1>3. /\ v' \in Viewers /\ v'.pending = v.pending /\ v'.last = x /\ v'.history = v.history
        /\ v'.loading = v.loading /\ v'.selected = v.selected /\ v'.live = v.live
        /\ v'.fold = v.fold /\ v'.loaded = v.loaded /\ v'.next = v.next /\ v'.open = v.open
    BY <1>0, <1>2 DEF WireTypes, Viewers
  <1>4. PICK f \in UpFrames : f = History(Total)
    <2>1. Total \in 0 .. Total
      BY StreamAssumption
    <2> QED
      BY <2>1 DEF UpFrames, History
  <1>5. /\ up' \in Seq(UpFrames) /\ ToSet(up') = ToSet(up) \union {f}
        /\ f.type = "history" /\ f.before = Total
    <2>1. f.type = "history" /\ f.before = Total
      BY <1>4 DEF History
    <2> QED
      BY <1>0, <1>2, <1>4, <2>1, Appended DEF WireTypes
  <1>6. WireTypes' /\ UpOK' /\ Live' = Live
    <2>1. UpOK'
      BY <1>0, <1>5, OlderStays DEF UpOK
    <2>2. Live' = Live
      BY <1>0, LiveShorter
    <2> QED
      BY <1>0, <1>3, <1>5, <2>1, <2>2 DEF WireTypes
  <1>7. ViewOK'
    <2>1. {x} \in SUBSET Marks /\ Behind({x})
      BY <1>0, <1>1 DEF FrameOK
    <2>2. Behind({x})'
      BY <2>1, BehindStays
    <2>3. Behind({v.last})'
      BY <1>3, <2>2 DEF Behind
    <2> QED
      BY <1>0, <1>3, <1>6, <2>3, MarksStay DEF ViewOK
  <1>8. ASSUME Patient PROVE Whole'
    <2>1. TokenOK /\ CoverOK /\ NoHole
      BY <1>8 DEF ClientOK, Whole
    <2>2. ~AllLive(down)
      BY <1>0 DEF AllLive
    <2>3. v.loading /\ up = <<>> /\ AllLiveBut(down) /\ ToSet(up) = {}
      BY <1>0, <2>1, <2>2, NothingIn DEF TokenOK
    <2>4. AllLive(down') /\ Len(up') = 1
      BY <1>0, <1>2, <2>3, AllLiveShorter DEF WireTypes
    <2>5. TokenOK' /\ NoHole'
      BY <1>0, <1>3, <2>1, <2>3, <2>4 DEF TokenOK, NoHole
    <2>6. UpCover(f)'
      <3>1. subscribed /\ v.history = {}
        BY <1>0, <2>1, <2>3 DEF CoverOK, DownCover
      <3>2. \A s \in file' : ~(s >= Total)
        BY <1>0, StreamAssumption DEF LineTypes, Compact, Events
      <3> QED
        BY <1>0, <1>3, <1>5, <3>1, <3>2 DEF UpCover, Reach
    <2>7. \A g \in ToSet(down') : DownCover(g)'
      BY <2>4 DEF AllLive, DownCover
    <2>8. CoverOK'
      BY <1>5, <2>3, <2>6, <2>7 DEF CoverOK
    <2> QED
      BY <2>5, <2>8 DEF Whole
  <1> QED
    BY <1>0, <1>6, <1>7, <1>8, Patience DEF ClientOK

(* A page of the history that is not the last: the next one is asked for.  *)
LEMMA HandlesPage ==
    ASSUME StreamOK, ClientOK, LineStep, HandleHistory, v.loading, Head(down).more
    PROVE  ClientOK'
  <1>0. /\ WireTypes /\ UpOK /\ DownOK /\ ViewOK /\ LineTypes /\ LineOK
        /\ v.open /\ down # <<>> /\ subscribed' = subscribed /\ down' = Tail(down)
        /\ Unsent' = Unsent /\ file' = file
        /\ DownOK' /\ down' \in Seq(DownFrames) /\ ToSet(down') \subseteq ToSet(down)
        /\ Head(down) \in DownFrames /\ Head(down) \in ToSet(down) /\ FrameOK(Head(down))
        /\ Head(down).type = "history"
    BY Reading DEF HandleHistory
  <1>1. PICK h \in DownFrames : h = Head(down)
    BY <1>0
  <1>2. /\ h.type = "history" /\ h.more /\ FrameOK(h) /\ h.events \in SUBSET Compact
        /\ h.events \subseteq file
    BY <1>0, <1>1, DownKinds DEF FrameOK
  <1>3. PICK E \in SUBSET file : E = v.history \union h.events
    BY <1>0, <1>2 DEF ViewOK
  <1>4. PICK b \in 0 .. Total : b = Min(h.events)
    <2>1. Min(h.events) \in h.events
      BY <1>2, StartIs DEF Start
    <2> QED
      BY <1>2, <2>1, StreamAssumption DEF Compact, Events
  <1>5. PICK f \in UpFrames : f = History(b)
    BY DEF UpFrames, History
  <1>6. v' = [v EXCEPT !.history = E] /\ up' = Append(up, f) /\ f.type = "history" /\ f.before = b
    BY <1>0, <1>1, <1>2, <1>3, <1>4, <1>5 DEF HandleHistory, Ask, History
  <1>7. /\ v' \in Viewers /\ v'.pending = v.pending /\ v'.last = v.last /\ v'.history = E
        /\ v'.loading = v.loading /\ v'.selected = v.selected /\ v'.live = v.live
        /\ v'.fold = v.fold /\ v'.loaded = v.loaded /\ v'.next = v.next /\ v'.open = v.open
    <2>1. E \in SUBSET Compact
      BY <1>0 DEF LineTypes
    <2> QED
      BY <1>0, <1>6, <2>1 DEF WireTypes, Viewers
  <1>8. up' \in Seq(UpFrames) /\ ToSet(up') = ToSet(up) \union {f}
    BY <1>0, <1>6, Appended DEF WireTypes
  <1>9. WireTypes' /\ UpOK' /\ Live' = Live
    <2>1. Older(b)
      BY <1>2, <1>4 DEF FrameOK
    <2>2. UpOK'
      BY <1>0, <1>6, <1>8, <2>1, OlderStays DEF UpOK
    <2>3. Live' = Live
      BY <1>0, LiveShorter
    <2> QED
      BY <1>0, <1>7, <1>8, <2>2, <2>3 DEF WireTypes
  <1>10. ViewOK'
    BY <1>0, <1>7, <1>9, MarksStay DEF ViewOK
  <1>11. ASSUME Patient PROVE Whole'
    <2>1. TokenOK /\ CoverOK /\ NoHole
      BY <1>11 DEF ClientOK, Whole
    <2>2. ~AllLive(down)
      BY <1>0 DEF AllLive
    <2>3. up = <<>> /\ AllLiveBut(down) /\ ToSet(up) = {}
      BY <1>0, <2>1, <2>2, NothingIn DEF TokenOK
    <2>4. AllLive(down') /\ Len(up') = 1
      BY <1>0, <1>6, <2>3, AllLiveShorter DEF WireTypes
    <2>5. TokenOK' /\ NoHole'
      BY <1>0, <1>7, <2>1, <2>3, <2>4 DEF TokenOK, NoHole
    <2>6. UpCover(f)'
      <3>1. Reach(b, E)
        BY <1>0, <1>1, <1>2, <1>3, <1>4, <2>1 DEF CoverOK, DownCover, Start
      <3>2. Carried
        BY <1>0, <1>7, <1>9 DEF Carried, Flight
      <3>3. Reach(b, E)'
        BY <3>1, <3>2, ReachStays
      <3> QED
        BY <1>6, <1>7, <3>3 DEF UpCover, Reach
    <2>7. \A g \in ToSet(down') : DownCover(g)'
      BY <2>4 DEF AllLive, DownCover
    <2>8. CoverOK'
      BY <1>8, <2>3, <2>6, <2>7 DEF CoverOK
    <2> QED
      BY <2>5, <2>8 DEF Whole
  <1> QED
    BY <1>0, <1>9, <1>10, <1>11, Patience DEF ClientOK

LEMMA CursorIs ==
    ASSUME NEW S \in SUBSET Events, NEW x \in Marks
    PROVE  /\ Cursor(S, x) \in 0 .. Total
           /\ \A s \in Events : s < Cursor(S, x) => s <= x \/ \E e \in S : s <= e
  <1>1. /\ Highest(S) \in Marks /\ \A y \in S : y <= Highest(S)
        /\ Highest(S) = -1 \/ Highest(S) \in S
    BY HighestIs DEF Marks
  <1>2. Highest(S) \in Int /\ x \in Int /\ Total \in Nat /\ Highest(S) < Total /\ x < Total
    BY <1>1, MarksAreIntegers, StreamAssumption
  <1>3. Highest(S) >= -1 /\ x >= -1
    BY <1>1 DEF Marks, Events
  <1> DEFINE T == {Highest(S) + 1, x + 1}
  <1>4. T \in SUBSET Int /\ T # {} /\ \A y \in T : y <= Total
    BY <1>2
  <1>5. Max(T) \in T
    <2>1. Total \in Int
      BY <1>2
    <2> HIDE DEF T
    <2> QED
      BY <1>4, <2>1, Latest
  <1>6. Cursor(S, x) = Highest(S) + 1 \/ Cursor(S, x) = x + 1
    BY <1>5 DEF Cursor
  <1>7. Cursor(S, x) \in 0 .. Total
    BY <1>2, <1>3, <1>6
  <1>8. ASSUME NEW s \in Events, s < Cursor(S, x) PROVE s <= x \/ \E e \in S : s <= e
    <2>1. s \in Nat
      BY <1>8 DEF Events
    <2>2. s <= x \/ s <= Highest(S)
      BY <1>2, <1>6, <1>8, <2>1
    <2>3. s <= Highest(S) => Highest(S) \in S
      BY <1>1, <1>2, <2>1
    <2> QED
      BY <2>2, <2>3
  <1> QED
    BY <1>7, <1>8

(* The last page: what the viewer has read and what it kept waiting is all *)
(* it needs below the place where it goes on.                              *)
LEMMA HandlesLast ==
    ASSUME StreamOK, ClientOK, LineStep, HandleHistory, v.loading, ~Head(down).more
    PROVE  ClientOK'
  <1>0. /\ WireTypes /\ UpOK /\ DownOK /\ ViewOK /\ LineTypes /\ LineOK
        /\ v.open /\ down # <<>> /\ subscribed' = subscribed /\ down' = Tail(down)
        /\ Unsent' = Unsent /\ file' = file
        /\ DownOK' /\ down' \in Seq(DownFrames) /\ ToSet(down') \subseteq ToSet(down)
        /\ Head(down) \in DownFrames /\ Head(down) \in ToSet(down) /\ FrameOK(Head(down))
        /\ Head(down).type = "history"
    BY Reading DEF HandleHistory
  <1>1. PICK h \in DownFrames : h = Head(down)
    BY <1>0
  <1>2. /\ h.type = "history" /\ ~h.more /\ h.events \in SUBSET Compact /\ h.events \subseteq file
    BY <1>0, <1>1, DownKinds DEF FrameOK
  <1>3. PICK E \in SUBSET file : E = v.history \union h.events
    BY <1>0, <1>2 DEF ViewOK
  <1>4. PICK all \in SUBSET Events : all = E \union v.pending
    BY <1>0 DEF LineTypes, Compact, WireTypes, Viewers
  <1>5. PICK n \in 0 .. Total :
            /\ n = Cursor(all, v.last)
            /\ \A s \in Events : s < n => s <= v.last \/ \E e \in all : s <= e
    <2>1. v.last \in Marks
      BY <1>0 DEF WireTypes, Viewers
    <2> QED
      BY <2>1, CursorIs
  <1>6. /\ up' = up
        /\ v' = [v EXCEPT !.fold = all, !.next = n, !.loaded = TRUE, !.loading = FALSE,
                          !.history = {}, !.pending = {}]
    <2>1. v.fold = {}
      BY <1>0 DEF ViewOK
    <2> QED
      BY <1>0, <1>1, <1>2, <1>3, <1>4, <1>5, <2>1 DEF HandleHistory
  <1>7. /\ v' \in Viewers /\ v'.pending = {} /\ v'.last = v.last /\ v'.history = {}
        /\ ~v'.loading /\ v'.fold = all /\ v'.next = n /\ v'.open = v.open
    BY <1>0, <1>6 DEF WireTypes, Viewers
  <1>8. WireTypes' /\ UpOK'
    <2>1. UpOK'
      BY <1>0, <1>6, UpStays
    <2> QED
      BY <1>0, <1>6, <1>7, <2>1 DEF WireTypes
  <1>9. ViewOK'
    <2>1. Behind(v.pending)' /\ \A S : Below(v'.pending, S)
      BY <1>7 DEF Behind, Below
    <2> QED
      BY <1>0, <1>7, <2>1, MarksStay DEF ViewOK
  <1>10. ASSUME Patient PROVE Whole'
    <2>1. TokenOK /\ CoverOK
      BY <1>10 DEF ClientOK, Whole
    <2>2. ~AllLive(down)
      BY <1>0 DEF AllLive
    <2>3. up = <<>> /\ AllLive(down')
      BY <1>0, <2>1, <2>2, AllLiveShorter DEF TokenOK, WireTypes
    <2>4. TokenOK' /\ CoverOK'
      BY <1>6, <1>7, <2>3 DEF TokenOK, CoverOK
    <2>5. ASSUME NEW s \in Compact, s < n PROVE s \in all
      <3>1. Reach(0, E)
        BY <1>0, <1>1, <1>2, <1>3, <2>1 DEF CoverOK, DownCover, Start
      <3>2. s \in Events /\ s \in Nat /\ s >= 0
        BY DEF Compact, Events
      <3>3. ASSUME s \in file, s <= v.last \/ \E e \in E : s <= e PROVE s \in all
        BY <1>4, <3>1, <3>2, <3>3 DEF Reach
      <3>4. \A x \in Marks : Behind({x}) /\ s <= x => s \in file
        BY <1>0, Settled
      <3>5. CASE s <= v.last
        <4>1. v.last \in Marks /\ Behind({v.last})
          BY <1>0 DEF WireTypes, Viewers, ViewOK
        <4> QED
          BY <3>3, <3>4, <3>5, <4>1
      <3>6. ASSUME NEW e \in E, s <= e PROVE s \in all
        <4>1. e \in Marks /\ Behind({e})
          BY <1>0, BehindAll DEF LineTypes, LineOK, Compact, Marks
        <4> QED
          BY <3>3, <3>4, <3>6, <4>1
      <3>7. ASSUME NEW e \in v.pending, s <= e PROVE s \in all
        <4>1. e \in Events /\ e \in Marks /\ Behind({e})
          BY <1>0, BehindAll DEF WireTypes, Viewers, ViewOK, Marks
        <4>2. s \in file
          BY <3>4, <3>7, <4>1
        <4>3. s \in E \union Flight
          BY <3>1, <3>2, <4>2 DEF Reach
        <4>4. s \notin Live /\ s \notin Unsent
          <5>1. s \in Live \union Unsent => e < s
            BY <1>0 DEF ViewOK, Below
          <5>2. e \in Int /\ s \in Int
            BY <3>2, <4>1 DEF Events
          <5> QED
            BY <3>7, <5>1, <5>2
        <4> QED
          BY <1>4, <4>3, <4>4 DEF Flight
      <3> QED
        BY <1>4, <1>5, <2>5, <3>2, <3>5, <3>6, <3>7
    <2>6. NoHole'
      BY <1>7, <2>5 DEF NoHole
    <2> QED
      BY <2>4, <2>6 DEF Whole
  <1> QED
    BY <1>0, <1>8, <1>9, <1>10, Patience DEF ClientOK

(* A page that nobody waits for any more. *)
LEMMA HandlesLate ==
    ASSUME StreamOK, ClientOK, LineStep, HandleHistory, ~v.loading
    PROVE  ClientOK'
  <1>0. /\ WireTypes /\ UpOK /\ DownOK /\ ViewOK /\ LineTypes /\ LineOK
        /\ v.open /\ down # <<>> /\ subscribed' = subscribed /\ down' = Tail(down)
        /\ Unsent' = Unsent /\ file' = file
        /\ DownOK' /\ down' \in Seq(DownFrames) /\ ToSet(down') \subseteq ToSet(down)
        /\ Head(down) \in DownFrames /\ Head(down) \in ToSet(down) /\ FrameOK(Head(down))
        /\ Head(down).type = "history"
    BY Reading DEF HandleHistory
  <1>1. v' = v /\ up' = up
    BY DEF HandleHistory
  <1>2. WireTypes' /\ UpOK' /\ Live' = Live
    BY <1>0, <1>1, UpStays, LiveShorter DEF WireTypes
  <1>3. ViewOK'
    BY <1>0, <1>1, <1>2, MarksStay DEF ViewOK
  <1>4. ~Patient
    BY <1>0 DEF ClientOK, Whole, TokenOK, AllLive
  <1> QED
    BY <1>0, <1>2, <1>3, <1>4, Patience DEF ClientOK

LEMMA HandlesLive ==
    ASSUME StreamOK, ClientOK, LineStep, HandleLive
    PROVE  ClientOK'
  <1>0. /\ WireTypes /\ UpOK /\ DownOK /\ ViewOK /\ LineTypes /\ LineOK
        /\ v.open /\ down # <<>> /\ subscribed' = subscribed /\ down' = Tail(down)
        /\ Unsent' = Unsent /\ file' = file
        /\ DownOK' /\ down' \in Seq(DownFrames) /\ ToSet(down') \subseteq ToSet(down)
        /\ Head(down) \in DownFrames /\ Head(down) \in ToSet(down) /\ FrameOK(Head(down))
        /\ Head(down).type = "evts"
    BY Reading DEF HandleLive
  <1>1. PICK G \in SUBSET Events : G = Head(down).events
    BY <1>0, DownKinds
  <1>2. /\ Behind(G) /\ Below(G, Unsent) /\ Live = G \union Live' /\ Below(G, Live') /\ up' = up
    <2>1. Behind(G) /\ Below(G, Unsent) /\ Live = G \union Live'
      BY <1>0, <1>1, LiveShorter DEF FrameOK
    <2>2. \A g \in ToSet(down') : g.type = "evts" => Below(G, g.events)
      BY <1>0, <1>1, InTurnShorter DEF DownOK, WireTypes
    <2>3. Live' = UNION {f.events : f \in {g \in ToSet(down') : g.type = "evts"}}
      BY DEF Live
    <2>4. Below(G, Live')
      BY <2>2, <2>3 DEF Below
    <2> QED
      BY <2>1, <2>4 DEF HandleLive
  <1>3. UpOK'
    BY <1>0, <1>2, UpStays
  <1>4. Patient => TokenOK'
    <2>1. v'.open = v.open /\ v'.loading = v.loading
      BY <1>0 DEF HandleLive, WireTypes, Viewers
    <2>2. Patient => TokenOK
      BY DEF ClientOK, Whole
    <2> QED
      BY <1>0, <1>2, <2>1, <2>2, AllLiveShorter DEF TokenOK, WireTypes
  <1>5. CASE v.loading
    <2>1. PICK P \in SUBSET Events : P = v.pending \union G
      BY <1>0 DEF WireTypes, Viewers
    <2>2. v' = [v EXCEPT !.pending = P]
      BY <1>1, <1>5, <2>1 DEF HandleLive
    <2>3. /\ v' \in Viewers /\ v'.pending = P /\ v'.last = v.last /\ v'.history = v.history
          /\ v'.loading = v.loading /\ v'.selected = v.selected /\ v'.live = v.live
          /\ v'.fold = v.fold /\ v'.loaded = v.loaded /\ v'.next = v.next /\ v'.open = v.open
      BY <1>0, <2>2 DEF WireTypes, Viewers
    <2>4. WireTypes'
      BY <1>0, <1>2, <2>3 DEF WireTypes
    <2>5. ViewOK'
      <3>1. P \in SUBSET Marks /\ Behind(P) /\ Below(P, Unsent)
        BY <1>0, <1>2, <2>1 DEF Marks, ViewOK, Behind, Below
      <3>2. Behind(P)' /\ Below(P, Unsent')
        BY <3>1, BehindStays
      <3>3. Behind(v.pending)' /\ Below(v'.pending, Unsent') /\ Below(v'.pending, Live')
        BY <1>0, <1>2, <2>1, <2>3, <3>2 DEF Behind, Below, ViewOK
      <3> QED
        BY <1>0, <2>3, <3>3, MarksStay DEF ViewOK
    <2>6. ASSUME Patient PROVE CoverOK' /\ NoHole'
      <3>1. CoverOK /\ NoHole
        BY <2>6 DEF ClientOK, Whole
      <3>2. Carried
        BY <1>0, <1>2, <2>1, <2>3 DEF Carried, Flight
      <3>3. \A g \in ToSet(up) : UpCover(g)'
        <4>1. \A g \in ToSet(up) : g \in UpFrames /\ UpCover(g)
          BY <1>0, <1>5, <3>1, FramesOf DEF CoverOK, WireTypes
        <4> QED
          BY <2>3, <3>2, <4>1, UpCoverStays
      <3>4. \A g \in ToSet(down') : DownCover(g)'
        <4>1. \A g \in ToSet(down) : g \in DownFrames /\ DownCover(g) /\ FrameOK(g)
          BY <1>0, <1>5, <3>1, FramesOf DEF CoverOK, WireTypes, DownOK
        <4> QED
          BY <1>0, <2>3, <3>2, <4>1, DownCoverStays
      <3>5. CoverOK'
        BY <1>2, <3>3, <3>4 DEF CoverOK
      <3> QED
        BY <2>3, <3>1, <3>5 DEF NoHole
    <2> QED
      BY <1>0, <1>3, <1>4, <2>4, <2>5, <2>6, Patience DEF ClientOK, Whole
  <1>6. CASE ~v.loading
    <2>1. PICK L \in SUBSET Events : L = v.live \union G
      BY <1>0 DEF WireTypes, Viewers
    <2>2. v' = [v EXCEPT !.live = L]
      BY <1>1, <1>6, <2>1 DEF HandleLive
    <2>3. /\ v' \in Viewers /\ v'.pending = v.pending /\ v'.last = v.last
          /\ v'.history = v.history /\ v'.loading = v.loading /\ v'.selected = v.selected
          /\ v'.fold = v.fold /\ v'.loaded = v.loaded /\ v'.next = v.next /\ v'.open = v.open
      BY <1>0, <2>2 DEF WireTypes, Viewers
    <2>4. WireTypes'
      BY <1>0, <1>2, <2>3 DEF WireTypes
    <2>5. ViewOK'
      <3>1. Below(v.pending, Live')
        BY <1>0, <1>2 DEF ViewOK, Below
      <3> QED
        BY <1>0, <1>6, <2>3, <3>1, MarksStay DEF ViewOK
    <2>6. Patient => CoverOK' /\ NoHole'
      BY <1>6, <2>3 DEF ClientOK, Whole, CoverOK, NoHole
    <2> QED
      BY <1>0, <1>3, <1>4, <2>4, <2>5, <2>6, Patience DEF ClientOK, Whole
  <1> QED
    BY <1>5, <1>6

LEMMA NextIs ==
    ASSUME NEW n \in 0 .. Total, NEW F \in SUBSET Events
    PROVE  LET m == Max({n} \union {s + 1 : s \in F}) IN
           m \in 0 .. Total /\ (m = n \/ \E s \in F : m = s + 1)
  <1> DEFINE T == {n} \union {s + 1 : s \in F}
  <1>1. \A y \in T : y \in Int /\ y \in 0 .. Total /\ y <= Total
    BY StreamAssumption DEF Events
  <1>2. Max(T) \in T
    <2>1. Total \in Int /\ T # {}
      BY StreamAssumption
    <2> HIDE DEF T
    <2>2. T \in SUBSET Int /\ \A y \in T : y <= Total
      BY <1>1
    <2> QED
      BY <2>1, <2>2, Latest
  <1> QED
    BY <1>1, <1>2

(* Without a gap, the live events go on where the fold ends.               *)
LEMMA GoesOn ==
    ASSUME NEW n \in 0 .. Total, NEW F \in SUBSET Events, ~Gap(n, F),
           NEW x \in F, NEW s \in Events, s <= x, s >= n
    PROVE  s \in F
  <1>1. IsFiniteSet(F)
    <2>1. IsFiniteSet(Events)
      BY FS_Interval, StreamAssumption DEF Events
    <2> QED
      BY <2>1, FS_Subset
  <1>2. Cardinality(F) \in Nat
    BY <1>1, FS_CardinalityType
  <1>3. F = n .. n + Cardinality(F) - 1
    BY DEF Gap
  <1>4. PICK c \in Int : c = n + Cardinality(F) - 1
    BY <1>2
  <1>5. F = n .. c /\ n \in Int /\ s \in Int
    BY <1>3, <1>4 DEF Events
  <1> QED
    BY <1>5

LEMMA Folding ==
    ASSUME StreamOK, ClientOK, LineStep, Flush
    PROVE  ClientOK'
  <1>0. /\ WireTypes /\ UpOK /\ DownOK /\ ViewOK
        /\ down' = down /\ subscribed' = subscribed /\ Unsent' = Unsent /\ v.live # {}
    BY DEF ClientOK, Flush, Unsent, sender
  <1>1. ~v.loading
    BY <1>0 DEF ViewOK
  <1>2. PICK F \in SUBSET Events : F = {s \in v.live : s >= v.next}
    BY <1>0 DEF WireTypes, Viewers
  <1>3. CASE Gap(v.next, F)
    <2>1. Select
      BY <1>2, <1>3 DEF Flush
    <2> QED
      BY <1>0, <1>1, <2>1, SelectingStep
  <1>4. CASE ~Gap(v.next, F)
    <2>1. v.next \in 0 .. Total
      BY <1>0 DEF WireTypes, Viewers
    <2>2. PICK n \in 0 .. Total :
              n = Max({v.next} \union {s + 1 : s \in F}) /\ (n = v.next \/ \E s \in F : n = s + 1)
      BY <2>1, NextIs
    <2>3. up' = up /\ v' = [v EXCEPT !.live = {}, !.fold = @ \union F, !.next = n]
      BY <1>2, <1>4, <2>2 DEF Flush
    <2>4. /\ v' \in Viewers /\ v'.pending = v.pending /\ v'.last = v.last /\ v'.next = n
          /\ v'.history = v.history /\ v'.loading = v.loading /\ v'.selected = v.selected
          /\ v'.fold = v.fold \union F /\ v'.loaded = v.loaded /\ v'.open = v.open
      BY <1>0, <2>3 DEF WireTypes, Viewers
    <2>5. WireTypes' /\ UpOK' /\ DownOK' /\ Live' = Live
      BY <1>0, <2>3, <2>4, UpStays, DownStays DEF WireTypes, Live
    <2>6. ViewOK'
      BY <1>0, <1>1, <2>3, <2>4, <2>5, MarksStay DEF ViewOK
    <2>7. ASSUME Patient PROVE Whole'
      <3>1. TokenOK /\ NoHole
        BY <2>7 DEF ClientOK, Whole
      <3>2. TokenOK' /\ CoverOK'
        BY <1>0, <1>1, <2>3, <2>4, <3>1 DEF TokenOK, CoverOK
      <3>3. ASSUME v.loaded, NEW s \in Compact, s < n PROVE s \in v.fold \union F
        <4>1. s \in Events /\ s \in Int /\ v.next \in Int
          BY <2>1 DEF Compact, Events
        <4>2. CASE s < v.next
          BY <3>1, <3>3, <4>2 DEF NoHole
        <4>3. CASE s >= v.next
          <5>0. n \in Int /\ n # v.next /\ (n = v.next \/ \E x \in F : n = x + 1)
            <6>1. n \in Int /\ n # v.next
              BY <3>3, <4>1, <4>3
            <6> QED
              BY <2>2, <6>1
          <5>1. PICK x \in F : n = x + 1
            BY <5>0
          <5>2. s <= x
            BY <3>3, <4>1, <5>1 DEF Events
          <5> QED
            BY <1>4, <2>1, <4>1, <4>3, <5>2, GoesOn
        <4> QED
          BY <4>1, <4>2, <4>3
      <3>4. NoHole'
        BY <2>4, <3>3 DEF NoHole
      <3> QED
        BY <3>2, <3>4 DEF Whole
    <2> QED
      BY <2>5, <2>6, <2>7, Patience DEF ClientOK
  <1> QED
    BY <1>3, <1>4

-----------------------------------------------------------------------------
(* The invariant of the whole.                                             *)

LEMMA StreamInitial == Init => IInv
  <1> SUFFICES ASSUME Init PROVE IInv
    OBVIOUS
  <1>1. ToSet(<<>>) = {} /\ Increasing(<<>>) /\ \A S : <<>> \in Seq(S)
    BY NothingIn
  <1>2. LineTypes
    BY <1>1, StreamAssumption DEF Init, LineTypes
  <1>3. LineOK
    <2>1. {s \in Compact : s < 0} = {}
      BY DEF Compact, Events
    <2>2. Len(batch) <= 1
      BY DEF Init
    <2> QED
      BY <1>1, <2>1, <2>2 DEF Init, LineOK, Below, Behind, Unsent
  <1>4. HubTypes /\ HubOK /\ Behind({-1})
    BY <1>2, Lowest DEF Init, HubTypes, HubOK, Nothing, Marks
  <1>5. WireTypes
    <2>1. 0 \in 0 .. Total /\ -1 \in Marks
      BY StreamAssumption DEF Marks
    <2>2. Blank \in Viewers
      BY <2>1 DEF Blank, Viewers
    <2> QED
      BY <1>1, <2>2 DEF Init, WireTypes
  <1>6. UpOK /\ DownOK
    BY <1>1 DEF Init, UpOK, DownOK, InTurn
  <1>7. /\ v.pending = {} /\ v.history = {} /\ v.last = -1 /\ ~v.loading /\ ~v.loaded /\ v.open
        /\ up = <<>> /\ down = <<>>
    BY DEF Init, Blank
  <1>8. ViewOK
    BY <1>4, <1>7 DEF ViewOK, Behind, Below
  <1>9. Whole
    BY <1>1, <1>7 DEF Whole, TokenOK, CoverOK, NoHole, AllLive
  <1>10. OtherTypes
    <2>1. 0 \in 0 .. MaxClicks /\ 0 \in 0 .. MaxFaults
      BY StreamAssumption
    <2>2. link = "up" /\ delivered = FALSE /\ subscribed = FALSE /\ clicks = 0 /\ faults = 0
      BY DEF Init
    <2> QED
      BY <2>1, <2>2 DEF OtherTypes
  <1> QED
    BY <1>2, <1>3, <1>4, <1>5, <1>6, <1>8, <1>9, <1>10 DEF IInv, StreamOK, ClientOK

LEMMA ClientStep == ASSUME StreamOK, ClientOK, LineStep, [Next]_vars PROVE ClientOK'
  <1>0. LineTypes /\ LineOK
    BY DEF StreamOK
  <1>1. CASE Publish \/ Drain \/ Take
    <2>1. Unsent \subseteq Unsent' /\ UNCHANGED <<wires, v>>
      BY <1>0, <1>1, Published, Drained, Taken DEF Publish, Drain, Take
    <2> QED
      BY <2>1, Still
  <1>2. CASE Send
    <2>1. CASE subscribed
      BY <1>2, <2>1, SendPassesOn
    <2>2. CASE ~subscribed
      BY <1>2, <2>2, Still DEF Send, wires
    <2> QED
      BY <2>1, <2>2
  <1>3. CASE Lose
    BY <1>3, Still DEF Lose, Patient
  <1>4. CASE UNCHANGED vars \/ Connect \/ Break \/ Scan
    <2>1. Unsent' = Unsent /\ UNCHANGED <<wires, v>>
      BY <1>4 DEF vars, Connect, Break, Scan, Unsent, sender
    <2> QED
      BY <2>1, Still
  <1>5. CASE CutViewer \/ Restart
    BY <1>5, CutOff DEF CutViewer, Restart
  <1>6. CASE HandleHistory
    BY <1>6, HandlesPage, HandlesLast, HandlesLate
  <1>7. CASE ServeSubscribe \/ ServeHistory \/ Click \/ Reopen
    BY <1>7, ServesSubscribe, ServesHistory, Clicking, Reopening
  <1>8. CASE HandleReady \/ HandleLive \/ Flush
    BY <1>8, HandlesReady, HandlesLive, Folding
  <1> QED
    BY <1>1, <1>2, <1>3, <1>4, <1>5, <1>6, <1>7, <1>8 DEF Next, Step

LEMMA StreamStepKeeps == IInv /\ [Next]_vars => IInv'
  <1> SUFFICES ASSUME IInv, [Next]_vars PROVE IInv'
    OBVIOUS
  <1>1. StreamOK /\ ClientOK /\ OtherTypes
    BY DEF IInv
  <1>2. LineStep /\ StreamOK' /\ OtherTypes'
    BY <1>1, StreamStep, OtherStep
  <1>3. ClientOK'
    BY <1>1, <1>2, ClientStep
  <1> QED
    BY <1>2, <1>3 DEF IInv

(* The stream, the hub, the frames between hub and viewer and the viewer   *)
(* keep the inductive invariant, whatever is lost, cut or selected again.  *)
THEOREM MonitorStreamInvariant == Spec => []IInv
  BY StreamInitial, StreamStepKeeps, PTL DEF Spec

(* Every variable keeps its type: in particular the viewer asks for a page *)
(* before an event that exists, and its cursor stays within the session.   *)
THEOREM MonitorStreamTypes == Spec => []TypeOK
  <1>1. IInv => TypeOK
    BY DEF IInv, StreamOK, ClientOK, TypeOK
  <1> QED
    BY <1>1, MonitorStreamInvariant, PTL

(* What the hub keeps of a session and what a viewer has read of its       *)
(* history is in the file: the file's sink consumes an event before the    *)
(* connection's does, so no page can show an event that a restart of the   *)
(* hub, which reads the file again, would not.                             *)
THEOREM MonitorStreamFileFirst ==
    Spec => [](hub.events \subseteq file /\ v.history \subseteq file)
  <1>1. IInv => hub.events \subseteq file /\ v.history \subseteq file
    BY DEF IInv, StreamOK, ClientOK, HubOK, ViewOK
  <1> QED
    BY <1>1, MonitorStreamInvariant, PTL

(* What a viewer has folded of a session it has loaded has no hole below   *)
(* its cursor, when no batch is lost and the session is not selected again *)
(* while it loads; lost before, cut off or restarted after, there is none. *)
THEOREM MonitorStreamNoHole ==
    ASSUME ~LateLoss, ~Impatient PROVE Spec => []NoHole
  <1>1. IInv => NoHole
    BY DEF IInv, ClientOK, Whole, Patient
  <1> QED
    BY <1>1, MonitorStreamInvariant, PTL

=============================================================================
