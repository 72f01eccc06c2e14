----------------------------- MODULE MonitorStream -----------------------------
(***************************************************************************)
(* The events of one session on their way from the recorder to a viewer    *)
(* (events.py, sinks.py, the hub and the app of the monitor server, and    *)
(* the viewer's socket and fold).  Every event goes to a file, which is    *)
(* kept, and over a connection, which may break, to the hub; the hub       *)
(* serves pages of the history and passes live events on; the viewer puts  *)
(* the two together.  The hub may restart and the viewer be cut off.       *)
(*                                                                         *)
(* An event is its sequence number.  Failing writes to the file, deletion  *)
(* of a session, leases and the index of sessions are left out.            *)
(***************************************************************************)
EXTENDS Integers, Sequences, SequencesExt, FiniteSetsExt

CONSTANTS
    Total,      \* events of the session
    Deltas,     \* those that are model deltas: neither kept nor needed
    Backlog, BatchSize, PageSize,
    LateLoss,   \* a batch may be lost while the viewer loads the history
    Impatient,  \* the session may be selected again while it is loaded
    MaxClicks, MaxFaults

ASSUME StreamAssumption ==
    /\ Total \in Nat \ {0} /\ Deltas \subseteq 1 .. Total - 1
    /\ {Backlog, BatchSize, PageSize} \subseteq Nat \ {0}
    /\ {LateLoss, Impatient} \subseteq BOOLEAN /\ {MaxClicks, MaxFaults} \subseteq Nat

VARIABLES
    made,        \* events published
    queue,       \* of the event bus: what its sinks have yet to consume
    file,        \* the events in the file
    spool, batch, link,  \* of the connection to the hub: queue, event taken, state
    hub,         \* the hub's events and high-water mark
    subscribed,  \* the viewer is among the session's subscribers
    up, down,    \* frames from and to the viewer
    v,           \* the viewer
    delivered,   \* the last event was sent to the hub
    clicks, faults

bus == <<made, queue>>
sender == <<spool, batch, link, delivered>>
wires == <<subscribed, up, down>>
vars == <<bus, file, sender, hub, wires, v, clicks, faults>>

Events == 0 .. Total - 1
Compact == Events \ Deltas
Highest(set) == Max(set \union {-1})

Nothing == [events |-> {}, high |-> -1]
Blank == [selected |-> FALSE, loading |-> FALSE, history |-> {}, pending |-> {}, live |-> {},
          fold |-> {}, next |-> 0, last |-> -1, loaded |-> FALSE, open |-> TRUE]

Init ==
    /\ made = 0 /\ queue = <<>> /\ file = {}
    /\ spool = <<>> /\ batch = <<>> /\ link = "up" /\ delivered = FALSE
    /\ hub = Nothing /\ subscribed = FALSE /\ up = <<>> /\ down = <<>>
    /\ v = Blank /\ clicks = 0 /\ faults = 0

-----------------------------------------------------------------------------
(* The bus.  A delta is shed when it finds a long queue. *)
PutEvent(q, e) == IF e \in Deltas /\ Len(q) >= Backlog THEN q ELSE Append(q, e)

(* The same for one event after the other. *)
Puts(q, events) ==
    LET after[i \in 0 .. Len(events)] ==
            IF i = 0 THEN q ELSE PutEvent(after[i - 1], events[i])
    IN  after
PutAll(q, events) == Puts(q, events)[Len(events)]

Publish ==
    /\ made < Total /\ made' = made + 1
    /\ queue' = PutEvent(queue, made)
    /\ UNCHANGED <<file, sender, hub, wires, v, clicks, faults>>

(* The tasks of the two sinks are woken one after the other by the same    *)
(* event and consume all there is without giving way: the file is written  *)
(* before the connection has the events.                                   *)
Drain ==
    /\ queue # <<>> /\ queue' = <<>>
    /\ file' = file \union (ToSet(queue) \ Deltas)
    /\ spool' = PutAll(spool, queue)
    /\ UNCHANGED <<made, batch, link, delivered, hub, wires, v, clicks, faults>>

-----------------------------------------------------------------------------
(* The connection.  That it broke is noticed only by the next send.        *)
Take ==
    /\ link \in {"up", "broken"} /\ batch = <<>> /\ spool # <<>>
    /\ batch' = <<Head(spool)>> /\ spool' = Tail(spool)
    /\ UNCHANGED <<bus, file, link, delivered, hub, wires, v, clicks, faults>>

Gathered == batch \o SubSeq(spool, 1, Min({BatchSize - 1, Len(spool)}))
Left == SubSeq(spool, Len(Gathered), Len(spool))

(* The hub records the batch and passes it to the subscribers. *)
Ingest(h, events) ==
    [events |-> h.events \union (events \ Deltas), high |-> Highest({h.high} \union events)]

Send ==
    /\ batch # <<>> /\ link = "up"
    /\ LET events == ToSet(Gathered) IN
       /\ hub' = Ingest(hub, events)
       /\ down' = IF subscribed THEN Append(down, [type |-> "evts", events |-> events]) ELSE down
       /\ delivered' = (delivered \/ Total - 1 \in events)
    /\ batch' = <<>> /\ spool' = Left
    /\ UNCHANGED <<bus, file, link, subscribed, up, v, clicks, faults>>

Lose ==
    /\ batch # <<>> /\ link = "broken"
    /\ LateLoss \/ ~v.loading
    /\ batch' = <<>> /\ spool' = Left /\ link' = "down"
    /\ UNCHANGED <<bus, file, delivered, hub, wires, v, clicks, faults>>

Connect ==
    /\ link = "down" /\ link' = "up"
    /\ UNCHANGED <<bus, file, spool, batch, delivered, hub, wires, v, clicks, faults>>

Break ==
    /\ link = "up" /\ faults < MaxFaults
    /\ link' = "broken" /\ faults' = faults + 1
    /\ UNCHANGED <<bus, file, spool, batch, delivered, hub, wires, v, clicks>>

-----------------------------------------------------------------------------
(* A mutated form: the file is not read again.                             *)
LiveOnly(h) == h

(* The hub.  It reads the file again when that has grown. *)
Refreshed(h) == [events |-> h.events \union file, high |-> Highest({h.high} \union file)]

Scan ==
    /\ hub # Refreshed(hub) /\ hub' = Refreshed(hub)
    /\ UNCHANGED <<bus, file, sender, wires, v, clicks, faults>>

Cut ==
    /\ faults < MaxFaults /\ faults' = faults + 1
    /\ v' = [v EXCEPT !.open = FALSE]
    /\ subscribed' = FALSE /\ up' = <<>> /\ down' = <<>>
    /\ UNCHANGED <<bus, file, spool, batch, delivered, clicks>>

CutViewer == v.open /\ Cut /\ UNCHANGED <<link, hub>>
Restart ==
    /\ Cut
    /\ hub' = Refreshed(Nothing)
    /\ link' = IF link = "up" THEN "broken" ELSE link

(* The newest events below a sequence number, up to the size of a page. *)
Page(events, before) ==
    LET older == {s \in events : s < before} IN
    {s \in older : Cardinality({t \in older : t > s}) < PageSize}

ServeSubscribe ==
    /\ up # <<>> /\ Head(up).type = "subscribe"
    /\ subscribed' = TRUE
    /\ down' = Append(down, [type |-> "evt_ready", last |-> hub.high])
    /\ up' = Tail(up)
    /\ UNCHANGED <<bus, file, sender, hub, v, clicks, faults>>

ServeHistory ==
    /\ up # <<>> /\ Head(up).type = "history"
    /\ hub' = Refreshed(hub)
    /\ LET page == Page(hub'.events, Head(up).before) IN
       down' = Append(down, [type |-> "history", events |-> page,
                             more |-> \E s \in hub'.events : \A t \in page : s < t])
    /\ up' = Tail(up)
    /\ UNCHANGED <<bus, file, sender, subscribed, v, clicks, faults>>

-----------------------------------------------------------------------------
(* The viewer. *)
Ask(frame) == up' = IF v.open THEN Append(up, frame) ELSE up
History(before) == [type |-> "history", before |-> before]

Selected == [Blank EXCEPT !.selected = TRUE, !.loading = TRUE, !.open = v.open]
Select == v' = Selected /\ Ask([type |-> "subscribe"])

Click ==
    /\ clicks < MaxClicks /\ clicks' = clicks + 1
    /\ Impatient \/ ~v.loading
    /\ Select
    /\ UNCHANGED <<bus, file, sender, hub, subscribed, down, faults>>

Reopen ==
    /\ ~v.open
    /\ v' = IF v.selected THEN [Selected EXCEPT !.open = TRUE] ELSE [v EXCEPT !.open = TRUE]
    /\ up' = IF v.selected THEN <<[type |-> "subscribe"]>> ELSE <<>>
    /\ UNCHANGED <<bus, file, sender, hub, subscribed, down, clicks, faults>>

Frame(type) ==
    /\ down # <<>> /\ Head(down).type = type /\ down' = Tail(down)
    /\ UNCHANGED <<bus, file, sender, hub, subscribed, clicks, faults>>

HandleReady ==
    /\ Frame("evt_ready")
    /\ v' = [v EXCEPT !.last = Head(down).last]
    /\ Ask(History(Total))

(* RunFold.applyBatch: where live events go on. *)
Cursor(events, last) == Max({Highest(events) + 1, last + 1})

HandleHistory ==
    /\ Frame("history")
    /\ LET events == v.history \union Head(down).events
           all == v.fold \union events \union v.pending IN
       IF ~v.loading THEN UNCHANGED <<v, up>>
       ELSE IF Head(down).more
       THEN v' = [v EXCEPT !.history = events] /\ Ask(History(Min(Head(down).events)))
       ELSE /\ v' = [v EXCEPT !.fold = all, !.next = Cursor(all, v.last), !.loaded = TRUE,
                              !.loading = FALSE, !.history = {}, !.pending = {}]
            /\ UNCHANGED up

HandleLive ==
    /\ Frame("evts")
    /\ v' = IF v.loading THEN [v EXCEPT !.pending = @ \union Head(down).events]
            ELSE [v EXCEPT !.live = @ \union Head(down).events]
    /\ UNCHANGED up

(* A mutated form: an event that comes late makes no gap.                  *)
NoGap(next, events) == FALSE

(* RunFold.ingestBatch *)
Gap(next, events) == events # next .. next + Cardinality(events) - 1

(* The next animation frame folds the live events, or loads the session    *)
(* anew.                                                                   *)
Flush ==
    /\ v.live # {}
    /\ LET fresh == {s \in v.live : s >= v.next} IN
       IF Gap(v.next, fresh) THEN Select
       ELSE /\ v' = [v EXCEPT !.live = {}, !.fold = @ \union fresh,
                              !.next = Max({@} \union {s + 1 : s \in fresh})]
            /\ UNCHANGED up
    /\ UNCHANGED <<bus, file, sender, hub, subscribed, down, clicks, faults>>

-----------------------------------------------------------------------------
Step ==
    \/ Publish \/ Drain
    \/ Take \/ Send \/ Lose \/ Connect
    \/ ServeSubscribe \/ ServeHistory
    \/ Reopen \/ HandleReady \/ HandleHistory \/ HandleLive \/ Flush
Next == Step \/ Scan \/ Click \/ Break \/ CutViewer \/ Restart

Spec == Init /\ [][Next]_vars

(* The tasks of the three processes go on; nobody has to click, and the    *)
(* scan has no say in what the viewer is shown.                            *)
FairSpec ==
    /\ Spec
    /\ WF_vars(Publish) /\ WF_vars(Drain) /\ WF_vars(Take \/ Send \/ Lose)
    /\ WF_vars(Connect) /\ WF_vars(ServeSubscribe \/ ServeHistory) /\ WF_vars(Reopen)
    /\ WF_vars(HandleReady \/ HandleHistory \/ HandleLive) /\ WF_vars(Flush)

-----------------------------------------------------------------------------
(* What the viewer has folded has no hole: every event it needs is there   *)
(* below the place where it goes on, though batches are lost on the way    *)
(* and history is read page by page while the session runs.                *)
NoHole == v.loaded => {s \in Compact : s < v.next} \subseteq v.fold

(* Once the last event has reached the hub, a viewer that has the session  *)
(* selected comes to show all of it, for good, whatever was lost before.   *)
ShownAtLast == <>[](delivered /\ v.selected) => <>[](Compact \subseteq v.fold)

=============================================================================
