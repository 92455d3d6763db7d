------------------------------ MODULE EventStream ------------------------------
(***************************************************************************)
(* The journal of transitions (event_stream.py) and the consumers that      *)
(* mirror it over http/routes.py's /events: the state machine's moves are    *)
(* its only input, a consumer reconciles from a snapshot, subscribes after   *)
(* the last number it saw, falls behind, drops its connection and resumes.   *)
(* The Prometheus series of the session (metrics/session.py) follow the same *)
(* moves.  Both count connections from the moves alone; wires counts the     *)
(* ones the connection manager really holds: clients, system connections     *)
(* that occupy the session (a LiveKit room, an unattended run's own client)  *)
(* and those that do not (the sender of a starting input).                   *)
(***************************************************************************)
EXTENDS SessionStateMachine, Sequences

CONSTANTS
    Consumers,
    HistoryLimit,     \* history_limit
    SubscriberLimit,  \* subscriber_limit
    MaxEvents,        \* moves journalled
    MaxWires          \* connections open at once

ASSUME EventStreamAssumption ==
    /\ {HistoryLimit, SubscriberLimit} \subseteq Nat \ {0}
    /\ {MaxEvents, MaxWires} \subseteq Nat

Kinds == {"client", "system", "quiet"}

VARIABLES
    moment,    \* the machine: its state and its live count
    wires,     \* the connections open, of each kind
    seqNo,     \* _seq
    history,   \* _history
    view,      \* _state and _connections
    series,    \* MetricsRecorder: _live, _started_at is set, sessions counted
    begun,     \* sessions started
    consumers  \* each consumer's subscription, and what it makes of it

journal == <<moment, wires, seqNo, history, view, series, begun>>
eventVars == <<journal, consumers>>

\* _fold, which a consumer's mirror repeats.
Fold(seen, item) ==
    [state |-> item.to,
     connections |-> IF item.event = "CONNECTION_OPENED" THEN seen.connections + 1
                     ELSE IF item.event = "CONNECTION_CLOSED" /\ seen.connections > 0
                     THEN seen.connections - 1 ELSE seen.connections]

\* _fold_connections: a move that is neither a connection's nor a self-loop clears
\* the count.
FoldConnections(live, event) ==
    IF event = "CONNECTION_OPENED" THEN live + 1
    ELSE IF event = "CONNECTION_CLOSED" THEN (IF live > 0 THEN live - 1 ELSE 0)
    ELSE IF event \in SelfLoops THEN live ELSE 0

\* Faulty: a system connection counts as a client.
ObserveSystem(s, item) ==
    LET ends == s.running /\ item.event \in {"CLEANUP_COMPLETE", "EVICTION"} IN
    [live |-> FoldConnections(s.live, item.event),
     running |-> (s.running \/ item.event = "START_SESSION") /\ ~ends,
     sessions |-> IF ends THEN s.sessions + 1 ELSE s.sessions]

\* Faulty: a teardown's moves leave the count alone.
ObserveKeeps(s, item) ==
    LET ends == s.running /\ item.event \in {"CLEANUP_COMPLETE", "EVICTION"} IN
    [live |-> IF item.system \/ item.event \notin {"CONNECTION_OPENED", "CONNECTION_CLOSED"} THEN s.live
              ELSE FoldConnections(s.live, item.event),
     running |-> (s.running \/ item.event = "START_SESSION") /\ ~ends,
     sessions |-> IF ends THEN s.sessions + 1 ELSE s.sessions]

\* MetricsRecorder.observe: a system connection's moves stay out of the count, and
\* a session counts when its clean-up or an eviction ends it.
Observe(s, item) ==
    LET ends == s.running /\ item.event \in {"CLEANUP_COMPLETE", "EVICTION"} IN
    [live |-> IF item.system THEN s.live ELSE FoldConnections(s.live, item.event),
     running |-> (s.running \/ item.event = "START_SESSION") /\ ~ends,
     sessions |-> IF ends THEN s.sessions + 1 ELSE s.sessions]

Unknown == [state |-> "none", connections |-> 0]

EventInit ==
    /\ moment = [state |-> "READY", live |-> 0] /\ wires = [k \in Kinds |-> 0]
    /\ seqNo = 0 /\ history = <<>> /\ view = Unknown
    /\ series = [live |-> 0, running |-> FALSE, sessions |-> 0] /\ begun = 0
    /\ consumers = [c \in Consumers |->
          [on |-> FALSE, backlog |-> <<>>, queue |-> <<>>, last |-> 0, mirror |-> Unknown, gap |-> FALSE]]

-------------------------------------------------------------------------------
(* The writer *)

\* The newest k items of s.
Newest(s, k) == IF Len(s) <= k THEN s ELSE SubSeq(s, Len(s) - k + 1, Len(s))

\* Faulty: a full queue refuses the newest event.
OfferRefuses(queue, item) == IF Len(queue) < SubscriberLimit THEN Append(queue, item) ELSE queue

\* _offer: a full queue sheds its oldest event.
Offer(queue, item) == Newest(Append(queue, item), SubscriberLimit)

\* Where an event takes the machine: send, or send_without_occupancy for a
\* connection that does not occupy the session.
Target(e, kind) ==
    IF kind # "quiet" THEN Resolve(e, moment.state, moment.live)
    ELSE IF moment.state \in Connectable THEN moment.state ELSE Rejected

\* The machine takes an event and, when it is legal, the journal records it: emit.
\* Only a connection's open and close say of which kind it is.
SendEvent(e, kind) ==
    LET to == Target(e, kind)
        item == [seq |-> seqNo + 1, event |-> e, to |-> to, system |-> kind # "client"] IN
    IF to = Rejected THEN UNCHANGED <<moment, seqNo, history, view, series, begun, consumers>>
    ELSE /\ moment' = [state |-> to,
                       live |-> IF kind = "quiet" THEN moment.live ELSE UpdateCount(e, moment.live)]
         /\ seqNo' = seqNo + 1
         /\ history' = Newest(Append(history, item), HistoryLimit)
         /\ view' = Fold(view, item)
         /\ series' = Observe(series, item)
         /\ begun' = IF e = "START_SESSION" THEN begun + 1 ELSE begun
         /\ consumers' = [c \in Consumers |->
               IF consumers[c].on THEN [consumers[c] EXCEPT !.queue = Offer(@, item)] ELSE consumers[c]]

\* The runner's own moves.  A session's clean-up ends once its wires are closed.
Moves(e) ==
    /\ seqNo < MaxEvents
    /\ Resolve(e, moment.state, moment.live) # Rejected
    /\ e = "CLEANUP_COMPLETE" => \A k \in Kinds : wires[k] = 0
    /\ SendEvent(e, "client")
    /\ UNCHANGED wires

\* ConnectionManager.register and drop: a close is sent whatever the state.
WireOpens(k) ==
    /\ seqNo < MaxEvents /\ moment.state \in Connectable
    /\ wires["client"] + wires["system"] + wires["quiet"] < MaxWires
    /\ wires' = [wires EXCEPT ![k] = @ + 1]
    /\ SendEvent("CONNECTION_OPENED", k)

WireCloses(k) ==
    /\ seqNo < MaxEvents /\ wires[k] > 0
    /\ wires' = [wires EXCEPT ![k] = @ - 1]
    /\ SendEvent("CONNECTION_CLOSED", k)

\* close_all: the registry is emptied, and the machine is told nothing.
CloseAll ==
    /\ \E k \in Kinds : wires[k] > 0
    /\ moment.state \in {"CLOSING", "TERMINATED"}
    /\ wires' = [k \in Kinds |-> 0]
    /\ UNCHANGED <<moment, seqNo, history, view, series, begun, consumers>>

-------------------------------------------------------------------------------
(* A consumer *)

\* A snapshot of the journal: what it has seen is up to date from here.
Reconcile(c) ==
    /\ consumers' = [consumers EXCEPT ![c].mirror = view, ![c].last = seqNo, ![c].gap = FALSE]
    /\ UNCHANGED journal

\* Faulty: only what comes after the call is delivered.
SubscribeLate(c) ==
    /\ ~consumers[c].on
    /\ consumers' = [consumers EXCEPT ![c].on = TRUE, ![c].queue = <<>>, ![c].backlog = <<>>]
    /\ UNCHANGED journal

\* subscribe with since: the retained events after it are replayed first.
Subscribe(c) ==
    /\ ~consumers[c].on
    /\ \E k \in 0 .. Len(history) :
          /\ \A i \in DOMAIN history : history[i].seq > consumers[c].last <=> i > k
          /\ consumers' = [consumers EXCEPT ![c].on = TRUE, ![c].queue = <<>>,
                ![c].backlog = SubSeq(history, k + 1, Len(history))]
    /\ UNCHANGED journal

\* subscribe without since: from the next event on, with no claim on the past.
SubscribeLive(c) ==
    /\ ~consumers[c].on
    /\ consumers' = [consumers EXCEPT ![c].on = TRUE, ![c].queue = <<>>, ![c].backlog = <<>>, ![c].gap = TRUE]
    /\ UNCHANGED journal

\* _stream yields: the backlog, then the queue.  A number that does not follow the
\* last one is a gap; one a snapshot already covers is passed over.
Deliver(c) ==
    LET me == consumers[c]
        item == Head(me.backlog \o me.queue) IN
    /\ me.on /\ me.backlog \o me.queue # <<>>
    /\ consumers' = [consumers EXCEPT
          ![c].backlog = IF @ = <<>> THEN @ ELSE Tail(@),
          ![c].queue = IF me.backlog = <<>> THEN Tail(@) ELSE @,
          ![c].last = IF item.seq > @ THEN item.seq ELSE @,
          ![c].gap = @ \/ item.seq > me.last + 1,
          ![c].mirror = IF item.seq > me.last THEN Fold(@, item) ELSE @]
    /\ UNCHANGED journal

\* The consumer's connection is gone, and _stream deregisters it.
Disconnect(c) ==
    /\ consumers[c].on
    /\ consumers' = [consumers EXCEPT ![c].on = FALSE, ![c].backlog = <<>>, ![c].queue = <<>>]
    /\ UNCHANGED journal

EventNext ==
    \/ \E e \in {"START_SESSION", "STOP_SESSION", "CLEANUP_COMPLETE", "EVICTION", "METRIC"} : Moves(e)
    \/ \E k \in Kinds : WireOpens(k) \/ WireCloses(k)
    \/ CloseAll
    \/ \E c \in Consumers :
          Reconcile(c) \/ Subscribe(c) \/ SubscribeLive(c) \/ Deliver(c) \/ Disconnect(c)

EventSpec == EventInit /\ [][EventNext]_eventVars

-------------------------------------------------------------------------------
(* Properties *)

\* A consumer that has taken all there is for it, and met no gap since it last
\* reconciled, is where the journal is and sees what it sees: whatever was dropped
\* from its queue, or had left the history when it resumed, shows as a gap
\* (emit, _offer, subscribe, _stream).
MirrorIsExact ==
    \A c \in Consumers : LET me == consumers[c] IN
        (me.on /\ me.backlog = <<>> /\ me.queue = <<>> /\ ~me.gap) =>
            me.last = seqNo /\ me.mirror = view

\* The series say what the session is: the live gauge is the number of client
\* connections the manager holds while the session runs, whatever system connections
\* come and go beside them, and nothing otherwise; and every session that is over was
\* counted once, by clean-up or by eviction (_fold_connections, _end_session).
SeriesAreTrue ==
    LET open == moment.state \in Connectable \cup {"CLOSING"} IN
    /\ series.live = IF moment.state \in Connectable THEN wires["client"] ELSE 0
    /\ series.sessions = IF open THEN begun - 1 ELSE begun

\* A snapshot's connections are "The number of connections currently open"
\* (event_stream.py:59).  The connections a teardown takes down are closed without
\* a move, and nothing else takes them off the journal's count.
SnapshotCountsOpen == moment.state = "READY" => view.connections = 0

=============================================================================
