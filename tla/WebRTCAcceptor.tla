---------------------------- MODULE WebRTCAcceptor ----------------------------
(***************************************************************************)
(* The WebRTC transport on top of the session: the offer route of          *)
(* transport/webrtc/router.py, WebRTCAcceptor (acceptor.py) and the        *)
(* lifecycle of its WebRTCConnections (connection.py), composed with       *)
(* SessionLifecycle, which is the sink they report to and the runner that  *)
(* closes them.                                                            *)
(*                                                                         *)
(* An id's offers are numbered 1, 2, ...: the number is the offered_at     *)
(* generation, and the name of the connection object the offer builds.  In *)
(* every table below 0 means no entry.  Sessions here are attended, the    *)
(* model does not crash and the process does not stop: those behaviours    *)
(* are SessionLifecycle's.                                                 *)
(***************************************************************************)
EXTENDS SessionLifecycle

CONSTANTS Webrtc,              \* this transport's name
          MaxOffers,           \* bound: offers made on one id
          MaxConnections,      \* WebRtcConfig.max_connections, 0 for no ceiling
          NegotiationTimeout   \* whether negotiation_timeout > 0

ASSUME AcceptorAssumption == /\ Webrtc \in Transports
                             /\ MaxOffers \in Nat /\ MaxConnections \in Nat
                             /\ NegotiationTimeout \in BOOLEAN

Gens == 1..MaxOffers

VARIABLES
  offered,      \* how many offers were made on each id
  madeIn,       \* the session each offer was made in
  task,         \* each offer's _negotiate task
  wire,         \* each offer's connection, and who is closing it
  conns,        \* _conns
  liveIds,      \* _live
  negotiating,  \* _negotiating
  offeredAt,    \* _offered_at
  deadlines,    \* _deadlines
  answers,      \* _answers
  pinned,       \* _pinned_ports, for the one port that offers pin
  ice,          \* where the candidate trickled for each offer is
  handle,       \* the connection object the manager holds for each id
  taken,        \* the ones close_all took
  overlapped    \* history: the offers whose negotiation began while a connection
                \* of the id other than the one they replace was not gone yet

offering   == <<offered, madeIn, overlapped>>
tables     == <<conns, liveIds, offeredAt, deadlines, answers, pinned>>
connection == <<wire, handle, taken>>
acceptor   == <<offering, task, negotiating, tables, ice, connection>>
all        == <<vars, acceptor>>

AcceptorInit ==
  /\ Init
  /\ offered = [c \in ConnIds |-> 0] /\ madeIn = [c \in ConnIds |-> [g \in Gens |-> 0]]
  /\ task = [c \in ConnIds |-> [g \in Gens |-> "none"]]
  /\ wire = [c \in ConnIds |-> [g \in Gens |-> "none"]]
  /\ conns = [c \in ConnIds |-> 0] /\ liveIds = {}
  /\ negotiating = [c \in ConnIds |-> 0] /\ offeredAt = [c \in ConnIds |-> 0]
  /\ deadlines = [c \in ConnIds |-> 0] /\ answers = [c \in ConnIds |-> 0]
  /\ pinned = [c \in ConnIds |-> 0]
  /\ ice = [c \in ConnIds |-> [g \in Gens |-> "unsent"]]
  /\ handle = [c \in ConnIds |-> 0] /\ taken = [c \in ConnIds |-> 0]
  /\ overlapped = [c \in ConnIds |-> {}]

\* Faulty: a connection that has not connected counts as gone.
AliveOnceOpen(c, g) == g # 0 /\ wire[c][g] = "open"

\* A connection's _alive: built or connected, and nobody is closing it.
AliveWire(c, g) == g # 0 /\ wire[c][g] \in {"built", "open"}

\* No connection of the id is there, not even one that is being closed, but for
\* the one the negotiation itself takes out.
Alone(c) == \A g \in Gens : wire[c][g] \in {"none", "gone", "replaced"}

\* Faulty: an entry is dropped whichever offer it belongs to.
ReleaseById(table, c, g) == [table EXCEPT ![c] = 0]

\* Faulty: an entry is never dropped.
ReleaseNever(table, c, g) == table

\* An id's entry in a table, dropped if it is generation g's.
Release(table, c, g) == IF table[c] = g THEN [table EXCEPT ![c] = 0] ELSE table

\* The candidates of c that are in one place move to another.
MoveIce(c, from, to) ==
  [ice EXCEPT ![c] = [g \in Gens |-> IF ice[c][g] = from THEN to ELSE ice[c][g]]]

\* What _closed and _forget both clear for the connection of generation g,
\* besides its deadline: some of it by generation, some by id alone.
Forget(c, g) ==
  /\ conns' = [conns EXCEPT ![c] = 0]
  /\ ice' = MoveIce(c, "buffered", "lost")
  /\ answers' = [answers EXCEPT ![c] = 0]
  /\ offeredAt' = Release(offeredAt, c, g)
  /\ pinned' = Release(pinned, c, g)
  /\ liveIds' = liveIds \ {c}

-------------------------------------------------------------------------------
(* Offers.                                                                 *)

Known(c) == conns[c] # 0 \/ negotiating[c] # 0
SlotsHeld == {c \in ConnIds : Known(c)}

\* Faulty: one connection too many.
OverCapacityLate(c) ==
  MaxConnections > 0 /\ ~Known(c) /\ Cardinality(SlotsHeld) > MaxConnections

OverCapacity(c) ==
  MaxConnections > 0 /\ ~Known(c) /\ Cardinality(SlotsHeld) >= MaxConnections
PortHeld(c) == \E other \in ConnIds \ {c} : pinned[other] # 0

\* A connection whose close is abandoned by the task that ran it: the peer goes,
\* and nobody is told.
CutShort(c, by) == [g \in Gens |-> IF wire[c][g] \in by THEN "gone" ELSE wire[c][g]]

\* Faulty: the answer of the offer that is replaced stays.
SupersedeKeepingAnswer(c) ==
  /\ wire' = [wire EXCEPT ![c] = CutShort(c, {"replaced", "reaped"})]
  /\ ice' = MoveIce(c, "replaying", "lost")
  /\ UNCHANGED answers

\* start_offer cancels the negotiation in flight, and the reap a deadline may be
\* in, and drops the answer.
Supersede(c) ==
  /\ wire' = [wire EXCEPT ![c] = CutShort(c, {"replaced", "reaped"})]
  /\ ice' = MoveIce(c, "replaying", "lost")
  /\ answers' = [answers EXCEPT ![c] = 0]

\* The offer route and start_offer: the new offer's task and deadline are
\* installed in the place of the old one's.
Offer(c, pin) ==
  LET g == offered[c] + 1 IN
  /\ Running /\ g \in Gens
  /\ ~OverCapacity(c) /\ ~(pin /\ PortHeld(c))
  /\ OfferAdmitted(c, Webrtc)
  /\ offered' = [offered EXCEPT ![c] = g]
  /\ madeIn' = [madeIn EXCEPT ![c][g] = epoch]
  /\ task' = [task EXCEPT ![c] = [h \in Gens |-> IF h = g THEN "ready"
                                                ELSE IF h = negotiating[c] THEN "over"
                                                ELSE task[c][h]]]
  /\ Supersede(c)
  /\ negotiating' = [negotiating EXCEPT ![c] = g]
  /\ deadlines' = [deadlines EXCEPT ![c] = IF NegotiationTimeout THEN g ELSE 0]
  /\ offeredAt' = [offeredAt EXCEPT ![c] = g]
  /\ pinned' = [pinned EXCEPT ![c] = IF pin THEN g ELSE 0]
  /\ UNCHANGED <<conns, liveIds, handle, taken, overlapped>>

\* The same request refused by a guard: the id is claimed and stamped, and only
\* a claim that was new is undone.
OfferTurnedAway(c, pin) ==
  /\ Running
  /\ OverCapacity(c) \/ (pin /\ PortHeld(c))
  /\ OfferRefused(c, Webrtc)
  /\ UNCHANGED acceptor

\* _negotiate starts: the id's earlier connection is taken out and closed.
NegotiationStarts(c) ==
  LET g == negotiating[c]
      previous == conns[c]
  IN
  /\ g # 0 /\ task[c][g] = "ready"
  /\ conns' = [conns EXCEPT ![c] = 0]
  /\ liveIds' = IF previous # 0 THEN liveIds \ {c} ELSE liveIds
  /\ IF AliveWire(c, previous)
     THEN /\ wire' = [wire EXCEPT ![c][previous] = "replaced"]
          /\ task' = [task EXCEPT ![c][g] = "closing"]
     ELSE /\ task' = [task EXCEPT ![c][g] = "creating"]
          /\ UNCHANGED wire
  /\ overlapped' = [overlapped EXCEPT ![c] = @ \union (IF Alone(c)' THEN {} ELSE {g})]
  /\ UNCHANGED <<vars, offered, madeIn, negotiating, offeredAt, deadlines, answers, pinned,
                 ice, handle, taken>>

PreviousCloses(c, h) ==
  LET g == negotiating[c] IN
  /\ g # 0 /\ task[c][g] = "closing" /\ wire[c][h] = "replaced"
  /\ wire' = [wire EXCEPT ![c][h] = "gone"]
  /\ task' = [task EXCEPT ![c][g] = "creating"]
  /\ Forget(c, h) /\ deadlines' = Release(deadlines, c, h)
  /\ UNCHANGED <<vars, offering, negotiating, handle, taken>>

\* The peer is there: the connection is held, then the buffered candidates are
\* replayed into it; with none to replay the answer is staged at once.  Nothing
\* waits here for a close of an earlier connection that the session started.
ConnectionCreated(c) ==
  LET g == negotiating[c]
      replays == \E h \in Gens : ice[c][h] = "buffered"
  IN
  /\ g # 0 /\ task[c][g] = "creating"
  /\ wire' = [wire EXCEPT ![c][g] = "built"]
  /\ conns' = [conns EXCEPT ![c] = g]
  /\ task' = [task EXCEPT ![c][g] = IF replays THEN "replaying" ELSE "answered"]
  /\ negotiating' = [negotiating EXCEPT ![c] = IF replays THEN g ELSE 0]
  /\ answers' = [answers EXCEPT ![c] = IF replays THEN @ ELSE g]
  /\ ice' = MoveIce(c, "buffered", "replaying")
  /\ UNCHANGED <<vars, offering, liveIds, offeredAt, deadlines, pinned, handle, taken>>

\* The replay is over and the answer staged.
AnswerStaged(c) ==
  LET g == negotiating[c] IN
  /\ g # 0 /\ task[c][g] = "replaying"
  /\ task' = [task EXCEPT ![c][g] = "answered"]
  /\ negotiating' = [negotiating EXCEPT ![c] = 0]
  /\ answers' = [answers EXCEPT ![c] = g]
  /\ ice' = [ice EXCEPT ![c] = [h \in Gens |->
               IF ice[c][h] # "replaying" THEN ice[c][h]
               ELSE IF h = g THEN "delivered" ELSE "lost"]]
  /\ UNCHANGED <<vars, offering, conns, liveIds, offeredAt, deadlines, pinned, connection>>

\* Building the peer, or replaying a candidate into it, raised.
NegotiationFails(c) ==
  LET g == negotiating[c] IN
  /\ g # 0 /\ task[c][g] \in {"creating", "replaying"}
  /\ task' = [task EXCEPT ![c][g] = "over"]
  /\ negotiating' = [negotiating EXCEPT ![c] = 0]
  /\ offeredAt' = Release(offeredAt, c, g)
  /\ deadlines' = Release(deadlines, c, g)
  /\ pinned' = Release(pinned, c, g)
  /\ ice' = MoveIce(c, "replaying", "lost")
  /\ UNCHANGED <<vars, offering, conns, liveIds, answers, connection>>

\* take_answer.
AnswerTaken(c) ==
  /\ Running /\ answers[c] # 0
  /\ answers' = [answers EXCEPT ![c] = 0]
  /\ UNCHANGED <<vars, offering, task, negotiating, conns, liveIds, offeredAt, deadlines,
                 pinned, ice, connection>>

\* add_ice with the candidate the client trickles for offer g, its last or the
\* one it is about to make: to the connection held for the id, else the buffer.
AddIce(c, g) ==
  /\ Running /\ g \in {offered[c], offered[c] + 1} /\ ice[c][g] = "unsent"
  /\ ice' = [ice EXCEPT ![c][g] = IF conns[c] = 0 THEN "buffered"
                                  ELSE IF conns[c] = g THEN "delivered" ELSE "lost"]
  /\ UNCHANGED <<vars, offering, task, negotiating, tables, connection>>

\* _enforce_deadline, once its sleep is over: the negotiation started long ago.
DeadlineFires(c) ==
  LET d == deadlines[c]
      g == negotiating[c]
      conn == conns[c]
      waiting == offeredAt[c] = d /\ c \notin liveIds
  IN
  /\ d # 0 /\ (g # 0 => task[c][g] # "ready")
  /\ \A h \in Gens : wire[c][h] # "reaped"
  /\ negotiating' = [negotiating EXCEPT ![c] = IF waiting THEN 0 ELSE g]
  /\ task' = IF waiting /\ g # 0 THEN [task EXCEPT ![c][g] = "over"] ELSE task
  /\ wire' = IF ~waiting THEN wire
             ELSE IF AliveWire(c, conn) THEN [wire EXCEPT ![c][conn] = "reaped"]
             ELSE [wire EXCEPT ![c] = CutShort(c, {"replaced"})]
  /\ deadlines' = IF waiting /\ AliveWire(c, conn) THEN deadlines
                  ELSE [deadlines EXCEPT ![c] = 0]
  /\ IF waiting /\ conn = 0
     THEN /\ ice' = [ice EXCEPT ![c] = [h \in Gens |->
                      IF ice[c][h] \in {"buffered", "replaying"} THEN "lost" ELSE ice[c][h]]]
          /\ answers' = [answers EXCEPT ![c] = 0]
          /\ offeredAt' = [offeredAt EXCEPT ![c] = 0]
          /\ pinned' = Release(pinned, c, d)
     ELSE /\ ice' = IF waiting THEN MoveIce(c, "replaying", "lost") ELSE ice
          /\ UNCHANGED <<answers, offeredAt, pinned>>
  /\ UNCHANGED <<vars, offering, conns, liveIds, handle, taken>>

\* The reaper's close returns, and its task ends.
ReapedCloses(c, g) ==
  /\ wire[c][g] = "reaped"
  /\ wire' = [wire EXCEPT ![c][g] = "gone"]
  /\ Forget(c, g) /\ deadlines' = [deadlines EXCEPT ![c] = 0]
  /\ UNCHANGED <<vars, offering, task, negotiating, handle, taken>>

-------------------------------------------------------------------------------
(* Wires.                                                                  *)

\* The wire connects, after the client had its answer: _opened, and the sink
\* registers the connection or refuses it and has it closed.
WireConnects(c, g) ==
  /\ wire[c][g] = "built" /\ task[c][g] = "answered"
  /\ deadlines' = Release(deadlines, c, g)
  /\ offeredAt' = Release(offeredAt, c, g)
  /\ liveIds' = liveIds \union {c}
  /\ \/ /\ AcceptConnection(c)
        /\ wire' = [wire EXCEPT ![c][g] = "open"]
        /\ handle' = [handle EXCEPT ![c] = g]
     \/ /\ RefuseConnection(c)
        /\ wire' = [wire EXCEPT ![c][g] = "refused"]
        /\ UNCHANGED handle
  /\ UNCHANGED <<offering, task, negotiating, conns, answers, pinned, ice, taken>>

\* The peer disconnects or the watchdog gives it up: _closed, reported upward
\* only for an id that had opened.
WireLost(c, g) ==
  /\ AliveWire(c, g)
  /\ wire' = [wire EXCEPT ![c][g] = "gone"]
  /\ Forget(c, g) /\ deadlines' = Release(deadlines, c, g)
  /\ IF c \in liveIds /\ c \in byId
     THEN ConnectionClosed(c) /\ handle' = [handle EXCEPT ![c] = 0]
     ELSE UNCHANGED <<vars, handle>>
  /\ UNCHANGED <<offering, task, negotiating, taken>>

RefusedCloses(c, g) ==
  /\ wire[c][g] = "refused"
  /\ wire' = [wire EXCEPT ![c][g] = "gone"]
  /\ Forget(c, g) /\ deadlines' = Release(deadlines, c, g)
  /\ IF \E h \in Gens \ {g} : wire[c][h] = "refused" THEN UNCHANGED vars
     ELSE RefusedConnectionCloses(c)
  /\ UNCHANGED <<offering, task, negotiating, handle, taken>>

\* The session's teardown takes the registered connections and closes them one
\* at a time; one that is already gone has nothing to wait for.
TeardownTakes ==
  /\ CloseAllStarts("session")
  /\ taken' = handle
  /\ handle' = [c \in ConnIds |-> 0]
  /\ UNCHANGED <<offering, task, negotiating, tables, ice, wire>>

TeardownCloses(c) ==
  /\ c \in toClose["session"] /\ AliveWire(c, taken[c])
  /\ \A other \in ConnIds, g \in Gens : wire[other][g] # "teardown"
  /\ wire' = [wire EXCEPT ![c][taken[c]] = "teardown"]
  /\ UNCHANGED <<vars, offering, task, negotiating, tables, ice, handle, taken>>

TeardownClosed(c) ==
  /\ c \in toClose["session"] /\ ~AliveWire(c, taken[c])
  /\ ConnectionCloseReturns("session", c)
  /\ IF wire[c][taken[c]] = "teardown"
     THEN /\ wire' = [wire EXCEPT ![c][taken[c]] = "gone"]
          /\ Forget(c, taken[c]) /\ deadlines' = Release(deadlines, c, taken[c])
     ELSE UNCHANGED <<wire, tables, ice>>
  /\ taken' = [taken EXCEPT ![c] = 0]
  /\ UNCHANGED <<offering, task, negotiating, handle>>

-------------------------------------------------------------------------------
\* The session's own steps, which the acceptor does not see.
SessionSteps ==
  /\ \/ InitializationSuccess
     \/ StartSession([seeded |-> FALSE, unattended |-> FALSE])
     \/ StopSession \/ OrphanTimeoutFires \/ CleanupComplete
     \/ \E c \in ConnIds : NewConnId(c, Webrtc) /\ Running
  /\ UNCHANGED acceptor

Negotiation(c) ==
  \/ NegotiationStarts(c) \/ ConnectionCreated(c) \/ AnswerStaged(c) \/ NegotiationFails(c)
  \/ \E h \in Gens : PreviousCloses(c, h)

AcceptorNext ==
  \/ SessionSteps \/ TeardownTakes
  \/ \E c \in ConnIds :
       \/ \E pin \in BOOLEAN : Offer(c, pin) \/ OfferTurnedAway(c, pin)
       \/ Negotiation(c) \/ AnswerTaken(c) \/ DeadlineFires(c)
       \/ TeardownCloses(c) \/ TeardownClosed(c)
       \/ \E g \in Gens : \/ AddIce(c, g) \/ WireConnects(c, g) \/ WireLost(c, g)
                          \/ RefusedCloses(c, g) \/ ReapedCloses(c, g)

AcceptorSpec == AcceptorInit /\ [][AcceptorNext]_all

\* What the event loop guarantees: a task that was created starts, and a sleep
\* ends.  Nothing is assumed of the peers.
AcceptorFairSpec ==
  /\ AcceptorSpec
  /\ \A c \in ConnIds : WF_all(NegotiationStarts(c)) /\ WF_all(DeadlineFires(c))

-------------------------------------------------------------------------------
\* Every table of the acceptor holds offers of ids that made them.
AcceptorTypeOK ==
  /\ TypeOK
  /\ offered \in [ConnIds -> 0..MaxOffers] /\ madeIn \in [ConnIds -> [Gens -> 0..MaxSessions]]
  /\ task \in [ConnIds -> [Gens -> {"none", "ready", "closing", "creating", "replaying",
                                    "answered", "over"}]]
  /\ wire \in [ConnIds -> [Gens -> {"none", "built", "open", "replaced", "reaped", "refused",
                                    "teardown", "gone"}]]
  /\ ice \in [ConnIds -> [Gens -> {"unsent", "buffered", "replaying", "delivered", "lost"}]]
  /\ liveIds \subseteq ConnIds /\ overlapped \in [ConnIds -> SUBSET Gens]
  /\ \A table \in {conns, negotiating, offeredAt, deadlines, answers, pinned, handle, taken} :
       table \in [ConnIds -> 0..MaxOffers]

\* The ceiling counts connections held or being negotiated, and an id moves from
\* one to the other, is reaped, refused or replaced without a slot being given
\* out twice.
SlotCeiling == MaxConnections > 0 => Cardinality(SlotsHeld) <= MaxConnections

\* A client that polls for its answer never gets the answer of an offer it has
\* since replaced.
AnswerIsCurrent == \A c \in ConnIds : answers[c] \in {0, offered[c]}

\* The port an offer in flight pinned is still its own: the teardown of the
\* connection it replaces, which runs after the claim, does not free it; only
\* the loss of the connection the offer itself built does.
PinSurvivesReconnect ==
  [][\A c \in ConnIds : LET g == negotiating[c] IN
       g # 0 /\ pinned[c] = g /\ negotiating'[c] = g /\ wire'[c][g] # "gone"
         => pinned'[c] = g]_all

\* A port is not reserved for ever: while it is, the offer that pinned it is being
\* negotiated or its connection is still there.
PinIsHeld ==
  \A c \in ConnIds : LET g == pinned[c] IN
    g # 0 => negotiating[c] = g \/ wire[c][g] \notin {"none", "gone"}

\* A connection whose client has its answer and has not connected yet.
HalfOpen(c, g) == wire[c][g] = "built" /\ task[c][g] = "answered"

\* A half-open connection that overlapped no earlier one of its id is under a
\* deadline, its own or a later offer's, so that it cannot hold its slot for ever.
AnsweredHasDeadline ==
  NegotiationTimeout =>
    \A c \in ConnIds, g \in Gens :
      HalfOpen(c, g) /\ g \notin overlapped[c] => deadlines[c] # 0

\* A client that took its answer and never connects does not keep its connection,
\* unless that was negotiated before an earlier one of its id had gone: the
\* deadline reaps it, or the client's own next offer replaces it.
HalfOpenEnds ==
  NegotiationTimeout =>
    \A c \in ConnIds, g \in Gens :
      (HalfOpen(c, g) /\ g \notin overlapped[c]) ~> wire[c][g] # "built"

\* When a session has unwound, no connection that was registered in it still
\* carries frames, but for one that overlapped an earlier one of its id.
UnwoundIsDisconnected ==
  state = "READY" => \A c \in ConnIds, g \in Gens : wire[c][g] = "open" => g \in overlapped[c]

-------------------------------------------------------------------------------
(* What the code says of itself and does not always keep.                  *)

\* connection_opened: a wire whose negotiation finishes "with a later session
\* already running" is "closed instead of registered".
NoWireOfAnotherSession ==
  Running => \A c \in byId : madeIn[c][handle[c]] = epoch

\* _dispatch_transition: "a session left without a client closes itself": a
\* session that streams has a wire that is alive, or a reconnect under way.
StreamingHasWire ==
  state = "STREAMING" => \E c \in byId : AliveWire(c, handle[c]) \/ negotiating[c] # 0

\* WebRTCAcceptor "Holds every connection it has negotiated so trickle ICE can
\* keep reaching it over the connection's life".
EveryAliveIsHeld == \A c \in ConnIds, g \in Gens : AliveWire(c, g) => conns[c] = g

\* What is kept of that: the end of another connection of the id, which drops the
\* id's entries by id alone, takes nothing from one that was negotiated when every
\* earlier one but the one it replaces had gone.
AliveIsHeld ==
  \A c \in ConnIds, g \in Gens : AliveWire(c, g) /\ g \notin overlapped[c] => conns[c] = g

\* Through offers that replace one another, expire, are refused or lose their
\* connection, in any order with the session's end: a client polls the answer of
\* its last offer only, and a connection that overlapped no earlier one of its id
\* can be reached by its id as long as it is alive, is under a deadline until it
\* connects, and does not outlive its session.
AcceptorHolds ==
  /\ AcceptorTypeOK
  /\ AnswerIsCurrent /\ AnsweredHasDeadline
  /\ AliveIsHeld /\ UnwoundIsDisconnected

\* At the ceiling no slot is given out twice and no port stays reserved for an
\* offer that is over.
CeilingHolds == SlotCeiling /\ PinIsHeld

===============================================================================
