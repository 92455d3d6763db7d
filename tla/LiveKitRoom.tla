------------------------------ MODULE LiveKitRoom ------------------------------
(***************************************************************************)
(* The LiveKit transport's room connections: the routes of                 *)
(* transport/livekit/router.py, the RoomSession each of them joins         *)
(* (room.py) and the close of its RoomConnection (connection.py), against  *)
(* the part of the runner they call.                                       *)
(*                                                                         *)
(* A RoomSession runs several tasks at once, each a program counter of its *)
(* record: join is _run_join, attempt is _connect_and_publish, finisher is *)
(* a _finish that has passed its guard, closer is RoomConnection.close as  *)
(* the runner calls it, abandon is _leave_abandoned and leave is the task  *)
(* _disconnect starts.  An action runs one of them from one await to the   *)
(* next.  Closes do not raise here: what a raising close does is           *)
(* SessionLifecycle's.                                                     *)
(***************************************************************************)
EXTENDS Naturals, FiniteSets

CONSTANTS Identities,   \* the participants that may be in a room
          Chosen,       \* the connection ids a caller chooses itself
          MaxRooms,     \* bound: room connections opened
          MaxSessions   \* bound: sessions started

ASSUME RoomAssumption == /\ MaxRooms \in Nat /\ MaxSessions \in Nat
                         /\ Chosen \cap (1..MaxRooms) = {}
                         /\ "room" \notin Identities

Rooms  == 1..MaxRooms
\* A minted id is new to its session; room r's is r.
RoomIds == Chosen \cup Rooms

VARIABLES
  serving,    \* the session machine: "ready", "open" or "closing"
  epoch,      \* OfferEpochs._current
  stamps,     \* OfferEpochs._stamps, 0 for none
  claims,     \* the ids this transport has claimed
  registry,   \* ConnectionManager._by_id: <<r, "room">> and <<r, identity>>
  toClose,    \* the room connections close_all has yet to close
  journal,    \* failures journalled: the room, and the session it was journalled in
  opened,     \* how many RoomSessions were built
  rooms,      \* each RoomSession's fields and tasks
  current,    \* LiveKitRouter._room and _room_epoch
  leaving,    \* LiveKitRouter._leaving
  opening     \* the open_room_connection that holds _opening across its await

runner == <<serving, epoch, stamps, claims, registry, toClose, journal>>
router == <<opened, current, leaving, opening>>
roomVars == <<runner, router, rooms>>

\* What every field of a RoomSession is before start.
Unstarted ==
  [id |-> 0, admitted |-> 0, state |-> "none", join |-> "none", attempt |-> "none",
   pending |-> FALSE, abandon |-> "none", leave |-> "none", leaves |-> 0,
   finisher |-> "none", tracked |-> FALSE, closer |-> "none", connection |-> "none",
   registered |-> FALSE, lost |-> FALSE, present |-> {}, clients |-> {}]

NoRoom == [room |-> 0, epoch |-> 0]
NotOpening == [id |-> 0, epoch |-> 0, previous |-> 0]

RoomInit ==
  /\ serving = "ready" /\ epoch = 0 /\ stamps = [i \in RoomIds |-> 0] /\ claims = {}
  /\ registry = {} /\ toClose = {} /\ journal = {} /\ opened = 0
  /\ rooms = [r \in Rooms |-> Unstarted]
  /\ current = NoRoom /\ leaving = {} /\ opening = NotOpening

Active(r)  == rooms[r].state \in {"joining", "open"}

\* RoomSession.settled: no task of _closing runs.  A _finish that a request
\* awaits is in no set.
Settled(r) ==
  /\ ~Active(r) /\ ~rooms[r].pending
  /\ rooms[r].join \in {"none", "done"}
  /\ ~(rooms[r].tracked /\ rooms[r].finisher \in {"pacer", "leave"})
  /\ ~rooms[r].lost
  /\ rooms[r].leave # "running"

\* _disconnect: the leave becomes a task of its own, never cancelled.
Disconnect(room) == [room EXCEPT !.leave = "running", !.leaves = @ + 1]

\* The wait of _disconnect is over: the leave ended, or its bound passed.
Waited(r) == rooms[r].leave # "none"

-----------------------------------------------------------------------------
(* The runner, as this transport uses it. *)

SessionStarts ==
  /\ serving = "ready" /\ epoch < MaxSessions
  /\ serving' = "open" /\ epoch' = epoch + 1
  /\ UNCHANGED <<stamps, claims, registry, toClose, journal, router, rooms>>

\* The session ends: close_all empties the registry and closes what was in it.
SessionEnds ==
  /\ serving = "open"
  /\ serving' = "closing"
  /\ toClose' = {r \in Rooms : <<r, "room">> \in registry}
  /\ registry' = {} /\ claims' = {}
  /\ UNCHANGED <<epoch, stamps, journal, router, rooms>>

\* RoomConnection.close: the first caller stops the pacer, in a thread; a later
\* one returns at once.
CloseConnection(room) ==
  IF room.connection = "closed"
    THEN [room EXCEPT !.closer = "done"]
    ELSE [room EXCEPT !.connection = "closed", !.closer = "pacer"]

TeardownCloses(r) ==
  /\ serving = "closing" /\ r \in toClose /\ rooms[r].closer = "none"
  /\ rooms' = [rooms EXCEPT ![r] = CloseConnection(@)]
  /\ UNCHANGED <<runner, router>>

SessionUnwinds ==
  /\ serving = "closing" /\ \A r \in toClose : rooms[r].closer = "done"
  /\ serving' = "ready" /\ toClose' = {}
  /\ UNCHANGED <<epoch, stamps, claims, registry, journal, router, rooms>>

\* Faulty: a wire is judged on the session's state alone.
RefusedOnState(i) == serving # "open"

\* Whether connection_opened refuses the id: the session is over, or the offer
\* was stamped in an earlier one.  An unstamped id is judged on state alone.
Refused(i) == serving # "open" \/ stamps[i] \notin {0, epoch}

-----------------------------------------------------------------------------
(* _finish *)

\* _finish past its guard: the participants and the connection are dropped
\* from the session, then the connection is closed, then the room is left.
\* While joining it only marks the room closed: the join leaves.
Finished(room, isTask) ==
  LET ended == [room EXCEPT !.state = "closed", !.registered = FALSE, !.clients = {}] IN
  IF room.state = "joining" THEN ended
  ELSE IF room.connection = "live"
    THEN [ended EXCEPT !.connection = "closed", !.finisher = "pacer", !.tracked = isTask]
    ELSE Disconnect([ended EXCEPT !.finisher = "leave", !.tracked = isTask])

\* connection_closed for the participants and, unless close_all has taken the
\* connection, for the room's id.
WithoutRoom(r) ==
  registry \ ({<<r, p>> : p \in Identities}
              \cup {<<q, "room">> : q \in IF /\ rooms[r].state = "open"
                                             /\ rooms[r].connection # "gone"
                                          THEN {q \in Rooms : rooms[q].id = rooms[r].id}
                                          ELSE {}})

FinishRoom(r, isTask) ==
  /\ rooms' = [rooms EXCEPT ![r] =
       Finished([rooms[r] EXCEPT !.lost = rooms[r].lost /\ ~isTask], isTask)]
  /\ registry' = WithoutRoom(r)

\* The finisher's connection.close returned: the room is left.
FinisherLeaves(r) ==
  /\ rooms[r].finisher = "pacer"
  /\ rooms' = [rooms EXCEPT ![r] = Disconnect([@ EXCEPT !.finisher = "leave"])]
  /\ UNCHANGED <<runner, router>>

FinisherReturns(r) ==
  /\ rooms[r].finisher = "leave" /\ Waited(r)
  /\ rooms' = [rooms EXCEPT ![r].finisher = "done"]
  /\ UNCHANGED <<runner, router>>

\* The pacer stopped: _connection_closed takes the participants and closes
\* them, sending what they queued, and then finishes the room.
CloserStopsPacer(r) ==
  /\ rooms[r].closer = "pacer"
  /\ rooms' = [rooms EXCEPT ![r] =
       IF @.clients # {} THEN [@ EXCEPT !.connection = "gone", !.clients = {}, !.closer = "drain"]
       ELSE IF Active(r)
         THEN Disconnect([@ EXCEPT !.connection = "gone", !.state = "closed",
                                   !.registered = FALSE, !.closer = "leave"])
         ELSE [@ EXCEPT !.connection = "gone", !.closer = "done"]]
  /\ UNCHANGED <<runner, router>>

CloserDrained(r) ==
  /\ rooms[r].closer = "drain"
  /\ rooms' = [rooms EXCEPT ![r] =
       IF Active(r) THEN Disconnect([@ EXCEPT !.state = "closed", !.registered = FALSE,
                                              !.clients = {}, !.closer = "leave"])
       ELSE [@ EXCEPT !.closer = "done"]]
  /\ registry' = IF Active(r) THEN registry \ {<<r, p>> : p \in Identities} ELSE registry
  /\ UNCHANGED <<serving, epoch, stamps, claims, toClose, journal, router>>

CloserReturns(r) ==
  /\ rooms[r].closer = "leave" /\ Waited(r)
  /\ rooms' = [rooms EXCEPT ![r].closer = "done"]
  /\ UNCHANGED <<runner, router>>

\* The leave answers, or raises; _leave_ended takes it out of the running ones.
LeaveEnds(r) ==
  /\ rooms[r].leave = "running"
  /\ rooms' = [rooms EXCEPT ![r].leave = "ended"]
  /\ UNCHANGED <<runner, router>>
-----------------------------------------------------------------------------
(* The join *)

AttemptSettles(r) ==
  /\ rooms[r].attempt = "running"
  /\ \E outcome \in {"joined", "refused"} : rooms' = [rooms EXCEPT ![r].attempt = outcome]
  /\ UNCHANGED <<runner, router>>

\* connection_failed: journalled unless the id is another transport's or no
\* one's, or the failure belongs to a session that is over.
JournalFailure(r) ==
  LET i == rooms[r].id IN
  IF i \notin claims THEN UNCHANGED <<stamps, journal>>
  ELSE /\ stamps' = [stamps EXCEPT ![i] = 0]
       /\ journal' = IF Refused(i) THEN journal ELSE journal \cup {<<r, epoch>>}

\* Faulty: the attempt is given up with the join, and nobody waits for it.
JoinForgotten(r) ==
  /\ rooms[r].join = "waiting" /\ rooms[r].attempt = "running"
  /\ rooms' = [rooms EXCEPT ![r].join = "done",
                            ![r].state = IF @ = "joining" THEN "failed" ELSE @]
  /\ IF rooms[r].state = "joining" THEN JournalFailure(r) ELSE UNCHANGED <<stamps, journal>>
  /\ UNCHANGED <<serving, epoch, claims, registry, toClose, router>>

\* The deadline passed first: the attempt runs on, and the room is left when
\* it settles.
JoinTimesOut(r) ==
  /\ rooms[r].join = "waiting" /\ rooms[r].attempt = "running"
  /\ rooms' = [rooms EXCEPT ![r].join = "done", ![r].pending = TRUE,
                            ![r].state = IF @ = "joining" THEN "failed" ELSE @]
  /\ IF rooms[r].state = "joining" THEN JournalFailure(r) ELSE UNCHANGED <<stamps, journal>>
  /\ UNCHANGED <<serving, epoch, claims, registry, toClose, router>>

\* Left while joining: the attempt has settled, so leaving is safe.
JoinLeaves(r) ==
  /\ rooms[r].join = "waiting" /\ rooms[r].attempt # "running" /\ rooms[r].state # "joining"
  /\ rooms' = [rooms EXCEPT ![r] = Disconnect([@ EXCEPT !.join = "leaving"])]
  /\ UNCHANGED <<runner, router>>

JoinRefused(r) ==
  /\ rooms[r].join = "waiting" /\ rooms[r].attempt = "refused" /\ rooms[r].state = "joining"
  /\ rooms' = [rooms EXCEPT ![r] = Disconnect([@ EXCEPT !.join = "failing", !.state = "failed"])]
  /\ UNCHANGED <<runner, router>>

\* _fail reports the failure after its leave.
JoinReturns(r) ==
  /\ rooms[r].join \in {"leaving", "failing"} /\ Waited(r)
  /\ rooms' = [rooms EXCEPT ![r].join = "done"]
  /\ IF rooms[r].join = "failing" THEN JournalFailure(r) ELSE UNCHANGED <<stamps, journal>>
  /\ UNCHANGED <<serving, epoch, claims, registry, toClose, router>>

\* The attempt joined: the connection opens, registered with the session, and
\* everyone in the room becomes its client; refused, the runner closes it.
JoinOpens(r) ==
  /\ rooms[r].join = "waiting" /\ rooms[r].attempt = "joined" /\ rooms[r].state = "joining"
  /\ LET i    == rooms[r].id
         open == [rooms[r] EXCEPT !.state = "open", !.join = "done", !.connection = "live"] IN
     /\ stamps' = [stamps EXCEPT ![i] = 0]
     /\ rooms' = [rooms EXCEPT ![r] =
          IF Refused(i) THEN CloseConnection(open)
          ELSE [open EXCEPT !.registered = TRUE, !.clients = open.present]]
     /\ registry' = IF Refused(i) THEN registry
                    ELSE registry \cup {<<r, "room">>} \cup {<<r, p>> : p \in rooms[r].present}
  /\ UNCHANGED <<serving, epoch, claims, toClose, journal, router>>

\* _leave_when_settled and the start of _leave_abandoned.
AbandonedLeaves(r) ==
  /\ rooms[r].pending /\ rooms[r].attempt # "running" /\ rooms[r].abandon = "none"
  /\ rooms' = [rooms EXCEPT ![r] = Disconnect([@ EXCEPT !.abandon = "leaving"])]
  /\ UNCHANGED <<runner, router>>

AbandonedReturns(r) ==
  /\ rooms[r].abandon = "leaving" /\ Waited(r)
  /\ rooms' = [rooms EXCEPT ![r].abandon = "done", ![r].pending = FALSE]
  /\ UNCHANGED <<runner, router>>

-----------------------------------------------------------------------------
(* The room's events *)

\* A participant joins the room: it becomes a client once the room connection
\* is registered, unless the session refuses it.
AddParticipant(r, p) ==
  /\ p \notin rooms[r].present /\ rooms[r].registered
  /\ rooms' = [rooms EXCEPT ![r].present = @ \cup {p},
                            ![r].clients = IF serving = "open" THEN @ \cup {p} ELSE @]
  /\ registry' = IF serving = "open" THEN registry \cup {<<r, p>>} ELSE registry
  /\ UNCHANGED <<serving, epoch, stamps, claims, toClose, journal, router>>

\* The same event before the registration, or after the end: nobody is a client.
ParticipantIgnored(r, p) ==
  /\ p \notin rooms[r].present /\ ~rooms[r].registered
  /\ rooms[r].attempt \in {"running", "joined"} /\ rooms[r].leave = "none"
  /\ rooms' = [rooms EXCEPT ![r].present = @ \cup {p}]
  /\ UNCHANGED <<runner, router>>

RemoveParticipant(r, p) ==
  /\ p \in rooms[r].present
  /\ rooms' = [rooms EXCEPT ![r].present = @ \ {p}, ![r].clients = @ \ {p}]
  /\ registry' = IF p \in rooms[r].clients THEN registry \ {<<r, p>>} ELSE registry
  /\ UNCHANGED <<serving, epoch, stamps, claims, toClose, journal, router>>

\* The room drops the session's participant: a _finish task is made, tracked.
OnDisconnected(r) ==
  /\ rooms[r].state = "open" /\ ~rooms[r].lost
  /\ rooms' = [rooms EXCEPT ![r].lost = TRUE]
  /\ UNCHANGED <<runner, router>>

\* Faulty: the lost connection's task does not ask whether the room is over.
LostFinishesAgain(r) ==
  /\ rooms[r].lost
  /\ FinishRoom(r, TRUE)
  /\ UNCHANGED <<serving, epoch, stamps, claims, toClose, journal, router>>

LostFinishes(r) ==
  /\ rooms[r].lost
  /\ IF Active(r) THEN FinishRoom(r, TRUE)
     ELSE rooms' = [rooms EXCEPT ![r].lost = FALSE] /\ UNCHANGED registry
  /\ UNCHANGED <<serving, epoch, stamps, claims, toClose, journal, router>>

-----------------------------------------------------------------------------
(* The routes *)

\* The rest of open_room_connection, once any retired room is done: claim and
\* stamp the id, start the join, keep the previous room while it is unsettled.
\* The epoch is the one read before the await.
Admit(i, e, previous, retired) ==
  LET r == opened + 1 IN
  /\ i \notin claims /\ opened < MaxRooms
  /\ claims' = claims \cup {i} /\ stamps' = [stamps EXCEPT ![i] = epoch]
  /\ rooms' = [retired EXCEPT ![r] = [Unstarted EXCEPT !.id = i, !.admitted = epoch,
                                      !.state = "joining", !.join = "waiting",
                                      !.attempt = "running"]]
  /\ opened' = r /\ current' = [room |-> r, epoch |-> e]
  /\ leaving' = {q \in leaving \cup (IF previous = 0 THEN {} ELSE {previous}) : ~Settled(q)}

\* require_session_running, the one-room rule, and the claim when nothing has
\* to be retired first, or only a join, which retires without yielding.
OpenRoom(i) ==
  LET p == current.room
      retire == p # 0 /\ current.epoch # epoch /\ Active(p) IN
  /\ serving = "open" /\ opening = NotOpening /\ i \in Chosen \cup {opened + 1}
  /\ p # 0 /\ current.epoch = epoch => ~Active(p) /\ Settled(p)
  /\ retire => rooms[p].state = "joining"
  /\ Admit(i, epoch, p, IF retire THEN [rooms EXCEPT ![p] = Finished(@, FALSE)] ELSE rooms)
  /\ UNCHANGED <<serving, epoch, registry, toClose, journal, opening>>

\* The session's last room is open in an ended session: retire it, and wait.
OpenRetires(i) ==
  LET p == current.room IN
  /\ serving = "open" /\ opening = NotOpening /\ i \in Chosen \cup {opened + 1}
  /\ opened < MaxRooms
  /\ p # 0 /\ current.epoch # epoch /\ rooms[p].state = "open"
  /\ FinishRoom(p, FALSE)
  /\ opening' = [id |-> i, epoch |-> epoch, previous |-> p]
  /\ UNCHANGED <<serving, epoch, stamps, claims, toClose, journal, opened, current, leaving>>

\* The retired room's _finish returned.  Nothing is checked again.
OpenResumes ==
  /\ opening # NotOpening /\ rooms[opening.previous].finisher = "done"
  /\ opening' = NotOpening
  /\ IF opening.id \in claims \/ opened = MaxRooms
       THEN UNCHANGED <<claims, stamps, rooms, opened, current, leaving>>
       ELSE Admit(opening.id, opening.epoch, opening.previous, rooms)
  /\ UNCHANGED <<serving, epoch, registry, toClose, journal>>

\* leave_room: the request awaits _finish itself.
LeaveRoom ==
  LET r == current.room IN
  /\ serving = "open" /\ r # 0 /\ current.epoch = epoch /\ Active(r)
  /\ FinishRoom(r, FALSE)
  /\ UNCHANGED <<serving, epoch, stamps, claims, toClose, journal, router>>

-----------------------------------------------------------------------------
Join(r)   == JoinTimesOut(r) \/ JoinLeaves(r) \/ JoinRefused(r) \/ JoinReturns(r) \/ JoinOpens(r)
Finish(r) == FinisherLeaves(r) \/ FinisherReturns(r) \/ LostFinishes(r)
Close(r)  == TeardownCloses(r) \/ CloserStopsPacer(r) \/ CloserDrained(r) \/ CloserReturns(r)
Abandon(r) == AbandonedLeaves(r) \/ AbandonedReturns(r)
Work(r)   == Join(r) \/ Finish(r) \/ Close(r) \/ Abandon(r)

RoomNext ==
  \/ SessionStarts \/ SessionEnds \/ SessionUnwinds
  \/ \E i \in RoomIds : OpenRoom(i) \/ OpenRetires(i)
  \/ OpenResumes \/ LeaveRoom
  \/ \E r \in Rooms : \/ Work(r) \/ AttemptSettles(r) \/ LeaveEnds(r) \/ OnDisconnected(r)
                      \/ \E p \in Identities : \/ AddParticipant(r, p)
                                               \/ ParticipantIgnored(r, p)
                                               \/ RemoveParticipant(r, p)

\* The loop runs every task that is ready, and the SDK settles an attempt; it
\* need not answer a leave.
RoomFairness == \A r \in Rooms : WF_roomVars(Work(r)) /\ WF_roomVars(AttemptSettles(r))

RoomSpec == RoomInit /\ [][RoomNext]_roomVars /\ RoomFairness

-----------------------------------------------------------------------------
(* Properties *)

\* No room is left twice, whichever of the request, the session's teardown,
\* the lost connection and the abandoned join come together ("Join one room
\* for one room connection, and leave it once").
LeftOnce == \A r \in Rooms : rooms[r].leaves <= 1

\* A room connection registered with the session under an id that was minted for
\* it was admitted by that session, and everyone registered through a room has
\* that room's own connection registered: a participant is never a client of a
\* session its room is not connected to.
RegisteredBelongs ==
  /\ \A r \in Rooms : <<r, "room">> \in registry /\ rooms[r].id \notin Chosen
                        => rooms[r].admitted = epoch
  /\ \A r \in Rooms, p \in Identities : <<r, p>> \in registry => <<r, "room">> \in registry

\* A room connection is its session's for as long as it is registered, and is
\* left once.
RoomHolds == LeftOnce /\ RegisteredBelongs

\* A room connection that is over is left: whatever ended it, and whenever its
\* attempt settles, the room does not keep its participant.
EndedIsLeft == \A r \in Rooms : rooms[r].state \in {"failed", "closed"} ~> rooms[r].leaves = 1

\* A room connection a later one replaces is kept until it has left its room,
\* so that shutdown waits for it (router.py, LiveKitRouter).
KeptUntilLeft ==
  \A r \in Rooms : \/ r \in leaving \cup {current.room}
                   \/ rooms[r].state = "none"
                   \/ rooms[r].leave = "ended"

\* connection_opened: a wire whose negotiation finishes "with a later session
\* already running" is "closed instead of registered", whoever chose its id.
RegisteredInItsSession ==
  \A r \in Rooms : <<r, "room">> \in registry => rooms[r].admitted = epoch

\* A join's failure is journalled in the session that admitted it
\* (runner.py, connection_failed).
FailureStaysInItsSession == \A entry \in journal : rooms[entry[1]].admitted = entry[2]

=============================================================================
