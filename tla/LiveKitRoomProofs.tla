--------------------------- MODULE LiveKitRoomProofs ---------------------------
(***************************************************************************)
(* Proofs about LiveKitRoom, for every set of participants and chosen ids  *)
(* and any number of rooms and sessions.                                   *)
(***************************************************************************)
EXTENDS LiveKitRoom, ParticipantOutbox, TLAPS

-------------------------------------------------------------------------------
(* The inductive invariant.                                                *)

RoomStates    == {"none", "joining", "open", "failed", "closed"}
JoinSteps     == {"none", "waiting", "leaving", "failing", "done"}
AttemptSteps  == {"none", "running", "joined", "refused"}
AbandonSteps  == {"none", "leaving", "done"}
LeaveSteps    == {"none", "running", "ended"}
FinisherSteps == {"none", "pacer", "leave", "done"}
CloserSteps   == {"none", "pacer", "drain", "leave", "done"}
Connections   == {"none", "live", "closed", "gone"}

RoomRecords ==
  [id : RoomIds \cup {0}, admitted : 0..MaxSessions, state : RoomStates, join : JoinSteps,
   attempt : AttemptSteps, pending : BOOLEAN, abandon : AbandonSteps, leave : LeaveSteps,
   leaves : Nat, finisher : FinisherSteps, tracked : BOOLEAN, closer : CloserSteps,
   connection : Connections, registered : BOOLEAN, lost : BOOLEAN,
   present : SUBSET Identities, clients : SUBSET Identities]

RoomTypeOK ==
  /\ serving \in {"ready", "open", "closing"} /\ epoch \in 0..MaxSessions
  /\ stamps \in [RoomIds -> 0..MaxSessions] /\ opened \in 0..MaxRooms
  /\ rooms \in [Rooms -> RoomRecords]
  /\ current \in [room : 0..MaxRooms, epoch : 0..MaxSessions]
  /\ opening \in [id : RoomIds \cup {0}, epoch : 0..MaxSessions, previous : 0..MaxRooms]

\* Someone is still to leave the room: whoever ends it while it is active, its
\* join, the _finish that waits for the pacer, or the abandoned attempt.
Owed(m) ==
  \/ m.state \in {"joining", "open"} \/ m.join = "waiting"
  \/ m.finisher = "pacer" \/ (m.pending /\ m.abandon = "none")

\* There is one of them at a time, and none once the room was left.
OneLeaver(m) ==
  /\ m.leaves <= 1
  /\ Owed(m) => m.leaves = 0
  /\ m.state = "joining" => m.join = "waiting"
  /\ m.state = "open" => m.join = "done"
  /\ m.state \in {"joining", "open"} => ~m.pending /\ m.finisher = "none"
  /\ m.join = "waiting" => /\ m.state \in {"joining", "closed"} /\ ~m.pending /\ m.abandon = "none"
                           /\ m.finisher = "none" /\ m.closer = "none" /\ ~m.registered
  /\ m.finisher = "pacer" => m.state = "closed" /\ ~m.pending
  /\ m.pending => m.join = "done"

\* A registered room connection is open, and live until its close has begun.
OpenWhileRegistered(m) ==
  m.registered => /\ m.state = "open" /\ m.closer \in {"none", "pacer", "drain"}
                  /\ m.closer = "none" => m.connection = "live"

\* A room that has not opened still has the stamp of its admission, if nobody
\* chose its id.
KeepsStamp(r) ==
  /\ rooms[r].id \in Chosen \cup {0, r}
  /\ rooms[r].state = "joining" /\ rooms[r].id \notin Chosen =>
       rooms[r].id = r /\ stamps[r] = rooms[r].admitted /\ rooms[r].admitted > 0

\* The room's flag and the manager's table say the same while the session serves,
\* and the teardown closes what was registered.
AgreesWithRegistry(r) ==
  /\ <<r, "room">> \in registry => serving = "open" /\ rooms[r].registered
  /\ rooms[r].registered =>
       \/ serving = "open" /\ <<r, "room">> \in registry /\ rooms[r].closer = "none"
       \/ serving = "closing" /\ r \in toClose
  /\ <<r, "room">> \in registry /\ rooms[r].id \notin Chosen => rooms[r].admitted = epoch
  /\ \A p \in Identities : <<r, p>> \in registry => <<r, "room">> \in registry
  /\ r \in toClose => rooms[r].join = "done" /\ r <= opened

\* One room is active at most, the router's.
OneActive(r) == Active(r) => r = current.room

RoomParts(r) ==
  /\ OneLeaver(rooms[r]) /\ OpenWhileRegistered(rooms[r])
  /\ KeepsStamp(r) /\ AgreesWithRegistry(r) /\ OneActive(r)

\* A request that waits for the room it retires holds the router's lock.
OpeningHolds ==
  /\ serving = "open" => epoch > 0
  /\ current.room <= opened
  /\ opening # NotOpening =>
       /\ epoch > 0 /\ opening.id \in Chosen \cup {opened + 1}
       /\ opening.previous = current.room /\ current.room \in Rooms /\ ~Active(current.room)

RoomInv == RoomTypeOK /\ OpeningHolds /\ \A r \in Rooms : RoomParts(r)

-------------------------------------------------------------------------------
(* What the operators make of a room.                                      *)

LEMMA StepNames ==
  /\ \A v \in {"failed", "closed", "open", "joining"} : v \in RoomStates
  /\ \A v \in {"waiting", "leaving", "failing", "done"} : v \in JoinSteps
  /\ \A v \in {"running", "joined", "refused"} : v \in AttemptSteps
  /\ \A v \in {"leaving", "done"} : v \in AbandonSteps
  /\ \A v \in {"running", "ended"} : v \in LeaveSteps
  /\ \A v \in {"pacer", "leave", "done"} : v \in FinisherSteps
  /\ \A v \in {"pacer", "drain", "leave", "done"} : v \in CloserSteps
  /\ \A v \in {"live", "closed", "gone"} : v \in Connections
BY DEF RoomStates, JoinSteps, AttemptSteps, AbandonSteps, LeaveSteps, FinisherSteps, CloserSteps, Connections

\* A RoomSession before start.
LEMMA UnstartedFacts ==
  /\ Unstarted \in RoomRecords /\ Unstarted.state = "none" /\ Unstarted.join = "none"
  /\ Unstarted.leaves = 0 /\ Unstarted.pending = FALSE /\ Unstarted.finisher = "none"
  /\ Unstarted.abandon = "none" /\ Unstarted.closer = "none" /\ Unstarted.registered = FALSE
  /\ Unstarted.id = 0
<1>1. 0 \in 0..MaxSessions /\ 0 \in Nat /\ {} \in SUBSET Identities
  BY RoomAssumption
<1>2. /\ "none" \in RoomStates /\ "none" \in JoinSteps /\ "none" \in AttemptSteps
      /\ "none" \in AbandonSteps /\ "none" \in LeaveSteps /\ "none" \in FinisherSteps
      /\ "none" \in CloserSteps /\ "none" \in Connections
  BY DEF RoomStates, JoinSteps, AttemptSteps, AbandonSteps, LeaveSteps, FinisherSteps, CloserSteps, Connections
<1> QED BY <1>1, <1>2 DEF Unstarted, RoomRecords

\* _disconnect starts a leave and touches nothing else.
LEMMA DisconnectFacts ==
  ASSUME NEW m \in RoomRecords
  PROVE  /\ Disconnect(m) \in RoomRecords
         /\ Disconnect(m).leaves = m.leaves + 1
         /\ Disconnect(m).state = m.state /\ Disconnect(m).join = m.join
         /\ Disconnect(m).finisher = m.finisher /\ Disconnect(m).pending = m.pending
         /\ Disconnect(m).abandon = m.abandon /\ Disconnect(m).closer = m.closer
         /\ Disconnect(m).registered = m.registered /\ Disconnect(m).connection = m.connection
         /\ Disconnect(m).id = m.id /\ Disconnect(m).admitted = m.admitted
<1>1. m.leaves + 1 \in Nat
  BY DEF RoomRecords
<1>2. Disconnect(m) = [m EXCEPT !.leave = "running", !.leaves = m.leaves + 1]
  BY DEF Disconnect
<1>3. ASSUME NEW n \in Nat, Disconnect(m) = [m EXCEPT !.leave = "running", !.leaves = n]
      PROVE  /\ Disconnect(m) \in RoomRecords
             /\ Disconnect(m).leaves = n
             /\ Disconnect(m).state = m.state /\ Disconnect(m).join = m.join
             /\ Disconnect(m).finisher = m.finisher /\ Disconnect(m).pending = m.pending
             /\ Disconnect(m).abandon = m.abandon /\ Disconnect(m).closer = m.closer
             /\ Disconnect(m).registered = m.registered /\ Disconnect(m).connection = m.connection
             /\ Disconnect(m).id = m.id /\ Disconnect(m).admitted = m.admitted
  BY <1>3, StepNames DEF RoomRecords
<1> QED BY <1>1, <1>2, <1>3

\* _finish of an active room closes it, unregisters it, and is the one that
\* leaves it, now or once the pacer stopped; of a joining one, the join leaves.
LEMMA FinishedFacts ==
  ASSUME NEW m \in RoomRecords, NEW isTask \in BOOLEAN, OneLeaver(m), m.state \in {"joining", "open"}
  PROVE  /\ Finished(m, isTask) \in RoomRecords /\ OneLeaver(Finished(m, isTask))
         /\ Finished(m, isTask).state = "closed" /\ ~Finished(m, isTask).registered
         /\ Finished(m, isTask).id = m.id /\ Finished(m, isTask).admitted = m.admitted
<1> DEFINE ended == [m EXCEPT !.state = "closed", !.registered = FALSE, !.clients = {}]
<1>1. /\ ended \in RoomRecords /\ ended.state = "closed" /\ ended.registered = FALSE
      /\ ended.join = m.join /\ ended.pending = m.pending /\ ended.abandon = m.abandon
      /\ ended.finisher = m.finisher /\ ended.closer = m.closer /\ ended.leaves = m.leaves
      /\ ended.id = m.id /\ ended.admitted = m.admitted
  BY StepNames DEF RoomRecords
<1>2. CASE m.state = "joining"
  <2>1. Finished(m, isTask) = ended
    BY <1>2 DEF Finished
  <2> QED BY <1>1, <1>2, <2>1 DEF OneLeaver, Owed
<1>3. CASE m.state = "open" /\ m.connection = "live"
  <2> DEFINE f == [ended EXCEPT !.connection = "closed", !.finisher = "pacer", !.tracked = isTask]
  <2>1. Finished(m, isTask) = f
    BY <1>3 DEF Finished
  <2> HIDE DEF ended
  <2>2. /\ f \in RoomRecords /\ f.state = "closed" /\ f.registered = FALSE
        /\ f.join = m.join /\ f.pending = m.pending /\ f.abandon = m.abandon
        /\ f.finisher = "pacer" /\ f.leaves = m.leaves /\ f.id = m.id /\ f.admitted = m.admitted
    BY <1>1, StepNames DEF RoomRecords
  <2> HIDE DEF f
  <2> QED BY <1>3, <2>1, <2>2 DEF OneLeaver, Owed
<1>4. CASE m.state = "open" /\ m.connection # "live"
  <2> DEFINE f == [ended EXCEPT !.finisher = "leave", !.tracked = isTask]
  <2>1. Finished(m, isTask) = Disconnect(f)
    BY <1>4 DEF Finished
  <2> HIDE DEF ended
  <2>2. /\ f \in RoomRecords /\ f.state = "closed" /\ f.registered = FALSE
        /\ f.join = m.join /\ f.pending = m.pending /\ f.abandon = m.abandon
        /\ f.finisher = "leave" /\ f.leaves = m.leaves /\ f.id = m.id /\ f.admitted = m.admitted
    BY <1>1, StepNames DEF RoomRecords
  <2> HIDE DEF f
  <2> QED BY <1>4, <2>1, <2>2, DisconnectFacts DEF OneLeaver, Owed
<1> QED BY <1>2, <1>3, <1>4

\* An open room's _finish leaves its join as it was.
LEMMA FinishedJoin ==
  ASSUME NEW m \in RoomRecords, NEW isTask \in BOOLEAN
  PROVE  Finished(m, isTask).join = m.join
<1> DEFINE ended == [m EXCEPT !.state = "closed", !.registered = FALSE, !.clients = {}]
<1>1. ended \in RoomRecords /\ ended.join = m.join
  BY StepNames DEF RoomRecords
<1> HIDE DEF ended
<1>2. /\ [ended EXCEPT !.finisher = "leave", !.tracked = isTask] \in RoomRecords
      /\ [ended EXCEPT !.finisher = "leave", !.tracked = isTask].join = m.join
      /\ [ended EXCEPT !.connection = "closed", !.finisher = "pacer", !.tracked = isTask].join = m.join
  BY <1>1, StepNames DEF RoomRecords
<1>3. Disconnect([ended EXCEPT !.finisher = "leave", !.tracked = isTask]).join = m.join
  BY <1>2, DisconnectFacts
<1>4. Finished(m, isTask) \in {ended, [ended EXCEPT !.connection = "closed", !.finisher = "pacer", !.tracked = isTask],
                               Disconnect([ended EXCEPT !.finisher = "leave", !.tracked = isTask])}
  BY DEF Finished, ended
<1> QED BY <1>1, <1>2, <1>3, <1>4

\* RoomConnection.close changes who closes and nothing of who leaves.
LEMMA CloseFacts ==
  ASSUME NEW m \in RoomRecords
  PROVE  /\ CloseConnection(m) \in RoomRecords
         /\ CloseConnection(m).closer \in {"pacer", "done"}
         /\ m.connection # "closed" => CloseConnection(m).closer = "pacer"
         /\ CloseConnection(m).leaves = m.leaves
         /\ CloseConnection(m).state = m.state /\ CloseConnection(m).join = m.join
         /\ CloseConnection(m).finisher = m.finisher /\ CloseConnection(m).pending = m.pending
         /\ CloseConnection(m).abandon = m.abandon /\ CloseConnection(m).registered = m.registered
         /\ CloseConnection(m).id = m.id /\ CloseConnection(m).admitted = m.admitted
<1>1. CASE m.connection = "closed"
  <2>1. CloseConnection(m) = [m EXCEPT !.closer = "done"]
    BY <1>1 DEF CloseConnection
  <2> QED BY <1>1, <2>1, StepNames DEF RoomRecords
<1>2. CASE m.connection # "closed"
  <2>1. CloseConnection(m) = [m EXCEPT !.connection = "closed", !.closer = "pacer"]
    BY <1>2 DEF CloseConnection
  <2> QED BY <2>1, StepNames DEF RoomRecords
<1> QED BY <1>1, <1>2

-------------------------------------------------------------------------------
(* One room at a time.                                                     *)

\* What the rest of the system sees of a step of room r, and what is left to
\* show of the room itself.
RoomMoves(r, m) ==
  /\ rooms' = [rooms EXCEPT ![r] = m] /\ m \in RoomRecords
  /\ OneLeaver(m) /\ OpenWhileRegistered(m)
  /\ m.id = rooms[r].id /\ m.admitted = rooms[r].admitted
  /\ m.state \in {"joining", "open"} => Active(r)
  /\ m.state = "joining" => rooms[r].state = "joining" /\ stamps' = stamps
  /\ stamps' \in [RoomIds -> 0..MaxSessions] /\ \A q \in Rooms : q # r => stamps'[q] = stamps[q]
  /\ UNCHANGED <<serving, epoch, toClose, opened, current>>
  /\ \A q \in Rooms : q # r => /\ <<q, "room">> \in registry' <=> <<q, "room">> \in registry
                               /\ \A p \in Identities : <<q, p>> \in registry' => <<q, p>> \in registry
  /\ <<r, "room">> \in registry' => serving = "open" /\ m.registered
  /\ m.registered => \/ serving = "open" /\ <<r, "room">> \in registry' /\ m.closer = "none"
                     \/ serving = "closing" /\ r \in toClose
  /\ <<r, "room">> \in registry' /\ m.id \notin Chosen => m.admitted = epoch
  /\ \A p \in Identities : <<r, p>> \in registry' => <<r, "room">> \in registry'
  /\ rooms[r].join = "done" => m.join = "done"

LEMMA RoomMovesStep ==
  ASSUME RoomInv, NEW r \in Rooms, NEW m, RoomMoves(r, m),
         opening' \in [id : RoomIds \cup {0}, epoch : 0..MaxSessions, previous : 0..MaxRooms],
         opening' = opening \/ OpeningHolds'
  PROVE  RoomInv'
<1> USE RoomAssumption
<1>1. /\ rooms' = [rooms EXCEPT ![r] = m] /\ m \in RoomRecords
      /\ UNCHANGED <<serving, epoch, toClose, opened, current>>
      /\ stamps' \in [RoomIds -> 0..MaxSessions]
  BY DEF RoomMoves
<1>2. rooms'[r] = m /\ \A q \in Rooms : q # r => rooms'[q] = rooms[q]
  BY <1>1 DEF RoomInv, RoomTypeOK
<1>3. RoomTypeOK'
  BY <1>1 DEF RoomInv, RoomTypeOK
<1>4. \A q \in Rooms : Active(q)' => Active(q)
  BY <1>2 DEF Active, RoomMoves
<1>5. OpeningHolds'
  <2>1. CASE opening' = opening
    BY <1>1, <1>4, <2>1 DEF RoomInv, OpeningHolds
  <2> QED BY <2>1
<1>6. RoomParts(r)'
  <2>1. RoomParts(r)
    BY DEF RoomInv
  <2>2. OneLeaver(rooms'[r]) /\ OpenWhileRegistered(rooms'[r])
    BY <1>2 DEF RoomMoves
  <2>3. KeepsStamp(r)'
    BY <1>2, <2>1 DEF RoomMoves, RoomParts, KeepsStamp
  <2>4. AgreesWithRegistry(r)'
    BY <1>1, <1>2, <2>1 DEF RoomParts, RoomMoves, AgreesWithRegistry
  <2>5. OneActive(r)'
    BY <1>1, <1>4, <2>1 DEF RoomParts, OneActive
  <2> QED BY <2>2, <2>3, <2>4, <2>5 DEF RoomParts
<1>7. ASSUME NEW q \in Rooms, q # r PROVE RoomParts(q)'
  <2>1. RoomParts(q) /\ rooms'[q] = rooms[q]
    BY <1>2, <1>7 DEF RoomInv
  <2>2. stamps'[q] = stamps[q]
    BY <1>7 DEF RoomMoves
  <2>3. KeepsStamp(q)'
    BY <2>1, <2>2 DEF RoomParts, KeepsStamp
  <2>4. AgreesWithRegistry(q)'
    BY <1>1, <1>7, <2>1 DEF RoomParts, RoomMoves, AgreesWithRegistry
  <2>5. OneActive(q)'
    BY <1>1, <1>4, <2>1 DEF RoomParts, OneActive
  <2> QED BY <2>1, <2>3, <2>4, <2>5 DEF RoomParts
<1> QED BY <1>3, <1>5, <1>6, <1>7 DEF RoomInv

\* A step of a room that the runner and the router do not see.
LEMMA QuietMoveStep ==
  ASSUME RoomInv, NEW r \in Rooms, NEW m \in RoomRecords,
         rooms' = [rooms EXCEPT ![r] = m], UNCHANGED <<runner, router>>,
         OneLeaver(m), OpenWhileRegistered(m),
         m.id = rooms[r].id, m.admitted = rooms[r].admitted,
         m.state \in {"joining", "open"} => m.state = rooms[r].state,
         m.registered => rooms[r].registered, rooms[r].join = "done" => m.join = "done",
         rooms[r].registered /\ serving = "open" => m.registered /\ m.closer = "none"
  PROVE  RoomInv'
<1> USE DEF runner, router
<1>1. AgreesWithRegistry(r) /\ RoomTypeOK
  BY DEF RoomInv, RoomParts
<1>2. UNCHANGED <<serving, epoch, stamps, claims, registry, toClose, opened, current, opening>>
  OBVIOUS
<1>3. RoomMoves(r, m)
  BY <1>1, <1>2 DEF RoomMoves, AgreesWithRegistry, RoomTypeOK, Active
<1>4. opening' \in [id : RoomIds \cup {0}, epoch : 0..MaxSessions, previous : 0..MaxRooms]
  BY <1>1, <1>2 DEF RoomTypeOK
<1> QED BY <1>2, <1>3, <1>4, RoomMovesStep

\* Two records of a room that the invariant does not tell apart.
Alike(m, n) ==
  /\ n.leaves = m.leaves /\ n.state = m.state /\ n.join = m.join /\ n.finisher = m.finisher
  /\ n.pending = m.pending /\ n.abandon = m.abandon /\ n.closer = m.closer
  /\ n.registered = m.registered /\ n.connection = m.connection
  /\ n.id = m.id /\ n.admitted = m.admitted

LEMMA AlikeKeeps ==
  ASSUME NEW m, NEW n, Alike(m, n)
  PROVE  /\ OneLeaver(m) => OneLeaver(n)
         /\ OpenWhileRegistered(m) => OpenWhileRegistered(n)
BY DEF Alike, OneLeaver, Owed, OpenWhileRegistered

\* The attempt settles, the leave answers, a participant is ignored, the room is
\* lost, or its _finish finds it over.
LEMMA UnseenStep ==
  ASSUME RoomInv, NEW r \in Rooms,
         \/ AttemptSettles(r) \/ LeaveEnds(r) \/ OnDisconnected(r)
         \/ \E p \in Identities : ParticipantIgnored(r, p)
         \/ LostFinishes(r) /\ ~Active(r)
  PROVE  RoomInv'
<1> DEFINE R == rooms[r]
<1>1. R \in RoomRecords /\ OneLeaver(R) /\ OpenWhileRegistered(R) /\ AgreesWithRegistry(r) /\ RoomTypeOK
  BY DEF RoomInv, RoomParts, RoomTypeOK
<1>2. ASSUME NEW m \in RoomRecords, Alike(R, m), rooms' = [rooms EXCEPT ![r] = m], UNCHANGED <<runner, router>>
      PROVE  RoomInv'
  <2>1. OneLeaver(m) /\ OpenWhileRegistered(m)
    BY <1>1, <1>2, AlikeKeeps
  <2>2. R.registered /\ serving = "open" => R.closer = "none"
    BY <1>1 DEF AgreesWithRegistry
  <2> HIDE DEF R
  <2> QED BY <1>2, <2>1, <2>2, QuietMoveStep DEF Alike, R
<1> HIDE DEF R
<1>3. ASSUME NEW v \in AttemptSteps, rooms' = [rooms EXCEPT ![r].attempt = v], UNCHANGED <<runner, router>>
      PROVE  RoomInv'
  <2> DEFINE m == [R EXCEPT !.attempt = v]
  <2>1. m \in RoomRecords /\ Alike(R, m)
    BY <1>1 DEF RoomRecords, Alike
  <2>2. rooms' = [rooms EXCEPT ![r] = m]
    BY <1>1, <1>3 DEF R
  <2> QED BY <1>2, <1>3, <2>1, <2>2
<1>4. ASSUME NEW v \in LeaveSteps, rooms' = [rooms EXCEPT ![r].leave = v], UNCHANGED <<runner, router>>
      PROVE  RoomInv'
  <2> DEFINE m == [R EXCEPT !.leave = v]
  <2>1. m \in RoomRecords /\ Alike(R, m)
    BY <1>1 DEF RoomRecords, Alike
  <2>2. rooms' = [rooms EXCEPT ![r] = m]
    BY <1>1, <1>4 DEF R
  <2> QED BY <1>2, <1>4, <2>1, <2>2
<1>5. ASSUME NEW v \in BOOLEAN, rooms' = [rooms EXCEPT ![r].lost = v], UNCHANGED <<runner, router>>
      PROVE  RoomInv'
  <2> DEFINE m == [R EXCEPT !.lost = v]
  <2>1. m \in RoomRecords /\ Alike(R, m)
    BY <1>1 DEF RoomRecords, Alike
  <2>2. rooms' = [rooms EXCEPT ![r] = m]
    BY <1>1, <1>5 DEF R
  <2> QED BY <1>2, <1>5, <2>1, <2>2
<1>6. ASSUME NEW p \in Identities, ParticipantIgnored(r, p) PROVE RoomInv'
  <2> DEFINE m == [R EXCEPT !.present = @ \cup {p}]
  <2>1. m \in RoomRecords /\ Alike(R, m)
    BY <1>1 DEF RoomRecords, Alike
  <2>2. rooms' = [rooms EXCEPT ![r] = m] /\ UNCHANGED <<runner, router>>
    BY <1>1, <1>6 DEF ParticipantIgnored, R
  <2> QED BY <1>2, <2>1, <2>2
<1>7. CASE AttemptSettles(r)
  BY <1>3, <1>7, StepNames DEF AttemptSettles
<1>8. CASE LeaveEnds(r)
  BY <1>4, <1>8, StepNames DEF LeaveEnds
<1>9. CASE OnDisconnected(r)
  BY <1>5, <1>9 DEF OnDisconnected
<1>10. CASE LostFinishes(r) /\ ~Active(r)
  <2>1. rooms' = [rooms EXCEPT ![r].lost = FALSE] /\ UNCHANGED <<runner, router>>
    BY <1>10 DEF LostFinishes, runner
  <2> QED BY <1>5, <2>1
<1> QED BY <1>6, <1>7, <1>8, <1>9, <1>10

\* The tasks that leave the room, and the runner's close: each acts for itself,
\* and at most one of them leaves.
LEMMA LeaverStep ==
  ASSUME RoomInv, NEW r \in Rooms,
         \/ FinisherLeaves(r) \/ FinisherReturns(r) \/ JoinLeaves(r) \/ JoinRefused(r)
         \/ AbandonedLeaves(r) \/ AbandonedReturns(r)
  PROVE  RoomInv'
<1> DEFINE R == rooms[r]
<1>1. R \in RoomRecords /\ OneLeaver(R) /\ OpenWhileRegistered(R) /\ AgreesWithRegistry(r) /\ RoomTypeOK
  BY DEF RoomInv, RoomParts, RoomTypeOK
<1>2. R.registered /\ serving = "open" => R.closer = "none"
  BY <1>1 DEF AgreesWithRegistry
<1>3. ASSUME NEW m \in RoomRecords, rooms' = [rooms EXCEPT ![r] = m], UNCHANGED <<runner, router>>,
             OneLeaver(m), R.join = "done" => m.join = "done", m.id = R.id, m.admitted = R.admitted, m.closer = R.closer,
             m.connection = R.connection, m.registered = R.registered,
             m.state = R.state \/ (~R.registered /\ m.state = "failed")
      PROVE  RoomInv'
  <2>1. OpenWhileRegistered(m)
    BY <1>1, <1>3 DEF OpenWhileRegistered
  <2> HIDE DEF R
  <2> QED BY <1>2, <1>3, <2>1, QuietMoveStep DEF R
<1> HIDE DEF R
<1>4. CASE FinisherLeaves(r)
  <2> DEFINE n == [R EXCEPT !.finisher = "leave"]
  <2>1. rooms' = [rooms EXCEPT ![r] = Disconnect(n)] /\ UNCHANGED <<runner, router>> /\ R.finisher = "pacer"
    BY <1>4 DEF FinisherLeaves, R
  <2>2. /\ n \in RoomRecords /\ n.finisher = "leave" /\ n.state = R.state /\ n.join = R.join
        /\ n.pending = R.pending /\ n.abandon = R.abandon /\ n.closer = R.closer /\ n.leaves = R.leaves
        /\ n.registered = R.registered /\ n.connection = R.connection /\ n.id = R.id /\ n.admitted = R.admitted
    BY <1>1, StepNames DEF RoomRecords
  <2> HIDE DEF n
  <2>3. OneLeaver(Disconnect(n))
    BY <1>1, <2>1, <2>2, DisconnectFacts DEF OneLeaver, Owed
  <2>4. /\ Disconnect(n) \in RoomRecords /\ Disconnect(n).state = R.state /\ Disconnect(n).join = R.join
        /\ Disconnect(n).id = R.id /\ Disconnect(n).admitted = R.admitted /\ Disconnect(n).closer = R.closer
        /\ Disconnect(n).connection = R.connection /\ Disconnect(n).registered = R.registered
    BY <2>2, DisconnectFacts
  <2> QED BY <1>3, <2>1, <2>3, <2>4
<1>5. CASE FinisherReturns(r)
  <2> DEFINE m == [R EXCEPT !.finisher = "done"]
  <2>1. rooms' = [rooms EXCEPT ![r] = m] /\ UNCHANGED <<runner, router>> /\ R.finisher = "leave"
    BY <1>1, <1>5 DEF FinisherReturns, R
  <2>2. /\ m \in RoomRecords /\ m.finisher = "done" /\ m.state = R.state /\ m.join = R.join
        /\ m.pending = R.pending /\ m.abandon = R.abandon /\ m.closer = R.closer /\ m.leaves = R.leaves
        /\ m.registered = R.registered /\ m.connection = R.connection /\ m.id = R.id /\ m.admitted = R.admitted
    BY <1>1, StepNames DEF RoomRecords
  <2> HIDE DEF m
  <2>3. OneLeaver(m)
    BY <1>1, <2>1, <2>2 DEF OneLeaver, Owed
  <2> QED BY <1>3, <2>1, <2>2, <2>3
<1>6. CASE JoinLeaves(r)
  <2> DEFINE n == [R EXCEPT !.join = "leaving"]
  <2>1. rooms' = [rooms EXCEPT ![r] = Disconnect(n)] /\ UNCHANGED <<runner, router>>
        /\ R.join = "waiting" /\ R.state # "joining"
    BY <1>6 DEF JoinLeaves, R
  <2>2. /\ n \in RoomRecords /\ n.finisher = R.finisher /\ n.state = R.state /\ n.join = "leaving"
        /\ n.pending = R.pending /\ n.abandon = R.abandon /\ n.closer = R.closer /\ n.leaves = R.leaves
        /\ n.registered = R.registered /\ n.connection = R.connection /\ n.id = R.id /\ n.admitted = R.admitted
    BY <1>1, StepNames DEF RoomRecords
  <2> HIDE DEF n
  <2>3. OneLeaver(Disconnect(n))
    BY <1>1, <2>1, <2>2, DisconnectFacts DEF OneLeaver, Owed
  <2> QED BY <1>3, <2>1, <2>2, <2>3, DisconnectFacts
<1>7. CASE JoinRefused(r)
  <2> DEFINE n == [R EXCEPT !.join = "failing", !.state = "failed"]
  <2>1. rooms' = [rooms EXCEPT ![r] = Disconnect(n)] /\ UNCHANGED <<runner, router>>
        /\ R.join = "waiting" /\ R.state = "joining"
    BY <1>7 DEF JoinRefused, R
  <2>2. /\ n \in RoomRecords /\ n.finisher = R.finisher /\ n.state = "failed" /\ n.join = "failing"
        /\ n.pending = R.pending /\ n.abandon = R.abandon /\ n.closer = R.closer /\ n.leaves = R.leaves
        /\ n.registered = R.registered /\ n.connection = R.connection /\ n.id = R.id /\ n.admitted = R.admitted
    BY <1>1, StepNames DEF RoomRecords
  <2> HIDE DEF n
  <2>3. OneLeaver(Disconnect(n)) /\ ~R.registered
    BY <1>1, <2>1, <2>2, DisconnectFacts DEF OneLeaver, Owed
  <2>4. /\ Disconnect(n) \in RoomRecords /\ Disconnect(n).state = "failed"
        /\ Disconnect(n).id = R.id /\ Disconnect(n).admitted = R.admitted /\ Disconnect(n).closer = R.closer
        /\ Disconnect(n).connection = R.connection /\ Disconnect(n).registered = R.registered
    BY <2>2, DisconnectFacts
  <2> QED BY <1>3, <2>1, <2>3, <2>4
<1>8. CASE AbandonedLeaves(r)
  <2> DEFINE n == [R EXCEPT !.abandon = "leaving"]
  <2>1. rooms' = [rooms EXCEPT ![r] = Disconnect(n)] /\ UNCHANGED <<runner, router>>
        /\ R.pending /\ R.abandon = "none"
    BY <1>8 DEF AbandonedLeaves, R
  <2>2. /\ n \in RoomRecords /\ n.finisher = R.finisher /\ n.state = R.state /\ n.join = R.join
        /\ n.pending = R.pending /\ n.abandon = "leaving" /\ n.closer = R.closer /\ n.leaves = R.leaves
        /\ n.registered = R.registered /\ n.connection = R.connection /\ n.id = R.id /\ n.admitted = R.admitted
    BY <1>1, StepNames DEF RoomRecords
  <2> HIDE DEF n
  <2>3. OneLeaver(Disconnect(n))
    BY <1>1, <2>1, <2>2, DisconnectFacts DEF OneLeaver, Owed
  <2> QED BY <1>3, <2>1, <2>2, <2>3, DisconnectFacts
<1>9. CASE AbandonedReturns(r)
  <2> DEFINE m == [R EXCEPT !.abandon = "done", !.pending = FALSE]
  <2>1. rooms' = [rooms EXCEPT ![r] = m] /\ UNCHANGED <<runner, router>> /\ R.abandon = "leaving"
    BY <1>1, <1>9 DEF AbandonedReturns, R, RoomTypeOK
  <2>2. /\ m \in RoomRecords /\ m.finisher = R.finisher /\ m.state = R.state /\ m.join = R.join
        /\ m.pending = FALSE /\ m.abandon = "done" /\ m.closer = R.closer /\ m.leaves = R.leaves
        /\ m.registered = R.registered /\ m.connection = R.connection /\ m.id = R.id /\ m.admitted = R.admitted
    BY <1>1, StepNames DEF RoomRecords
  <2> HIDE DEF m
  <2>3. OneLeaver(m)
    BY <1>1, <2>1, <2>2 DEF OneLeaver, Owed
  <2> QED BY <1>3, <2>1, <2>2, <2>3
<1> QED BY <1>4, <1>5, <1>6, <1>7, <1>8, <1>9

\* The runner's close of a room connection: nobody is registered while the
\* session serves and a close runs, and one that finds the room active leaves it.
LEMMA CloserStep ==
  ASSUME RoomInv, NEW r \in Rooms, TeardownCloses(r) \/ CloserStopsPacer(r) \/ CloserReturns(r)
  PROVE  RoomInv'
<1> DEFINE R == rooms[r]
<1>1. R \in RoomRecords /\ OneLeaver(R) /\ OpenWhileRegistered(R) /\ AgreesWithRegistry(r) /\ RoomTypeOK
  BY DEF RoomInv, RoomParts, RoomTypeOK
<1>2. UNCHANGED <<runner, router>>
  BY DEF TeardownCloses, CloserStopsPacer, CloserReturns
<1>3. R.registered /\ serving = "open" => R.closer = "none"
  BY <1>1 DEF AgreesWithRegistry
<1>4. CASE TeardownCloses(r)
  <2>1. /\ rooms' = [rooms EXCEPT ![r] = CloseConnection(R)] /\ R.closer = "none" /\ serving = "closing"
        /\ R.join = "done"
    BY <1>1, <1>4 DEF TeardownCloses, AgreesWithRegistry
  <2> HIDE DEF R
  <2>2. OneLeaver(CloseConnection(R))
    BY <1>1, <2>1, CloseFacts DEF OneLeaver, Owed
  <2>3. OpenWhileRegistered(CloseConnection(R))
    BY <1>1, <2>1, CloseFacts DEF OpenWhileRegistered
  <2>4. /\ CloseConnection(R) \in RoomRecords /\ CloseConnection(R).id = R.id
        /\ CloseConnection(R).admitted = R.admitted /\ CloseConnection(R).state = R.state
        /\ CloseConnection(R).registered = R.registered /\ CloseConnection(R).join = R.join
    BY <1>1, CloseFacts
  <2> QED BY <1>2, <2>1, <2>2, <2>3, <2>4, QuietMoveStep DEF R
<1> HIDE DEF R
<1>5. CASE CloserReturns(r)
  <2> DEFINE m == [R EXCEPT !.closer = "done"]
  <2>1. rooms' = [rooms EXCEPT ![r] = m] /\ R.closer = "leave"
    BY <1>1, <1>5 DEF CloserReturns, R
  <2>2. /\ m \in RoomRecords /\ m.finisher = R.finisher /\ m.state = R.state /\ m.join = R.join
        /\ m.pending = R.pending /\ m.abandon = R.abandon /\ m.closer = "done" /\ m.leaves = R.leaves
        /\ m.registered = R.registered /\ m.connection = R.connection /\ m.id = R.id /\ m.admitted = R.admitted
    BY <1>1, StepNames DEF RoomRecords
  <2> HIDE DEF m
  <2>3. OneLeaver(m) /\ OpenWhileRegistered(m) /\ ~m.registered
    BY <1>1, <2>1, <2>2 DEF OneLeaver, Owed, OpenWhileRegistered
  <2> QED BY <1>2, <2>1, <2>2, <2>3, QuietMoveStep DEF R
<1>6. CASE CloserStopsPacer(r) /\ R.clients # {}
  <2> DEFINE m == [R EXCEPT !.connection = "gone", !.clients = {}, !.closer = "drain"]
  <2>1. rooms' = [rooms EXCEPT ![r] = m] /\ R.closer = "pacer"
    BY <1>6 DEF CloserStopsPacer, R
  <2>2. /\ m \in RoomRecords /\ m.finisher = R.finisher /\ m.state = R.state /\ m.join = R.join
        /\ m.pending = R.pending /\ m.abandon = R.abandon /\ m.closer = "drain" /\ m.leaves = R.leaves
        /\ m.registered = R.registered /\ m.id = R.id /\ m.admitted = R.admitted
    BY <1>1, StepNames DEF RoomRecords
  <2> HIDE DEF m
  <2>3. OneLeaver(m) /\ OpenWhileRegistered(m)
    BY <1>1, <2>1, <2>2 DEF OneLeaver, Owed, OpenWhileRegistered
  <2> QED BY <1>2, <1>3, <2>1, <2>2, <2>3, QuietMoveStep DEF R
<1>7. CASE CloserStopsPacer(r) /\ R.clients = {} /\ Active(r)
  <2> DEFINE n == [R EXCEPT !.connection = "gone", !.state = "closed", !.registered = FALSE, !.closer = "leave"]
  <2>1. rooms' = [rooms EXCEPT ![r] = Disconnect(n)] /\ R.closer = "pacer" /\ R.state \in {"joining", "open"}
    BY <1>7 DEF CloserStopsPacer, Active, R
  <2>2. /\ n \in RoomRecords /\ n.finisher = R.finisher /\ n.state = "closed" /\ n.join = R.join
        /\ n.pending = R.pending /\ n.abandon = R.abandon /\ n.leaves = R.leaves
        /\ n.registered = FALSE /\ n.id = R.id /\ n.admitted = R.admitted
    BY <1>1, StepNames DEF RoomRecords
  <2> HIDE DEF n
  <2>3. OneLeaver(Disconnect(n)) /\ OpenWhileRegistered(Disconnect(n))
    BY <1>1, <2>1, <2>2, DisconnectFacts DEF OneLeaver, Owed, OpenWhileRegistered
  <2>4. ~(R.registered /\ serving = "open")
    BY <1>3, <2>1
  <2> QED BY <1>2, <2>1, <2>2, <2>3, <2>4, DisconnectFacts, QuietMoveStep DEF R
<1>8. CASE CloserStopsPacer(r) /\ R.clients = {} /\ ~Active(r)
  <2> DEFINE m == [R EXCEPT !.connection = "gone", !.closer = "done"]
  <2>1. rooms' = [rooms EXCEPT ![r] = m] /\ R.closer = "pacer" /\ R.state \notin {"joining", "open"}
    BY <1>8 DEF CloserStopsPacer, Active, R
  <2>2. /\ m \in RoomRecords /\ m.finisher = R.finisher /\ m.state = R.state /\ m.join = R.join
        /\ m.pending = R.pending /\ m.abandon = R.abandon /\ m.closer = "done" /\ m.leaves = R.leaves
        /\ m.registered = R.registered /\ m.id = R.id /\ m.admitted = R.admitted
    BY <1>1, StepNames DEF RoomRecords
  <2> HIDE DEF m
  <2>3. OneLeaver(m) /\ OpenWhileRegistered(m) /\ ~m.registered
    BY <1>1, <2>1, <2>2 DEF OneLeaver, Owed, OpenWhileRegistered
  <2> QED BY <1>2, <2>1, <2>2, <2>3, QuietMoveStep DEF R
<1> QED BY <1>4, <1>5, <1>6, <1>7, <1>8

\* connection_failed consumes the stamp of the room's own id, if any.
LEMMA JournalFacts ==
  ASSUME RoomInv, NEW r \in Rooms, JournalFailure(r) \/ UNCHANGED <<stamps, journal>>
  PROVE  /\ stamps' \in [RoomIds -> 0..MaxSessions]
         /\ \A q \in Rooms : q # r => stamps'[q] = stamps[q]
<1> USE RoomAssumption
<1>1. rooms[r].id \in Chosen \cup {0, r} /\ stamps \in [RoomIds -> 0..MaxSessions]
  BY DEF RoomInv, RoomParts, KeepsStamp, RoomTypeOK
<1>2. \A q \in Rooms : q # r => q # rooms[r].id /\ q \in RoomIds
  BY <1>1 DEF Rooms, RoomIds
<1>3. stamps' = stamps \/ stamps' = [stamps EXCEPT ![rooms[r].id] = 0]
  BY DEF JournalFailure
<1> QED BY <1>1, <1>2, <1>3

\* A failed join, reported at once or after its leave.
LEMMA JoinFailsStep ==
  ASSUME RoomInv, NEW r \in Rooms, JoinTimesOut(r) \/ JoinReturns(r)
  PROVE  RoomInv'
<1> USE DEF runner, router
<1> DEFINE R == rooms[r]
<1>1. R \in RoomRecords /\ OneLeaver(R) /\ OpenWhileRegistered(R) /\ AgreesWithRegistry(r) /\ RoomTypeOK
  BY DEF RoomInv, RoomParts, RoomTypeOK
<1>2. UNCHANGED <<serving, epoch, registry, toClose, opened, current, opening>>
  BY DEF JoinTimesOut, JoinReturns
<1>3. /\ stamps' \in [RoomIds -> 0..MaxSessions]
      /\ \A q \in Rooms : q # r => stamps'[q] = stamps[q]
  BY JournalFacts DEF JoinTimesOut, JoinReturns
<1>4. opening' \in [id : RoomIds \cup {0}, epoch : 0..MaxSessions, previous : 0..MaxRooms]
  BY <1>1, <1>2 DEF RoomTypeOK
<1>5. ASSUME NEW m \in RoomRecords, rooms' = [rooms EXCEPT ![r] = m], OneLeaver(m), m.join = "done",
             m.id = R.id, m.admitted = R.admitted, m.closer = R.closer,
             m.connection = R.connection, m.registered = R.registered,
             (m.state = R.state /\ R.state # "joining") \/ (~R.registered /\ m.state = "failed")
      PROVE  RoomInv'
  <2>1. OpenWhileRegistered(m)
    BY <1>1, <1>5 DEF OpenWhileRegistered
  <2>2. RoomMoves(r, m)
    BY <1>1, <1>2, <1>3, <1>5, <2>1 DEF RoomMoves, AgreesWithRegistry, Active
  <2> QED BY <1>2, <1>4, <2>2, RoomMovesStep
<1> HIDE DEF R
<1>6. CASE JoinTimesOut(r)
  <2> DEFINE v == IF R.state = "joining" THEN "failed" ELSE R.state
             m == [R EXCEPT !.join = "done", !.pending = TRUE, !.state = v]
  <2>1. rooms' = [rooms EXCEPT ![r] = m] /\ R.join = "waiting"
    BY <1>1, <1>6 DEF JoinTimesOut, R, RoomTypeOK
  <2>2. v \in RoomStates /\ v \in {"failed", "closed"} /\ (v = "closed" => R.state = "closed")
    BY <1>1, <2>1, StepNames DEF RoomRecords, OneLeaver
  <2> HIDE DEF v
  <2>3. /\ m \in RoomRecords /\ m.finisher = R.finisher /\ m.state = v /\ m.join = "done"
        /\ m.pending = TRUE /\ m.abandon = R.abandon /\ m.closer = R.closer /\ m.leaves = R.leaves
        /\ m.registered = R.registered /\ m.connection = R.connection /\ m.id = R.id /\ m.admitted = R.admitted
    BY <1>1, <2>2, StepNames DEF RoomRecords
  <2> HIDE DEF m
  <2>4. OneLeaver(m) /\ ~R.registered
    BY <1>1, <2>1, <2>2, <2>3 DEF OneLeaver, Owed
  <2> QED BY <1>5, <2>1, <2>2, <2>3, <2>4
<1>7. CASE JoinReturns(r)
  <2> DEFINE m == [R EXCEPT !.join = "done"]
  <2>1. rooms' = [rooms EXCEPT ![r] = m] /\ R.join \in {"leaving", "failing"}
    BY <1>1, <1>7 DEF JoinReturns, R, RoomTypeOK
  <2>2. /\ m \in RoomRecords /\ m.finisher = R.finisher /\ m.state = R.state /\ m.join = "done"
        /\ m.pending = R.pending /\ m.abandon = R.abandon /\ m.closer = R.closer /\ m.leaves = R.leaves
        /\ m.registered = R.registered /\ m.connection = R.connection /\ m.id = R.id /\ m.admitted = R.admitted
    BY <1>1, StepNames DEF RoomRecords
  <2> HIDE DEF m
  <2>3. OneLeaver(m) /\ R.state # "joining"
    BY <1>1, <2>1, <2>2 DEF OneLeaver, Owed
  <2> QED BY <1>5, <2>1, <2>2, <2>3
<1> QED BY <1>6, <1>7

\* A participant comes or goes.
LEMMA ParticipantStep ==
  ASSUME RoomInv, NEW r \in Rooms, NEW p \in Identities, AddParticipant(r, p) \/ RemoveParticipant(r, p)
  PROVE  RoomInv'
<1> USE RoomAssumption DEF router
<1> DEFINE R == rooms[r]
<1>1. R \in RoomRecords /\ OneLeaver(R) /\ OpenWhileRegistered(R) /\ AgreesWithRegistry(r) /\ RoomTypeOK
  BY DEF RoomInv, RoomParts, RoomTypeOK
<1>2. UNCHANGED <<serving, epoch, stamps, toClose, opened, current, opening>>
  BY DEF AddParticipant, RemoveParticipant
<1>3. PICK here \in SUBSET Identities, clients \in SUBSET Identities :
        rooms' = [rooms EXCEPT ![r] = [R EXCEPT !.present = here, !.clients = clients]]
  <2>1. R.present \in SUBSET Identities /\ R.clients \in SUBSET Identities
    BY <1>1 DEF RoomRecords
  <2>2. CASE AddParticipant(r, p)
    <3>1. rooms' = [rooms EXCEPT ![r] = [R EXCEPT !.present = @ \cup {p},
                                          !.clients = IF serving = "open" THEN @ \cup {p} ELSE @]]
      BY <1>1, <2>2 DEF AddParticipant, RoomTypeOK
    <3> HIDE DEF R
    <3> QED BY <2>1, <3>1
  <2>3. CASE RemoveParticipant(r, p)
    <3>1. rooms' = [rooms EXCEPT ![r] = [R EXCEPT !.present = @ \ {p}, !.clients = @ \ {p}]]
      BY <1>1, <2>3 DEF RemoveParticipant, RoomTypeOK
    <3> HIDE DEF R
    <3> QED BY <2>1, <3>1
  <2> QED BY <2>2, <2>3
<1> DEFINE m == [R EXCEPT !.present = here, !.clients = clients]
<1>4. registry' \in {registry, registry \ {<<r, p>>}, registry \cup {<<r, p>>}}
  BY DEF AddParticipant, RemoveParticipant
<1>5. registry' # registry /\ registry' = registry \cup {<<r, p>>} => <<r, "room">> \in registry
  BY <1>1 DEF AddParticipant, RemoveParticipant, AgreesWithRegistry
<1>6. /\ \A q \in Rooms : <<q, "room">> \in registry' <=> <<q, "room">> \in registry
      /\ \A q \in Rooms, o \in Identities : q # r => (<<q, o>> \in registry' <=> <<q, o>> \in registry)
  BY <1>4
<1> HIDE DEF R
<1>7. m \in RoomRecords /\ Alike(R, m)
  BY <1>1 DEF RoomRecords, Alike
<1>8. OneLeaver(m) /\ OpenWhileRegistered(m)
  BY <1>1, <1>7, AlikeKeeps
<1>9. \A o \in Identities : <<r, o>> \in registry' => <<r, "room">> \in registry
  BY <1>1, <1>4, <1>5 DEF AgreesWithRegistry
<1> HIDE DEF m
<1>10. RoomMoves(r, m)
  <2>1. rooms' = [rooms EXCEPT ![r] = m] /\ m \in RoomRecords
    BY <1>3, <1>7 DEF m
  <2>2. stamps' \in [RoomIds -> 0..MaxSessions] /\ stamps' = stamps
    BY <1>1, <1>2 DEF RoomTypeOK
  <2> QED BY <1>1, <1>2, <1>6, <1>7, <1>8, <1>9, <2>1, <2>2 DEF RoomMoves, AgreesWithRegistry, Alike, Active, R
<1>11. opening' \in [id : RoomIds \cup {0}, epoch : 0..MaxSessions, previous : 0..MaxRooms]
  BY <1>1, <1>2 DEF RoomTypeOK
<1> QED BY <1>2, <1>10, <1>11, RoomMovesStep

\* The participants of the room are closed: the room is left, if nobody ended it.
LEMMA CloserDrainedStep ==
  ASSUME RoomInv, NEW r \in Rooms, CloserDrained(r)
  PROVE  RoomInv'
<1> USE RoomAssumption DEF router
<1> DEFINE R == rooms[r]
<1>1. R \in RoomRecords /\ OneLeaver(R) /\ OpenWhileRegistered(R) /\ AgreesWithRegistry(r) /\ RoomTypeOK
  BY DEF RoomInv, RoomParts, RoomTypeOK
<1>2. UNCHANGED <<serving, epoch, stamps, claims, toClose, journal, opened, current, leaving, opening>>
  BY DEF CloserDrained
<1>3. R.closer = "drain" /\ <<r, "room">> \notin registry
  BY <1>1 DEF CloserDrained, AgreesWithRegistry
<1>4. opening' \in [id : RoomIds \cup {0}, epoch : 0..MaxSessions, previous : 0..MaxRooms]
  BY <1>1, <1>2 DEF RoomTypeOK
<1> HIDE DEF R
<1>5. CASE Active(r)
  <2> DEFINE n == [R EXCEPT !.state = "closed", !.registered = FALSE, !.clients = {}, !.closer = "leave"]
             m == Disconnect(n)
  <2>1. /\ rooms' = [rooms EXCEPT ![r] = m] /\ R.state \in {"joining", "open"}
        /\ registry' = registry \ {<<r, p>> : p \in Identities}
    BY <1>5 DEF CloserDrained, Active, R
  <2>2. /\ n \in RoomRecords /\ n.finisher = R.finisher /\ n.state = "closed" /\ n.join = R.join
        /\ n.pending = R.pending /\ n.abandon = R.abandon /\ n.leaves = R.leaves
        /\ n.registered = FALSE /\ n.id = R.id /\ n.admitted = R.admitted
    BY <1>1, StepNames DEF RoomRecords
  <2> HIDE DEF n
  <2>3. /\ m \in RoomRecords /\ m.state = "closed" /\ m.registered = FALSE /\ m.id = R.id
        /\ m.admitted = R.admitted /\ m.join = R.join
    BY <2>2, DisconnectFacts
  <2>4. OneLeaver(m) /\ OpenWhileRegistered(m)
    BY <1>1, <1>3, <2>1, <2>2, DisconnectFacts DEF OneLeaver, Owed, OpenWhileRegistered
  <2> HIDE DEF m
  <2>5. \A q \in Rooms : q # r => /\ <<q, "room">> \in registry' <=> <<q, "room">> \in registry
                                  /\ \A p \in Identities : <<q, p>> \in registry' => <<q, p>> \in registry
    BY <2>1
  <2>6. <<r, "room">> \notin registry' /\ \A p \in Identities : <<r, p>> \notin registry'
    BY <1>3, <2>1
  <2>7. stamps' \in [RoomIds -> 0..MaxSessions] /\ stamps' = stamps
    BY <1>1, <1>2 DEF RoomTypeOK
  <2>8. RoomMoves(r, m)
    BY <1>2, <2>1, <2>3, <2>4, <2>5, <2>6, <2>7 DEF RoomMoves, R
  <2> QED BY <1>2, <1>4, <2>8, RoomMovesStep
<1>6. CASE ~Active(r)
  <2> DEFINE m == [R EXCEPT !.closer = "done"]
  <2>1. rooms' = [rooms EXCEPT ![r] = m] /\ R.state \notin {"joining", "open"} /\ registry' = registry
    BY <1>6 DEF CloserDrained, Active, R
  <2>2. /\ m \in RoomRecords /\ m.finisher = R.finisher /\ m.state = R.state /\ m.join = R.join
        /\ m.pending = R.pending /\ m.abandon = R.abandon /\ m.closer = "done" /\ m.leaves = R.leaves
        /\ m.registered = R.registered /\ m.id = R.id /\ m.admitted = R.admitted
    BY <1>1, StepNames DEF RoomRecords
  <2> HIDE DEF m
  <2>3. OneLeaver(m) /\ OpenWhileRegistered(m) /\ ~m.registered
    BY <1>1, <1>3, <2>1, <2>2 DEF OneLeaver, Owed, OpenWhileRegistered
  <2>4. UNCHANGED <<runner, router>>
    BY <1>2, <2>1 DEF runner
  <2> QED BY <2>1, <2>2, <2>3, <2>4, QuietMoveStep DEF R
<1> QED BY <1>5, <1>6

\* The join succeeded: the connection is registered in the session that admitted
\* it, or closed.
LEMMA JoinOpensStep ==
  ASSUME RoomInv, NEW r \in Rooms, JoinOpens(r)
  PROVE  RoomInv'
<1> USE RoomAssumption DEF router
<1> DEFINE R == rooms[r]
           open == [R EXCEPT !.state = "open", !.join = "done", !.connection = "live"]
<1>1. /\ R \in RoomRecords /\ OneLeaver(R) /\ OpenWhileRegistered(R) /\ AgreesWithRegistry(r)
      /\ RoomTypeOK /\ KeepsStamp(r)
  BY DEF RoomInv, RoomParts, RoomTypeOK
<1>2. UNCHANGED <<serving, epoch, toClose, opened, current, opening>>
  BY DEF JoinOpens
<1>3. R.join = "waiting" /\ R.state = "joining" /\ stamps' = [stamps EXCEPT ![R.id] = 0]
  BY DEF JoinOpens
<1>4. opening' \in [id : RoomIds \cup {0}, epoch : 0..MaxSessions, previous : 0..MaxRooms]
  BY <1>1, <1>2 DEF RoomTypeOK
<1>5. /\ stamps' \in [RoomIds -> 0..MaxSessions]
      /\ \A q \in Rooms : q # r => stamps'[q] = stamps[q]
  <2>1. R.id \in Chosen \cup {0, r} /\ stamps \in [RoomIds -> 0..MaxSessions]
    BY <1>1 DEF KeepsStamp, RoomTypeOK
  <2>2. \A q \in Rooms : q # r => q # R.id /\ q \in RoomIds
    BY <2>1 DEF Rooms, RoomIds
  <2>3. 0 \in 0..MaxSessions
    OBVIOUS
  <2> HIDE DEF R
  <2> QED BY <1>3, <2>1, <2>2, <2>3
<1>6. ~R.registered /\ R.closer = "none" /\ <<r, "room">> \notin registry
  BY <1>1, <1>3 DEF OneLeaver, AgreesWithRegistry
<1>7. /\ R.id \in Chosen \cup {0, r}
      /\ R.id \notin Chosen => R.id = r /\ stamps[r] = R.admitted /\ R.admitted > 0
  BY <1>1, <1>3 DEF KeepsStamp
<1>8. Refused(R.id) => rooms' = [rooms EXCEPT ![r] = CloseConnection(open)] /\ registry' = registry
  BY DEF JoinOpens
<1>9. ~Refused(R.id) =>
        /\ rooms' = [rooms EXCEPT ![r] = [open EXCEPT !.registered = TRUE, !.clients = open.present]]
        /\ registry' = registry \cup {<<r, "room">>} \cup {<<r, p>> : p \in R.present}
  BY DEF JoinOpens
<1>10. Active(r)
  BY <1>3 DEF Active
<1> HIDE DEF R
<1>11. /\ open \in RoomRecords /\ open.state = "open" /\ open.join = "done" /\ open.connection = "live"
       /\ open.pending = R.pending /\ open.abandon = R.abandon /\ open.leaves = R.leaves
       /\ open.closer = R.closer /\ open.finisher = R.finisher /\ open.registered = R.registered
       /\ open.id = R.id /\ open.admitted = R.admitted /\ open.present = R.present
  BY <1>1, StepNames DEF RoomRecords
<1> HIDE DEF open
<1>12. CASE Refused(R.id)
  <2> DEFINE m == CloseConnection(open)
  <2>1. /\ m \in RoomRecords /\ m.state = "open" /\ m.join = "done" /\ m.closer = "pacer"
        /\ m.pending = R.pending /\ m.abandon = R.abandon /\ m.leaves = R.leaves
        /\ m.finisher = R.finisher /\ m.registered = R.registered
        /\ m.id = R.id /\ m.admitted = R.admitted
    BY <1>11, CloseFacts
  <2> HIDE DEF m
  <2>2. OneLeaver(m) /\ OpenWhileRegistered(m) /\ ~m.registered
    BY <1>1, <1>3, <1>6, <2>1 DEF OneLeaver, Owed, OpenWhileRegistered
  <2>3. RoomMoves(r, m)
    BY <1>1, <1>2, <1>5, <1>6, <1>8, <1>10, <1>12, <2>1, <2>2 DEF RoomMoves, AgreesWithRegistry, R, m
  <2> QED BY <1>2, <1>4, <2>3, RoomMovesStep
<1>13. CASE ~Refused(R.id)
  <2> DEFINE m == [open EXCEPT !.registered = TRUE, !.clients = open.present]
  <2>1. /\ m \in RoomRecords /\ m.state = "open" /\ m.join = "done" /\ m.closer = R.closer
        /\ m.pending = R.pending /\ m.abandon = R.abandon /\ m.leaves = R.leaves
        /\ m.finisher = R.finisher /\ m.registered = TRUE /\ m.connection = "live"
        /\ m.id = R.id /\ m.admitted = R.admitted
    BY <1>11 DEF RoomRecords
  <2>2. rooms' = [rooms EXCEPT ![r] = m]
    BY <1>9, <1>13
  <2> HIDE DEF m
  <2>3. OneLeaver(m) /\ OpenWhileRegistered(m)
    BY <1>1, <1>3, <1>6, <2>1 DEF OneLeaver, Owed, OpenWhileRegistered
  <2>4. /\ \A q \in Rooms : q # r => /\ <<q, "room">> \in registry' <=> <<q, "room">> \in registry
                                     /\ \A p \in Identities : <<q, p>> \in registry' => <<q, p>> \in registry
        /\ <<r, "room">> \in registry'
    BY <1>9, <1>13
  <2>5. serving = "open" /\ stamps[R.id] \in {0, epoch}
    BY <1>13 DEF Refused
  <2>6. R.id \notin Chosen => R.admitted = epoch
    BY <1>1, <1>7, <2>5 DEF RoomRecords
  <2>7. RoomMoves(r, m)
    BY <1>2, <1>5, <1>6, <1>10, <2>1, <2>2, <2>3, <2>4, <2>5, <2>6 DEF RoomMoves, R
  <2> QED BY <1>2, <1>4, <2>7, RoomMovesStep
<1> QED BY <1>12, <1>13

\* Only the router's room is registered, and its _finish takes it out of the
\* registry with everyone in it.
LEMMA FinishMoves ==
  ASSUME RoomInv, NEW r \in Rooms, NEW isTask \in BOOLEAN, Active(r), FinishRoom(r, isTask),
         UNCHANGED <<serving, epoch, stamps, toClose, opened, current>>
  PROVE  \E m \in RoomRecords : m.state = "closed" /\ RoomMoves(r, m)
<1> USE RoomAssumption
<1> DEFINE R == rooms[r]
           lost == R.lost /\ ~isTask
           n == [R EXCEPT !.lost = lost]
           m == Finished(n, isTask)
<1>1. /\ R \in RoomRecords /\ OneLeaver(R) /\ OpenWhileRegistered(R) /\ AgreesWithRegistry(r)
      /\ RoomTypeOK /\ R.state \in {"joining", "open"}
  BY DEF RoomInv, RoomParts, RoomTypeOK, Active
<1>2. rooms' = [rooms EXCEPT ![r] = m] /\ registry' = WithoutRoom(r)
  BY DEF FinishRoom
<1>3. \A q \in Rooms : q # r => <<q, "room">> \notin registry
  <2> SUFFICES ASSUME NEW q \in Rooms, <<q, "room">> \in registry PROVE q = r
    OBVIOUS
  <2>1. rooms[q].registered /\ OpenWhileRegistered(rooms[q]) /\ OneActive(q) /\ OneActive(r)
    BY DEF RoomInv, RoomParts, AgreesWithRegistry
  <2> QED BY <2>1 DEF OpenWhileRegistered, OneActive, Active
<1>4. \A q \in Rooms : q # r => /\ <<q, "room">> \in registry' <=> <<q, "room">> \in registry
                                /\ \A p \in Identities : <<q, p>> \in registry' => <<q, p>> \in registry
  BY <1>2, <1>3 DEF WithoutRoom
<1>5. /\ <<r, "room">> \notin registry'
      /\ \A p \in Identities : <<r, p>> \notin registry'
  <2>1. <<r, "room">> \in registry => R.state = "open" /\ R.connection # "gone"
    BY <1>1 DEF AgreesWithRegistry, OpenWhileRegistered
  <2> QED BY <1>2, <2>1 DEF WithoutRoom
<1>6. stamps' = stamps /\ stamps' \in [RoomIds -> 0..MaxSessions]
  BY <1>1 DEF RoomTypeOK
<1>7. lost \in BOOLEAN
  BY <1>1 DEF RoomRecords
<1> HIDE DEF R, lost
<1>8. n \in RoomRecords /\ Alike(R, n)
  BY <1>1, <1>7 DEF RoomRecords, Alike
<1> HIDE DEF n
<1>9. OneLeaver(n) /\ n.state \in {"joining", "open"} /\ n.id = R.id /\ n.admitted = R.admitted
  BY <1>1, <1>8, AlikeKeeps DEF Alike
<1>10. /\ m \in RoomRecords /\ OneLeaver(m) /\ m.state = "closed" /\ ~m.registered
       /\ m.id = R.id /\ m.admitted = R.admitted
  BY <1>8, <1>9, FinishedFacts
<1>11. R.join = "done" => m.join = "done"
  <2>1. R.join = "done" => R.state = "open"
    BY <1>1 DEF OneLeaver
  <2>2. n.join = R.join /\ n.state = R.state
    BY <1>8 DEF Alike
  <2> QED BY <2>1, <2>2, <1>8, FinishedJoin
<1> HIDE DEF m
<1>12. OpenWhileRegistered(m)
  BY <1>10 DEF OpenWhileRegistered
<1>13. RoomMoves(r, m)
  BY <1>2, <1>4, <1>5, <1>6, <1>10, <1>11, <1>12 DEF RoomMoves, R
<1> QED BY <1>10, <1>13

\* The connection is lost while the room is active, or the caller leaves it.
LEMMA FinishStep ==
  ASSUME RoomInv, LeaveRoom \/ \E r \in Rooms : LostFinishes(r) /\ Active(r)
  PROVE  RoomInv'
<1> USE RoomAssumption DEF router
<1>1. UNCHANGED <<serving, epoch, stamps, toClose, opened, current, opening>>
  BY DEF LeaveRoom, LostFinishes
<1>2. PICK r \in Rooms, isTask \in BOOLEAN : Active(r) /\ FinishRoom(r, isTask)
  <2>1. CASE LeaveRoom
    <3>1. current.room \in Rooms
      BY <2>1 DEF LeaveRoom, RoomInv, RoomTypeOK, Rooms
    <3> QED BY <2>1, <3>1 DEF LeaveRoom
  <2>2. CASE \E r \in Rooms : LostFinishes(r) /\ Active(r)
    BY <2>2 DEF LostFinishes
  <2> QED BY <2>1, <2>2
<1>3. PICK m \in RoomRecords : RoomMoves(r, m)
  BY <1>1, <1>2, FinishMoves
<1>4. opening' \in [id : RoomIds \cup {0}, epoch : 0..MaxSessions, previous : 0..MaxRooms]
  BY <1>1 DEF RoomInv, RoomTypeOK
<1> QED BY <1>1, <1>3, <1>4, RoomMovesStep

\* A request retires the room of an ended session, and waits.
LEMMA OpenRetiresStep ==
  ASSUME RoomInv, NEW i \in RoomIds, OpenRetires(i)
  PROVE  RoomInv'
<1> USE RoomAssumption
<1> DEFINE p == current.room
<1>1. UNCHANGED <<serving, epoch, stamps, toClose, opened, current>>
  BY DEF OpenRetires
<1>2. p \in Rooms /\ Active(p) /\ FinishRoom(p, FALSE)
  <2>1. p # 0 /\ rooms[p].state = "open" /\ FinishRoom(p, FALSE)
    BY DEF OpenRetires
  <2>2. p \in 0..MaxRooms
    BY DEF RoomInv, RoomTypeOK
  <2>3. p \in Rooms
    BY <2>1, <2>2 DEF Rooms
  <2>4. Active(p)
    BY <2>1 DEF Active
  <2> QED BY <2>1, <2>3, <2>4
<1>3. PICK m \in RoomRecords : m.state = "closed" /\ RoomMoves(p, m)
  BY <1>1, <1>2, FinishMoves
<1>4. opening' = [id |-> i, epoch |-> epoch, previous |-> p]
  BY DEF OpenRetires
<1>5. opening' \in [id : RoomIds \cup {0}, epoch : 0..MaxSessions, previous : 0..MaxRooms]
  BY <1>2, <1>4 DEF RoomInv, RoomTypeOK, Rooms
<1>6. OpeningHolds'
  <2>1. rooms'[p].state = "closed"
    BY <1>2, <1>3 DEF RoomMoves, RoomInv, RoomTypeOK
  <2>2. ~Active(p)' /\ current'.room = p
    BY <1>1, <2>1 DEF Active
  <2>3. epoch > 0 /\ i \in Chosen \cup {opened + 1} /\ current.room <= opened
    BY DEF OpenRetires, RoomInv, OpeningHolds
  <2>4. opening'.id = i /\ opening'.previous = p
    BY <1>4
  <2> QED BY <1>1, <1>2, <2>2, <2>3, <2>4 DEF OpeningHolds
<1> QED BY <1>2, <1>3, <1>5, <1>6, RoomMovesStep

\* What becomes of the rooms there were when a new one is admitted: each is as it
\* was, or its join was given up; none of them is active.
Retired(q, m) ==
  /\ m \in RoomRecords /\ m.state \notin {"joining", "open"}
  /\ \/ m = rooms[q]
     \/ /\ OneLeaver(m) /\ ~m.registered /\ ~rooms[q].registered /\ rooms[q].join # "done"
        /\ m.id = rooms[q].id /\ m.admitted = rooms[q].admitted

\* The room admitted is the only active one, and its id is stamped.
LEMMA AdmitStep ==
  ASSUME RoomInv, NEW i \in RoomIds, i \in Chosen \cup {opened + 1}, NEW e \in 0..MaxSessions,
         NEW previous, NEW retired, Admit(i, e, previous, retired), epoch > 0, opening' = NotOpening,
         retired = [q \in Rooms |-> retired[q]],
         \A q \in Rooms : q # opened + 1 => Retired(q, retired[q]),
         UNCHANGED <<serving, epoch, registry, toClose>>
  PROVE  RoomInv'
<1> USE RoomAssumption
<1> DEFINE new == [Unstarted EXCEPT !.id = i, !.admitted = epoch, !.state = "joining",
                                   !.join = "waiting", !.attempt = "running"]
<1>1. RoomTypeOK /\ OpeningHolds
  BY DEF RoomInv
<1>2. PICK r \in Rooms : r = opened + 1 /\ opened \in Nat
  BY <1>1 DEF Admit, RoomTypeOK, Rooms
<1>3. /\ rooms' = [retired EXCEPT ![r] = new] /\ stamps' = [stamps EXCEPT ![i] = epoch]
      /\ opened' = r /\ current' = [room |-> r, epoch |-> e]
  BY <1>2 DEF Admit
<1>4. /\ new \in RoomRecords /\ new.state = "joining" /\ new.join = "waiting" /\ new.leaves = 0
      /\ new.pending = FALSE /\ new.finisher = "none" /\ new.abandon = "none" /\ new.closer = "none"
      /\ new.registered = FALSE /\ new.id = i /\ new.admitted = epoch
  <2>1. epoch \in 0..MaxSessions
    BY <1>1 DEF RoomTypeOK
  <2> QED BY <2>1, UnstartedFacts, StepNames DEF RoomRecords
<1> HIDE DEF new
<1>5. rooms'[r] = new /\ \A q \in Rooms : q # r => rooms'[q] = retired[q]
  BY <1>2, <1>3
<1>6. current'.room = r /\ opened' = r
  BY <1>3
<1>7. RoomTypeOK'
  <2>1. rooms' \in [Rooms -> RoomRecords]
    BY <1>2, <1>3, <1>4 DEF Retired
  <2>2. stamps' \in [RoomIds -> 0..MaxSessions]
    BY <1>1, <1>3 DEF RoomTypeOK
  <2>3. opening' \in [id : RoomIds \cup {0}, epoch : 0..MaxSessions, previous : 0..MaxRooms]
    BY DEF NotOpening
  <2>4. current' \in [room : 0..MaxRooms, epoch : 0..MaxSessions] /\ opened' \in 0..MaxRooms
    BY <1>2, <1>3 DEF Rooms
  <2> QED BY <1>1, <2>1, <2>2, <2>3, <2>4 DEF RoomTypeOK
<1>8. OpeningHolds'
  BY <1>2, <1>6 DEF OpeningHolds
<1>9. RoomParts(r)'
  <2>1. RoomParts(r)
    BY <1>2 DEF RoomInv
  <2>2. OneLeaver(new) /\ OpenWhileRegistered(new)
    BY <1>4 DEF OneLeaver, Owed, OpenWhileRegistered
  <2>3. KeepsStamp(r)'
    <3>1. i \notin Chosen => i = r /\ stamps'[r] = epoch
      BY <1>1, <1>2, <1>3 DEF RoomTypeOK
    <3> QED BY <1>4, <1>5, <3>1 DEF KeepsStamp
  <2>4. ~rooms[r].registered
    <3>1. current.room <= opened /\ current.room \in Nat
      BY <1>1 DEF OpeningHolds, RoomTypeOK
    <3>2. r # current.room
      BY <1>2, <3>1
    <3> QED BY <2>1, <3>2 DEF RoomParts, OpenWhileRegistered, OneActive, Active
  <2>5. r \notin toClose
    BY <1>2, <2>1 DEF RoomParts, AgreesWithRegistry
  <2>6. AgreesWithRegistry(r)'
    BY <1>4, <1>5, <2>1, <2>4, <2>5 DEF RoomParts, AgreesWithRegistry
  <2>7. OneActive(r)'
    BY <1>6 DEF OneActive
  <2> QED BY <1>5, <2>2, <2>3, <2>6, <2>7 DEF RoomParts
<1>10. ASSUME NEW q \in Rooms, q # r PROVE RoomParts(q)'
  <2>1. RoomParts(q) /\ rooms'[q] = retired[q] /\ Retired(q, retired[q])
    BY <1>2, <1>5, <1>10 DEF RoomInv
  <2>2. OneLeaver(retired[q]) /\ OpenWhileRegistered(retired[q])
    BY <2>1 DEF Retired, RoomParts, OpenWhileRegistered
  <2>3. KeepsStamp(q)'
    BY <2>1 DEF RoomParts, KeepsStamp, Retired
  <2>4. AgreesWithRegistry(q)'
    <3>1. q <= opened => q <= r
      BY <1>2 DEF Rooms
    <3> QED BY <1>6, <2>1, <3>1 DEF RoomParts, AgreesWithRegistry, Retired
  <2>5. OneActive(q)'
    BY <2>1 DEF OneActive, Active, Retired
  <2> QED BY <2>1, <2>2, <2>3, <2>4, <2>5 DEF RoomParts
<1> QED BY <1>7, <1>8, <1>9, <1>10 DEF RoomInv

\* The route claims an id at once, giving up a join of an ended session.
LEMMA OpenRoomStep ==
  ASSUME RoomInv, NEW i \in RoomIds, OpenRoom(i)
  PROVE  RoomInv'
<1> USE RoomAssumption
<1> DEFINE p == current.room
           retire == p # 0 /\ current.epoch # epoch /\ Active(p)
           retired == IF retire THEN [rooms EXCEPT ![p] = Finished(@, FALSE)] ELSE rooms
<1>1. RoomTypeOK /\ OpeningHolds /\ \A q \in Rooms : RoomParts(q)
  BY DEF RoomInv
<1>2. /\ serving = "open" /\ i \in Chosen \cup {opened + 1} /\ opening' = NotOpening
      /\ p # 0 /\ current.epoch = epoch => ~Active(p)
      /\ retire => rooms[p].state = "joining"
      /\ Admit(i, epoch, p, retired)
      /\ UNCHANGED <<serving, epoch, registry, toClose>>
  BY DEF OpenRoom
<1>3. epoch > 0 /\ epoch \in 0..MaxSessions
  BY <1>1, <1>2 DEF OpeningHolds, RoomTypeOK
<1>4. retired = [q \in Rooms |-> retired[q]]
  BY <1>1 DEF RoomTypeOK
<1>5. ASSUME NEW q \in Rooms PROVE Retired(q, retired[q])
  <2>1. rooms[q] \in RoomRecords /\ OneLeaver(rooms[q]) /\ OpenWhileRegistered(rooms[q]) /\ OneActive(q)
    BY <1>1, <1>5 DEF RoomParts, RoomTypeOK
  <2>2. CASE ~Active(q)
    <3>1. retired[q] = rooms[q]
      BY <1>1, <2>2 DEF RoomTypeOK
    <3> QED BY <2>1, <2>2, <3>1 DEF Retired, Active
  <2>3. CASE Active(q)
    <3>1. q = p /\ q # 0
      BY <2>1, <2>3 DEF OneActive, Rooms
    <3>2. retire /\ rooms[q].state = "joining"
      BY <1>2, <2>3, <3>1
    <3>3. retired[q] = Finished(rooms[q], FALSE)
      BY <1>1, <3>1, <3>2 DEF RoomTypeOK
    <3>4. ~rooms[q].registered /\ rooms[q].join = "waiting"
      BY <2>1, <3>2 DEF OneLeaver
    <3> HIDE DEF retired
    <3>5. /\ retired[q] \in RoomRecords /\ OneLeaver(retired[q]) /\ retired[q].state = "closed"
          /\ ~retired[q].registered /\ retired[q].id = rooms[q].id /\ retired[q].admitted = rooms[q].admitted
      BY <2>1, <3>2, <3>3, FinishedFacts
    <3> QED BY <3>4, <3>5 DEF Retired
  <2> QED BY <2>2, <2>3
<1> HIDE DEF retired, p
<1> QED BY <1>2, <1>3, <1>4, <1>5, AdmitStep DEF RoomInv

\* The retired room is left: the waiting request claims its id, or is turned away.
LEMMA OpenResumesStep ==
  ASSUME RoomInv, OpenResumes
  PROVE  RoomInv'
<1> USE RoomAssumption
<1>1. RoomTypeOK /\ OpeningHolds /\ \A q \in Rooms : RoomParts(q)
  BY DEF RoomInv
<1>2. opening # NotOpening /\ opening' = NotOpening /\ UNCHANGED <<serving, epoch, registry, toClose>>
  BY DEF OpenResumes
<1>3. epoch > 0 /\ opening.id \in Chosen \cup {opened + 1} /\ ~Active(current.room)
  BY <1>1, <1>2 DEF OpeningHolds
<1>4. CASE opening.id \in claims \/ opened = MaxRooms
  <2>1. UNCHANGED <<stamps, rooms, opened, current>>
    BY <1>4 DEF OpenResumes
  <2>2. RoomTypeOK'
    BY <1>1, <1>2, <2>1 DEF RoomTypeOK, NotOpening
  <2>3. OpeningHolds'
    BY <1>1, <1>2, <2>1 DEF OpeningHolds
  <2>4. \A q \in Rooms : RoomParts(q)'
    BY <1>1, <1>2, <2>1 DEF RoomParts, KeepsStamp, AgreesWithRegistry, OneActive, Active
  <2> QED BY <2>2, <2>3, <2>4 DEF RoomInv
<1>5. CASE ~(opening.id \in claims \/ opened = MaxRooms)
  <2>1. Admit(opening.id, opening.epoch, opening.previous, rooms)
    BY <1>5 DEF OpenResumes
  <2>2. opening.id \in RoomIds /\ opening.epoch \in 0..MaxSessions
    BY <1>1, <1>3, <1>5 DEF RoomTypeOK, RoomIds, Rooms
  <2>3. rooms = [q \in Rooms |-> rooms[q]]
    BY <1>1 DEF RoomTypeOK
  <2>4. ASSUME NEW q \in Rooms PROVE Retired(q, rooms[q])
    <3>1. OneActive(q) /\ rooms[q] \in RoomRecords
      BY <1>1, <2>4 DEF RoomParts, RoomTypeOK
    <3>2. ~Active(q)
      BY <1>3, <3>1 DEF OneActive
    <3> QED BY <3>1, <3>2 DEF Retired, Active
  <2> QED BY <1>2, <1>3, <2>1, <2>2, <2>3, <2>4, AdmitStep
<1> QED BY <1>4, <1>5

\* The session starts, its registry is emptied for the teardown, and it unwinds.
LEMMA SessionStep ==
  ASSUME RoomInv, SessionStarts \/ SessionEnds \/ SessionUnwinds
  PROVE  RoomInv'
<1> USE RoomAssumption DEF router
<1>1. RoomTypeOK /\ OpeningHolds /\ \A q \in Rooms : RoomParts(q)
  BY DEF RoomInv
<1>2. UNCHANGED <<stamps, rooms, opened, current, opening>>
  BY DEF SessionStarts, SessionEnds, SessionUnwinds
<1>3. RoomTypeOK'
  <2>1. serving' \in {"ready", "open", "closing"} /\ epoch' \in 0..MaxSessions
    BY <1>1 DEF RoomTypeOK, SessionStarts, SessionEnds, SessionUnwinds
  <2> QED BY <1>1, <1>2, <2>1 DEF RoomTypeOK
<1>4. epoch \in Nat /\ epoch' \in Nat /\ epoch' >= epoch
  BY <1>1, <1>3 DEF RoomTypeOK, SessionStarts, SessionEnds, SessionUnwinds
<1>5. OpeningHolds'
  <2>1. serving' = "open" => epoch' > 0
    BY <1>4 DEF SessionStarts, SessionEnds, SessionUnwinds
  <2>2. ~Active(current.room) => ~Active(current.room)'
    BY <1>2 DEF Active
  <2> QED BY <1>1, <1>2, <1>4, <2>1, <2>2 DEF OpeningHolds
<1>6. ASSUME NEW q \in Rooms PROVE RoomParts(q)'
  <2>1. /\ OneLeaver(rooms[q]) /\ OpenWhileRegistered(rooms[q]) /\ KeepsStamp(q)
        /\ AgreesWithRegistry(q) /\ OneActive(q)
    BY <1>1, <1>6 DEF RoomParts
  <2>2. KeepsStamp(q)' /\ OneActive(q)'
    BY <1>2, <2>1 DEF KeepsStamp, OneActive, Active
  <2>3. AgreesWithRegistry(q)'
    <3>1. CASE SessionStarts
      BY <1>2, <2>1, <3>1 DEF SessionStarts, AgreesWithRegistry
    <3>2. CASE SessionEnds
      <4>1. /\ serving' = "closing" /\ registry' = {}
            /\ q \in toClose' <=> <<q, "room">> \in registry
        BY <3>2 DEF SessionEnds
      <4>2. rooms[q].registered => <<q, "room">> \in registry
        BY <2>1, <3>2 DEF AgreesWithRegistry, SessionEnds
      <4>3. <<q, "room">> \in registry => rooms[q].join = "done" /\ q <= opened
        <5>1. <<q, "room">> \in registry => rooms[q].state = "open" /\ Active(q)
          BY <2>1 DEF AgreesWithRegistry, OpenWhileRegistered, Active
        <5> QED BY <1>1, <2>1, <5>1 DEF OneLeaver, OneActive, OpeningHolds
      <4> QED BY <1>2, <4>1, <4>2, <4>3 DEF AgreesWithRegistry
    <3>3. CASE SessionUnwinds
      <4>1. /\ serving = "closing" /\ serving' = "ready" /\ toClose' = {} /\ UNCHANGED <<registry, epoch>>
            /\ q \in toClose => rooms[q].closer = "done"
        BY <3>3 DEF SessionUnwinds
      <4>2. ~rooms[q].registered
        BY <2>1, <4>1 DEF AgreesWithRegistry, OpenWhileRegistered
      <4> QED BY <1>2, <2>1, <4>1, <4>2 DEF AgreesWithRegistry
    <3> QED BY <3>1, <3>2, <3>3
  <2> QED BY <1>2, <2>1, <2>2, <2>3 DEF RoomParts
<1> QED BY <1>3, <1>5, <1>6 DEF RoomInv

-------------------------------------------------------------------------------
(* The theorem.                                                            *)

LEMMA RoomInvInit == RoomInit => RoomInv
<1> USE RoomAssumption
<1> SUFFICES ASSUME RoomInit PROVE RoomInv
  OBVIOUS
<1>1. \A r \in Rooms : rooms[r] = Unstarted
  BY DEF RoomInit
<1>2. RoomTypeOK
  <2>1. rooms \in [Rooms -> RoomRecords]
    BY UnstartedFacts DEF RoomInit
  <2>2. /\ serving \in {"ready", "open", "closing"} /\ epoch \in 0..MaxSessions
        /\ stamps \in [RoomIds -> 0..MaxSessions] /\ opened \in 0..MaxRooms
    BY DEF RoomInit
  <2>3. current \in [room : 0..MaxRooms, epoch : 0..MaxSessions]
    BY DEF RoomInit, NoRoom
  <2>4. opening \in [id : RoomIds \cup {0}, epoch : 0..MaxSessions, previous : 0..MaxRooms]
    BY DEF RoomInit, NotOpening
  <2> QED BY <2>1, <2>2, <2>3, <2>4 DEF RoomTypeOK
<1>3. OpeningHolds
  BY DEF RoomInit, OpeningHolds, NoRoom
<1>4. ASSUME NEW r \in Rooms PROVE RoomParts(r)
  <2>1. OneLeaver(rooms[r]) /\ OpenWhileRegistered(rooms[r])
    BY <1>1, UnstartedFacts DEF OneLeaver, Owed, OpenWhileRegistered
  <2>2. KeepsStamp(r) /\ OneActive(r)
    BY <1>1, UnstartedFacts DEF KeepsStamp, OneActive, Active
  <2>3. AgreesWithRegistry(r)
    BY <1>1, UnstartedFacts DEF AgreesWithRegistry, RoomInit
  <2> QED BY <2>1, <2>2, <2>3 DEF RoomParts
<1> QED BY <1>2, <1>3, <1>4 DEF RoomInv

LEMMA RoomInvStep == RoomInv /\ [RoomNext]_roomVars => RoomInv'
<1> SUFFICES ASSUME RoomInv, [RoomNext]_roomVars PROVE RoomInv'
  OBVIOUS
<1>1. CASE SessionStarts \/ SessionEnds \/ SessionUnwinds
  BY <1>1, SessionStep
<1>2. CASE \E i \in RoomIds : OpenRoom(i) \/ OpenRetires(i)
  BY <1>2, OpenRoomStep, OpenRetiresStep
<1>3. CASE OpenResumes
  BY <1>3, OpenResumesStep
<1>4. CASE LeaveRoom
  BY <1>4, FinishStep
<1>5. ASSUME NEW r \in Rooms, Work(r) PROVE RoomInv'
  <2>1. CASE Join(r)
    BY <2>1, JoinFailsStep, LeaverStep, JoinOpensStep DEF Join
  <2>2. CASE Finish(r)
    BY <2>2, LeaverStep, FinishStep, UnseenStep DEF Finish
  <2>3. CASE Close(r)
    BY <2>3, CloserStep, CloserDrainedStep DEF Close
  <2>4. CASE Abandon(r)
    BY <2>4, LeaverStep DEF Abandon
  <2> QED BY <1>5, <2>1, <2>2, <2>3, <2>4 DEF Work
<1>6. ASSUME NEW r \in Rooms, AttemptSettles(r) \/ LeaveEnds(r) \/ OnDisconnected(r) PROVE RoomInv'
  BY <1>6, UnseenStep
<1>7. ASSUME NEW r \in Rooms, NEW p \in Identities,
             AddParticipant(r, p) \/ ParticipantIgnored(r, p) \/ RemoveParticipant(r, p)
      PROVE  RoomInv'
  BY <1>7, ParticipantStep, UnseenStep
<1>8. CASE UNCHANGED roomVars
  BY <1>8 DEF roomVars, runner, router, RoomInv, RoomTypeOK, OpeningHolds, RoomParts, KeepsStamp,
              AgreesWithRegistry, OneActive, Active
<1> QED BY <1>1, <1>2, <1>3, <1>4, <1>5, <1>6, <1>7, <1>8 DEF RoomNext

\* Whatever request, session end, lost connection and late attempt come together,
\* a LiveKit room is left at most once (room.py, _disconnect), and what the session
\* has registered through a room belongs to that room's connection and, under a
\* minted id, to the session that admitted it (connection_opened).
THEOREM RoomsSafe == RoomSpec => []RoomHolds
<1>1. RoomSpec => []RoomInv
  BY RoomInvInit, RoomInvStep, PTL DEF RoomSpec
<1>2. RoomInv => RoomHolds
  BY DEF RoomInv, RoomParts, OneLeaver, AgreesWithRegistry, RoomHolds, LeftOnce, RegisteredBelongs
<1> QED BY <1>1, <1>2, PTL

-------------------------------------------------------------------------------
(* What a participant is sent: where a message, a call and an answer are.  *)

Absent(s, x) == \A i \in DOMAIN s : s[i] # x
Single(s, x) == \A i, j \in DOMAIN s : s[i] = x /\ s[j] = x => i = j

LEMMA AppendFacts ==
  ASSUME NEW S, NEW s \in Seq(S), NEW x \in S, NEW y
  PROVE  /\ Append(s, x) \in Seq(S)
         /\ Absent(Append(s, x), y) <=> Absent(s, y) /\ x # y
         /\ Single(s, y) /\ (x = y => Absent(s, y)) => Single(Append(s, x), y)
<1>0. PICK t : t = Append(s, x)
  OBVIOUS
<1>1. /\ t \in Seq(S) /\ DOMAIN s = 1 .. Len(s) /\ Len(s) \in Nat
      /\ DOMAIN t = 1 .. Len(s) + 1
      /\ \A i \in DOMAIN s : t[i] = s[i] /\ i \in DOMAIN t
      /\ t[Len(s) + 1] = x /\ Len(s) + 1 \in DOMAIN t
  BY <1>0
<1>2. \A i \in DOMAIN t : i \in DOMAIN s \/ i = Len(s) + 1
  BY <1>1
<1>3. Absent(t, y) <=> Absent(s, y) /\ x # y
  BY <1>1, <1>2 DEF Absent
<1>4. Single(s, y) /\ (x = y => Absent(s, y)) => Single(t, y)
  BY <1>1, <1>2 DEF Absent, Single
<1> QED BY <1>0, <1>1, <1>3, <1>4

LEMMA TailFacts ==
  ASSUME NEW S, NEW s \in Seq(S), s # <<>>, NEW y
  PROVE  /\ Tail(s) \in Seq(S) /\ Head(s) \in S
         /\ Absent(s, y) <=> Absent(Tail(s), y) /\ Head(s) # y
         /\ Single(s, y) => Single(Tail(s), y) /\ (Head(s) = y => Absent(Tail(s), y))
<1>0. PICK t, x : t = Tail(s) /\ x = Head(s)
  OBVIOUS
<1>1. /\ t \in Seq(S) /\ x \in S /\ DOMAIN s = 1 .. Len(s) /\ Len(s) \in Nat \ {0}
      /\ DOMAIN t = 1 .. Len(s) - 1
      /\ \A i \in DOMAIN t : t[i] = s[i + 1]
      /\ x = s[1]
  BY <1>0
<1>2. /\ \A i \in DOMAIN t : i + 1 \in DOMAIN s /\ i + 1 # 1 /\ i \in Nat
      /\ \A i \in DOMAIN s : i = 1 \/ (i - 1 \in DOMAIN t /\ s[i] = t[i - 1])
      /\ 1 \in DOMAIN s
  <2>1. 1 \in DOMAIN s /\ \A i \in DOMAIN t : i + 1 \in DOMAIN s /\ i + 1 # 1 /\ i \in Nat
    BY <1>1
  <2>2. ASSUME NEW i \in DOMAIN s, i # 1 PROVE i - 1 \in DOMAIN t /\ s[i] = t[i - 1]
    <3>1. i - 1 \in DOMAIN t /\ (i - 1) + 1 = i
      BY <1>1, <2>2
    <3> QED BY <1>1, <3>1
  <2> QED BY <2>1, <2>2
<1>3. Absent(s, y) <=> Absent(t, y) /\ x # y
  <2>1. ASSUME Absent(s, y) PROVE Absent(t, y) /\ x # y
    BY <1>1, <1>2, <2>1 DEF Absent
  <2>2. ASSUME Absent(t, y), x # y PROVE Absent(s, y)
    BY <1>1, <1>2, <2>2 DEF Absent
  <2> QED BY <2>1, <2>2
<1>4. ASSUME Single(s, y) PROVE Single(t, y) /\ (x = y => Absent(t, y))
  <2>1. Single(t, y)
    <3>1. SUFFICES ASSUME NEW i \in DOMAIN t, NEW j \in DOMAIN t, t[i] = y, t[j] = y PROVE i = j
      BY DEF Single
    <3>2. i + 1 = j + 1
      BY <1>1, <1>2, <1>4, <3>1 DEF Single
    <3> QED BY <1>2, <3>2
  <2>2. x = y => Absent(t, y)
    BY <1>1, <1>2, <1>4 DEF Single, Absent
  <2> QED BY <2>1, <2>2
<1> QED BY <1>0, <1>1, <1>3, <1>4

Calls     == Payloads \ Sends
Scheduled == Payloads \cup Requests \cup {End}

OutTypeOK ==
  /\ making \in [Payloads -> {"ready", "checked", "refused", "scheduled", "late", "dropped"}]
  /\ soon \in Seq(Scheduled) /\ outbox \in Seq(Sends \cup {End}) /\ calls \in Seq(Calls \cup {End})
  /\ caller \in [call : Calls \cup {"none", End}, try : Nat]
  /\ outClosed \in BOOLEAN /\ pump \in {"idle", "ended"}
  /\ ending \in {"none", "draining", "drained", "cut", "dropped"}
  /\ sent \in Seq(Sends) /\ ran \in [Calls -> Nat]
  /\ reply \in [Requests -> {"none", "waiting", "answered", "done"}]
  /\ answers \in [Requests -> Nat]

\* A call is with its thread, with the loop, in _calls or being made, and its
\* handler has run only when it is nowhere.
CallInPlace(m) ==
  /\ Single(soon, m) /\ Single(calls, m) /\ ran[m] <= 1
  /\ making[m] \in {"ready", "checked"} => Absent(soon, m)
  /\ making[m] \in {"ready", "checked"} \/ ~Absent(soon, m) =>
       Absent(calls, m) /\ caller.call # m /\ ran[m] = 0
  /\ ~Absent(calls, m) => caller.call # m /\ ran[m] = 0
  /\ caller.call = m => ran[m] = 0

\* A call of the participant's that the loop is to settle was taken, and it is
\* answered when it is done.
ReplyInPlace(q) ==
  /\ answers[q] = IF reply[q] = "done" THEN 1 ELSE 0
  /\ outClosed => reply[q] \in {"none", "done"}
  /\ ~Absent(soon, q) => reply[q] \in {"answered", "done"}

\* A message was scheduled in time, by what its thread is at (k), and nothing in
\* a queue was.
InTime(k, x)  == x \in Sends /\ k[x] = "scheduled"
TooLate(k, s) == \A j \in DOMAIN s : ~InTime(k, s[j])

\* Everything after the end in a queue came too late.
EndLast(k, s) ==
  \E i \in DOMAIN s :
    s[i] = End /\ \A j \in DOMAIN s : j # i => s[j] # End /\ (j > i => ~InTime(k, s[j]))

\* A message scheduled in time waits for the loop, waits for the pump or is
\* sent.
MessageInPlace(m) ==
  InTime(making, m) => ~Absent(soon, m) \/ ~Absent(outbox, m) \/ ~Absent(sent, m)

AllSent == \A m \in Sends : InTime(making, m) => ~Absent(sent, m)

\* While the connection drains, the end is with the loop, with the pump or
\* through, and every message in time is before it.
EndInLine ==
  /\ outClosed <=> ending # "none"
  /\ ending = "none" => Absent(soon, End) /\ Absent(outbox, End) /\ pump = "idle"
  /\ ending = "draining" =>
       \/ EndLast(making, soon) /\ Absent(outbox, End) /\ pump = "idle"
       \/ Absent(soon, End) /\ TooLate(making, soon) /\ EndLast(making, outbox) /\ pump = "idle"
       \/ Absent(soon, End) /\ AllSent /\ pump = "ended"
  /\ ending = "drained" => AllSent

OutboxInv ==
  /\ OutTypeOK /\ EndInLine
  /\ \A m \in Calls : CallInPlace(m)
  /\ \A q \in Requests : ReplyInPlace(q)
  /\ \A m \in Sends : MessageInPlace(m)

LEMMA OutNames ==
  /\ Sends \subseteq Payloads /\ Calls \subseteq Payloads /\ Sends \cap Calls = {}
  /\ Payloads \subseteq Scheduled /\ Requests \subseteq Scheduled /\ End \in Scheduled
  /\ \A m \in Payloads : m \notin Requests /\ m # End /\ m # "none"
  /\ \A q \in Requests : q \notin Payloads /\ q # End
BY OutboxAssumption DEF Calls, Scheduled

\* The end in a queue: what may be put behind it, and what is left of it.
LEMMA EndLastAppend ==
  ASSUME NEW S, NEW s \in Seq(S), NEW x \in S, NEW k, x # End, ~InTime(k, x), EndLast(k, s)
  PROVE  EndLast(k, Append(s, x))
<1>0. PICK t : t = Append(s, x)
  OBVIOUS
<1>1. /\ DOMAIN s = 1 .. Len(s) /\ Len(s) \in Nat /\ DOMAIN t = 1 .. Len(s) + 1
      /\ \A i \in DOMAIN s : t[i] = s[i] /\ i \in DOMAIN t
      /\ t[Len(s) + 1] = x
  BY <1>0
<1>2. \A i \in DOMAIN t : i \in DOMAIN s \/ i = Len(s) + 1
  BY <1>1
<1>3. PICK i \in DOMAIN s :
        s[i] = End /\ \A j \in DOMAIN s : j # i => s[j] # End /\ (j > i => ~InTime(k, s[j]))
  BY DEF EndLast
<1>4. \A j \in DOMAIN t : j # i => t[j] # End /\ (j > i => ~InTime(k, t[j]))
  BY <1>1, <1>2, <1>3
<1>5. EndLast(k, t)
  BY <1>1, <1>3, <1>4 DEF EndLast
<1> QED BY <1>0, <1>5

LEMMA EndLastPut ==
  ASSUME NEW S, NEW s \in Seq(S), NEW k, Absent(s, End), End \in S
  PROVE  EndLast(k, Append(s, End))
<1>0. PICK t : t = Append(s, End)
  OBVIOUS
<1>1. /\ DOMAIN s = 1 .. Len(s) /\ Len(s) \in Nat /\ DOMAIN t = 1 .. Len(s) + 1
      /\ \A i \in DOMAIN s : t[i] = s[i] /\ i \in DOMAIN t
      /\ t[Len(s) + 1] = End
  BY <1>0
<1>2. \A i \in DOMAIN t : i \in DOMAIN s \/ i = Len(s) + 1
  BY <1>1
<1>3. PICK n : n = Len(s) + 1
  OBVIOUS
<1>4. n \in DOMAIN t /\ t[n] = End
  BY <1>1, <1>3
<1>5. \A j \in DOMAIN t : j # n => t[j] # End
  BY <1>1, <1>2, <1>3 DEF Absent
<1>6. \A j \in DOMAIN t : ~(j > n)
  BY <1>1, <1>3
<1>7. EndLast(k, t)
  BY <1>4, <1>5, <1>6 DEF EndLast
<1> QED BY <1>0, <1>7

LEMMA EndLastTail ==
  ASSUME NEW S, NEW s \in Seq(S), s # <<>>, NEW k, EndLast(k, s)
  PROVE  /\ Head(s) # End => EndLast(k, Tail(s))
         /\ Head(s) = End => Absent(Tail(s), End) /\ TooLate(k, Tail(s))
<1>0. PICK t, x : t = Tail(s) /\ x = Head(s)
  OBVIOUS
<1>1. /\ DOMAIN s = 1 .. Len(s) /\ Len(s) \in Nat \ {0}
      /\ DOMAIN t = 1 .. Len(s) - 1
      /\ \A i \in DOMAIN t : t[i] = s[i + 1]
      /\ x = s[1]
  BY <1>0
<1>2. 1 \in DOMAIN s /\ \A i \in DOMAIN t : i + 1 \in DOMAIN s /\ i + 1 # 1 /\ i + 1 > 1 /\ i \in Nat
  BY <1>1
<1>3. PICK i \in DOMAIN s :
        s[i] = End /\ \A j \in DOMAIN s : j # i => s[j] # End /\ (j > i => ~InTime(k, s[j]))
  BY DEF EndLast
<1>4. CASE x # End
  <2>1. i # 1 /\ i \in Nat
    BY <1>1, <1>3, <1>4
  <2>2. PICK n : n = i - 1
    OBVIOUS
  <2>3. n \in DOMAIN t /\ n \in Nat /\ n + 1 = i
    BY <1>1, <1>3, <2>1, <2>2
  <2>4. t[n] = End
    BY <1>1, <1>3, <2>3
  <2>5. ASSUME NEW j \in DOMAIN t, j # n PROVE t[j] # End /\ (j > n => ~InTime(k, t[j]))
    <3>1. j + 1 \in DOMAIN s /\ j + 1 # i /\ t[j] = s[j + 1] /\ (j > n => j + 1 > i)
      BY <1>1, <1>2, <2>3, <2>5
    <3> QED BY <1>3, <3>1
  <2>6. EndLast(k, t)
    BY <2>3, <2>4, <2>5 DEF EndLast
  <2> QED BY <1>0, <1>4, <2>6
<1>5. CASE x = End
  <2>1. i = 1
    BY <1>1, <1>2, <1>3, <1>5
  <2>2. Absent(t, End) /\ TooLate(k, t)
    BY <1>1, <1>2, <1>3, <2>1 DEF Absent, TooLate
  <2> QED BY <1>0, <1>5, <2>2
<1> QED BY <1>4, <1>5

LEMMA TooLateFacts ==
  ASSUME NEW S, NEW s \in Seq(S), NEW k, TooLate(k, s)
  PROVE  /\ \A x \in S : ~InTime(k, x) => TooLate(k, Append(s, x))
         /\ s # <<>> => TooLate(k, Tail(s)) /\ ~InTime(k, Head(s))
<1>1. ASSUME NEW x \in S, ~InTime(k, x) PROVE TooLate(k, Append(s, x))
  <2>0. PICK t : t = Append(s, x)
    OBVIOUS
  <2>1. /\ DOMAIN s = 1 .. Len(s) /\ Len(s) \in Nat /\ DOMAIN t = 1 .. Len(s) + 1
        /\ \A i \in DOMAIN s : t[i] = s[i]
        /\ t[Len(s) + 1] = x
    BY <2>0
  <2>2. TooLate(k, t)
    BY <1>1, <2>1 DEF TooLate
  <2> QED BY <2>0, <2>2
<1>2. ASSUME s # <<>> PROVE TooLate(k, Tail(s)) /\ ~InTime(k, Head(s))
  <2>0. PICK t, x : t = Tail(s) /\ x = Head(s)
    OBVIOUS
  <2>1. /\ DOMAIN s = 1 .. Len(s) /\ Len(s) \in Nat \ {0}
        /\ DOMAIN t = 1 .. Len(s) - 1
        /\ \A i \in DOMAIN t : t[i] = s[i + 1]
        /\ x = s[1]
    BY <1>2, <2>0
  <2>2. 1 \in DOMAIN s /\ \A i \in DOMAIN t : i + 1 \in DOMAIN s
    BY <2>1
  <2>3. TooLate(k, t) /\ ~InTime(k, x)
    BY <2>1, <2>2 DEF TooLate
  <2> QED BY <2>0, <2>3
<1> QED BY <1>1, <1>2

\* Fewer messages in time, the same queue.
LEMMA FewerInTime ==
  ASSUME NEW k, NEW l, NEW s, \A x : InTime(l, x) => InTime(k, x)
  PROVE  /\ EndLast(k, s) => EndLast(l, s)
         /\ TooLate(k, s) => TooLate(l, s)
BY DEF EndLast, TooLate

LEMMA OutboxInitial == OutboxInit => OutboxInv
<1> SUFFICES ASSUME OutboxInit PROVE OutboxInv
  OBVIOUS
<1>0. /\ making = [m \in Payloads |-> "ready"] /\ soon = <<>> /\ outClosed = FALSE
      /\ ending = "none" /\ outbox = <<>> /\ pump = "idle" /\ calls = <<>>
      /\ caller = [call |-> "none", try |-> 0] /\ sent = <<>> /\ ran = [m \in Calls |-> 0]
      /\ reply = [q \in Requests |-> "none"] /\ answers = [q \in Requests |-> 0]
  BY DEF OutboxInit, Calls
<1>1. OutTypeOK
  <2>1. /\ making \in [Payloads -> {"ready", "checked", "refused", "scheduled", "late", "dropped"}]
        /\ ran \in [Calls -> Nat] /\ answers \in [Requests -> Nat]
        /\ reply \in [Requests -> {"none", "waiting", "answered", "done"}]
    BY <1>0
  <2>2. /\ soon \in Seq(Scheduled) /\ outbox \in Seq(Sends \cup {End}) /\ calls \in Seq(Calls \cup {End})
        /\ sent \in Seq(Sends)
    BY <1>0
  <2>3. /\ caller \in [call : Calls \cup {"none", End}, try : Nat] /\ outClosed \in BOOLEAN
        /\ pump \in {"idle", "ended"} /\ ending \in {"none", "draining", "drained", "cut", "dropped"}
    BY <1>0
  <2> QED BY <2>1, <2>2, <2>3 DEF OutTypeOK
<1>2. \A x : Absent(<<>>, x) /\ Single(<<>>, x)
  BY DEF Absent, Single
<1>3. EndInLine
  BY <1>0, <1>2 DEF EndInLine
<1>4. \A m \in Calls : CallInPlace(m)
  BY <1>0, <1>2, OutNames DEF CallInPlace
<1>5. \A q \in Requests : ReplyInPlace(q)
  BY <1>0, <1>2 DEF ReplyInPlace
<1>6. \A m \in Sends : MessageInPlace(m)
  BY <1>0, OutNames DEF MessageInPlace, InTime
<1> QED BY <1>1, <1>3, <1>4, <1>5, <1>6 DEF OutboxInv

\* What stays as it is where a step does not reach it.
LEMMA EndStays ==
  ASSUME EndInLine, UNCHANGED <<outClosed, ending, pump, soon, outbox>>,
         \A x : InTime(making', x) => InTime(making, x),
         \A m \in Sends : ~Absent(sent, m) => ~Absent(sent', m)
  PROVE  EndInLine'
<1>1. /\ EndLast(making, soon) => EndLast(making', soon')
      /\ EndLast(making, outbox) => EndLast(making', outbox')
      /\ TooLate(making, soon) => TooLate(making', soon')
  BY FewerInTime
<1>2. AllSent => AllSent'
  BY DEF AllSent
<1> QED BY <1>1, <1>2 DEF EndInLine

LEMMA CallStays ==
  ASSUME NEW m, CallInPlace(m), Single(soon', m), Single(calls', m), ran'[m] = ran[m],
         making'[m] \in {"ready", "checked"} => making[m] \in {"ready", "checked"},
         ~Absent(soon', m) => ~Absent(soon, m), ~Absent(calls', m) => ~Absent(calls, m),
         caller'.call = m => caller.call = m
  PROVE  CallInPlace(m)'
BY DEF CallInPlace

LEMMA ReplyStays ==
  ASSUME NEW q, ReplyInPlace(q), answers'[q] = answers[q], reply'[q] = reply[q],
         outClosed' => outClosed, ~Absent(soon', q) => ~Absent(soon, q)
  PROVE  ReplyInPlace(q)'
BY DEF ReplyInPlace

LEMMA MessageStays ==
  ASSUME NEW m, MessageInPlace(m), InTime(making', m) => InTime(making, m),
         ~Absent(soon, m) => ~Absent(soon', m) \/ ~Absent(outbox', m),
         ~Absent(outbox, m) => ~Absent(outbox', m) \/ ~Absent(sent', m),
         ~Absent(sent, m) => ~Absent(sent', m)
  PROVE  MessageInPlace(m)'
BY DEF MessageInPlace

\* Threads.
LEMMA ChecksStep ==
  ASSUME OutboxInv, NEW m \in Payloads, ThreadChecks(m)
  PROVE  OutboxInv'
<1>0. /\ making[m] = "ready" /\ making' = [making EXCEPT ![m] = IF outClosed THEN "refused" ELSE "checked"]
      /\ UNCHANGED <<soon, outClosed, ending, outbox, pump, calls, caller, sent, ran, reply, answers>>
      /\ making \in [Payloads -> {"ready", "checked", "refused", "scheduled", "late", "dropped"}]
  BY DEF ThreadChecks, OutboxInv, OutTypeOK
<1>1. OutTypeOK'
  BY <1>0 DEF OutboxInv, OutTypeOK
<1>2. \A x \in Payloads : /\ making'[x] \in {"ready", "checked"} => making[x] \in {"ready", "checked"}
                          /\ making'[x] = "scheduled" => making[x] = "scheduled"
  BY <1>0
<1>3. \A x : InTime(making', x) => InTime(making, x)
  BY <1>2, OutNames DEF InTime
<1>4. EndInLine'
  BY <1>0, <1>3, EndStays DEF OutboxInv
<1>5. \A c \in Calls : CallInPlace(c)'
  <2>1. SUFFICES ASSUME NEW c \in Calls PROVE CallInPlace(c)'
    OBVIOUS
  <2>2. CallInPlace(c) /\ Single(soon, c) /\ Single(calls, c) /\ c \in Payloads
    BY OutNames DEF OutboxInv, CallInPlace
  <2> QED BY <1>0, <1>2, <2>2, CallStays
<1>6. \A q \in Requests : ReplyInPlace(q)'
  BY <1>0 DEF OutboxInv, ReplyInPlace
<1>7. \A c \in Sends : MessageInPlace(c)'
  BY <1>0, <1>3, MessageStays DEF OutboxInv
<1> QED BY <1>1, <1>4, <1>5, <1>6, <1>7 DEF OutboxInv

LEMMA SchedulesStep ==
  ASSUME OutboxInv, NEW m \in Payloads, ThreadSchedules(m)
  PROVE  OutboxInv'
<1>0. /\ making[m] = "checked" /\ making' = [making EXCEPT ![m] = IF outClosed THEN "late" ELSE "scheduled"]
      /\ soon' = Append(soon, m)
      /\ UNCHANGED <<outClosed, ending, outbox, pump, calls, caller, sent, ran, reply, answers>>
      /\ making \in [Payloads -> {"ready", "checked", "refused", "scheduled", "late", "dropped"}]
      /\ soon \in Seq(Scheduled) /\ m \in Scheduled
  BY OutNames DEF ThreadSchedules, OutboxInv, OutTypeOK
<1>1. soon' \in Seq(Scheduled) /\ \A x : (Absent(soon', x) <=> Absent(soon, x) /\ m # x)
  BY <1>0, AppendFacts
<1>2. OutTypeOK'
  BY <1>0, <1>1 DEF OutboxInv, OutTypeOK
<1>3. /\ making'[m] \in {"late", "scheduled"} /\ (outClosed => making'[m] = "late")
      /\ \A x \in Payloads : x # m => making'[x] = making[x]
  BY <1>0
<1>4. EndInLine'
  <2>1. CASE ending = "none"
    BY <1>0, <1>1, <2>1, OutNames DEF OutboxInv, EndInLine
  <2>2. CASE ending # "none"
    <3>1. outClosed
      BY <2>2 DEF OutboxInv, EndInLine
    <3>2. \A x : InTime(making', x) => InTime(making, x)
      BY <1>3, <3>1, OutNames DEF InTime
    <3>3. ~InTime(making', m)
      BY <1>3, <3>1 DEF InTime
    <3>4. AllSent => AllSent'
      BY <1>0, <3>2 DEF AllSent
    <3>5. EndLast(making, outbox) => EndLast(making', outbox)
      BY <3>2, FewerInTime
    <3>6. PICK k, s : k = making' /\ s = soon
      OBVIOUS
    <3>7. EndLast(making, soon) => EndLast(making', soon')
      <4>1. EndLast(making, soon) => EndLast(k, s)
        BY <3>2, <3>6, FewerInTime
      <4>2. EndLast(k, s) => EndLast(k, Append(s, m))
        BY <1>0, <3>3, <3>6, EndLastAppend, OutNames
      <4> QED BY <1>0, <3>6, <4>1, <4>2
    <3>8. TooLate(making, soon) => TooLate(making', soon')
      <4>1. TooLate(making, soon) => TooLate(k, s)
        BY <3>2, <3>6, FewerInTime
      <4>2. TooLate(k, s) => TooLate(k, Append(s, m))
        BY <1>0, <3>3, <3>6, TooLateFacts
      <4> QED BY <1>0, <3>6, <4>1, <4>2
    <3> QED BY <1>0, <1>1, <2>2, <3>4, <3>5, <3>7, <3>8, OutNames DEF OutboxInv, EndInLine
  <2> QED BY <2>1, <2>2
<1>5. \A c \in Calls : CallInPlace(c)'
  <2>1. SUFFICES ASSUME NEW c \in Calls PROVE CallInPlace(c)'
    OBVIOUS
  <2>2. CallInPlace(c) /\ Single(soon, c) /\ Single(calls, c) /\ c \in Payloads
    BY OutNames DEF OutboxInv, CallInPlace
  <2>3. c = m => Absent(soon, c) /\ Absent(calls, c) /\ caller.call # c /\ ran[c] = 0
    BY <1>0, <2>2 DEF CallInPlace
  <2>4. Single(soon', c)
    BY <1>0, <2>2, <2>3, AppendFacts
  <2>5. CASE c = m
    BY <1>0, <1>3, <2>2, <2>3, <2>4, <2>5 DEF CallInPlace
  <2>6. CASE c # m
    BY <1>0, <1>1, <1>3, <2>2, <2>4, <2>6, CallStays
  <2> QED BY <2>5, <2>6
<1>6. \A q \in Requests : ReplyInPlace(q)'
  <2>1. \A q \in Requests : q # m /\ ReplyInPlace(q)
    BY OutNames DEF OutboxInv
  <2> QED BY <1>0, <1>1, <2>1 DEF ReplyInPlace
<1>7. \A c \in Sends : MessageInPlace(c)'
  <2>1. SUFFICES ASSUME NEW c \in Sends PROVE MessageInPlace(c)'
    OBVIOUS
  <2>2. CASE c = m
    BY <1>1, <2>2 DEF MessageInPlace
  <2>3. CASE c # m
    <3>1. InTime(making', c) => InTime(making, c)
      BY <1>3, <2>3, OutNames DEF InTime
    <3> QED BY <1>0, <1>1, <2>3, <3>1, MessageStays DEF OutboxInv
  <2> QED BY <2>2, <2>3
<1> QED BY <1>2, <1>4, <1>5, <1>6, <1>7 DEF OutboxInv

\* The loop's next callback leaves its queue: what that does to the queue, and
\* where the end is when it is not the callback.
LEMMA CallbackFacts ==
  ASSUME OutboxInv, RunCallback
  PROVE  /\ soon # <<>> /\ soon \in Seq(Scheduled) /\ soon' = Tail(soon) /\ soon' \in Seq(Scheduled)
         /\ Head(soon) \in Scheduled
         /\ \A x : Absent(soon, x) <=> Absent(soon', x) /\ Head(soon) # x
         /\ \A x : Single(soon, x) => Single(soon', x) /\ (Head(soon) = x => Absent(soon', x))
         /\ UNCHANGED <<outClosed, ending, pump, caller, sent, ran>>
<1>1. soon # <<>> /\ soon \in Seq(Scheduled) /\ soon' = Tail(soon)
  BY DEF RunCallback, OutboxInv, OutTypeOK
<1> QED BY <1>1, TailFacts DEF RunCallback

LEMMA CallbackEnd ==
  ASSUME OutboxInv, RunCallback, Head(soon) # End,
         \A x : InTime(making', x) => InTime(making, x),
         \/ outbox' = outbox
         \/ outbox' = Append(outbox, Head(soon)) /\ Head(soon) \in Sends
  PROVE  EndInLine'
<1>0. /\ soon # <<>> /\ soon \in Seq(Scheduled) /\ soon' = Tail(soon)
      /\ \A x : Absent(soon, x) => Absent(soon', x)
      /\ UNCHANGED <<outClosed, ending, pump, sent>>
      /\ outbox \in Seq(Sends \cup {End})
  BY CallbackFacts DEF OutboxInv, OutTypeOK
<1>1. PICK k, s, b, x : k = making' /\ s = soon /\ b = outbox /\ x = Head(soon)
  OBVIOUS
<1>2. AllSent => AllSent'
  BY <1>0 DEF AllSent
<1>3. EndLast(making, soon) => EndLast(making', soon')
  <2>1. EndLast(making, soon) => EndLast(k, s)
    BY <1>1, FewerInTime
  <2>2. EndLast(k, s) => EndLast(k, Tail(s))
    BY <1>0, <1>1, EndLastTail
  <2> QED BY <1>0, <1>1, <2>1, <2>2
<1>4. TooLate(making, soon) => TooLate(making', soon') /\ ~InTime(making', x)
  <2>1. TooLate(making, soon) => TooLate(k, s)
    BY <1>1, FewerInTime
  <2>2. TooLate(k, s) => TooLate(k, Tail(s)) /\ ~InTime(k, Head(s))
    BY <1>0, <1>1, TooLateFacts
  <2> QED BY <1>0, <1>1, <2>1, <2>2
<1>5. EndLast(making, outbox) /\ TooLate(making, soon) => EndLast(making', outbox')
  <2>1. EndLast(making, outbox) => EndLast(k, b)
    BY <1>1, FewerInTime
  <2>2. CASE outbox' = outbox
    BY <1>1, <2>1, <2>2
  <2>3. CASE outbox' = Append(outbox, Head(soon)) /\ Head(soon) \in Sends
    <3>1. EndLast(k, b) /\ ~InTime(k, x) => EndLast(k, Append(b, x))
      BY <1>0, <1>1, <2>3, EndLastAppend
    <3> QED BY <1>1, <1>4, <2>1, <2>3, <3>1
  <2> QED BY <2>2, <2>3
<1>6. Absent(outbox, End) => Absent(outbox', End)
  <2>1. CASE outbox' = outbox
    BY <2>1
  <2>2. CASE outbox' = Append(outbox, Head(soon)) /\ Head(soon) \in Sends
    BY <1>0, <1>1, <2>2, AppendFacts
  <2> QED BY <2>1, <2>2
<1> QED BY <1>0, <1>2, <1>3, <1>4, <1>5, <1>6 DEF OutboxInv, EndInLine

LEMMA CallbackEnds ==
  ASSUME OutboxInv, RunCallback, Head(soon) = End
  PROVE  OutboxInv'
<1>0. /\ soon # <<>> /\ soon \in Seq(Scheduled) /\ soon' = Tail(soon) /\ soon' \in Seq(Scheduled)
      /\ \A x : Absent(soon, x) <=> Absent(soon', x) /\ End # x
      /\ \A x : Single(soon, x) => Single(soon', x) /\ (End = x => Absent(soon', x))
      /\ UNCHANGED <<outClosed, ending, pump, caller, sent, ran>>
  BY CallbackFacts
<1>1. /\ outbox' = Append(outbox, End) /\ calls' = Append(calls, End)
      /\ UNCHANGED <<making, reply, answers>>
      /\ outbox \in Seq(Sends \cup {End}) /\ calls \in Seq(Calls \cup {End})
  BY DEF RunCallback, OutboxInv, OutTypeOK
<1>2. /\ outbox' \in Seq(Sends \cup {End}) /\ calls' \in Seq(Calls \cup {End})
      /\ \A x : Absent(outbox', x) <=> Absent(outbox, x) /\ End # x
      /\ \A x : Absent(calls', x) <=> Absent(calls, x) /\ End # x
      /\ \A x : x # End => (Single(calls, x) => Single(calls', x))
  <2>1. End \in Sends \cup {End} /\ End \in Calls \cup {End}
    OBVIOUS
  <2>2. PICK C : C = Calls \cup {End}
    OBVIOUS
  <2>3. PICK T : T = Sends \cup {End}
    OBVIOUS
  <2>4. PICK e : e = End
    OBVIOUS
  <2>5. calls \in Seq(C) /\ e \in C /\ calls' = Append(calls, e)
    BY <1>1, <2>1, <2>2, <2>4
  <2>6. outbox \in Seq(T) /\ e \in T /\ outbox' = Append(outbox, e)
    BY <1>1, <2>1, <2>3, <2>4
  <2>7. outbox' \in Seq(T) /\ (\A x : Absent(outbox', x) <=> Absent(outbox, x) /\ e # x)
    BY <2>6, AppendFacts
  <2>8. /\ calls' \in Seq(C) /\ (\A x : Absent(calls', x) <=> Absent(calls, x) /\ e # x)
        /\ \A x : x # e => (Single(calls, x) => Single(calls', x))
    BY <2>5, AppendFacts
  <2> QED BY <2>2, <2>3, <2>4, <2>7, <2>8
<1>3. OutTypeOK'
  BY <1>0, <1>1, <1>2 DEF OutboxInv, OutTypeOK
<1>4. EndInLine'
  <2>1. ending # "none" /\ ~Absent(soon, End)
    BY <1>0 DEF OutboxInv, EndInLine
  <2>2. AllSent => AllSent'
    BY <1>0, <1>1 DEF AllSent
  <2>3. ASSUME ending = "draining"
        PROVE  EndLast(making, soon) /\ Absent(outbox, End) /\ pump = "idle"
    BY <2>1, <2>3 DEF OutboxInv, EndInLine
  <2>4. ASSUME ending = "draining"
        PROVE  Absent(soon', End) /\ TooLate(making', soon') /\ EndLast(making', outbox')
    <3>1. PICK k, s, b : k = making /\ s = soon /\ b = outbox
      OBVIOUS
    <3>2. Absent(Tail(s), End) /\ TooLate(k, Tail(s))
      BY <1>0, <2>3, <2>4, <3>1, EndLastTail
    <3>3. EndLast(k, Append(b, End))
      BY <1>1, <2>3, <2>4, <3>1, EndLastPut
    <3> QED BY <1>0, <1>1, <3>1, <3>2, <3>3
  <2> QED BY <1>0, <1>1, <2>1, <2>2, <2>3, <2>4 DEF OutboxInv, EndInLine
<1>5. \A c \in Calls : CallInPlace(c)'
  <2>1. SUFFICES ASSUME NEW c \in Calls PROVE CallInPlace(c)'
    OBVIOUS
  <2>2. CallInPlace(c) /\ Single(soon, c) /\ Single(calls, c) /\ c # End
    BY OutNames DEF OutboxInv, CallInPlace
  <2> QED BY <1>0, <1>1, <1>2, <2>2, CallStays
<1>6. \A q \in Requests : ReplyInPlace(q)'
  BY <1>0, <1>1, ReplyStays DEF OutboxInv
<1>7. \A c \in Sends : MessageInPlace(c)'
  <2>1. SUFFICES ASSUME NEW c \in Sends PROVE MessageInPlace(c)'
    OBVIOUS
  <2>2. c # End /\ MessageInPlace(c)
    BY OutNames DEF OutboxInv
  <2> QED BY <1>0, <1>1, <1>2, <2>2, MessageStays
<1> QED BY <1>3, <1>4, <1>5, <1>6, <1>7 DEF OutboxInv

LEMMA CallbackSettles ==
  ASSUME OutboxInv, RunCallback, Head(soon) \in Requests
  PROVE  OutboxInv'
<1>0. /\ soon' \in Seq(Scheduled)
      /\ \A x : Absent(soon, x) <=> Absent(soon', x) /\ Head(soon) # x
      /\ \A x : Single(soon, x) => Single(soon', x) /\ (Head(soon) = x => Absent(soon', x))
      /\ UNCHANGED <<outClosed, ending, pump, caller, sent, ran>>
  BY CallbackFacts
<1>1. PICK h \in Requests : h = Head(soon)
  OBVIOUS
<1>2. /\ reply' = [reply EXCEPT ![h] = "done"]
      /\ answers' = [answers EXCEPT ![h] = IF reply[h] = "done" THEN @ ELSE @ + 1]
      /\ UNCHANGED <<making, outbox, calls>>
      /\ reply \in [Requests -> {"none", "waiting", "answered", "done"}] /\ answers \in [Requests -> Nat]
      /\ h # End
  BY <1>1, OutNames DEF RunCallback, OutboxInv, OutTypeOK
<1>3. OutTypeOK'
  <2>1. reply' \in [Requests -> {"none", "waiting", "answered", "done"}] /\ answers' \in [Requests -> Nat]
    BY <1>2
  <2> QED BY <1>0, <1>2, <2>1 DEF OutboxInv, OutTypeOK
<1>4. EndInLine'
  BY <1>1, <1>2, CallbackEnd
<1>5. \A c \in Calls : CallInPlace(c)'
  <2>1. SUFFICES ASSUME NEW c \in Calls PROVE CallInPlace(c)'
    OBVIOUS
  <2>2. CallInPlace(c) /\ Single(soon, c) /\ Single(calls, c)
    BY DEF OutboxInv, CallInPlace
  <2> QED BY <1>0, <1>2, <2>2, CallStays
<1>6. \A q \in Requests : ReplyInPlace(q)'
  <2>1. SUFFICES ASSUME NEW q \in Requests PROVE ReplyInPlace(q)'
    OBVIOUS
  <2>2. ReplyInPlace(q) /\ ReplyInPlace(h)
    BY DEF OutboxInv
  <2>3. CASE q = h
    <3>1. answers'[h] = 1 /\ reply'[h] = "done"
      BY <1>2, <2>2 DEF ReplyInPlace
    <3> QED BY <2>3, <3>1 DEF ReplyInPlace
  <2>4. CASE q # h
    <3>1. answers'[q] = answers[q] /\ reply'[q] = reply[q]
      BY <1>2, <2>4
    <3> QED BY <1>0, <2>2, <3>1, ReplyStays
  <2> QED BY <2>3, <2>4
<1>7. \A c \in Sends : MessageInPlace(c)'
  <2>1. SUFFICES ASSUME NEW c \in Sends PROVE MessageInPlace(c)'
    OBVIOUS
  <2>2. c # h /\ MessageInPlace(c)
    BY OutNames DEF OutboxInv
  <2> QED BY <1>0, <1>1, <1>2, <2>2, MessageStays
<1> QED BY <1>3, <1>4, <1>5, <1>6, <1>7 DEF OutboxInv

\* A message dropped is no longer one in time.
LEMMA DropFacts ==
  ASSUME OutboxInv, NEW m \in Payloads, making' = making \/ DropPayload(m)
  PROVE  /\ making' \in [Payloads -> {"ready", "checked", "refused", "scheduled", "late", "dropped"}]
         /\ \A x : InTime(making', x) => InTime(making, x)
         /\ DropPayload(m) => ~InTime(making', m)
         /\ \A x \in Payloads : making'[x] \in {"ready", "checked"} => making[x] \in {"ready", "checked"}
<1>0. making \in [Payloads -> {"ready", "checked", "refused", "scheduled", "late", "dropped"}]
  BY DEF OutboxInv, OutTypeOK
<1>1. making' \in [Payloads -> {"ready", "checked", "refused", "scheduled", "late", "dropped"}]
  BY <1>0 DEF DropPayload
<1>2. \A x \in Payloads : making'[x] = making[x] \/ making'[x] = "dropped"
  BY <1>0 DEF DropPayload
<1>3. DropPayload(m) => making'[m] = "dropped"
  BY <1>0 DEF DropPayload
<1> QED BY <1>1, <1>2, <1>3, OutNames DEF InTime

LEMMA CallbackAdmits ==
  ASSUME OutboxInv, RunCallback, Head(soon) \in Payloads
  PROVE  OutboxInv'
<1>0. /\ soon' \in Seq(Scheduled)
      /\ \A x : Absent(soon, x) <=> Absent(soon', x) /\ Head(soon) # x
      /\ \A x : Single(soon, x) => Single(soon', x) /\ (Head(soon) = x => Absent(soon', x))
      /\ UNCHANGED <<outClosed, ending, pump, caller, sent, ran>>
  BY CallbackFacts
<1>1. PICK h \in Payloads : h = Head(soon)
  OBVIOUS
<1>2. h # End /\ h \notin Requests /\ outbox \in Seq(Sends \cup {End}) /\ calls \in Seq(Calls \cup {End})
  BY OutNames DEF OutboxInv, OutTypeOK
<1>3. /\ UNCHANGED <<reply, answers>>
      /\ \/ DropPayload(h) /\ outbox' = outbox /\ calls' = calls
         \/ h \in Sends /\ outbox' = Append(outbox, h) /\ making' = making /\ calls' = calls
         \/ h \in Calls /\ calls' = Append(calls, h) /\ making' = making /\ outbox' = outbox
  BY <1>1, <1>2 DEF RunCallback, Calls
<1>4. /\ making' \in [Payloads -> {"ready", "checked", "refused", "scheduled", "late", "dropped"}]
      /\ \A x : InTime(making', x) => InTime(making, x)
      /\ DropPayload(h) => ~InTime(making', h)
      /\ \A x \in Payloads : making'[x] \in {"ready", "checked"} => making[x] \in {"ready", "checked"}
  BY <1>3, DropFacts
<1>5. /\ outbox' \in Seq(Sends \cup {End})
      /\ \A x : Absent(outbox', x) <=> Absent(outbox, x) /\ (outbox' # outbox => h # x)
  <2>1. CASE outbox' = outbox
    BY <1>2, <2>1
  <2>2. CASE outbox' # outbox
    <3>1. outbox' = Append(outbox, h) /\ h \in Sends \cup {End}
      BY <1>3, <2>2
    <3> QED BY <1>2, <2>2, <3>1, AppendFacts
  <2> QED BY <2>1, <2>2
<1>6. /\ calls' \in Seq(Calls \cup {End})
      /\ \A x : Absent(calls', x) <=> Absent(calls, x) /\ (calls' # calls => h # x)
      /\ \A x : Single(calls, x) /\ (h = x => Absent(calls, x)) => Single(calls', x)
  <2>1. CASE calls' = calls
    BY <1>2, <2>1
  <2>2. CASE calls' # calls
    <3>1. calls' = Append(calls, h) /\ h \in Calls \cup {End}
      BY <1>3, <2>2
    <3> QED BY <1>2, <2>2, <3>1, AppendFacts
  <2> QED BY <2>1, <2>2
<1>7. OutTypeOK'
  BY <1>0, <1>3, <1>4, <1>5, <1>6 DEF OutboxInv, OutTypeOK
<1>8. EndInLine'
  BY <1>1, <1>2, <1>3, <1>4, CallbackEnd
<1>9. \A c \in Calls : CallInPlace(c)'
  <2>1. SUFFICES ASSUME NEW c \in Calls PROVE CallInPlace(c)'
    OBVIOUS
  <2>2. CallInPlace(c) /\ Single(soon, c) /\ Single(calls, c) /\ c \in Payloads
    BY OutNames DEF OutboxInv, CallInPlace
  <2>3. CASE c # h
    <3>1. Single(soon', c) /\ Single(calls', c) /\ (Absent(calls', c) <=> Absent(calls, c))
      BY <1>0, <1>6, <2>2, <2>3
    <3> QED BY <1>0, <1>4, <2>2, <3>1, CallStays
  <2>4. CASE c = h
    <3>1. ~Absent(soon, c) /\ Absent(soon', c) /\ Single(soon', c)
      BY <1>0, <1>1, <2>2, <2>4
    <3>2. Absent(calls, c) /\ caller.call # c /\ ran[c] = 0 /\ making[c] \notin {"ready", "checked"}
      BY <2>2, <3>1 DEF CallInPlace
    <3>3. Single(calls', c) /\ making'[c] \notin {"ready", "checked"}
      BY <1>4, <1>6, <2>2, <3>2
    <3> QED BY <1>0, <3>1, <3>2, <3>3 DEF CallInPlace
  <2> QED BY <2>3, <2>4
<1>10. \A q \in Requests : ReplyInPlace(q)'
  BY <1>0, <1>3, ReplyStays DEF OutboxInv
<1>11. \A c \in Sends : MessageInPlace(c)'
  <2>1. SUFFICES ASSUME NEW c \in Sends PROVE MessageInPlace(c)'
    OBVIOUS
  <2>2. MessageInPlace(c) /\ c \notin Calls
    BY OutNames DEF OutboxInv
  <2>3. CASE c = h /\ DropPayload(h)
    BY <1>4, <2>3 DEF MessageInPlace
  <2>4. CASE c # h \/ ~DropPayload(h)
    <3>1. c = h => ~Absent(outbox', c)
      <4>1. SUFFICES ASSUME c = h PROVE ~Absent(outbox', c)
        OBVIOUS
      <4>2. outbox' = Append(outbox, h) /\ h \in Sends \cup {End}
        BY <1>3, <2>2, <2>4, <4>1
      <4> QED BY <1>2, <4>1, <4>2, AppendFacts
    <3> QED BY <1>0, <1>1, <1>4, <1>5, <2>2, <3>1, MessageStays
  <2> QED BY <2>3, <2>4
<1> QED BY <1>7, <1>8, <1>9, <1>10, <1>11 DEF OutboxInv

LEMMA CallbackStep ==
  ASSUME OutboxInv, RunCallback
  PROVE  OutboxInv'
BY CallbackFacts, CallbackEnds, CallbackSettles, CallbackAdmits DEF Scheduled

\* The pumps.
LEMMA SendStep ==
  ASSUME OutboxInv, SendNext
  PROVE  OutboxInv'
<1>0. /\ pump = "idle" /\ outbox # <<>> /\ outbox' = Tail(outbox)
      /\ UNCHANGED <<making, soon, outClosed, ending, calls, caller, ran, reply, answers>>
      /\ outbox \in Seq(Sends \cup {End}) /\ sent \in Seq(Sends)
      /\ Head(outbox) = End => pump' = "ended" /\ sent' = sent
      /\ Head(outbox) # End => pump' = pump /\ sent' = Append(sent, Head(outbox))
  BY DEF SendNext, OutboxInv, OutTypeOK
<1>1. /\ outbox' \in Seq(Sends \cup {End}) /\ Head(outbox) \in Sends \cup {End}
      /\ \A x : Absent(outbox, x) <=> Absent(outbox', x) /\ Head(outbox) # x
  BY <1>0, TailFacts
<1>2. sent' \in Seq(Sends) /\ \A x : Absent(sent', x) <=> Absent(sent, x) /\ (Head(outbox) = End \/ Head(outbox) # x)
  <2>1. CASE Head(outbox) = End
    BY <1>0, <2>1
  <2>2. CASE Head(outbox) # End
    <3>1. PICK h \in Sends : h = Head(outbox)
      BY <1>1, <2>2
    <3>2. sent' = Append(sent, h) /\ h # End
      BY <1>0, <2>2, <3>1
    <3>3. sent' \in Seq(Sends) /\ \A x : Absent(sent', x) <=> Absent(sent, x) /\ h # x
      BY <1>0, <3>2, AppendFacts
    <3> QED BY <2>2, <3>1, <3>3
  <2> QED BY <2>1, <2>2
<1>3. OutTypeOK'
  <2>1. pump' \in {"idle", "ended"}
    BY <1>0
  <2> QED BY <1>0, <1>1, <1>2, <2>1 DEF OutboxInv, OutTypeOK
<1>4. \A c \in Calls : CallInPlace(c)'
  BY <1>0 DEF OutboxInv, CallInPlace
<1>5. \A q \in Requests : ReplyInPlace(q)'
  BY <1>0 DEF OutboxInv, ReplyInPlace
<1>6. \A c \in Sends : MessageInPlace(c)'
  <2>1. SUFFICES ASSUME NEW c \in Sends PROVE MessageInPlace(c)'
    OBVIOUS
  <2>2. c # End /\ MessageInPlace(c)
    BY OutNames DEF OutboxInv
  <2> QED BY <1>0, <1>1, <1>2, <2>2, MessageStays
<1>7. EndInLine'
  <2>1. AllSent => AllSent'
    BY <1>0, <1>2 DEF AllSent
  <2>2. CASE Head(outbox) # End
    <3>1. EndLast(making, outbox) => EndLast(making', outbox')
      <4>1. PICK k, b : k = making /\ b = outbox
        OBVIOUS
      <4>2. EndLast(k, b) => EndLast(k, Tail(b))
        BY <1>0, <2>2, <4>1, EndLastTail
      <4> QED BY <1>0, <4>1, <4>2
    <3> QED BY <1>0, <1>1, <2>1, <2>2, <3>1 DEF OutboxInv, EndInLine
  <2>3. CASE Head(outbox) = End
    <3>1. ~Absent(outbox, End) /\ ending # "none"
      BY <1>0, <1>1, <2>3 DEF OutboxInv, EndInLine
    <3>2. ASSUME ending = "draining" PROVE Absent(soon, End) /\ AllSent'
      <4>1. Absent(soon, End) /\ TooLate(making, soon) /\ EndLast(making, outbox)
        BY <1>0, <3>1, <3>2 DEF OutboxInv, EndInLine
      <4>2. TooLate(making, Tail(outbox))
        <5>1. PICK k, b : k = making /\ b = outbox
          OBVIOUS
        <5>2. TooLate(k, Tail(b))
          BY <1>0, <2>3, <4>1, <5>1, EndLastTail
        <5> QED BY <5>1, <5>2
      <4>3. ASSUME NEW m \in Sends, InTime(making, m) PROVE ~Absent(sent, m)
        <5>1. Absent(soon, m) /\ Absent(outbox', m)
          BY <1>0, <4>1, <4>2, <4>3 DEF TooLate, Absent
        <5>2. Absent(outbox, m)
          BY <1>1, <2>3, <5>1, OutNames
        <5> QED BY <4>3, <5>1, <5>2 DEF OutboxInv, MessageInPlace
      <4> QED BY <1>0, <2>3, <4>1, <4>3 DEF AllSent
    <3> QED BY <1>0, <2>1, <2>3, <3>1, <3>2 DEF OutboxInv, EndInLine
  <2> QED BY <2>2, <2>3
<1> QED BY <1>3, <1>4, <1>5, <1>6, <1>7 DEF OutboxInv

LEMMA TakeStep ==
  ASSUME OutboxInv, TakeCall
  PROVE  OutboxInv'
<1>0. /\ caller = Idle /\ calls # <<>> /\ calls' = Tail(calls)
      /\ UNCHANGED <<soon, outClosed, ending, outbox, pump, sent, ran, reply, answers>>
      /\ calls \in Seq(Calls \cup {End}) /\ caller.call = "none"
      /\ caller \in [call : Calls \cup {"none", End}, try : Nat]
  BY DEF TakeCall, OutboxInv, OutTypeOK, Idle
<1>1. /\ calls' \in Seq(Calls \cup {End}) /\ Head(calls) \in Calls \cup {End}
      /\ \A x : Absent(calls, x) <=> Absent(calls', x) /\ Head(calls) # x
      /\ \A x : Single(calls, x) => Single(calls', x) /\ (Head(calls) = x => Absent(calls', x))
  BY <1>0, TailFacts
<1>2. PICK h : h = Head(calls)
  OBVIOUS
<1>3. \/ h = End /\ caller' = [call |-> End, try |-> 0] /\ making' = making
      \/ h \in Calls /\ DropPayload(h) /\ caller' = caller
      \/ h \in Calls /\ caller' = [call |-> h, try |-> 1] /\ making' = making
  BY <1>1, <1>2 DEF TakeCall
<1>4. /\ making' \in [Payloads -> {"ready", "checked", "refused", "scheduled", "late", "dropped"}]
      /\ \A x : InTime(making', x) => InTime(making, x)
      /\ \A x \in Payloads : making'[x] \in {"ready", "checked"} => making[x] \in {"ready", "checked"}
  <2>1. CASE making' = making
    BY <2>1 DEF OutboxInv, OutTypeOK
  <2>2. CASE h \in Calls /\ DropPayload(h)
    <3>1. PICK p \in Payloads : p = h
      BY <2>2, OutNames
    <3> QED BY <2>2, <3>1, DropFacts
  <2> QED BY <1>3, <2>1, <2>2
<1>5. /\ caller' \in [call : Calls \cup {"none", End}, try : Nat]
      /\ \A c \in Calls : caller'.call = c => c = h
  BY <1>0, <1>3, OutNames
<1>6. OutTypeOK'
  BY <1>0, <1>1, <1>4, <1>5 DEF OutboxInv, OutTypeOK
<1>7. EndInLine'
  BY <1>0, <1>4, EndStays DEF OutboxInv
<1>8. \A c \in Calls : CallInPlace(c)'
  <2>1. SUFFICES ASSUME NEW c \in Calls PROVE CallInPlace(c)'
    OBVIOUS
  <2>2. CallInPlace(c) /\ Single(soon, c) /\ Single(calls, c) /\ c \in Payloads
    BY OutNames DEF OutboxInv, CallInPlace
  <2>3. CASE c # h
    BY <1>0, <1>1, <1>2, <1>4, <1>5, <2>2, <2>3, CallStays
  <2>4. CASE c = h
    <3>1. ~Absent(calls, c) /\ Absent(calls', c) /\ Single(calls', c)
      BY <1>1, <1>2, <2>2, <2>4
    <3>2. Absent(soon, c) /\ ran[c] = 0 /\ making[c] \notin {"ready", "checked"}
      BY <2>2, <3>1 DEF CallInPlace
    <3>3. making'[c] \notin {"ready", "checked"}
      BY <1>4, <2>2, <3>2
    <3> QED BY <1>0, <2>2, <3>1, <3>2, <3>3 DEF CallInPlace
  <2> QED BY <2>3, <2>4
<1>9. \A q \in Requests : ReplyInPlace(q)'
  BY <1>0 DEF OutboxInv, ReplyInPlace
<1>10. \A c \in Sends : MessageInPlace(c)'
  BY <1>0, <1>4, MessageStays DEF OutboxInv
<1> QED BY <1>6, <1>7, <1>8, <1>9, <1>10 DEF OutboxInv

LEMMA CallEndsStep ==
  ASSUME OutboxInv, NEW o \in Outcomes, CallEnds(o)
  PROVE  OutboxInv'
<1>0. /\ UNCHANGED <<making, soon, outClosed, ending, outbox, pump, calls, sent, reply, answers>>
      /\ caller \in [call : Calls \cup {"none", End}, try : Nat] /\ ran \in [Calls -> Nat]
  BY DEF CallEnds, OutboxInv, OutTypeOK
<1>1. PICK h : h = caller.call
  OBVIOUS
<1>2. h \in Calls
  BY <1>0, <1>1, OutNames DEF CallEnds
<1>3. ran' = [ran EXCEPT ![h] = IF Reaches(o) THEN @ + 1 ELSE @]
  BY <1>1 DEF CallEnds
<1>4. /\ caller' \in [call : Calls \cup {"none", End}, try : Nat]
      /\ caller'.call = "none" \/ (caller'.call = h /\ ~Reaches(o))
  <2>1. CASE Transient(o) /\ caller.try < Attempts
    <3>1. caller' = [caller EXCEPT !.try = @ + 1] /\ ~Reaches(o)
      BY <2>1 DEF CallEnds, Transient, Reaches
    <3>2. caller.try + 1 \in Nat
      BY <1>0
    <3> QED BY <1>0, <1>1, <3>1, <3>2
  <2>2. CASE ~(Transient(o) /\ caller.try < Attempts)
    BY <2>2 DEF CallEnds, Idle
  <2> QED BY <2>1, <2>2
<1>5. OutTypeOK'
  <2>1. ran' \in [Calls -> Nat]
    BY <1>0, <1>2, <1>3
  <2> QED BY <1>0, <1>4, <2>1 DEF OutboxInv, OutTypeOK
<1>6. EndInLine'
  BY <1>0, EndStays DEF OutboxInv
<1>7. \A c \in Calls : CallInPlace(c)'
  <2>1. SUFFICES ASSUME NEW c \in Calls PROVE CallInPlace(c)'
    OBVIOUS
  <2>2. CallInPlace(c) /\ Single(soon, c) /\ Single(calls, c) /\ c # "none"
    BY OutNames DEF OutboxInv, CallInPlace
  <2>3. CASE c # h
    <3>1. ran'[c] = ran[c] /\ caller'.call # c
      BY <1>0, <1>2, <1>3, <1>4, <2>2, <2>3
    <3> QED BY <1>0, <2>2, <3>1, CallStays
  <2>4. CASE c = h
    <3>1. ran[c] = 0 /\ Absent(soon, c) /\ Absent(calls, c) /\ making[c] \notin {"ready", "checked"}
      BY <1>1, <2>2, <2>4 DEF CallInPlace
    <3>2. ran'[c] = IF Reaches(o) THEN 1 ELSE 0
      BY <1>0, <1>2, <1>3, <2>4, <3>1
    <3>3. ran'[c] <= 1 /\ (caller'.call = c => ran'[c] = 0)
      BY <1>4, <2>2, <3>2
    <3> QED BY <1>0, <2>2, <3>1, <3>3 DEF CallInPlace
  <2> QED BY <2>3, <2>4
<1>8. \A q \in Requests : ReplyInPlace(q)'
  BY <1>0 DEF OutboxInv, ReplyInPlace
<1>9. \A c \in Sends : MessageInPlace(c)'
  BY <1>0 DEF OutboxInv, MessageInPlace
<1> QED BY <1>5, <1>6, <1>7, <1>8, <1>9 DEF OutboxInv

\* The close, the drop and the participant's own calls.
LEMMA RepliesFail ==
  ASSUME OutboxInv, FailedReplies
  PROVE  /\ reply' \in [Requests -> {"none", "waiting", "answered", "done"}]
         /\ answers' \in [Requests -> Nat]
         /\ \A q \in Requests : /\ answers'[q] = IF reply'[q] = "done" THEN 1 ELSE 0
                                /\ reply'[q] \in {"none", "done"}
                                /\ ~Absent(soon, q) => reply'[q] \in {"answered", "done"}
<1>0. reply \in [Requests -> {"none", "waiting", "answered", "done"}] /\ answers \in [Requests -> Nat]
  BY DEF OutboxInv, OutTypeOK
<1>1. ASSUME NEW q \in Requests
      PROVE  /\ answers'[q] = IF reply'[q] = "done" THEN 1 ELSE 0
             /\ reply'[q] \in {"none", "done"}
             /\ ~Absent(soon, q) => reply'[q] \in {"answered", "done"}
  <2>1. ReplyInPlace(q)
    BY DEF OutboxInv
  <2>2. /\ reply'[q] = IF reply[q] = "none" THEN "none" ELSE "done"
        /\ answers'[q] = answers[q] + IF reply[q] \in {"waiting", "answered"} THEN 1 ELSE 0
        /\ reply[q] \in {"none", "waiting", "answered", "done"}
    BY <1>0 DEF FailedReplies
  <2> QED BY <2>1, <2>2 DEF ReplyInPlace
<1>2. reply' \in [Requests -> {"none", "waiting", "answered", "done"}]
  BY DEF FailedReplies
<1>3. answers' \in [Requests -> Nat]
  BY <1>0 DEF FailedReplies
<1> QED BY <1>1, <1>2, <1>3

LEMMA CloseStep ==
  ASSUME OutboxInv, CloseOutbox
  PROVE  OutboxInv'
<1>0. /\ ~outClosed /\ outClosed' = TRUE /\ ending' = "draining" /\ soon' = Append(soon, End)
      /\ UNCHANGED <<making, outbox, pump, calls, caller, sent, ran>>
      /\ soon \in Seq(Scheduled) /\ End \in Scheduled
  BY OutNames DEF CloseOutbox, OutboxInv, OutTypeOK
<1>1. /\ soon' \in Seq(Scheduled)
      /\ \A x : Absent(soon', x) <=> Absent(soon, x) /\ End # x
      /\ \A x : x # End => (Single(soon, x) => Single(soon', x))
  BY <1>0, AppendFacts
<1>2. /\ reply' \in [Requests -> {"none", "waiting", "answered", "done"}]
      /\ answers' \in [Requests -> Nat]
      /\ \A q \in Requests : /\ answers'[q] = IF reply'[q] = "done" THEN 1 ELSE 0
                             /\ reply'[q] \in {"none", "done"}
                             /\ ~Absent(soon, q) => reply'[q] \in {"answered", "done"}
  BY RepliesFail DEF CloseOutbox
<1>3. OutTypeOK'
  BY <1>0, <1>1, <1>2 DEF OutboxInv, OutTypeOK
<1>4. EndInLine'
  <2>1. Absent(soon, End) /\ Absent(outbox, End) /\ pump = "idle"
    BY <1>0 DEF OutboxInv, EndInLine
  <2>2. PICK k, s : k = making /\ s = soon
    OBVIOUS
  <2>3. EndLast(k, Append(s, End))
    BY <1>0, <2>1, <2>2, EndLastPut
  <2> QED BY <1>0, <2>1, <2>2, <2>3 DEF EndInLine
<1>5. \A c \in Calls : CallInPlace(c)'
  <2>1. SUFFICES ASSUME NEW c \in Calls PROVE CallInPlace(c)'
    OBVIOUS
  <2>2. CallInPlace(c) /\ Single(soon, c) /\ Single(calls, c) /\ c # End
    BY OutNames DEF OutboxInv, CallInPlace
  <2> QED BY <1>0, <1>1, <2>2, CallStays
<1>6. \A q \in Requests : ReplyInPlace(q)'
  BY <1>1, <1>2, OutNames DEF ReplyInPlace
<1>7. \A c \in Sends : MessageInPlace(c)'
  <2>1. SUFFICES ASSUME NEW c \in Sends PROVE MessageInPlace(c)'
    OBVIOUS
  <2>2. MessageInPlace(c)
    BY DEF OutboxInv
  <2> QED BY <1>0, <1>1, <2>2, MessageStays
<1> QED BY <1>3, <1>4, <1>5, <1>6, <1>7 DEF OutboxInv

LEMMA ClosesStep ==
  ASSUME OutboxInv, OutboxCloses
  PROVE  OutboxInv'
<1>0. /\ ending = "draining" /\ pump' = "ended" /\ caller' = [call |-> End, try |-> 0]
      /\ ending' = IF pump = "ended" /\ caller.call = End THEN "drained" ELSE "cut"
      /\ UNCHANGED <<making, soon, outClosed, outbox, calls, sent, ran, reply, answers>>
  BY DEF OutboxCloses
<1>1. OutTypeOK'
  BY <1>0 DEF OutboxInv, OutTypeOK
<1>2. EndInLine'
  <2>1. ending' = "drained" => AllSent
    BY <1>0 DEF OutboxInv, EndInLine
  <2>2. AllSent => AllSent'
    BY <1>0 DEF AllSent
  <2> QED BY <1>0, <2>1, <2>2 DEF OutboxInv, EndInLine
<1>3. \A c \in Calls : CallInPlace(c)'
  <2>1. SUFFICES ASSUME NEW c \in Calls PROVE CallInPlace(c)'
    OBVIOUS
  <2>2. CallInPlace(c) /\ Single(soon, c) /\ Single(calls, c) /\ c # End
    BY OutNames DEF OutboxInv, CallInPlace
  <2> QED BY <1>0, <2>2, CallStays
<1>4. \A q \in Requests : ReplyInPlace(q)'
  BY <1>0 DEF OutboxInv, ReplyInPlace
<1>5. \A c \in Sends : MessageInPlace(c)'
  BY <1>0 DEF OutboxInv, MessageInPlace
<1> QED BY <1>1, <1>2, <1>3, <1>4, <1>5 DEF OutboxInv

LEMMA DropStep ==
  ASSUME OutboxInv, DropOutbox
  PROVE  OutboxInv'
<1>0. /\ outClosed' = TRUE /\ ending' = "dropped" /\ pump' = "ended"
      /\ caller' = [call |-> End, try |-> 0]
      /\ UNCHANGED <<making, soon, outbox, calls, sent, ran>>
  BY DEF DropOutbox
<1>1. /\ reply' \in [Requests -> {"none", "waiting", "answered", "done"}]
      /\ answers' \in [Requests -> Nat]
      /\ \A q \in Requests : /\ answers'[q] = IF reply'[q] = "done" THEN 1 ELSE 0
                             /\ reply'[q] \in {"none", "done"}
                             /\ ~Absent(soon, q) => reply'[q] \in {"answered", "done"}
  BY RepliesFail DEF DropOutbox
<1>2. OutTypeOK'
  BY <1>0, <1>1 DEF OutboxInv, OutTypeOK
<1>3. EndInLine'
  BY <1>0 DEF EndInLine
<1>4. \A c \in Calls : CallInPlace(c)'
  <2>1. SUFFICES ASSUME NEW c \in Calls PROVE CallInPlace(c)'
    OBVIOUS
  <2>2. CallInPlace(c) /\ Single(soon, c) /\ Single(calls, c) /\ c # End
    BY OutNames DEF OutboxInv, CallInPlace
  <2> QED BY <1>0, <2>2, CallStays
<1>5. \A q \in Requests : ReplyInPlace(q)'
  BY <1>0, <1>1 DEF ReplyInPlace
<1>6. \A c \in Sends : MessageInPlace(c)'
  BY <1>0 DEF OutboxInv, MessageInPlace
<1> QED BY <1>2, <1>3, <1>4, <1>5, <1>6 DEF OutboxInv

LEMMA RequestStep ==
  ASSUME OutboxInv, NEW r \in Requests, ExpectReply(r) \/ CommandAnswered(r)
  PROVE  OutboxInv'
<1>0. /\ UNCHANGED <<making, outClosed, ending, outbox, pump, calls, caller, sent, ran, answers>>
      /\ \/ ~outClosed /\ reply[r] = "none" /\ reply' = [reply EXCEPT ![r] = "waiting"] /\ soon' = soon
         \/ reply[r] = "waiting" /\ reply' = [reply EXCEPT ![r] = "answered"] /\ soon' = Append(soon, r)
      /\ soon \in Seq(Scheduled) /\ r \in Scheduled
      /\ reply \in [Requests -> {"none", "waiting", "answered", "done"}]
  BY OutNames DEF ExpectReply, CommandAnswered, OutboxInv, OutTypeOK
<1>1. /\ soon' \in Seq(Scheduled)
      /\ \A x : Absent(soon', x) <=> Absent(soon, x) /\ (soon' # soon => r # x)
      /\ \A x : x # r => (Single(soon, x) => Single(soon', x))
  <2>1. CASE soon' = soon
    BY <1>0, <2>1
  <2>2. CASE soon' # soon
    <3>1. soon' = Append(soon, r)
      BY <1>0, <2>2
    <3> QED BY <1>0, <2>2, <3>1, AppendFacts
  <2> QED BY <2>1, <2>2
<1>2. reply' \in [Requests -> {"none", "waiting", "answered", "done"}]
  BY <1>0
<1>3. OutTypeOK'
  BY <1>0, <1>1, <1>2 DEF OutboxInv, OutTypeOK
<1>4. ~outClosed
  BY <1>0 DEF OutboxInv, ReplyInPlace
<1>5. EndInLine'
  BY <1>0, <1>1, <1>4, OutNames DEF OutboxInv, EndInLine
<1>6. \A c \in Calls : CallInPlace(c)'
  <2>1. SUFFICES ASSUME NEW c \in Calls PROVE CallInPlace(c)'
    OBVIOUS
  <2>2. CallInPlace(c) /\ Single(soon, c) /\ Single(calls, c) /\ c # r
    BY OutNames DEF OutboxInv, CallInPlace
  <2> QED BY <1>0, <1>1, <2>2, CallStays
<1>7. \A q \in Requests : ReplyInPlace(q)'
  <2>1. SUFFICES ASSUME NEW q \in Requests PROVE ReplyInPlace(q)'
    OBVIOUS
  <2>2. ReplyInPlace(q)
    BY DEF OutboxInv
  <2>3. CASE q = r
    <3>1. /\ answers'[q] = 0 /\ reply'[q] \in {"waiting", "answered"}
          /\ (soon' = soon => Absent(soon, q)) /\ (soon' # soon => reply'[q] = "answered")
      BY <1>0, <2>2, <2>3 DEF ReplyInPlace
    <3> QED BY <1>0, <1>4, <3>1 DEF ReplyInPlace
  <2>4. CASE q # r
    <3>1. reply'[q] = reply[q] /\ answers'[q] = answers[q]
      BY <1>0, <2>4
    <3> QED BY <1>0, <1>1, <2>2, <2>4, <3>1, ReplyStays
  <2> QED BY <2>3, <2>4
<1>8. \A c \in Sends : MessageInPlace(c)'
  <2>1. SUFFICES ASSUME NEW c \in Sends PROVE MessageInPlace(c)'
    OBVIOUS
  <2>2. MessageInPlace(c)
    BY DEF OutboxInv
  <2> QED BY <1>0, <1>1, <2>2, MessageStays
<1> QED BY <1>3, <1>5, <1>6, <1>7, <1>8 DEF OutboxInv

LEMMA OutboxStutters ==
  ASSUME OutboxInv,
         UNCHANGED <<making, soon, outClosed, ending, outbox, pump, calls, caller, sent, ran, reply, answers>>
  PROVE  OutboxInv'
<1>1. OutTypeOK'
  BY DEF OutboxInv, OutTypeOK
<1>2. EndInLine'
  BY EndStays DEF OutboxInv
<1>3. /\ \A c \in Calls : CallInPlace(c)'
      /\ \A q \in Requests : ReplyInPlace(q)'
      /\ \A c \in Sends : MessageInPlace(c)'
  BY DEF OutboxInv, CallInPlace, ReplyInPlace, MessageInPlace
<1> QED BY <1>1, <1>2, <1>3 DEF OutboxInv

\* A participant's connection runs no handler of the participant's twice,
\* answers each of the participant's calls once, and, when its close drained,
\* has sent every message scheduled before the close that the outbox had room
\* for, whatever threads and callbacks meet (livekit/participant.py).
THEOREM OutboxSafe == OutboxSpec => []OutboxDelivers
<1>1. OutboxInit => OutboxInv
  BY OutboxInitial
<1>2. OutboxInv /\ [OutboxNext]_outVars => OutboxInv'
  <2> SUFFICES ASSUME OutboxInv, [OutboxNext]_outVars PROVE OutboxInv'
    OBVIOUS
  <2>1. CASE OutboxNext
    <3>1. CASE \E m \in Payloads : ThreadChecks(m) \/ ThreadSchedules(m)
      BY <3>1, ChecksStep, SchedulesStep
    <3>2. CASE RunCallback \/ SendNext \/ TakeCall
      BY <3>2, CallbackStep, SendStep, TakeStep
    <3>3. CASE SupportRetried
      BY <3>3, OutboxStutters DEF SupportRetried
    <3>4. CASE \E o \in Outcomes : CallEnds(o)
      BY <3>4, CallEndsStep
    <3>5. CASE CloseOutbox \/ OutboxCloses \/ DropOutbox
      BY <3>5, CloseStep, ClosesStep, DropStep
    <3>6. CASE \E q \in Requests : ExpectReply(q) \/ CommandAnswered(q)
      BY <3>6, RequestStep
    <3> QED BY <2>1, <3>1, <3>2, <3>3, <3>4, <3>5, <3>6 DEF OutboxNext
  <2>2. CASE UNCHANGED outVars
    BY <2>2, OutboxStutters DEF outVars
  <2> QED BY <2>1, <2>2
<1>3. OutboxInv => OutboxDelivers
  <2> SUFFICES ASSUME OutboxInv PROVE OutboxDelivers
    OBVIOUS
  <2>1. \A m \in Payloads \ Sends : ran[m] <= 1
    BY DEF OutboxInv, CallInPlace, Calls
  <2>2. \A q \in Requests : /\ answers[q] <= 1
                            /\ outClosed /\ reply[q] # "none" => answers[q] = 1
    BY DEF OutboxInv, ReplyInPlace
  <2>3. ending = "drained" =>
          \A m \in Sends : making[m] = "scheduled" => \E k \in DOMAIN sent : sent[k] = m
    BY DEF OutboxInv, EndInLine, AllSent, InTime, Absent
  <2> QED BY <2>1, <2>2, <2>3 DEF OutboxDelivers
<1> QED BY <1>1, <1>2, <1>3, PTL DEF OutboxSpec

===============================================================================
