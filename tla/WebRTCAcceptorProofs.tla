------------------------- MODULE WebRTCAcceptorProofs -------------------------
(***************************************************************************)
(* Proofs about WebRTCAcceptor, for every set of connection ids, any number *)
(* of offers on each and any number of sessions.                           *)
(***************************************************************************)
EXTENDS WebRTCAcceptor, SessionLifecycleProofs

-------------------------------------------------------------------------------
(* The inductive invariant, in two parts: what holds of every offer, and   *)
(* what holds of one that overlapped no earlier connection of its id.      *)

Unbuilt == {"none", "ready", "closing", "creating"}
Closing == {"refused", "teardown", "reaped"}

\* The tables know one offer of an id, the last.
TablesAreCurrent(c) ==
  /\ negotiating[c] \in {0, offered[c]} /\ answers[c] \in {0, offered[c]}
  /\ deadlines[c] \in {0, offered[c]} /\ offeredAt[c] \in {0, offered[c]}
  /\ pinned[c] \in {0, offered[c]}

\* An offer's task runs while its id is negotiating, and builds its connection
\* after the id's earlier one was taken out of _conns.
TasksAreInStep(c) ==
  LET g == negotiating[c] IN
  /\ \A h \in Gens : /\ h > offered[c] => task[c][h] = "none"
                     /\ task[c][h] \in Unbuilt => wire[c][h] = "none"
                     /\ wire[c][h] = "replaced" => h # offered[c]
  /\ g # 0 => task[c][g] \in {"ready", "closing", "creating", "replaying"}
  /\ g # 0 /\ task[c][g] \in {"closing", "creating"} => conns[c] = 0

\* A pin belongs to an offer that has not built its connection, or to one whose
\* connection is there.
PinHasOwner(c) ==
  LET g == pinned[c] IN
  g # 0 => \/ negotiating[c] = g /\ task[c][g] \in Unbuilt
           \/ wire[c][g] \notin {"none", "gone"}

\* The manager's handle of a registered connection is one of the id's offers,
\* and so is the handle the teardown took.
HandlesExist(c) ==
  /\ c \in byId => handle[c] # 0
  /\ c \in toClose["session"] => taken[c] # 0

OfferInv ==
  /\ SessionInv /\ AcceptorTypeOK /\ epoch <= MaxSessions
  /\ \A c \in ConnIds : /\ TablesAreCurrent(c) /\ TasksAreInStep(c)
                        /\ PinHasOwner(c) /\ HandlesExist(c)
  /\ SlotCeiling

\* A live id has a connection that opened and is not gone; a reap ends the
\* negotiation; a connection that candidates are replayed into is the id's; and
\* an offer that overlaps no other connection finds none until it builds its own.
NegotiatesInStep(c) ==
  LET g == negotiating[c] IN
  /\ c \in liveIds => \E h \in Gens : wire[c][h] \in {"open", "refused", "teardown"}
  /\ \A h \in Gens : wire[c][h] = "reaped" => g = 0
  /\ g # 0 /\ task[c][g] = "replaying" => conns[c] \in {0, g}
  /\ g # 0 /\ task[c][g] \in {"closing", "creating"} /\ g \notin overlapped[c] => Alone(c)

\* A connection that is alive and overlapped no earlier one is the one its id
\* holds, and still the only one.
LoneIsHeld(c) ==
  \A g \in Gens : AliveWire(c, g) /\ g \notin overlapped[c] =>
    /\ conns[c] = g
    /\ \A h \in Gens : h # g => wire[c][h] \in {"none", "gone", "replaced"}

\* An offer whose negotiation has not begun, or overlaps nothing, is under its
\* deadline until its connection connects.
UnderDeadline(c) ==
  LET g == negotiating[c]
      timed == deadlines[c] = offered[c] /\ offeredAt[c] = offered[c]
  IN
  NegotiationTimeout =>
    /\ g # 0 /\ task[c][g] = "ready" => timed
    /\ g # 0 /\ task[c][g] \in {"closing", "creating"} /\ g \notin overlapped[c] => timed
    /\ \A h \in Gens :
         wire[c][h] = "built" /\ task[c][h] \in {"replaying", "answered"} /\ h \notin overlapped[c]
           => timed /\ offered[c] # 0

\* Such a connection that carries frames is registered, or being torn down.
OpenIsKnown(c) ==
  \A g \in Gens : wire[c][g] = "open" /\ g \notin overlapped[c] =>
    \/ c \in byId /\ handle[c] = g
    \/ c \in toClose["session"] /\ taken[c] = g

LoneParts(c) == NegotiatesInStep(c) /\ LoneIsHeld(c) /\ UnderDeadline(c) /\ OpenIsKnown(c)

LoneInv == \A c \in ConnIds : LoneParts(c)

-------------------------------------------------------------------------------
(* Composition, and types.                                                 *)

\* To the session, the transport is one of its sinks: every step of the
\* composition is a step of the session or none.
LEMMA SessionSees == [AcceptorNext]_all => [Next]_vars
<1> SUFFICES ASSUME [AcceptorNext]_all PROVE [Next]_vars
  OBVIOUS
<1> USE AcceptorAssumption
<1>1. CASE UNCHANGED all
  BY <1>1 DEF all
<1>2. CASE SessionSteps
  <2>1. [seeded |-> FALSE, unattended |-> FALSE] \in StartShapes
    BY DEF StartShapes
  <2> QED BY <1>2, <2>1 DEF SessionSteps, Next, Sink
<1>3. CASE TeardownTakes
  BY <1>3 DEF TeardownTakes, Next, Teardown, Closers
<1>4. ASSUME NEW c \in ConnIds,
             \/ \E pin \in BOOLEAN : Offer(c, pin) \/ OfferTurnedAway(c, pin)
             \/ \E g \in Gens : WireConnects(c, g) \/ WireLost(c, g) \/ RefusedCloses(c, g)
      PROVE  [Next]_vars
  <2>1. Sink(c) \/ UNCHANGED vars
    BY <1>4 DEF Offer, OfferTurnedAway, WireConnects, WireLost, RefusedCloses, Sink
  <2> QED BY <2>1 DEF Next
<1>5. ASSUME NEW c \in ConnIds, TeardownClosed(c) PROVE [Next]_vars
  <2>1. Teardown("session")
    BY <1>5 DEF TeardownClosed, Teardown, Ids
  <2> QED BY <2>1 DEF Next, Closers
<1>6. ASSUME NEW c \in ConnIds,
             \/ Negotiation(c) \/ AnswerTaken(c) \/ DeadlineFires(c) \/ TeardownCloses(c)
             \/ \E g \in Gens : AddIce(c, g) \/ ReapedCloses(c, g)
      PROVE  UNCHANGED vars
  BY <1>6 DEF Negotiation, NegotiationStarts, ConnectionCreated, AnswerStaged, NegotiationFails,
              PreviousCloses, AnswerTaken, DeadlineFires, TeardownCloses, AddIce, ReapedCloses
<1> QED BY <1>1, <1>2, <1>3, <1>4, <1>5, <1>6 DEF AcceptorNext

\* No more sessions are started than the bound.
LEMMA EpochStep == epoch <= MaxSessions /\ TypeOK /\ [Next]_vars => epoch' <= MaxSessions
<1> SUFFICES ASSUME epoch <= MaxSessions, TypeOK, [Next]_vars PROVE epoch' <= MaxSessions
  OBVIOUS
<1> USE DEF machine, registry, offers, inputs, teardown, model, process
<1>1. CASE \E shape \in StartShapes : StartSession(shape)
  BY <1>1, BoundsAssumption DEF StartSession, TypeOK
<1>2. CASE \E c \in ConnIds : Sink(c)
  BY <1>2 DEF Sink, RefuseConnection, AcceptConnection, ConnectionClosed, RefusedConnectionCloses,
              NewConnId, OfferAdmitted, OfferRefused, ConnectionFailed, PublishTrack, UnpublishTrack
<1>3. CASE (\E k \in Closers : Teardown(k)) \/ \E s \in applying : StartingInput(s)
  BY <1>3 DEF Teardown, CloseAllStarts, ConnectionCloseReturns, ConnectionCloseRaises,
              StartingInput, StartingCommandRefused, StartingInputSubmitted
<1>4. CASE \/ InitializationSuccess \/ InitializationFail \/ StopSession \/ OrphanTimeoutFires
           \/ Evict \/ CleanupComplete \/ EvictionClosed \/ UNCHANGED vars
  BY <1>4 DEF InitializationSuccess, InitializationFail, StopSession, OrphanTimeoutFires, Evict,
              CleanupComplete, EvictionClosed, vars
<1>5. CASE Drain \/ DrainReturns \/ Stop \/ Stopped \/ Exited
  BY <1>5 DEF Drain, DrainReturns, Stop, Stopped, Exited, vars
<1> QED BY <1>1, <1>2, <1>3, <1>4, <1>5 DEF Next

\* The acceptor's own tables, apart from the session's variables.
OwnTypeOK ==
  /\ offered \in [ConnIds -> 0..MaxOffers] /\ madeIn \in [ConnIds -> [Gens -> 0..MaxSessions]]
  /\ task \in [ConnIds -> [Gens -> {"none", "ready", "closing", "creating", "replaying",
                                    "answered", "over"}]]
  /\ wire \in [ConnIds -> [Gens -> {"none", "built", "open", "replaced", "reaped", "refused",
                                    "teardown", "gone"}]]
  /\ ice \in [ConnIds -> [Gens -> {"unsent", "buffered", "replaying", "delivered", "lost"}]]
  /\ liveIds \subseteq ConnIds /\ overlapped \in [ConnIds -> SUBSET Gens]
  /\ conns \in [ConnIds -> 0..MaxOffers] /\ negotiating \in [ConnIds -> 0..MaxOffers]
  /\ offeredAt \in [ConnIds -> 0..MaxOffers] /\ deadlines \in [ConnIds -> 0..MaxOffers]
  /\ answers \in [ConnIds -> 0..MaxOffers] /\ pinned \in [ConnIds -> 0..MaxOffers]
  /\ handle \in [ConnIds -> 0..MaxOffers] /\ taken \in [ConnIds -> 0..MaxOffers]

LEMMA OwnTypes == AcceptorTypeOK <=> TypeOK /\ OwnTypeOK
BY DEF AcceptorTypeOK, OwnTypeOK

LEMMA ReleaseTyped ==
  ASSUME NEW table \in [ConnIds -> 0..MaxOffers], NEW c \in ConnIds, NEW g
  PROVE  /\ Release(table, c, g) \in [ConnIds -> 0..MaxOffers]
         /\ Release(table, c, g)[c] = IF table[c] = g THEN 0 ELSE table[c]
         /\ \A d \in ConnIds : d # c => Release(table, c, g)[d] = table[d]
BY AcceptorAssumption DEF Release

LEMMA MoveIceTyped ==
  ASSUME OwnTypeOK, NEW c \in ConnIds, NEW from,
         NEW to \in {"unsent", "buffered", "replaying", "delivered", "lost"}
  PROVE  MoveIce(c, from, to) \in [ConnIds -> [Gens -> {"unsent", "buffered", "replaying", "delivered", "lost"}]]
BY DEF MoveIce, OwnTypeOK

LEMMA CutTyped ==
  ASSUME OwnTypeOK, NEW c \in ConnIds, NEW by
  PROVE  [wire EXCEPT ![c] = CutShort(c, by)] \in
           [ConnIds -> [Gens -> {"none", "built", "open", "replaced", "reaped", "refused",
                                 "teardown", "gone"}]]
BY DEF CutShort, OwnTypeOK

LEMMA ForgetTyped ==
  ASSUME OwnTypeOK, NEW c \in ConnIds, NEW g, Forget(c, g)
  PROVE  /\ conns' \in [ConnIds -> 0..MaxOffers] /\ answers' \in [ConnIds -> 0..MaxOffers]
         /\ offeredAt' \in [ConnIds -> 0..MaxOffers] /\ pinned' \in [ConnIds -> 0..MaxOffers]
         /\ ice' \in [ConnIds -> [Gens -> {"unsent", "buffered", "replaying", "delivered", "lost"}]]
         /\ liveIds' \subseteq ConnIds
<1>1. /\ conns' = [conns EXCEPT ![c] = 0] /\ answers' = [answers EXCEPT ![c] = 0]
      /\ offeredAt' = Release(offeredAt, c, g) /\ pinned' = Release(pinned, c, g)
      /\ ice' = MoveIce(c, "buffered", "lost") /\ liveIds' = liveIds \ {c}
  BY DEF Forget
<1>2. offeredAt' \in [ConnIds -> 0..MaxOffers] /\ pinned' \in [ConnIds -> 0..MaxOffers]
  BY <1>1, ReleaseTyped DEF OwnTypeOK
<1>3. ice' \in [ConnIds -> [Gens -> {"unsent", "buffered", "replaying", "delivered", "lost"}]]
  BY <1>1, MoveIceTyped
<1>4. conns' \in [ConnIds -> 0..MaxOffers] /\ answers' \in [ConnIds -> 0..MaxOffers]
  <2>1. 0 \in 0..MaxOffers
    BY AcceptorAssumption
  <2> QED BY <1>1, <2>1 DEF OwnTypeOK
<1>5. liveIds' \subseteq ConnIds
  BY <1>1 DEF OwnTypeOK
<1> QED BY <1>2, <1>3, <1>4, <1>5

\* Every step keeps the acceptor's types.
LEMMA OwnTypeStep ==
  ASSUME TypeOK, epoch <= MaxSessions, OwnTypeOK, [AcceptorNext]_all
  PROVE  OwnTypeOK'
<1> USE AcceptorAssumption DEF offering, tables, connection, acceptor
<1>0. 0 \in 0..MaxOffers /\ Gens \subseteq 0..MaxOffers /\ 0 \notin Gens
  BY DEF Gens
<1>1. CASE UNCHANGED acceptor
  BY <1>1 DEF OwnTypeOK
<1>2. CASE TeardownTakes
  BY <1>0, <1>2 DEF TeardownTakes, OwnTypeOK
<1>3. ASSUME NEW c \in ConnIds, NEW pin \in BOOLEAN, Offer(c, pin) PROVE OwnTypeOK'
  <2> DEFINE g == offered[c] + 1
  <2>1. g \in Gens /\ epoch \in 0..MaxSessions
    BY <1>3, BoundsAssumption DEF Offer, TypeOK
  <2>2. wire' = [wire EXCEPT ![c] = CutShort(c, {"replaced", "reaped"})] /\ ice' = MoveIce(c, "replaying", "lost")
        /\ answers' = [answers EXCEPT ![c] = 0]
    BY <1>3 DEF Offer, Supersede
  <2>3. task' \in [ConnIds -> [Gens -> {"none", "ready", "closing", "creating", "replaying",
                                        "answered", "over"}]]
    BY <1>3 DEF Offer, OwnTypeOK
  <2>4. madeIn' \in [ConnIds -> [Gens -> 0..MaxSessions]]
    BY <1>3, <2>1 DEF Offer, OwnTypeOK
  <2>5. /\ offered' = [offered EXCEPT ![c] = g] /\ negotiating' = [negotiating EXCEPT ![c] = g]
        /\ deadlines' = [deadlines EXCEPT ![c] = IF NegotiationTimeout THEN g ELSE 0]
        /\ offeredAt' = [offeredAt EXCEPT ![c] = g] /\ pinned' = [pinned EXCEPT ![c] = IF pin THEN g ELSE 0]
        /\ UNCHANGED <<conns, liveIds, handle, taken, overlapped>>
    BY <1>3 DEF Offer
  <2> HIDE DEF g
  <2>6. g \in 0..MaxOffers
    BY <1>0, <2>1
  <2>7. wire' \in [ConnIds -> [Gens -> {"none", "built", "open", "replaced", "reaped", "refused",
                                        "teardown", "gone"}]]
    BY <2>2, CutTyped
  <2>8. ice' \in [ConnIds -> [Gens -> {"unsent", "buffered", "replaying", "delivered", "lost"}]]
    BY <2>2, MoveIceTyped
  <2>9. /\ offered' \in [ConnIds -> 0..MaxOffers] /\ negotiating' \in [ConnIds -> 0..MaxOffers]
        /\ offeredAt' \in [ConnIds -> 0..MaxOffers] /\ deadlines' \in [ConnIds -> 0..MaxOffers]
        /\ answers' \in [ConnIds -> 0..MaxOffers] /\ pinned' \in [ConnIds -> 0..MaxOffers]
    BY <1>0, <2>2, <2>5, <2>6 DEF OwnTypeOK
  <2>10. /\ conns' \in [ConnIds -> 0..MaxOffers] /\ handle' \in [ConnIds -> 0..MaxOffers]
         /\ taken' \in [ConnIds -> 0..MaxOffers] /\ liveIds' \subseteq ConnIds
         /\ overlapped' \in [ConnIds -> SUBSET Gens]
    BY <2>5 DEF OwnTypeOK
  <2> QED BY <2>3, <2>4, <2>7, <2>8, <2>9, <2>10 DEF OwnTypeOK
<1>4. ASSUME NEW c \in ConnIds, NegotiationStarts(c) PROVE OwnTypeOK'
  <2>1. negotiating[c] \in Gens
    BY <1>4 DEF NegotiationStarts, OwnTypeOK, Gens
  <2>2. task' \in [ConnIds -> [Gens -> {"none", "ready", "closing", "creating", "replaying",
                                        "answered", "over"}]]
    <3>1. PICK life \in {"closing", "creating"} : task' = [task EXCEPT ![c][negotiating[c]] = life]
      BY <1>4 DEF NegotiationStarts
    <3> QED BY <3>1 DEF OwnTypeOK
  <2>3. wire' \in [ConnIds -> [Gens -> {"none", "built", "open", "replaced", "reaped", "refused",
                                        "teardown", "gone"}]]
    <3>1. CASE wire' = wire
      BY <3>1 DEF OwnTypeOK
    <3>2. CASE wire' = [wire EXCEPT ![c][conns[c]] = "replaced"]
      BY <3>2 DEF OwnTypeOK
    <3> QED BY <1>4, <3>1, <3>2 DEF NegotiationStarts
  <2>4. conns' \in [ConnIds -> 0..MaxOffers] /\ liveIds' \subseteq ConnIds
    BY <1>0, <1>4 DEF NegotiationStarts, OwnTypeOK
  <2>5. UNCHANGED <<offered, madeIn, negotiating, offeredAt, deadlines, answers, pinned, ice, handle, taken>>
    BY <1>4 DEF NegotiationStarts
  <2>6. overlapped' \in [ConnIds -> SUBSET Gens]
    <3>1. overlapped' = [overlapped EXCEPT ![c] = overlapped[c] \union (IF Alone(c)' THEN {} ELSE {negotiating[c]})]
      BY <1>4 DEF NegotiationStarts
    <3> QED BY <2>1, <3>1 DEF OwnTypeOK
  <2> QED BY <2>2, <2>3, <2>4, <2>5, <2>6 DEF OwnTypeOK
<1>5. ASSUME NEW c \in ConnIds, NEW h \in Gens, PreviousCloses(c, h) PROVE OwnTypeOK'
  <2>1. Forget(c, h) /\ deadlines' = Release(deadlines, c, h)
    BY <1>5 DEF PreviousCloses
  <2>2. wire' = [wire EXCEPT ![c][h] = "gone"] /\ task' = [task EXCEPT ![c][negotiating[c]] = "creating"]
        /\ UNCHANGED <<offering, negotiating, handle, taken>>
    BY <1>5 DEF PreviousCloses
  <2> QED BY <2>1, <2>2, ForgetTyped, ReleaseTyped DEF OwnTypeOK
<1>6. ASSUME NEW c \in ConnIds, ConnectionCreated(c) PROVE OwnTypeOK'
  <2>1. negotiating[c] \in Gens
    BY <1>6 DEF ConnectionCreated, OwnTypeOK, Gens
  <2>2. ice' \in [ConnIds -> [Gens -> {"unsent", "buffered", "replaying", "delivered", "lost"}]]
    BY <1>6, MoveIceTyped DEF ConnectionCreated
  <2> QED BY <1>0, <1>6, <2>1, <2>2 DEF ConnectionCreated, OwnTypeOK
<1>7. ASSUME NEW c \in ConnIds, AnswerStaged(c) PROVE OwnTypeOK'
  <2>1. ice' \in [ConnIds -> [Gens -> {"unsent", "buffered", "replaying", "delivered", "lost"}]]
    BY <1>7 DEF AnswerStaged, OwnTypeOK
  <2> QED BY <1>0, <1>7, <2>1 DEF AnswerStaged, OwnTypeOK
<1>8. ASSUME NEW c \in ConnIds, NegotiationFails(c) PROVE OwnTypeOK'
  <2>1. /\ offeredAt' \in [ConnIds -> 0..MaxOffers] /\ deadlines' \in [ConnIds -> 0..MaxOffers]
        /\ pinned' \in [ConnIds -> 0..MaxOffers]
    BY <1>8, ReleaseTyped DEF NegotiationFails, OwnTypeOK
  <2>2. ice' \in [ConnIds -> [Gens -> {"unsent", "buffered", "replaying", "delivered", "lost"}]]
    BY <1>8, MoveIceTyped DEF NegotiationFails
  <2> QED BY <1>0, <1>8, <2>1, <2>2 DEF NegotiationFails, OwnTypeOK
<1>9. ASSUME NEW c \in ConnIds, AnswerTaken(c) \/ \E g \in Gens : AddIce(c, g) PROVE OwnTypeOK'
  <2>1. CASE AnswerTaken(c)
    BY <1>0, <2>1 DEF AnswerTaken, OwnTypeOK
  <2>2. ASSUME NEW g \in Gens, AddIce(c, g) PROVE OwnTypeOK'
    BY <2>2 DEF AddIce, OwnTypeOK
  <2> QED BY <1>9, <2>1, <2>2
<1>10. ASSUME NEW c \in ConnIds, DeadlineFires(c) PROVE OwnTypeOK'
  <2>1. pinned' \in [ConnIds -> 0..MaxOffers] /\ answers' \in [ConnIds -> 0..MaxOffers]
        /\ offeredAt' \in [ConnIds -> 0..MaxOffers]
    <3>1. Release(pinned, c, deadlines[c]) \in [ConnIds -> 0..MaxOffers]
      BY ReleaseTyped DEF OwnTypeOK
    <3>2. CASE UNCHANGED <<answers, offeredAt, pinned>>
      BY <3>2 DEF OwnTypeOK
    <3>3. CASE /\ answers' = [answers EXCEPT ![c] = 0] /\ offeredAt' = [offeredAt EXCEPT ![c] = 0]
               /\ pinned' = Release(pinned, c, deadlines[c])
      BY <1>0, <3>1, <3>3 DEF OwnTypeOK
    <3> QED BY <1>10, <3>2, <3>3 DEF DeadlineFires
  <2>2. ice' \in [ConnIds -> [Gens -> {"unsent", "buffered", "replaying", "delivered", "lost"}]]
    <3>1. CASE ice' = MoveIce(c, "replaying", "lost") \/ ice' = ice
      BY <3>1, MoveIceTyped DEF OwnTypeOK
    <3>2. CASE ice' = [ice EXCEPT ![c] = [h \in Gens |->
                        IF ice[c][h] \in {"buffered", "replaying"} THEN "lost" ELSE ice[c][h]]]
      BY <3>2 DEF OwnTypeOK
    <3> QED BY <1>10, <3>1, <3>2 DEF DeadlineFires
  <2>3. wire' \in [ConnIds -> [Gens -> {"none", "built", "open", "replaced", "reaped", "refused",
                                        "teardown", "gone"}]]
    BY <1>10, CutTyped DEF DeadlineFires, OwnTypeOK
  <2>4. task' \in [ConnIds -> [Gens -> {"none", "ready", "closing", "creating", "replaying",
                                        "answered", "over"}]]
    BY <1>10 DEF DeadlineFires, OwnTypeOK
  <2>5. negotiating' \in [ConnIds -> 0..MaxOffers] /\ deadlines' \in [ConnIds -> 0..MaxOffers]
    BY <1>0, <1>10 DEF DeadlineFires, OwnTypeOK
  <2>6. UNCHANGED <<offering, conns, liveIds, handle, taken>>
    BY <1>10 DEF DeadlineFires
  <2> QED BY <2>1, <2>2, <2>3, <2>4, <2>5, <2>6 DEF OwnTypeOK
<1>11. ASSUME NEW c \in ConnIds, NEW g \in Gens, WireConnects(c, g) PROVE OwnTypeOK'
  <2>1. offeredAt' \in [ConnIds -> 0..MaxOffers] /\ deadlines' \in [ConnIds -> 0..MaxOffers]
    BY <1>11, ReleaseTyped DEF WireConnects, OwnTypeOK
  <2>2. PICK life \in {"open", "refused"} : wire' = [wire EXCEPT ![c][g] = life]
    BY <1>11 DEF WireConnects
  <2>3. handle' \in [ConnIds -> 0..MaxOffers] /\ liveIds' \subseteq ConnIds
    BY <1>0, <1>11 DEF WireConnects, OwnTypeOK
  <2>4. UNCHANGED <<offering, task, negotiating, conns, answers, pinned, ice, taken>>
    BY <1>11 DEF WireConnects
  <2> QED BY <2>1, <2>2, <2>3, <2>4 DEF OwnTypeOK
<1>12. ASSUME NEW c \in ConnIds, NEW g \in Gens,
              WireLost(c, g) \/ RefusedCloses(c, g) \/ ReapedCloses(c, g)
       PROVE  OwnTypeOK'
  <2>1. Forget(c, g) /\ wire' = [wire EXCEPT ![c][g] = "gone"] /\ UNCHANGED <<offering, task, negotiating, taken>>
    BY <1>12 DEF WireLost, RefusedCloses, ReapedCloses
  <2>2. deadlines' \in [ConnIds -> 0..MaxOffers]
    <3>1. Release(deadlines, c, g) \in [ConnIds -> 0..MaxOffers] /\ [deadlines EXCEPT ![c] = 0] \in [ConnIds -> 0..MaxOffers]
      BY <1>0, ReleaseTyped DEF OwnTypeOK
    <3> QED BY <1>12, <3>1 DEF WireLost, RefusedCloses, ReapedCloses
  <2>3. handle' \in [ConnIds -> 0..MaxOffers]
    BY <1>0, <1>12 DEF WireLost, RefusedCloses, ReapedCloses, OwnTypeOK
  <2> QED BY <2>1, <2>2, <2>3, ForgetTyped DEF OwnTypeOK
<1>13. ASSUME NEW c \in ConnIds, TeardownCloses(c) PROVE OwnTypeOK'
  BY <1>13 DEF TeardownCloses, OwnTypeOK
<1>14. ASSUME NEW c \in ConnIds, TeardownClosed(c) PROVE OwnTypeOK'
  <2>1. taken' \in [ConnIds -> 0..MaxOffers] /\ UNCHANGED <<offering, task, negotiating, handle>>
    BY <1>0, <1>14 DEF TeardownClosed, OwnTypeOK
  <2>2. CASE UNCHANGED <<wire, tables, ice>>
    BY <2>1, <2>2 DEF OwnTypeOK
  <2>3. CASE /\ wire' = [wire EXCEPT ![c][taken[c]] = "gone"]
             /\ Forget(c, taken[c]) /\ deadlines' = Release(deadlines, c, taken[c])
    BY <2>1, <2>3, ForgetTyped, ReleaseTyped DEF OwnTypeOK
  <2> QED BY <1>14, <2>2, <2>3 DEF TeardownClosed
<1> QED
  BY <1>1, <1>2, <1>3, <1>4, <1>5, <1>6, <1>7, <1>8, <1>9, <1>10, <1>11, <1>12, <1>13, <1>14
  DEF AcceptorNext, Negotiation, SessionSteps, OfferTurnedAway, all

-------------------------------------------------------------------------------
(* One id at a time.                                                       *)

\* What the invariant reads of an id is as it was.
SameId(d) ==
  /\ offered'[d] = offered[d] /\ task'[d] = task[d] /\ wire'[d] = wire[d] /\ conns'[d] = conns[d]
  /\ negotiating'[d] = negotiating[d] /\ offeredAt'[d] = offeredAt[d] /\ deadlines'[d] = deadlines[d]
  /\ answers'[d] = answers[d] /\ pinned'[d] = pinned[d]
  /\ handle'[d] = handle[d] /\ taken'[d] = taken[d] /\ overlapped'[d] = overlapped[d]
  /\ d \in liveIds' <=> d \in liveIds
  /\ d \in byId' <=> d \in byId
  /\ d \in toClose'["session"] <=> d \in toClose["session"]

OfferParts(c) == TablesAreCurrent(c) /\ TasksAreInStep(c) /\ PinHasOwner(c) /\ HandlesExist(c)

LEMMA SameIdKeeps ==
  ASSUME NEW d \in ConnIds, SameId(d)
  PROVE  /\ OfferParts(d) => OfferParts(d)'
         /\ LoneParts(d) => LoneParts(d)'
         /\ Known(d)' <=> Known(d)
<1> USE DEF SameId
<1>1. OfferParts(d) => OfferParts(d)'
  BY DEF OfferParts, TablesAreCurrent, TasksAreInStep, PinHasOwner, HandlesExist
<1>2. (NegotiatesInStep(d) => NegotiatesInStep(d)') /\ (LoneIsHeld(d) => LoneIsHeld(d)')
  BY DEF NegotiatesInStep, LoneIsHeld, AliveWire, Alone
<1>3. UnderDeadline(d) => UnderDeadline(d)'
  BY DEF UnderDeadline
<1>4. OpenIsKnown(d) => OpenIsKnown(d)'
  BY DEF OpenIsKnown
<1>5. Known(d)' <=> Known(d)
  BY DEF Known
<1> QED BY <1>1, <1>2, <1>3, <1>4, <1>5 DEF LoneParts

\* What _closed and _forget leave of an id.
LEMMA ForgetFacts ==
  ASSUME OwnTypeOK, NEW c \in ConnIds, NEW g, Forget(c, g)
  PROVE  /\ conns'[c] = 0 /\ answers'[c] = 0 /\ c \notin liveIds'
         /\ offeredAt'[c] = IF offeredAt[c] = g THEN 0 ELSE offeredAt[c]
         /\ pinned'[c] = IF pinned[c] = g THEN 0 ELSE pinned[c]
         /\ \A d \in ConnIds : d # c =>
               /\ conns'[d] = conns[d] /\ answers'[d] = answers[d] /\ offeredAt'[d] = offeredAt[d]
               /\ pinned'[d] = pinned[d] /\ (d \in liveIds' <=> d \in liveIds)
<1>1. offeredAt' = Release(offeredAt, c, g) /\ pinned' = Release(pinned, c, g)
  BY DEF Forget
<1>2. conns' = [conns EXCEPT ![c] = 0] /\ answers' = [answers EXCEPT ![c] = 0] /\ liveIds' = liveIds \ {c}
  BY DEF Forget
<1>3. /\ offeredAt'[c] = IF offeredAt[c] = g THEN 0 ELSE offeredAt[c]
      /\ \A d \in ConnIds : d # c => offeredAt'[d] = offeredAt[d]
  BY <1>1 DEF Release, OwnTypeOK
<1>4. /\ pinned'[c] = IF pinned[c] = g THEN 0 ELSE pinned[c]
      /\ \A d \in ConnIds : d # c => pinned'[d] = pinned[d]
  BY <1>1 DEF Release, OwnTypeOK
<1>5. /\ conns'[c] = 0 /\ answers'[c] = 0
      /\ \A d \in ConnIds : d # c => conns'[d] = conns[d] /\ answers'[d] = answers[d]
  BY <1>2 DEF OwnTypeOK
<1> QED BY <1>2, <1>3, <1>4, <1>5

\* A step of one id keeps what the invariant says of it, takes no slot, and
\* leaves the others alone.
Kept(c) ==
  /\ \A d \in ConnIds : d # c => SameId(d)
  /\ OfferParts(c)'
  /\ LoneParts(c) => LoneParts(c)'
  /\ Known(c)' => Known(c)

\* start_offer replaces the id's offer and leaves its connection to _negotiate.
LEMMA OfferStep ==
  ASSUME OwnTypeOK, NEW c \in ConnIds, NEW pin \in BOOLEAN, Offer(c, pin), OfferParts(c)
  PROVE  /\ \A d \in ConnIds : d # c => SameId(d)
         /\ OfferParts(c)'
         /\ LoneParts(c) => LoneParts(c)'
<1> USE AcceptorAssumption DEF teardown, machine, registry
<1> DEFINE g == offered[c] + 1
<1>1. g \in Gens /\ offered[c] \in Nat /\ offered[c] < g /\ g # 0
  BY DEF Offer, OwnTypeOK, Gens
<1>2. byId' = byId /\ toClose' = toClose /\ UNCHANGED <<conns, liveIds, handle, taken, overlapped>>
  BY DEF Offer, OfferAdmitted
<1>3. /\ offered' = [offered EXCEPT ![c] = g] /\ negotiating' = [negotiating EXCEPT ![c] = g]
      /\ deadlines' = [deadlines EXCEPT ![c] = IF NegotiationTimeout THEN g ELSE 0]
      /\ offeredAt' = [offeredAt EXCEPT ![c] = g] /\ pinned' = [pinned EXCEPT ![c] = IF pin THEN g ELSE 0]
      /\ answers' = [answers EXCEPT ![c] = 0]
      /\ wire' = [wire EXCEPT ![c] = CutShort(c, {"replaced", "reaped"})]
      /\ task' = [task EXCEPT ![c] = [h \in Gens |-> IF h = g THEN "ready"
                                                    ELSE IF h = negotiating[c] THEN "over"
                                                    ELSE task[c][h]]]
  BY DEF Offer, Supersede
<1>4. /\ offered'[c] = g /\ negotiating'[c] = g /\ offeredAt'[c] = g /\ answers'[c] = 0
      /\ deadlines'[c] = (IF NegotiationTimeout THEN g ELSE 0) /\ pinned'[c] \in {0, g}
  BY <1>3 DEF OwnTypeOK
<1>5. \A h \in Gens : wire'[c][h] = IF wire[c][h] \in {"replaced", "reaped"} THEN "gone" ELSE wire[c][h]
  BY <1>3 DEF OwnTypeOK, CutShort
<1>6. \A h \in Gens : task'[c][h] = IF h = g THEN "ready" ELSE IF h = negotiating[c] THEN "over" ELSE task[c][h]
  BY <1>3 DEF OwnTypeOK
<1>7. \A d \in ConnIds : d # c => SameId(d)
  BY <1>2, <1>3 DEF SameId, OwnTypeOK
<1> HIDE DEF g
<1>8. task[c][g] = "none" /\ wire[c][g] = "none" /\ negotiating[c] # g
  BY <1>1 DEF OfferParts, TasksAreInStep, TablesAreCurrent, Unbuilt
<1>9. OfferParts(c)'
  <2>1. TablesAreCurrent(c)' /\ HandlesExist(c)'
    BY <1>2, <1>4 DEF OfferParts, TablesAreCurrent, HandlesExist
  <2>2. PinHasOwner(c)'
    BY <1>1, <1>4, <1>6 DEF PinHasOwner, Unbuilt
  <2>3. TasksAreInStep(c)'
    <3>1. ASSUME NEW h \in Gens
          PROVE  /\ h > g => task'[c][h] = "none"
                 /\ task'[c][h] \in Unbuilt => wire'[c][h] = "none"
                 /\ wire'[c][h] = "replaced" => h # g
      <4>1. /\ h > offered[c] => task[c][h] = "none"
            /\ task[c][h] \in Unbuilt => wire[c][h] = "none"
        BY DEF OfferParts, TasksAreInStep
      <4>2. h \in Nat
        BY DEF Gens
      <4>3. h > g => task'[c][h] = "none"
        <5>1. g \in Nat /\ negotiating[c] \in {0, offered[c]}
          BY <1>1 DEF Gens, OfferParts, TablesAreCurrent
        <5> QED BY <1>1, <1>6, <4>1, <4>2, <5>1
      <4>4. task'[c][h] \in Unbuilt => wire'[c][h] = "none"
        BY <1>5, <1>6, <1>8, <4>1 DEF Unbuilt
      <4> QED BY <1>5, <1>8, <4>3, <4>4
    <3> QED BY <1>1, <1>4, <1>6, <3>1 DEF TasksAreInStep
  <2> QED BY <2>1, <2>2, <2>3 DEF OfferParts
<1>10. ASSUME LoneParts(c) PROVE LoneParts(c)'
  <2>1. \A h \in Gens : wire'[c][h] \in {"built", "open", "refused", "teardown", "reaped"} => wire'[c][h] = wire[c][h] /\ wire'[c][h] # "reaped"
    BY <1>5
  <2>2. \A h \in Gens : wire[c][h] \in {"built", "open"} => wire'[c][h] = wire[c][h]
    BY <1>5
  <2>3. NegotiatesInStep(c) /\ LoneIsHeld(c) /\ UnderDeadline(c) /\ OpenIsKnown(c)
    BY <1>10 DEF LoneParts
  <2>4. NegotiatesInStep(c)'
    <3>1. c \in liveIds' => \E h \in Gens : wire'[c][h] \in {"open", "refused", "teardown"}
      BY <1>2, <1>5, <2>3 DEF NegotiatesInStep
    <3>2. task'[c][negotiating'[c]] = "ready"
      BY <1>1, <1>4, <1>6
    <3> QED BY <2>1, <3>1, <3>2 DEF NegotiatesInStep
  <2>5. LoneIsHeld(c)'
    <3>1. \A h \in Gens : wire[c][h] \in {"none", "gone", "replaced"} => wire'[c][h] \in {"none", "gone"}
      BY <1>5
    <3>2. \A h \in Gens : AliveWire(c, h)' => AliveWire(c, h)
      BY <2>1 DEF AliveWire
    <3> QED BY <1>2, <2>3, <3>1, <3>2 DEF LoneIsHeld
  <2>6. UnderDeadline(c)'
    BY <1>1, <1>4 DEF UnderDeadline
  <2>7. OpenIsKnown(c)'
    BY <1>2, <2>1, <2>3 DEF OpenIsKnown
  <2> QED BY <2>4, <2>5, <2>6, <2>7 DEF LoneParts
<1> QED BY <1>7, <1>9, <1>10

\* With no connection of the id alive that overlapped nothing, what is left to
\* show of it.
LEMMA NoLoneAlive ==
  ASSUME NEW c \in ConnIds,
         \A k \in Gens : k \notin overlapped'[c] => ~AliveWire(c, k)',
         c \in liveIds' => \E k \in Gens : wire'[c][k] \in {"open", "refused", "teardown"},
         \A k \in Gens : wire'[c][k] = "reaped" => negotiating'[c] = 0,
         negotiating'[c] # 0 /\ task'[c][negotiating'[c]] = "replaying" => conns'[c] \in {0, negotiating'[c]},
         negotiating'[c] # 0 /\ task'[c][negotiating'[c]] \in {"closing", "creating"}
             /\ negotiating'[c] \notin overlapped'[c]
           => Alone(c)' /\ (NegotiationTimeout => deadlines'[c] = offered'[c] /\ offeredAt'[c] = offered'[c]),
         NegotiationTimeout /\ negotiating'[c] # 0 /\ task'[c][negotiating'[c]] = "ready"
           => deadlines'[c] = offered'[c] /\ offeredAt'[c] = offered'[c]
  PROVE  LoneParts(c)'
<1>1. \A k \in Gens : k \notin overlapped'[c] => wire'[c][k] \notin {"built", "open"}
  BY DEF AliveWire, Gens
<1>2. NegotiatesInStep(c)'
  BY DEF NegotiatesInStep
<1>3. LoneIsHeld(c)'
  BY DEF LoneIsHeld
<1>4. UnderDeadline(c)'
  BY <1>1 DEF UnderDeadline
<1>5. OpenIsKnown(c)'
  BY <1>1 DEF OpenIsKnown
<1> QED BY <1>2, <1>3, <1>4, <1>5 DEF LoneParts

\* _negotiate takes the earlier connection out of _conns before it awaits its close.
LEMMA NegotiationStartsStep ==
  ASSUME OwnTypeOK, NEW c \in ConnIds, NegotiationStarts(c), OfferParts(c)
  PROVE  Kept(c)
<1> USE DEF vars, registry, teardown, offering
<1> DEFINE g == negotiating[c]
           p == conns[c]
<1>1. /\ g \in Gens /\ task[c][g] = "ready" /\ wire[c][g] = "none" /\ g = offered[c] /\ g # 0
      /\ p \in Gens \cup {0}
  BY DEF NegotiationStarts, OwnTypeOK, Gens, OfferParts, TasksAreInStep, TablesAreCurrent, Unbuilt
<1>2. /\ UNCHANGED <<byId, toClose, offered, negotiating, offeredAt, deadlines, answers, pinned, handle, taken>>
      /\ overlapped' = [overlapped EXCEPT ![c] = overlapped[c] \union (IF Alone(c)' THEN {} ELSE {g})]
      /\ conns' = [conns EXCEPT ![c] = 0] /\ liveIds' = IF p # 0 THEN liveIds \ {c} ELSE liveIds
  BY DEF NegotiationStarts
<1>3. PICK life \in {"closing", "creating"} : task' = [task EXCEPT ![c][g] = life]
  BY DEF NegotiationStarts
<1>4. /\ AliveWire(c, p) => wire' = [wire EXCEPT ![c][p] = "replaced"]
      /\ ~AliveWire(c, p) => wire' = wire
  BY DEF NegotiationStarts
<1>5. /\ conns'[c] = 0 /\ \A h \in Gens : task'[c][h] = IF h = g THEN life ELSE task[c][h]
  BY <1>2, <1>3 DEF OwnTypeOK
<1>6. \A h \in Gens : wire'[c][h] = IF h = p /\ AliveWire(c, p) THEN "replaced" ELSE wire[c][h]
  BY <1>4 DEF OwnTypeOK
<1>7. \A d \in ConnIds : d # c => SameId(d)
  BY <1>2, <1>3, <1>4 DEF SameId, OwnTypeOK
<1>8. AliveWire(c, p) => p # g /\ p \in Gens
  BY <1>1 DEF AliveWire
<1> HIDE DEF g, p
<1>9. OfferParts(c)'
  <2>1. TablesAreCurrent(c)' /\ HandlesExist(c)'
    BY <1>2 DEF OfferParts, TablesAreCurrent, HandlesExist
  <2>2. PinHasOwner(c)'
    BY <1>1, <1>2, <1>5, <1>6 DEF OfferParts, PinHasOwner, TablesAreCurrent, Unbuilt, g
  <2>3. TasksAreInStep(c)'
    <3>1. ASSUME NEW h \in Gens
          PROVE  /\ h > offered[c] => task'[c][h] = "none"
                 /\ task'[c][h] \in Unbuilt => wire'[c][h] = "none"
                 /\ wire'[c][h] = "replaced" => h # offered[c]
      <4>1. /\ h > offered[c] => task[c][h] = "none"
            /\ task[c][h] \in Unbuilt => wire[c][h] = "none"
            /\ wire[c][h] = "replaced" => h # offered[c]
        BY DEF OfferParts, TasksAreInStep
      <4> QED BY <1>1, <1>5, <1>6, <1>8, <4>1 DEF Unbuilt, AliveWire
    <3>2. task'[c][g] = life
      BY <1>1, <1>5
    <3> QED BY <1>1, <1>2, <1>5, <3>1, <3>2 DEF TasksAreInStep, g
  <2> QED BY <2>1, <2>2, <2>3 DEF OfferParts
<1>10. ASSUME LoneParts(c) PROVE LoneParts(c)'
  <2>1. NegotiatesInStep(c) /\ LoneIsHeld(c) /\ UnderDeadline(c)
    BY <1>10 DEF LoneParts
  <2>2. /\ \A h \in Gens : h \notin overlapped'[c] => h \notin overlapped[c]
        /\ g \notin overlapped'[c] => Alone(c)'
    BY <1>1, <1>2 DEF OwnTypeOK
  <2>3. \A h \in Gens : h \notin overlapped'[c] => ~AliveWire(c, h)'
    <3>1. \A h \in Gens : AliveWire(c, h)' => AliveWire(c, h) /\ h # p
      BY <1>6 DEF AliveWire
    <3> QED BY <2>1, <2>2, <3>1 DEF LoneIsHeld, p
  <2>4. c \in liveIds' => \E h \in Gens : wire'[c][h] \in {"open", "refused", "teardown"}
    <3> SUFFICES ASSUME c \in liveIds' PROVE \E h \in Gens : wire'[c][h] \in {"open", "refused", "teardown"}
      OBVIOUS
    <3>1. p = 0 /\ c \in liveIds
      BY <1>2
    <3>2. ~AliveWire(c, p)
      BY <3>1 DEF AliveWire
    <3> QED BY <1>6, <2>1, <3>1, <3>2 DEF NegotiatesInStep
  <2>5. \A h \in Gens : wire'[c][h] # "reaped"
    BY <1>1, <1>6, <2>1 DEF NegotiatesInStep, g
  <2>6. task'[c][g] = life /\ negotiating'[c] = g /\ offered'[c] = g
    BY <1>1, <1>2, <1>5 DEF g
  <2>7. NegotiationTimeout => deadlines'[c] = offered'[c] /\ offeredAt'[c] = offered'[c]
    BY <1>1, <1>2, <2>1 DEF UnderDeadline, g
  <2> QED BY <2>2, <2>3, <2>4, <2>5, <2>6, <2>7, NoLoneAlive
<1>11. Known(c)
  BY <1>1 DEF Known, g
<1> QED BY <1>7, <1>9, <1>10, <1>11 DEF Kept

\* The earlier connection's teardown clears by generation what the new offer has
\* already claimed, and so leaves it.
LEMMA PreviousClosesStep ==
  ASSUME OwnTypeOK, NEW c \in ConnIds, NEW h \in Gens, PreviousCloses(c, h), OfferParts(c)
  PROVE  Kept(c)
<1> USE DEF vars, registry, teardown, offering
<1> DEFINE g == negotiating[c]
<1>1. /\ g \in Gens /\ task[c][g] = "closing" /\ wire[c][g] = "none" /\ g = offered[c] /\ g # 0
      /\ wire[c][h] = "replaced" /\ h # offered[c] /\ h # 0 /\ conns[c] = 0
  BY DEF PreviousCloses, OwnTypeOK, Gens, OfferParts, TasksAreInStep, TablesAreCurrent, Unbuilt
<1>2. UNCHANGED <<byId, toClose, offered, overlapped, negotiating, handle, taken>>
  BY DEF PreviousCloses
<1>3. /\ wire' = [wire EXCEPT ![c][h] = "gone"] /\ task' = [task EXCEPT ![c][g] = "creating"]
      /\ Forget(c, h) /\ deadlines' = Release(deadlines, c, h)
  BY DEF PreviousCloses
<1>4. /\ conns'[c] = 0 /\ answers'[c] = 0 /\ c \notin liveIds'
      /\ offeredAt'[c] = offeredAt[c] /\ pinned'[c] = pinned[c]
  BY <1>1, <1>3, ForgetFacts DEF OfferParts, TablesAreCurrent
<1>5. deadlines'[c] = deadlines[c] /\ \A d \in ConnIds : d # c => deadlines'[d] = deadlines[d]
  <2>1. deadlines[c] # h
    BY <1>1 DEF OfferParts, TablesAreCurrent
  <2>2. deadlines \in [ConnIds -> 0..MaxOffers]
    BY DEF OwnTypeOK
  <2> QED BY <1>3, <2>1, <2>2, ReleaseTyped
<1>6. \A k \in Gens : /\ wire'[c][k] = (IF k = h THEN "gone" ELSE wire[c][k])
                      /\ task'[c][k] = (IF k = g THEN "creating" ELSE task[c][k])
  BY <1>3 DEF OwnTypeOK
<1>7. \A d \in ConnIds : d # c => SameId(d)
  <2>1. \A d \in ConnIds : d # c => wire'[d] = wire[d] /\ task'[d] = task[d]
    BY <1>3 DEF OwnTypeOK
  <2> QED BY <1>2, <1>3, <1>5, <2>1, ForgetFacts DEF SameId
<1> HIDE DEF g
<1>8. OfferParts(c)'
  <2>1. TablesAreCurrent(c)' /\ HandlesExist(c)'
    BY <1>2, <1>4, <1>5 DEF OfferParts, TablesAreCurrent, HandlesExist
  <2>2. PinHasOwner(c)'
    BY <1>1, <1>2, <1>4, <1>6 DEF OfferParts, PinHasOwner, TablesAreCurrent, Unbuilt, g
  <2>3. TasksAreInStep(c)'
    <3>1. ASSUME NEW k \in Gens
          PROVE  /\ k > offered[c] => task'[c][k] = "none"
                 /\ task'[c][k] \in Unbuilt => wire'[c][k] = "none"
                 /\ wire'[c][k] = "replaced" => k # offered[c]
      <4>1. /\ k > offered[c] => task[c][k] = "none"
            /\ task[c][k] \in Unbuilt => wire[c][k] = "none"
            /\ wire[c][k] = "replaced" => k # offered[c]
        BY DEF OfferParts, TasksAreInStep
      <4> QED BY <1>1, <1>6, <4>1 DEF Unbuilt
    <3>2. task'[c][g] = "creating"
      BY <1>1, <1>6
    <3> QED BY <1>1, <1>2, <1>4, <3>1, <3>2 DEF TasksAreInStep, g
  <2> QED BY <2>1, <2>2, <2>3 DEF OfferParts
<1>9. ASSUME LoneParts(c) PROVE LoneParts(c)'
  <2>1. NegotiatesInStep(c) /\ LoneIsHeld(c) /\ UnderDeadline(c)
    BY <1>9 DEF LoneParts
  <2>2. \A k \in Gens : k \notin overlapped'[c] => ~AliveWire(c, k)'
    BY <1>1, <1>2, <1>6, <2>1 DEF LoneIsHeld, AliveWire
  <2>3. \A k \in Gens : wire'[c][k] # "reaped"
    BY <1>1, <1>6, <2>1 DEF NegotiatesInStep, g
  <2>4. task'[c][g] = "creating" /\ negotiating'[c] = g
    BY <1>1, <1>2, <1>6 DEF g
  <2>5. ASSUME g \notin overlapped'[c]
        PROVE  Alone(c)' /\ (NegotiationTimeout => deadlines'[c] = offered'[c] /\ offeredAt'[c] = offered'[c])
    <3>1. Alone(c) /\ (NegotiationTimeout => deadlines[c] = offered[c] /\ offeredAt[c] = offered[c])
      BY <1>1, <1>2, <2>1, <2>5 DEF NegotiatesInStep, UnderDeadline, g
    <3> QED BY <1>2, <1>4, <1>5, <1>6, <3>1 DEF Alone
  <2> QED BY <1>4, <2>2, <2>3, <2>4, <2>5, NoLoneAlive
<1>10. Known(c)
  BY <1>1 DEF Known, g
<1> QED BY <1>7, <1>8, <1>9, <1>10 DEF Kept

\* A connection is built for an id that holds none, under the deadline of its offer.
LEMMA ConnectionCreatedStep ==
  ASSUME OwnTypeOK, NEW c \in ConnIds, ConnectionCreated(c), OfferParts(c)
  PROVE  Kept(c)
<1> USE DEF vars, registry, teardown, offering
<1> DEFINE g == negotiating[c]
<1>1. /\ g \in Gens /\ task[c][g] = "creating" /\ wire[c][g] = "none" /\ g = offered[c] /\ g # 0
      /\ conns[c] = 0
  BY DEF ConnectionCreated, OwnTypeOK, Gens, OfferParts, TasksAreInStep, TablesAreCurrent, Unbuilt
<1>2. UNCHANGED <<byId, toClose, offered, overlapped, liveIds, offeredAt, deadlines, pinned, handle, taken>>
  BY DEF ConnectionCreated
<1>3. PICK replays \in BOOLEAN :
        /\ wire' = [wire EXCEPT ![c][g] = "built"] /\ conns' = [conns EXCEPT ![c] = g]
        /\ task' = [task EXCEPT ![c][g] = IF replays THEN "replaying" ELSE "answered"]
        /\ negotiating' = [negotiating EXCEPT ![c] = IF replays THEN g ELSE 0]
        /\ answers' = [answers EXCEPT ![c] = IF replays THEN @ ELSE g]
  BY DEF ConnectionCreated
<1>4. /\ conns'[c] = g /\ negotiating'[c] = (IF replays THEN g ELSE 0)
      /\ answers'[c] = (IF replays THEN answers[c] ELSE g)
  BY <1>3 DEF OwnTypeOK
<1>5. \A k \in Gens :
        /\ wire'[c][k] = (IF k = g THEN "built" ELSE wire[c][k])
        /\ task'[c][k] = (IF k = g THEN IF replays THEN "replaying" ELSE "answered" ELSE task[c][k])
  BY <1>3 DEF OwnTypeOK
<1>6. \A d \in ConnIds : d # c => SameId(d)
  <2>1. \A d \in ConnIds : d # c => wire'[d] = wire[d] /\ task'[d] = task[d]
    BY <1>3 DEF OwnTypeOK
  <2>2. \A d \in ConnIds : d # c => conns'[d] = conns[d] /\ negotiating'[d] = negotiating[d] /\ answers'[d] = answers[d]
    BY <1>3 DEF OwnTypeOK
  <2> QED BY <1>2, <2>1, <2>2 DEF SameId
<1> HIDE DEF g
<1>8. OfferParts(c)'
  <2>1. TablesAreCurrent(c)' /\ HandlesExist(c)'
    BY <1>1, <1>2, <1>4 DEF OfferParts, TablesAreCurrent, HandlesExist
  <2>2. PinHasOwner(c)'
    BY <1>1, <1>2, <1>5 DEF OfferParts, PinHasOwner, TablesAreCurrent
  <2>3. TasksAreInStep(c)'
    <3>1. ASSUME NEW k \in Gens
          PROVE  /\ k > offered[c] => task'[c][k] = "none"
                 /\ task'[c][k] \in Unbuilt => wire'[c][k] = "none"
                 /\ wire'[c][k] = "replaced" => k # offered[c]
      <4>1. /\ k > offered[c] => task[c][k] = "none"
            /\ task[c][k] \in Unbuilt => wire[c][k] = "none"
            /\ wire[c][k] = "replaced" => k # offered[c]
        BY DEF OfferParts, TasksAreInStep
      <4> QED BY <1>1, <1>5, <4>1 DEF Unbuilt
    <3>2. negotiating'[c] # 0 => negotiating'[c] = g /\ task'[c][g] = "replaying"
      BY <1>1, <1>4, <1>5
    <3> QED BY <1>2, <3>1, <3>2 DEF TasksAreInStep
  <2> QED BY <2>1, <2>2, <2>3 DEF OfferParts
<1>9. ASSUME LoneParts(c) PROVE LoneParts(c)'
  <2>1. NegotiatesInStep(c) /\ LoneIsHeld(c) /\ UnderDeadline(c)
    BY <1>9 DEF LoneParts
  <2>2. \A k \in Gens : AliveWire(c, k)' /\ k \notin overlapped'[c] => k = g
    BY <1>1, <1>2, <1>5, <2>1 DEF LoneIsHeld, AliveWire
  <2>3. g \notin overlapped'[c] => \A k \in Gens : k # g => wire'[c][k] \in {"none", "gone", "replaced"}
    BY <1>1, <1>2, <1>5, <2>1 DEF NegotiatesInStep, Alone, g
  <2>4. NegotiatesInStep(c)'
    <3>1. \A k \in Gens : wire'[c][k] # "reaped"
      BY <1>1, <1>5, <2>1 DEF NegotiatesInStep, g
    <3>2. c \in liveIds' => \E k \in Gens : wire'[c][k] \in {"open", "refused", "teardown"}
      BY <1>1, <1>2, <1>5, <2>1 DEF NegotiatesInStep
    <3>3. negotiating'[c] # 0 => negotiating'[c] = g /\ task'[c][g] = "replaying" /\ conns'[c] = g
      BY <1>1, <1>4, <1>5
    <3> QED BY <3>1, <3>2, <3>3 DEF NegotiatesInStep
  <2>5. LoneIsHeld(c)'
    BY <1>4, <2>2, <2>3 DEF LoneIsHeld
  <2>6. UnderDeadline(c)'
    <3>1. negotiating'[c] # 0 => negotiating'[c] = g /\ task'[c][g] = "replaying"
      BY <1>1, <1>4, <1>5
    <3>2. \A k \in Gens : wire'[c][k] = "built" /\ k \notin overlapped'[c] => k = g
      BY <2>2 DEF AliveWire, Gens
    <3>3. NegotiationTimeout /\ g \notin overlapped'[c]
            => deadlines[c] = offered[c] /\ offeredAt[c] = offered[c] /\ offered[c] # 0
      BY <1>1, <1>2, <2>1 DEF UnderDeadline, g
    <3> QED BY <1>2, <3>1, <3>2, <3>3 DEF UnderDeadline
  <2>7. OpenIsKnown(c)'
    <3>1. \A k \in Gens : wire'[c][k] = "open" => k \in overlapped'[c]
      BY <1>5, <2>2 DEF AliveWire, Gens
    <3> QED BY <3>1 DEF OpenIsKnown
  <2> QED BY <2>4, <2>5, <2>6, <2>7 DEF LoneParts
<1>10. Known(c)
  BY <1>1 DEF Known, g
<1> QED BY <1>6, <1>8, <1>9, <1>10 DEF Kept

\* The staged answer is the last offer's.
LEMMA AnswerStagedStep ==
  ASSUME OwnTypeOK, NEW c \in ConnIds, AnswerStaged(c), OfferParts(c)
  PROVE  Kept(c)
<1> USE DEF vars, registry, teardown, offering, connection
<1> DEFINE g == negotiating[c]
<1>1. g \in Gens /\ task[c][g] = "replaying" /\ g = offered[c] /\ g # 0
  BY DEF AnswerStaged, OwnTypeOK, Gens, OfferParts, TablesAreCurrent
<1>2. UNCHANGED <<byId, toClose, offered, overlapped, conns, liveIds, offeredAt, deadlines, pinned, wire, handle, taken>>
  BY DEF AnswerStaged
<1>3. /\ task' = [task EXCEPT ![c][g] = "answered"] /\ negotiating' = [negotiating EXCEPT ![c] = 0]
      /\ answers' = [answers EXCEPT ![c] = g]
  BY DEF AnswerStaged
<1>4. /\ negotiating'[c] = 0 /\ answers'[c] = g
      /\ \A k \in Gens : task'[c][k] = IF k = g THEN "answered" ELSE task[c][k]
  BY <1>3 DEF OwnTypeOK
<1>5. \A d \in ConnIds : d # c => SameId(d)
  <2>1. \A d \in ConnIds : d # c => task'[d] = task[d] /\ negotiating'[d] = negotiating[d] /\ answers'[d] = answers[d]
    BY <1>3 DEF OwnTypeOK
  <2> QED BY <1>2, <2>1 DEF SameId
<1> HIDE DEF g
<1>6. OfferParts(c)'
  <2>1. TablesAreCurrent(c)' /\ HandlesExist(c)'
    BY <1>1, <1>2, <1>4 DEF OfferParts, TablesAreCurrent, HandlesExist
  <2>2. PinHasOwner(c)'
    BY <1>1, <1>2 DEF OfferParts, PinHasOwner, Unbuilt, g
  <2>3. TasksAreInStep(c)'
    <3>1. ASSUME NEW k \in Gens
          PROVE  /\ k > offered[c] => task'[c][k] = "none"
                 /\ task'[c][k] \in Unbuilt => wire'[c][k] = "none"
                 /\ wire'[c][k] = "replaced" => k # offered[c]
      <4>1. /\ k > offered[c] => task[c][k] = "none"
            /\ task[c][k] \in Unbuilt => wire[c][k] = "none"
            /\ wire[c][k] = "replaced" => k # offered[c]
        BY DEF OfferParts, TasksAreInStep
      <4> QED BY <1>1, <1>2, <1>4, <4>1 DEF Unbuilt
    <3> QED BY <1>2, <1>4, <3>1 DEF TasksAreInStep
  <2> QED BY <2>1, <2>2, <2>3 DEF OfferParts
<1>7. ASSUME LoneParts(c) PROVE LoneParts(c)'
  <2>1. NegotiatesInStep(c) /\ LoneIsHeld(c) /\ UnderDeadline(c) /\ OpenIsKnown(c)
    BY <1>7 DEF LoneParts
  <2>2. NegotiatesInStep(c)' /\ LoneIsHeld(c)'
    BY <1>2, <1>4, <2>1 DEF NegotiatesInStep, LoneIsHeld, AliveWire
  <2>3. \A k \in Gens : task'[c][k] \in {"replaying", "answered"} => task[c][k] \in {"replaying", "answered"}
    BY <1>1, <1>4
  <2>4. UnderDeadline(c)'
    BY <1>2, <1>4, <2>1, <2>3 DEF UnderDeadline
  <2>5. OpenIsKnown(c)'
    BY <1>2, <2>1 DEF OpenIsKnown
  <2> QED BY <2>2, <2>4, <2>5 DEF LoneParts
<1>8. Known(c)
  BY <1>1 DEF Known, g
<1> QED BY <1>5, <1>6, <1>7, <1>8 DEF Kept

\* A negotiation that fails takes its own deadline and pin along, and leaves no
\* connection behind that needed them.
LEMMA NegotiationFailsStep ==
  ASSUME OwnTypeOK, NEW c \in ConnIds, NegotiationFails(c), OfferParts(c)
  PROVE  Kept(c)
<1> USE DEF vars, registry, teardown, offering, connection
<1> DEFINE g == negotiating[c]
<1>1. g \in Gens /\ task[c][g] \in {"creating", "replaying"} /\ g = offered[c] /\ g # 0
  BY DEF NegotiationFails, OwnTypeOK, Gens, OfferParts, TablesAreCurrent
<1>2. UNCHANGED <<byId, toClose, offered, overlapped, conns, liveIds, answers, wire, handle, taken>>
  BY DEF NegotiationFails
<1>3. /\ task' = [task EXCEPT ![c][g] = "over"] /\ negotiating' = [negotiating EXCEPT ![c] = 0]
      /\ offeredAt' = Release(offeredAt, c, g) /\ deadlines' = Release(deadlines, c, g)
      /\ pinned' = Release(pinned, c, g)
  BY DEF NegotiationFails
<1>4. /\ negotiating'[c] = 0
      /\ \A k \in Gens : task'[c][k] = IF k = g THEN "over" ELSE task[c][k]
  BY <1>3 DEF OwnTypeOK
<1>5. offeredAt'[c] = 0 /\ \A d \in ConnIds : d # c => offeredAt'[d] = offeredAt[d]
  BY <1>1, <1>3 DEF Release, OwnTypeOK, OfferParts, TablesAreCurrent
<1>6. deadlines'[c] = 0 /\ \A d \in ConnIds : d # c => deadlines'[d] = deadlines[d]
  BY <1>1, <1>3 DEF Release, OwnTypeOK, OfferParts, TablesAreCurrent
<1>7. pinned'[c] = 0 /\ \A d \in ConnIds : d # c => pinned'[d] = pinned[d]
  BY <1>1, <1>3 DEF Release, OwnTypeOK, OfferParts, TablesAreCurrent
<1>8. \A d \in ConnIds : d # c => SameId(d)
  <2>1. \A d \in ConnIds : d # c => task'[d] = task[d] /\ negotiating'[d] = negotiating[d]
    BY <1>3 DEF OwnTypeOK
  <2> QED BY <1>2, <1>5, <1>6, <1>7, <2>1 DEF SameId
<1> HIDE DEF g
<1>9. OfferParts(c)'
  <2>1. TablesAreCurrent(c)' /\ HandlesExist(c)' /\ PinHasOwner(c)'
    BY <1>2, <1>4, <1>5, <1>6, <1>7 DEF OfferParts, TablesAreCurrent, HandlesExist, PinHasOwner
  <2>2. TasksAreInStep(c)'
    <3>1. ASSUME NEW k \in Gens
          PROVE  /\ k > offered[c] => task'[c][k] = "none"
                 /\ task'[c][k] \in Unbuilt => wire'[c][k] = "none"
                 /\ wire'[c][k] = "replaced" => k # offered[c]
      <4>1. /\ k > offered[c] => task[c][k] = "none"
            /\ task[c][k] \in Unbuilt => wire[c][k] = "none"
            /\ wire[c][k] = "replaced" => k # offered[c]
        BY DEF OfferParts, TasksAreInStep
      <4> QED BY <1>1, <1>2, <1>4, <4>1 DEF Unbuilt
    <3> QED BY <1>2, <1>4, <3>1 DEF TasksAreInStep
  <2> QED BY <2>1, <2>2 DEF OfferParts
<1>10. ASSUME LoneParts(c) PROVE LoneParts(c)'
  <2>1. NegotiatesInStep(c) /\ LoneIsHeld(c) /\ UnderDeadline(c) /\ OpenIsKnown(c)
    BY <1>10 DEF LoneParts
  <2>2. NegotiatesInStep(c)' /\ LoneIsHeld(c)'
    BY <1>2, <1>4, <2>1 DEF NegotiatesInStep, LoneIsHeld, AliveWire
  <2>3. conns[c] \in {0, g}
    BY <1>1, <2>1 DEF NegotiatesInStep, OfferParts, TasksAreInStep, g
  <2>4. UnderDeadline(c)'
    <3>1. \A k \in Gens : wire'[c][k] = "built" /\ k \notin overlapped'[c] => conns[c] = k
      BY <1>2, <2>1 DEF LoneIsHeld, AliveWire, Gens
    <3>2. \A k \in Gens : conns[c] = k => task'[c][k] = "over"
      BY <1>1, <1>4, <2>3 DEF Gens
    <3> QED BY <1>4, <3>1, <3>2 DEF UnderDeadline
  <2>5. OpenIsKnown(c)'
    BY <1>2, <2>1 DEF OpenIsKnown
  <2> QED BY <2>2, <2>4, <2>5 DEF LoneParts
<1>11. Known(c)
  BY <1>1 DEF Known, g
<1> QED BY <1>8, <1>9, <1>10, <1>11 DEF Kept

\* Taking an answer leaves the offer as it is, and a candidate changes nothing
\* the invariant reads.
LEMMA AnswerTakenStep ==
  ASSUME OwnTypeOK, NEW c \in ConnIds, AnswerTaken(c), OfferParts(c)
  PROVE  Kept(c)
<1> USE DEF vars, registry, teardown, offering, connection
<1>1. /\ answers' = [answers EXCEPT ![c] = 0]
      /\ UNCHANGED <<byId, toClose, offered, overlapped, task, negotiating, conns, liveIds, offeredAt, deadlines,
                     pinned, wire, handle, taken>>
  BY DEF AnswerTaken
<1>2. answers'[c] = 0 /\ \A d \in ConnIds : d # c => answers'[d] = answers[d]
  BY <1>1 DEF OwnTypeOK
<1>3. \A d \in ConnIds : d # c => SameId(d)
  BY <1>1, <1>2 DEF SameId
<1>4. OfferParts(c)'
  BY <1>1, <1>2 DEF OfferParts, TablesAreCurrent, TasksAreInStep, PinHasOwner, HandlesExist
<1>5. LoneParts(c) => LoneParts(c)'
  BY <1>1 DEF LoneParts, NegotiatesInStep, LoneIsHeld, UnderDeadline, OpenIsKnown, AliveWire, Alone
<1>6. Known(c)' => Known(c)
  BY <1>1 DEF Known
<1> QED BY <1>3, <1>4, <1>5, <1>6 DEF Kept

\* A deadline that fires finds its offer connected, reaps the connection it
\* guards, or ends the negotiation it guards.
LEMMA DeadlineFiresStep ==
  ASSUME OwnTypeOK, NEW c \in ConnIds, DeadlineFires(c), OfferParts(c)
  PROVE  Kept(c)
<1> USE AcceptorAssumption DEF vars, registry, teardown, offering
<1> DEFINE g == negotiating[c]
           conn == conns[c]
           waiting == offeredAt[c] = deadlines[c] /\ c \notin liveIds
<1>1. /\ deadlines[c] = offered[c] /\ offered[c] # 0 /\ g \in {0, offered[c]} /\ pinned[c] \in {0, offered[c]}
      /\ offered[c] \in Gens
  BY DEF DeadlineFires, OwnTypeOK, OfferParts, TablesAreCurrent, Gens
<1>2. UNCHANGED <<byId, toClose, offered, overlapped, conns, liveIds, handle, taken>>
  BY DEF DeadlineFires
<1>3. \A k \in Gens : wire[c][k] # "reaped"
  BY DEF DeadlineFires
<1>4. /\ g # 0 => task[c][g] \in {"closing", "creating", "replaying"}
      /\ g # 0 /\ task[c][g] \in {"closing", "creating"} => conn = 0
  <2>1. g # 0 => task[c][g] # "ready"
    BY DEF DeadlineFires
  <2>2. g # 0 => task[c][g] \in {"ready", "closing", "creating", "replaying"}
    BY DEF OfferParts, TasksAreInStep
  <2>3. g # 0 /\ task[c][g] \in {"closing", "creating"} => conn = 0
    BY DEF OfferParts, TasksAreInStep
  <2> QED BY <2>1, <2>2, <2>3
<1>5. conn \in Gens \cup {0}
  BY DEF OwnTypeOK, Gens
<1>6. /\ negotiating' = [negotiating EXCEPT ![c] = IF waiting THEN 0 ELSE g]
      /\ task' = IF waiting /\ g # 0 THEN [task EXCEPT ![c][g] = "over"] ELSE task
      /\ wire' = IF ~waiting THEN wire
                 ELSE IF AliveWire(c, conn) THEN [wire EXCEPT ![c][conn] = "reaped"]
                 ELSE [wire EXCEPT ![c] = CutShort(c, {"replaced"})]
      /\ deadlines' = IF waiting /\ AliveWire(c, conn) THEN deadlines
                      ELSE [deadlines EXCEPT ![c] = 0]
      /\ IF waiting /\ conn = 0
         THEN /\ answers' = [answers EXCEPT ![c] = 0] /\ offeredAt' = [offeredAt EXCEPT ![c] = 0]
              /\ pinned' = Release(pinned, c, deadlines[c])
         ELSE UNCHANGED <<answers, offeredAt, pinned>>
  BY DEF DeadlineFires
<1>7. \A d \in ConnIds : d # c => SameId(d)
  <2>1. \A d \in ConnIds : d # c => negotiating'[d] = negotiating[d] /\ deadlines'[d] = deadlines[d] /\ task'[d] = task[d]
    BY <1>6 DEF OwnTypeOK
  <2>2. \A d \in ConnIds : d # c => wire'[d] = wire[d]
    BY <1>6 DEF OwnTypeOK
  <2>3. \A d \in ConnIds : d # c => answers'[d] = answers[d] /\ offeredAt'[d] = offeredAt[d] /\ pinned'[d] = pinned[d]
    BY <1>6 DEF OwnTypeOK, Release
  <2> QED BY <1>2, <2>1, <2>2, <2>3 DEF SameId
<1>8. CASE ~waiting
  <2>1. /\ UNCHANGED <<task, wire, answers, offeredAt, pinned>> /\ negotiating'[c] = g /\ deadlines'[c] = 0
    BY <1>6, <1>8 DEF OwnTypeOK
  <2> HIDE DEF waiting
  <2>2. OfferParts(c)'
    BY <1>2, <2>1 DEF OfferParts, TablesAreCurrent, TasksAreInStep, PinHasOwner, HandlesExist
  <2>3. ASSUME LoneParts(c) PROVE LoneParts(c)'
    <3>1. NegotiatesInStep(c) /\ LoneIsHeld(c) /\ UnderDeadline(c)
      BY <2>3 DEF LoneParts
    <3>2. NegotiatesInStep(c)' /\ LoneIsHeld(c)' /\ OpenIsKnown(c)'
      BY <1>2, <2>1, <2>3 DEF LoneParts, NegotiatesInStep, LoneIsHeld, OpenIsKnown, AliveWire, Alone
    <3>3. UnderDeadline(c)'
      <4> SUFFICES ASSUME NegotiationTimeout
                   PROVE  /\ ~(g # 0 /\ task[c][g] \in {"closing", "creating"} /\ g \notin overlapped[c])
                          /\ \A k \in Gens : ~(/\ wire[c][k] = "built" /\ k \notin overlapped[c]
                                               /\ task[c][k] \in {"replaying", "answered"})
        BY <1>2, <1>4, <2>1 DEF UnderDeadline
      <4>1. offeredAt[c] = offered[c] => \E h \in Gens : wire[c][h] \in {"open", "refused", "teardown"}
        BY <1>1, <1>8, <3>1 DEF NegotiatesInStep, waiting
      <4>2. ~(g # 0 /\ task[c][g] \in {"closing", "creating"} /\ g \notin overlapped[c])
        BY <3>1, <4>1 DEF UnderDeadline, NegotiatesInStep, Alone
      <4>3. ASSUME NEW k \in Gens, wire[c][k] = "built", k \notin overlapped[c],
                   task[c][k] \in {"replaying", "answered"}
            PROVE  FALSE
        <5>1. offeredAt[c] = offered[c]
          BY <3>1, <4>3 DEF UnderDeadline
        <5>2. \A h \in Gens : h # k => wire[c][h] \in {"none", "gone", "replaced"}
          BY <3>1, <4>3 DEF LoneIsHeld, AliveWire, Gens
        <5> QED BY <4>1, <4>3, <5>1, <5>2
      <4> QED BY <4>2, <4>3
    <3> QED BY <3>2, <3>3 DEF LoneParts
  <2>4. Known(c)' => Known(c)
    BY <1>2, <2>1 DEF Known
  <2> QED BY <1>7, <2>2, <2>3, <2>4 DEF Kept
<1>9. CASE waiting
  <2>1. negotiating'[c] = 0 /\ \A k \in Gens : task'[c][k] = IF g # 0 /\ k = g THEN "over" ELSE task[c][k]
    BY <1>6, <1>9 DEF OwnTypeOK
  <2>2. \A k \in Gens : wire'[c][k] = IF AliveWire(c, conn) /\ k = conn THEN "reaped"
                                      ELSE IF ~AliveWire(c, conn) /\ wire[c][k] = "replaced" THEN "gone"
                                      ELSE wire[c][k]
    <3>1. CASE AliveWire(c, conn)
      BY <1>6, <1>9, <3>1 DEF OwnTypeOK
    <3>2. CASE ~AliveWire(c, conn)
      BY <1>6, <1>9, <3>2 DEF OwnTypeOK, CutShort
    <3> QED BY <3>1, <3>2
  <2>3. /\ deadlines'[c] \in {0, offered[c]}
        /\ answers'[c] \in {0, answers[c]} /\ offeredAt'[c] \in {0, offeredAt[c]}
    BY <1>1, <1>6 DEF OwnTypeOK
  <2>4. pinned'[c] = IF conn = 0 THEN 0 ELSE pinned[c]
    BY <1>1, <1>6, <1>9 DEF OwnTypeOK, Release
  <2>5. c \notin liveIds'
    BY <1>2, <1>9
  <2>6. AliveWire(c, conn) => conn \in Gens /\ wire[c][conn] \in {"built", "open"}
    BY <1>5 DEF AliveWire
  <2> HIDE DEF waiting, g, conn
  <2>7. OfferParts(c)'
    <3>1. TablesAreCurrent(c)' /\ HandlesExist(c)'
      BY <1>2, <2>1, <2>3, <2>4 DEF OfferParts, TablesAreCurrent, HandlesExist
    <3>2. PinHasOwner(c)'
      <4> SUFFICES ASSUME pinned'[c] # 0 PROVE wire'[c][pinned'[c]] \notin {"none", "gone"}
        BY DEF PinHasOwner
      <4>1. conn # 0 /\ pinned'[c] = pinned[c] /\ pinned[c] = offered[c]
        BY <1>1, <2>4
      <4>2. wire[c][offered[c]] \notin {"none", "gone"}
        BY <1>1, <1>4, <4>1 DEF OfferParts, PinHasOwner, Unbuilt, g
      <4>3. wire[c][offered[c]] # "replaced"
        BY <1>1 DEF OfferParts, TasksAreInStep
      <4> QED BY <1>1, <2>2, <4>1, <4>2, <4>3
    <3>3. TasksAreInStep(c)'
      <4>1. ASSUME NEW k \in Gens
            PROVE  /\ k > offered[c] => task'[c][k] = "none"
                   /\ task'[c][k] \in Unbuilt => wire'[c][k] = "none"
                   /\ wire'[c][k] = "replaced" => k # offered[c]
        <5>1. /\ k > offered[c] => task[c][k] = "none"
              /\ task[c][k] \in Unbuilt => wire[c][k] = "none"
              /\ wire[c][k] = "replaced" => k # offered[c]
          BY DEF OfferParts, TasksAreInStep
        <5>2. k = g => ~(k > offered[c])
          BY <1>1 DEF Gens
        <5> QED BY <2>1, <2>2, <2>6, <5>1, <5>2 DEF Unbuilt
      <4> QED BY <1>2, <2>1, <4>1 DEF TasksAreInStep
    <3> QED BY <3>1, <3>2, <3>3 DEF OfferParts
  <2>8. ASSUME LoneParts(c) PROVE LoneParts(c)'
    <3>1. LoneIsHeld(c)
      BY <2>8 DEF LoneParts
    <3>2. \A k \in Gens : k \notin overlapped'[c] => ~AliveWire(c, k)'
      <4>1. \A k \in Gens : AliveWire(c, k)' => AliveWire(c, k) /\ ~(AliveWire(c, conn) /\ k = conn)
        BY <2>2 DEF AliveWire
      <4> QED BY <1>2, <3>1, <4>1 DEF LoneIsHeld, conn
    <3> QED BY <2>1, <2>5, <3>2, NoLoneAlive
  <2>9. Known(c)' => Known(c)
    BY <1>2, <2>1 DEF Known
  <2> QED BY <1>7, <2>7, <2>8, <2>9 DEF Kept
<1> QED BY <1>8, <1>9

\* What the runner and the manager hold of an id.
SameHandles(d) ==
  /\ handle'[d] = handle[d] /\ taken'[d] = taken[d]
  /\ d \in byId' <=> d \in byId
  /\ d \in toClose'["session"] <=> d \in toClose["session"]

\* A connection that connects is the one its id holds, so nothing else of the id
\* needed the deadline that ends.
LEMMA WireConnectsStep ==
  ASSUME OwnTypeOK, NEW c \in ConnIds, NEW g \in Gens, WireConnects(c, g), OfferParts(c)
  PROVE  Kept(c)
<1> USE AcceptorAssumption DEF offering, machine, registry, teardown
<1>1. wire[c][g] = "built" /\ task[c][g] = "answered" /\ g # 0
  BY DEF WireConnects, Gens
<1>2. /\ UNCHANGED <<offered, overlapped, task, negotiating, conns, answers, pinned, taken>>
      /\ liveIds' = liveIds \union {c}
      /\ deadlines' = Release(deadlines, c, g) /\ offeredAt' = Release(offeredAt, c, g)
  BY DEF WireConnects
<1>3. PICK life \in {"open", "refused"} :
        /\ wire' = [wire EXCEPT ![c][g] = life]
        /\ life = "open" => byId' = byId \union {c} /\ handle' = [handle EXCEPT ![c] = g]
        /\ life = "refused" => byId' = byId /\ handle' = handle
  BY DEF WireConnects, AcceptConnection, RefuseConnection
<1>4. toClose' = toClose
  BY DEF WireConnects, AcceptConnection, RefuseConnection
<1>5. /\ deadlines'[c] = (IF deadlines[c] = g THEN 0 ELSE deadlines[c])
      /\ \A d \in ConnIds : d # c => deadlines'[d] = deadlines[d]
  BY <1>2 DEF Release, OwnTypeOK
<1>6. /\ offeredAt'[c] = (IF offeredAt[c] = g THEN 0 ELSE offeredAt[c])
      /\ \A d \in ConnIds : d # c => offeredAt'[d] = offeredAt[d]
  BY <1>2 DEF Release, OwnTypeOK
<1>7. \A k \in Gens : wire'[c][k] = IF k = g THEN life ELSE wire[c][k]
  BY <1>3 DEF OwnTypeOK
<1>8. \A d \in ConnIds : d # c => SameId(d)
  <2>1. \A d \in ConnIds : d # c => wire'[d] = wire[d] /\ handle'[d] = handle[d] /\ (d \in byId' <=> d \in byId)
    BY <1>3 DEF OwnTypeOK
  <2> QED BY <1>2, <1>4, <1>5, <1>6, <2>1 DEF SameId
<1>9. handle'[c] = IF life = "open" THEN g ELSE handle[c]
  BY <1>3 DEF OwnTypeOK
<1>10. OfferParts(c)'
  <2>1. TablesAreCurrent(c)'
    BY <1>2, <1>5, <1>6 DEF OfferParts, TablesAreCurrent
  <2>2. HandlesExist(c)'
    BY <1>1, <1>2, <1>3, <1>4, <1>9 DEF OfferParts, HandlesExist
  <2>3. pinned[c] \in Gens \cup {0}
    BY DEF OwnTypeOK, Gens
  <2>4. PinHasOwner(c)'
    BY <1>2, <1>7, <2>3 DEF OfferParts, PinHasOwner
  <2>5. TasksAreInStep(c)'
    BY <1>1, <1>2, <1>7 DEF OfferParts, TasksAreInStep, Unbuilt
  <2> QED BY <2>1, <2>2, <2>4, <2>5 DEF OfferParts
<1>11. ASSUME LoneParts(c) PROVE LoneParts(c)'
  <2>1. NegotiatesInStep(c) /\ LoneIsHeld(c) /\ UnderDeadline(c)
    BY <1>11 DEF LoneParts
  <2>2. \A k \in Gens : AliveWire(c, k) /\ k \notin overlapped[c] => k = g
    BY <1>1, <2>1 DEF LoneIsHeld
  <2>3. NegotiatesInStep(c)'
    <3>1. ~Alone(c)
      BY <1>1 DEF Alone
    <3>2. \E h \in Gens : wire'[c][h] \in {"open", "refused", "teardown"}
      BY <1>7
    <3>3. \A h \in Gens : wire'[c][h] = "reaped" => negotiating[c] = 0
      BY <1>7, <2>1 DEF NegotiatesInStep
    <3> QED BY <1>2, <2>1, <3>1, <3>2, <3>3 DEF NegotiatesInStep
  <2>4. LoneIsHeld(c)'
    <3>1. \A k \in Gens : AliveWire(c, k)' => AliveWire(c, k)
      BY <1>1, <1>7 DEF AliveWire
    <3>2. \A k \in Gens : k # g => wire'[c][k] = wire[c][k]
      BY <1>7
    <3> QED BY <1>2, <2>1, <2>2, <3>1, <3>2 DEF LoneIsHeld
  <2>5. UnderDeadline(c)'
    <3>1. \A k \in Gens : wire'[c][k] = "built" => k \in overlapped[c]
      BY <1>7, <2>2 DEF AliveWire, Gens
    <3>2. negotiating[c] # 0 /\ task[c][negotiating[c]] = "ready" => g # offered[c]
      BY <1>1 DEF OfferParts, TablesAreCurrent
    <3>3. ~(/\ negotiating[c] # 0 /\ task[c][negotiating[c]] \in {"closing", "creating"}
            /\ negotiating[c] \notin overlapped[c])
      BY <1>1, <2>1 DEF NegotiatesInStep, Alone
    <3>4. NegotiationTimeout /\ negotiating[c] # 0 /\ task[c][negotiating[c]] = "ready"
            => deadlines'[c] = offered[c] /\ offeredAt'[c] = offered[c]
      BY <1>5, <1>6, <2>1, <3>2 DEF UnderDeadline
    <3> QED BY <1>2, <3>1, <3>3, <3>4 DEF UnderDeadline
  <2>6. OpenIsKnown(c)'
    <3>1. \A k \in Gens : wire'[c][k] = "open" /\ k \notin overlapped[c] => k = g /\ life = "open"
      BY <1>7, <2>2 DEF AliveWire, Gens
    <3> QED BY <1>2, <1>3, <1>9, <3>1 DEF OpenIsKnown
  <2> QED BY <2>3, <2>4, <2>5, <2>6 DEF LoneParts
<1>12. Known(c)' => Known(c)
  BY <1>2 DEF Known
<1> QED BY <1>8, <1>10, <1>11, <1>12 DEF Kept

\* A connection that was alive, or being closed by the runner or the reaper,
\* goes: _closed and _forget leave nothing alive and nothing of a later offer
\* without its deadline.
LEMMA GoesStep ==
  ASSUME OwnTypeOK, NEW c \in ConnIds, NEW g \in Gens,
         wire[c][g] \in {"built", "open"} \cup Closing,
         wire' = [wire EXCEPT ![c][g] = "gone"], Forget(c, g),
         \/ deadlines' = Release(deadlines, c, g)
         \/ wire[c][g] = "reaped" /\ deadlines' = [deadlines EXCEPT ![c] = 0],
         UNCHANGED <<offered, overlapped, task, negotiating>>,
         \A d \in ConnIds : d # c => SameHandles(d),
         OfferParts(c), HandlesExist(c)'
  PROVE  Kept(c)
<1> USE AcceptorAssumption
<1>1. /\ conns'[c] = 0 /\ answers'[c] = 0 /\ c \notin liveIds'
      /\ offeredAt'[c] = (IF offeredAt[c] = g THEN 0 ELSE offeredAt[c])
      /\ pinned'[c] = (IF pinned[c] = g THEN 0 ELSE pinned[c])
  BY ForgetFacts
<1>2. /\ deadlines'[c] \in {0, deadlines[c]}
      /\ wire[c][g] # "reaped" /\ deadlines[c] # g => deadlines'[c] = deadlines[c]
      /\ \A d \in ConnIds : d # c => deadlines'[d] = deadlines[d]
  BY DEF Release, OwnTypeOK
<1>3. \A k \in Gens : wire'[c][k] = IF k = g THEN "gone" ELSE wire[c][k]
  BY DEF OwnTypeOK
<1>4. \A d \in ConnIds : d # c => SameId(d)
  <2>1. \A d \in ConnIds : d # c => wire'[d] = wire[d]
    BY DEF OwnTypeOK
  <2> QED BY <1>2, <2>1, ForgetFacts DEF SameId, SameHandles
<1>5. OfferParts(c)'
  <2>1. TablesAreCurrent(c)'
    BY <1>1, <1>2 DEF OfferParts, TablesAreCurrent
  <2>2. pinned[c] \in Gens \cup {0}
    BY DEF OwnTypeOK, Gens
  <2>3. PinHasOwner(c)'
    BY <1>1, <1>3, <2>2 DEF OfferParts, PinHasOwner
  <2>4. TasksAreInStep(c)'
    BY <1>1, <1>3 DEF OfferParts, TasksAreInStep, Closing
  <2> QED BY <2>1, <2>3, <2>4 DEF OfferParts
<1>6. ASSUME LoneParts(c) PROVE LoneParts(c)'
  <2>1. NegotiatesInStep(c) /\ LoneIsHeld(c) /\ UnderDeadline(c)
    BY <1>6 DEF LoneParts
  <2>2. wire[c][g] \notin {"none", "gone", "replaced"}
    BY DEF Closing
  <2>3. \A k \in Gens : k \notin overlapped[c] => ~AliveWire(c, k)'
    BY <1>3, <2>1, <2>2 DEF LoneIsHeld, AliveWire
  <2>4. \A k \in Gens : wire[c][k] = "reaped" => negotiating[c] = 0
    BY <2>1 DEF NegotiatesInStep
  <2>5. ASSUME NegotiationTimeout, negotiating[c] # 0, task[c][negotiating[c]] = "ready"
        PROVE  deadlines'[c] = offered[c] /\ offeredAt'[c] = offered[c]
    <3>1. negotiating[c] = offered[c] /\ negotiating[c] \in Gens
      BY <2>5 DEF OfferParts, TablesAreCurrent, OwnTypeOK, Gens
    <3>2. wire[c][offered[c]] = "none"
      BY <2>5, <3>1 DEF OfferParts, TasksAreInStep, Unbuilt
    <3>3. g # offered[c] /\ wire[c][g] # "reaped"
      BY <2>2, <2>4, <2>5, <3>2
    <3>4. deadlines[c] = offered[c] /\ offeredAt[c] = offered[c]
      BY <2>1, <2>5 DEF UnderDeadline
    <3> QED BY <1>1, <1>2, <3>3, <3>4
  <2>6. \A k \in Gens : wire'[c][k] = "reaped" => negotiating'[c] = 0
    BY <1>3, <2>4
  <2>7. ~(/\ negotiating[c] # 0 /\ task[c][negotiating[c]] \in {"closing", "creating"}
          /\ negotiating[c] \notin overlapped[c])
    BY <2>1, <2>2 DEF NegotiatesInStep, Alone
  <2> QED BY <1>1, <2>3, <2>5, <2>6, <2>7, NoLoneAlive
<1>7. Known(c)' => Known(c)
  BY <1>1 DEF Known
<1> QED BY <1>4, <1>5, <1>6, <1>7 DEF Kept

\* A peer that disconnects, whose close the sink asked for, or that was reaped.
LEMMA WireGoesStep ==
  ASSUME OwnTypeOK, NEW c \in ConnIds, NEW g \in Gens, OfferParts(c),
         WireLost(c, g) \/ RefusedCloses(c, g) \/ ReapedCloses(c, g)
  PROVE  Kept(c)
<1> USE DEF vars, registry, machine, teardown, offering
<1>1. /\ wire[c][g] \in {"built", "open"} \cup Closing
      /\ wire' = [wire EXCEPT ![c][g] = "gone"] /\ Forget(c, g)
      /\ \/ deadlines' = Release(deadlines, c, g)
         \/ wire[c][g] = "reaped" /\ deadlines' = [deadlines EXCEPT ![c] = 0]
      /\ UNCHANGED <<offered, overlapped, task, negotiating, taken>>
  BY DEF WireLost, RefusedCloses, ReapedCloses, Closing, AliveWire
<1>2. \/ UNCHANGED <<byId, handle>>
      \/ byId' = byId \ {c} /\ handle' = [handle EXCEPT ![c] = 0]
  BY DEF WireLost, RefusedCloses, ReapedCloses, ConnectionClosed, Drop, RefusedConnectionCloses
<1>3. toClose' = toClose
  BY DEF WireLost, RefusedCloses, ReapedCloses, ConnectionClosed, RefusedConnectionCloses
<1>4. \A d \in ConnIds : d # c => SameHandles(d)
  BY <1>1, <1>2, <1>3 DEF SameHandles, OwnTypeOK
<1>5. HandlesExist(c)'
  BY <1>1, <1>2, <1>3 DEF OfferParts, HandlesExist
<1> QED BY <1>1, <1>4, <1>5, GoesStep

\* The runner starts to close the connection the id holds.
LEMMA TeardownClosesStep ==
  ASSUME OwnTypeOK, NEW c \in ConnIds, TeardownCloses(c), OfferParts(c)
  PROVE  Kept(c)
<1> USE DEF vars, registry, teardown, offering, tables
<1> DEFINE g == taken[c]
<1>1. g # 0 /\ g \in Gens /\ wire[c][g] \in {"built", "open"} /\ wire' = [wire EXCEPT ![c][g] = "teardown"]
  BY DEF TeardownCloses, AliveWire, OwnTypeOK, Gens
<1>2. UNCHANGED <<byId, toClose, offered, overlapped, task, negotiating, conns, liveIds, offeredAt, deadlines,
                  answers, pinned, handle, taken>>
  BY DEF TeardownCloses
<1> HIDE DEF g
<1>3. \A k \in Gens : wire'[c][k] = IF k = g THEN "teardown" ELSE wire[c][k]
  BY <1>1 DEF OwnTypeOK
<1>4. \A d \in ConnIds : d # c => SameId(d)
  BY <1>1, <1>2 DEF SameId, OwnTypeOK
<1>5. OfferParts(c)'
  <2>1. pinned[c] \in Gens \cup {0}
    BY DEF OwnTypeOK, Gens
  <2>2. TablesAreCurrent(c)' /\ HandlesExist(c)'
    BY <1>2 DEF OfferParts, TablesAreCurrent, HandlesExist
  <2>3. PinHasOwner(c)'
    BY <1>2, <1>3, <2>1 DEF OfferParts, PinHasOwner
  <2>4. TasksAreInStep(c)'
    BY <1>1, <1>2, <1>3 DEF OfferParts, TasksAreInStep
  <2> QED BY <2>2, <2>3, <2>4 DEF OfferParts
<1>6. ASSUME LoneParts(c) PROVE LoneParts(c)'
  <2>1. NegotiatesInStep(c) /\ LoneIsHeld(c) /\ UnderDeadline(c)
    BY <1>6 DEF LoneParts
  <2>2. \A k \in Gens : k \notin overlapped'[c] => ~AliveWire(c, k)'
    BY <1>1, <1>2, <1>3, <2>1 DEF LoneIsHeld, AliveWire
  <2>3. \A k \in Gens : wire'[c][k] = "reaped" => negotiating'[c] = 0
    BY <1>2, <1>3, <2>1 DEF NegotiatesInStep
  <2>4. \E k \in Gens : wire'[c][k] \in {"open", "refused", "teardown"}
    BY <1>1, <1>3
  <2>5. ~(/\ negotiating[c] # 0 /\ task[c][negotiating[c]] \in {"closing", "creating"}
          /\ negotiating[c] \notin overlapped[c])
    BY <1>1, <2>1 DEF NegotiatesInStep, Alone
  <2>6. NegotiationTimeout /\ negotiating[c] # 0 /\ task[c][negotiating[c]] = "ready"
          => deadlines[c] = offered[c] /\ offeredAt[c] = offered[c]
    BY <2>1 DEF UnderDeadline
  <2>7. negotiating[c] # 0 /\ task[c][negotiating[c]] = "replaying" => conns[c] \in {0, negotiating[c]}
    BY <2>1 DEF NegotiatesInStep
  <2> QED BY <1>2, <2>2, <2>3, <2>4, <2>5, <2>6, <2>7, NoLoneAlive
<1>7. Known(c)' => Known(c)
  BY <1>2 DEF Known
<1> QED BY <1>4, <1>5, <1>6, <1>7 DEF Kept

\* One close of the teardown is over.
LEMMA TeardownClosedStep ==
  ASSUME OwnTypeOK, TypeOK, NEW c \in ConnIds, TeardownClosed(c), OfferParts(c)
  PROVE  Kept(c)
<1> USE DEF machine, registry, teardown, offering, tables
<1>1. c \in toClose["session"] /\ ~AliveWire(c, taken[c]) /\ taken[c] # 0 /\ taken[c] \in Gens
  BY DEF TeardownClosed, OfferParts, HandlesExist, OwnTypeOK, Gens
<1>2. /\ UNCHANGED <<byId, offered, overlapped, task, negotiating, handle>> /\ taken' = [taken EXCEPT ![c] = 0]
      /\ toClose' = [toClose EXCEPT !["session"] = @ \ {c}]
  BY DEF TeardownClosed, ConnectionCloseReturns
<1>3. toClose'["session"] = toClose["session"] \ {c}
  BY <1>2 DEF TypeOK, Closers
<1>4. \A d \in ConnIds : d # c => SameHandles(d)
  BY <1>2, <1>3 DEF SameHandles, OwnTypeOK
<1>5. HandlesExist(c)'
  BY <1>2, <1>3 DEF OfferParts, HandlesExist
<1>6. CASE wire[c][taken[c]] = "teardown"
  <2>1. /\ wire' = [wire EXCEPT ![c][taken[c]] = "gone"] /\ Forget(c, taken[c])
        /\ deadlines' = Release(deadlines, c, taken[c])
    BY <1>6 DEF TeardownClosed
  <2>2. wire[c][taken[c]] \in {"built", "open"} \cup Closing
    BY <1>6 DEF Closing
  <2> QED BY <1>1, <1>2, <1>4, <1>5, <2>1, <2>2, GoesStep
<1>7. CASE wire[c][taken[c]] # "teardown"
  <2>1. UNCHANGED <<wire, conns, liveIds, offeredAt, deadlines, answers, pinned>>
    BY <1>7 DEF TeardownClosed
  <2>2. \A d \in ConnIds : d # c => SameId(d)
    BY <1>2, <1>4, <2>1 DEF SameId, SameHandles
  <2>3. OfferParts(c)'
    BY <1>2, <1>5, <2>1 DEF OfferParts, TablesAreCurrent, TasksAreInStep, PinHasOwner
  <2>4. ASSUME LoneParts(c) PROVE LoneParts(c)'
    <3>1. NegotiatesInStep(c)' /\ LoneIsHeld(c)' /\ UnderDeadline(c)'
      BY <1>2, <2>1, <2>4 DEF LoneParts, NegotiatesInStep, LoneIsHeld, UnderDeadline, AliveWire, Alone
    <3>2. wire[c][taken[c]] # "open"
      BY <1>1 DEF AliveWire
    <3>3. OpenIsKnown(c)'
      BY <1>2, <2>1, <2>4, <3>2 DEF LoneParts, OpenIsKnown
    <3> QED BY <3>1, <3>3 DEF LoneParts
  <2>5. Known(c)' => Known(c)
    BY <1>2, <2>1 DEF Known
  <2> QED BY <2>2, <2>3, <2>4, <2>5 DEF Kept
<1> QED BY <1>6, <1>7

\* close_all takes every registered connection, and nothing is left of an earlier
\* teardown.
LEMMA TeardownTakesStep ==
  ASSUME SessionInv, TeardownTakes, NEW c \in ConnIds, OfferParts(c)
  PROVE  /\ OfferParts(c)'
         /\ LoneParts(c) => LoneParts(c)'
         /\ Known(c)' <=> Known(c)
<1> USE DEF offering, tables
<1>1. /\ UNCHANGED <<offered, overlapped, task, negotiating, conns, liveIds, offeredAt, deadlines, answers, pinned, wire>>
      /\ taken' = handle /\ byId' = {}
      /\ toClose' = [toClose EXCEPT !["session"] = byId]
  BY DEF TeardownTakes, CloseAllStarts
<1>2. toClose'["session"] = byId
  BY <1>1 DEF SessionInv, TypeOK, Closers
<1>3. toClose["session"] = {}
  BY DEF TeardownTakes, CloseAllStarts, SessionInv, BetweenSessions, Closers
<1>4. OfferParts(c)'
  BY <1>1, <1>2 DEF OfferParts, TablesAreCurrent, TasksAreInStep, PinHasOwner, HandlesExist
<1>5. ASSUME LoneParts(c) PROVE LoneParts(c)'
  <2>1. NegotiatesInStep(c)' /\ LoneIsHeld(c)' /\ UnderDeadline(c)'
    BY <1>1, <1>5 DEF LoneParts, NegotiatesInStep, LoneIsHeld, UnderDeadline, AliveWire, Alone
  <2>2. OpenIsKnown(c)'
    BY <1>1, <1>2, <1>3, <1>5 DEF LoneParts, OpenIsKnown
  <2> QED BY <2>1, <2>2 DEF LoneParts
<1> QED BY <1>1, <1>4, <1>5 DEF Known

\* The session's own steps, a candidate and an offer turned away change nothing
\* the invariant reads of an id.
LEMMA QuietIdStep ==
  ASSUME NEW d \in ConnIds,
         \/ SessionSteps \/ UNCHANGED all
         \/ \E c \in ConnIds : \/ \E pin \in BOOLEAN : OfferTurnedAway(c, pin)
                               \/ \E g \in Gens : AddIce(c, g)
  PROVE  SameId(d)
<1> USE DEF all, vars, machine, registry, offers, teardown, acceptor, offering, tables, connection
<1>1. UNCHANGED <<offered, overlapped, task, negotiating, conns, liveIds, offeredAt, deadlines, answers,
                  pinned, wire, handle, taken>>
  BY DEF SessionSteps, OfferTurnedAway, AddIce
<1>2. byId' = byId /\ toClose' = toClose
  <2>1. CASE SessionSteps
    BY <2>1 DEF SessionSteps, InitializationSuccess, StartSession, StopSession, OrphanTimeoutFires,
                CleanupComplete, NewConnId
  <2> QED BY <2>1 DEF OfferTurnedAway, OfferRefused, AddIce
<1> QED BY <1>1, <1>2 DEF SameId

-------------------------------------------------------------------------------
(* The theorems.                                                           *)

\* Every step is the quiet kind, the taking of the registered connections, a new
\* offer, or a step of one id.
LEMMA StepKinds ==
  ASSUME OfferInv, [AcceptorNext]_all
  PROVE  \/ \A d \in ConnIds : SameId(d)
         \/ TeardownTakes
         \/ \E c \in ConnIds, pin \in BOOLEAN : Offer(c, pin)
         \/ \E c \in ConnIds : Kept(c)
<1>1. OwnTypeOK /\ TypeOK /\ \A c \in ConnIds : OfferParts(c)
  BY OwnTypes DEF OfferInv, OfferParts
<1>2. CASE SessionSteps \/ UNCHANGED all
  BY <1>2, QuietIdStep
<1>3. CASE TeardownTakes
  BY <1>3
<1>4. ASSUME NEW c \in ConnIds, NEW pin \in BOOLEAN, Offer(c, pin) \/ OfferTurnedAway(c, pin)
      PROVE  (\A d \in ConnIds : SameId(d)) \/ Offer(c, pin)
  BY <1>4, QuietIdStep
<1>5. ASSUME NEW c \in ConnIds, Negotiation(c) PROVE Kept(c)
  BY <1>1, <1>5, NegotiationStartsStep, ConnectionCreatedStep, AnswerStagedStep, NegotiationFailsStep,
     PreviousClosesStep DEF Negotiation
<1>6. ASSUME NEW c \in ConnIds,
             AnswerTaken(c) \/ DeadlineFires(c) \/ TeardownCloses(c) \/ TeardownClosed(c)
      PROVE  Kept(c)
  BY <1>1, <1>6, AnswerTakenStep, DeadlineFiresStep, TeardownClosesStep, TeardownClosedStep
<1>7. ASSUME NEW c \in ConnIds, NEW g \in Gens,
             WireConnects(c, g) \/ WireLost(c, g) \/ RefusedCloses(c, g) \/ ReapedCloses(c, g)
      PROVE  Kept(c)
  BY <1>1, <1>7, WireConnectsStep, WireGoesStep
<1>8. ASSUME NEW c \in ConnIds, NEW g \in Gens, AddIce(c, g) PROVE \A d \in ConnIds : SameId(d)
  BY <1>8, QuietIdStep
<1> QED BY <1>2, <1>3, <1>4, <1>5, <1>6, <1>7, <1>8 DEF AcceptorNext

\* Every id keeps its part of the invariant.
LEMMA IdsStep ==
  ASSUME OfferInv, [AcceptorNext]_all, NEW d \in ConnIds
  PROVE  OfferParts(d)' /\ (LoneParts(d) => LoneParts(d)')
<1>1. OwnTypeOK /\ TypeOK /\ SessionInv /\ \A c \in ConnIds : OfferParts(c)
  BY OwnTypes DEF OfferInv, OfferParts
<1>2. CASE \A c \in ConnIds : SameId(c)
  BY <1>1, <1>2, SameIdKeeps
<1>3. CASE TeardownTakes
  BY <1>1, <1>3, TeardownTakesStep
<1>4. ASSUME NEW c \in ConnIds, NEW pin \in BOOLEAN, Offer(c, pin)
      PROVE  OfferParts(d)' /\ (LoneParts(d) => LoneParts(d)')
  <2>1. CASE d = c
    BY <1>1, <1>4, <2>1, OfferStep
  <2>2. CASE d # c
    BY <1>1, <1>4, <2>2, OfferStep, SameIdKeeps
  <2> QED BY <2>1, <2>2
<1>5. ASSUME NEW c \in ConnIds, Kept(c)
      PROVE  OfferParts(d)' /\ (LoneParts(d) => LoneParts(d)')
  <2>1. CASE d = c
    BY <1>5, <2>1 DEF Kept
  <2>2. CASE d # c
    BY <1>1, <1>5, <2>2, SameIdKeeps DEF Kept
  <2> QED BY <2>1, <2>2
<1> QED BY <1>2, <1>3, <1>4, <1>5, StepKinds

\* Only an offer takes a slot, and not at the ceiling.
LEMMA SlotStep ==
  ASSUME OfferInv, [AcceptorNext]_all
  PROVE  SlotCeiling'
<1> SUFFICES ASSUME MaxConnections > 0 PROVE Cardinality(SlotsHeld') <= MaxConnections
  BY DEF SlotCeiling
<1> USE AcceptorAssumption
<1>1. OwnTypeOK /\ TypeOK /\ SessionInv /\ \A c \in ConnIds : OfferParts(c)
  BY OwnTypes DEF OfferInv, OfferParts
<1>2. IsFiniteSet(SlotsHeld) /\ IsFiniteSet(SlotsHeld')
  BY ConnIdsAssumption, FS_Subset DEF SlotsHeld
<1>3. Cardinality(SlotsHeld) \in Nat /\ Cardinality(SlotsHeld') \in Nat
  BY <1>2, FS_CardinalityType
<1>4. Cardinality(SlotsHeld) <= MaxConnections
  BY DEF OfferInv, SlotCeiling
<1>5. ASSUME SlotsHeld' \subseteq SlotsHeld PROVE Cardinality(SlotsHeld') <= MaxConnections
  <2>1. Cardinality(SlotsHeld') <= Cardinality(SlotsHeld)
    BY <1>2, <1>5, FS_Subset
  <2> QED BY <1>3, <1>4, <2>1
<1>6. CASE \A c \in ConnIds : SameId(c)
  BY <1>5, <1>6, SameIdKeeps DEF SlotsHeld
<1>7. CASE TeardownTakes
  BY <1>1, <1>5, <1>7, TeardownTakesStep DEF SlotsHeld
<1>8. ASSUME NEW c \in ConnIds, Kept(c) PROVE Cardinality(SlotsHeld') <= MaxConnections
  BY <1>5, <1>8, SameIdKeeps DEF SlotsHeld, Kept
<1>9. ASSUME NEW c \in ConnIds, NEW pin \in BOOLEAN, Offer(c, pin)
      PROVE  Cardinality(SlotsHeld') <= MaxConnections
  <2>1. SlotsHeld' \subseteq SlotsHeld \union {c}
    BY <1>1, <1>9, OfferStep, SameIdKeeps DEF SlotsHeld
  <2>2. CASE Known(c)
    BY <1>5, <2>1, <2>2 DEF SlotsHeld
  <2>3. CASE ~Known(c)
    <3>1. Cardinality(SlotsHeld) < MaxConnections
      BY <1>3, <1>9, <2>3 DEF Offer, OverCapacity
    <3>2. c \notin SlotsHeld
      BY <2>3 DEF SlotsHeld
    <3>3. IsFiniteSet(SlotsHeld \union {c}) /\ Cardinality(SlotsHeld \union {c}) = Cardinality(SlotsHeld) + 1
      BY <1>2, <3>2, FS_AddElement
    <3>4. Cardinality(SlotsHeld') <= Cardinality(SlotsHeld \union {c})
      BY <2>1, <3>3, FS_Subset
    <3> QED BY <1>3, <3>1, <3>3, <3>4
  <2> QED BY <2>2, <2>3
<1> QED BY <1>6, <1>7, <1>8, <1>9, StepKinds

LEMMA OfferInvInit == AcceptorInit => OfferInv /\ LoneInv
<1> SUFFICES ASSUME AcceptorInit PROVE OfferInv /\ LoneInv
  OBVIOUS
<1> USE AcceptorAssumption
<1>1. SessionInv /\ TypeOK
  BY SessionInit, TypeInit DEF AcceptorInit
<1>2. epoch <= MaxSessions /\ byId = {} /\ toClose["session"] = {}
  BY BoundsAssumption DEF AcceptorInit, Init, Closers
<1>3. OwnTypeOK
  BY BoundsAssumption DEF AcceptorInit, OwnTypeOK
<1>4. \A c \in ConnIds :
        /\ offered[c] = 0 /\ conns[c] = 0 /\ negotiating[c] = 0 /\ answers[c] = 0 /\ deadlines[c] = 0
        /\ offeredAt[c] = 0 /\ pinned[c] = 0 /\ c \notin liveIds
        /\ \A g \in Gens : task[c][g] = "none" /\ wire[c][g] = "none"
  BY DEF AcceptorInit
<1>5. \A c \in ConnIds : OfferParts(c)
  BY <1>2, <1>4 DEF OfferParts, TablesAreCurrent, TasksAreInStep, PinHasOwner, HandlesExist
<1>6. \A c \in ConnIds : LoneParts(c)
  BY <1>4 DEF LoneParts, NegotiatesInStep, LoneIsHeld, UnderDeadline, OpenIsKnown, AliveWire
<1>7. SlotCeiling
  <2>1. SlotsHeld = {}
    BY <1>4 DEF SlotsHeld, Known
  <2> QED BY <2>1, FS_EmptySet DEF SlotCeiling
<1> QED BY <1>1, <1>2, <1>3, <1>5, <1>6, <1>7, OwnTypes DEF OfferInv, LoneInv, OfferParts, LoneParts

LEMMA OfferInvStep == OfferInv /\ [AcceptorNext]_all => OfferInv'
<1> SUFFICES ASSUME OfferInv, [AcceptorNext]_all PROVE OfferInv'
  OBVIOUS
<1>1. OwnTypeOK /\ TypeOK /\ SessionInv /\ epoch <= MaxSessions
  BY OwnTypes DEF OfferInv
<1>2. SessionInv' /\ TypeOK' /\ epoch' <= MaxSessions
  BY <1>1, SessionSees, SessionStep, TypeStep, EpochStep
<1>3. AcceptorTypeOK'
  <2>1. OwnTypeOK'
    BY <1>1, OwnTypeStep
  <2> QED BY <1>2, <2>1 DEF AcceptorTypeOK, OwnTypeOK
<1>4. \A c \in ConnIds : OfferParts(c)'
  BY IdsStep
<1>5. SlotCeiling'
  BY SlotStep
<1> QED BY <1>2, <1>3, <1>4, <1>5 DEF OfferInv, OfferParts

\* Whatever the peers do, and whichever of offers, reconnects, reaps, refusals
\* and teardowns interleave, the tables know no offer but an id's last.
THEOREM OffersSafe == AcceptorSpec => []OfferInv
BY OfferInvInit, OfferInvStep, PTL DEF AcceptorSpec

\* At the ceiling no slot is given out twice, however ids move between negotiating
\* and connected, and no port stays reserved for an offer that is over.
THEOREM CeilingSafe == AcceptorSpec => []CeilingHolds
<1>1. OfferInv => CeilingHolds
  BY DEF OfferInv, CeilingHolds, PinIsHeld, PinHasOwner
<1> QED BY <1>1, OffersSafe, PTL

LEMMA LoneInvStep == OfferInv /\ LoneInv /\ [AcceptorNext]_all => LoneInv'
BY IdsStep DEF LoneInv

\* However long closes take, and though they drop an id's entries by id alone: a
\* client polls the answer of its last offer, and a connection that overlapped no
\* earlier one of its id can be reached by its id as long as it is alive, is under
\* a deadline until it connects, and does not outlive its session.
THEOREM AcceptorSafe == AcceptorSpec => []AcceptorHolds
<1>1. OfferInv /\ LoneInv => AcceptorHolds
  <2> SUFFICES ASSUME OfferInv, LoneInv PROVE AcceptorHolds
    OBVIOUS
  <2>1. AnswerIsCurrent
    BY DEF OfferInv, TablesAreCurrent, AnswerIsCurrent
  <2>2. AnsweredHasDeadline
    BY AcceptorAssumption DEF LoneInv, LoneParts, UnderDeadline, AnsweredHasDeadline, HalfOpen
  <2>3. AliveIsHeld
    BY DEF LoneInv, LoneParts, LoneIsHeld, AliveIsHeld
  <2>4. state = "READY" => byId = {} /\ toClose["session"] = {}
    BY DEF OfferInv, SessionInv, BetweenSessions, ClosingHasCloser, Empty, Closers
  <2>5. UnwoundIsDisconnected
    BY <2>4 DEF LoneInv, LoneParts, OpenIsKnown, UnwoundIsDisconnected
  <2>6. AcceptorTypeOK
    BY DEF OfferInv
  <2> QED BY <2>1, <2>2, <2>3, <2>5, <2>6 DEF AcceptorHolds
<1>2. OfferInv /\ LoneInv /\ [AcceptorNext]_all => LoneInv'
  BY LoneInvStep
<1> QED BY <1>1, <1>2, OfferInvInit, OffersSafe, PTL DEF AcceptorSpec

\* What a step may do to a pin that the offer in flight holds.
LEMMA PinStep ==
  ASSUME OfferInv, [AcceptorNext]_all, NEW c \in ConnIds,
         negotiating[c] # 0, pinned[c] = negotiating[c], negotiating'[c] = negotiating[c],
         wire'[c][negotiating[c]] # "gone"
  PROVE  pinned'[c] = pinned[c]
<1> USE DEF offering, tables, connection, acceptor
<1> DEFINE g == negotiating[c]
<1>1. /\ OwnTypeOK /\ OfferParts(c) /\ g = offered[c] /\ g \in Gens /\ offered[c] \in Nat
      /\ pinned \in [ConnIds -> 0..MaxOffers]
  BY OwnTypes DEF OfferInv, OfferParts, TablesAreCurrent, OwnTypeOK, Gens
<1>2. ASSUME NEW d \in ConnIds, NEW k \in Gens, Forget(d, k), wire' = [wire EXCEPT ![d][k] = "gone"]
      PROVE  pinned'[c] = pinned[c]
  <2>1. d = c => wire'[c][k] = "gone"
    BY <1>1, <1>2 DEF OwnTypeOK
  <2> QED BY <1>1, <1>2, <2>1, ForgetFacts
<1>3. CASE UNCHANGED pinned
  BY <1>3
<1>4. ASSUME NEW d \in ConnIds, NEW pin \in BOOLEAN, Offer(d, pin) PROVE pinned'[c] = pinned[c]
  <2>1. /\ negotiating' = [negotiating EXCEPT ![d] = offered[d] + 1]
        /\ pinned' = [pinned EXCEPT ![d] = IF pin THEN offered[d] + 1 ELSE 0]
    BY <1>4 DEF Offer
  <2>2. d # c
    BY <1>1, <2>1 DEF OwnTypeOK
  <2> QED BY <1>1, <2>1, <2>2
<1>5. ASSUME NEW d \in ConnIds, Negotiation(d) PROVE pinned'[c] = pinned[c]
  <2>1. CASE NegotiationStarts(d) \/ ConnectionCreated(d) \/ AnswerStaged(d)
    BY <1>3, <2>1 DEF NegotiationStarts, ConnectionCreated, AnswerStaged
  <2>2. CASE NegotiationFails(d)
    <3>1. negotiating' = [negotiating EXCEPT ![d] = 0] /\ pinned' = Release(pinned, d, negotiating[d])
      BY <2>2 DEF NegotiationFails
    <3>2. d # c
      BY <1>1, <3>1 DEF OwnTypeOK
    <3> QED BY <1>1, <3>1, <3>2, ReleaseTyped
  <2>3. ASSUME NEW h \in Gens, PreviousCloses(d, h) PROVE pinned'[c] = pinned[c]
    BY <1>2, <2>3 DEF PreviousCloses
  <2> QED BY <1>5, <2>1, <2>2, <2>3 DEF Negotiation
<1>6. ASSUME NEW d \in ConnIds, DeadlineFires(d) PROVE pinned'[c] = pinned[c]
  <2>1. CASE UNCHANGED pinned
    BY <2>1
  <2>2. CASE pinned' = Release(pinned, d, deadlines[d]) /\ negotiating' = [negotiating EXCEPT ![d] = 0]
    <3>1. d # c
      BY <1>1, <2>2 DEF OwnTypeOK
    <3> QED BY <1>1, <2>2, <3>1, ReleaseTyped
  <2> QED BY <1>6, <2>1, <2>2 DEF DeadlineFires
<1>7. ASSUME NEW d \in ConnIds, TeardownClosed(d) PROVE pinned'[c] = pinned[c]
  <2>1. taken[d] \in Gens
    BY <1>7, OwnTypes DEF OfferInv, HandlesExist, TeardownClosed, OwnTypeOK, Gens
  <2>2. CASE UNCHANGED pinned
    BY <2>2
  <2>3. CASE Forget(d, taken[d]) /\ wire' = [wire EXCEPT ![d][taken[d]] = "gone"]
    BY <1>2, <2>1, <2>3
  <2> QED BY <1>7, <2>2, <2>3 DEF TeardownClosed
<1>8. ASSUME NEW d \in ConnIds, NEW k \in Gens, WireLost(d, k) \/ RefusedCloses(d, k) \/ ReapedCloses(d, k)
      PROVE  pinned'[c] = pinned[c]
  BY <1>2, <1>8 DEF WireLost, RefusedCloses, ReapedCloses
<1>9. CASE \/ UNCHANGED all \/ SessionSteps \/ TeardownTakes
           \/ \E d \in ConnIds :
                \/ \E pin \in BOOLEAN : OfferTurnedAway(d, pin)
                \/ AnswerTaken(d) \/ TeardownCloses(d)
                \/ \E k \in Gens : AddIce(d, k) \/ WireConnects(d, k)
  BY <1>3, <1>9 DEF all, SessionSteps, TeardownTakes, OfferTurnedAway, AnswerTaken, TeardownCloses, AddIce,
                    WireConnects
<1> QED BY <1>4, <1>5, <1>6, <1>7, <1>8, <1>9 DEF AcceptorNext

\* The teardown of the connection an offer replaces does not free the port the
\* offer has pinned.
THEOREM PinSafe == AcceptorSpec => PinSurvivesReconnect
<1>1. OfferInv /\ [AcceptorNext]_all =>
        [\A c \in ConnIds : LET g == negotiating[c] IN
           g # 0 /\ pinned[c] = g /\ negotiating'[c] = g /\ wire'[c][g] # "gone"
             => pinned'[c] = g]_all
  BY PinStep
<1> QED BY <1>1, OffersSafe, PTL DEF AcceptorSpec, PinSurvivesReconnect

\* The transport is a transport of the session: a behaviour of the composition is
\* a behaviour of SessionLifecycle, so that what is proved of the session alone
\* holds under WebRTC's offers, reconnects and losses too.
THEOREM TransportRefinesSession == AcceptorSpec => Spec
<1>1. AcceptorInit => Init
  BY DEF AcceptorInit
<1> QED BY <1>1, SessionSees, PTL DEF AcceptorSpec, Spec

===============================================================================
