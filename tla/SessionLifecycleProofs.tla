------------------------ MODULE SessionLifecycleProofs ------------------------
(***************************************************************************)
(* Proofs about SessionLifecycle, for every set of connections, tracks and *)
(* transports and every number of sessions.                                *)
(***************************************************************************)
EXTENDS SessionLifecycle, FiniteSetTheorems, TLAPS

-------------------------------------------------------------------------------
(* The session machine: where each event the runner sends can lead.        *)

\* The table of state_machine.py, one event at a time.
LEMMA StaticEdges ==
  ASSUME NEW s \in SessionStates, NEW n \in Nat
  PROVE  /\ Resolve("INITIALIZATION_SUCCESS", s, n) = IF s = "CREATED" THEN "READY" ELSE Rejected
         /\ Resolve("INITIALIZATION_FAIL", s, n) = IF s = "CREATED" THEN "TERMINATED" ELSE Rejected
         /\ Resolve("START_SESSION", s, n) = IF s = "READY" THEN "WAITING" ELSE Rejected
         /\ Resolve("STOP_SESSION", s, n) = IF s \in Connectable THEN "CLOSING" ELSE Rejected
         /\ Resolve("TIMEOUT", s, n) = IF s \in {"WAITING", "ORPHANED"} THEN "CLOSING" ELSE Rejected
         /\ Resolve("CLEANUP_COMPLETE", s, n) = IF s = "CLOSING" THEN "READY" ELSE Rejected
         /\ Resolve("EVICTION", s, n) = IF s # "TERMINATED" THEN "TERMINATED" ELSE Rejected
BY DEF Resolve, Transitions, SelfLoops, JournalEvents, Connectable, SessionStates

\* Every static move that changes the state clears the count.
LEMMA StaticCounts ==
  ASSUME NEW n \in Nat,
         NEW e \in {"INITIALIZATION_SUCCESS", "INITIALIZATION_FAIL", "START_SESSION",
                    "STOP_SESSION", "TIMEOUT", "CLEANUP_COMPLETE", "EVICTION"}
  PROVE  UpdateCount(e, n) = 0
BY DEF UpdateCount, SelfLoops, JournalEvents

\* The two connection events, resolved from the count.
LEMMA OccupancyEdges ==
  ASSUME NEW s \in SessionStates, NEW n \in Nat
  PROVE  /\ Resolve("CONNECTION_OPENED", s, n) = IF s \in Connectable THEN "STREAMING" ELSE Rejected
         /\ Resolve("CONNECTION_CLOSED", s, n) =
              IF s # "STREAMING" THEN Rejected ELSE IF n <= 1 THEN "ORPHANED" ELSE "STREAMING"
         /\ UpdateCount("CONNECTION_OPENED", n) = n + 1
         /\ UpdateCount("CONNECTION_CLOSED", n) = IF n > 0 THEN n - 1 ELSE 0
BY DEF Resolve, ResolveOpen, ResolveClose, UpdateCount, SelfLoops, JournalEvents

-------------------------------------------------------------------------------
(* Types.                                                                  *)

\* The events this component sends that can move the machine.
Moves == {"INITIALIZATION_SUCCESS", "INITIALIZATION_FAIL", "START_SESSION", "STOP_SESSION",
          "TIMEOUT", "CLEANUP_COMPLETE", "EVICTION", "CONNECTION_OPENED", "CONNECTION_CLOSED"}

\* Applying a legal event leaves the machine in one of its states, with a count.
LEMMA SendTyped ==
  ASSUME TypeOK, NEW e \in Moves, Send(e)
  PROVE  state' \in SessionStates /\ live' \in Nat /\ orphanTimer' \in BOOLEAN
<1>1. state \in SessionStates /\ live \in Nat /\ orphanTimer \in BOOLEAN
  BY DEF TypeOK
<1>2. "rejected" \notin SessionStates /\ Connectable \subseteq SessionStates
  BY DEF SessionStates, Connectable
<1>3. state' # Rejected /\ state' = Resolve(e, state, live) /\ live' = UpdateCount(e, live)
  BY DEF Send, Legal
<1>4. state' \in SessionStates
  BY <1>1, <1>2, <1>3, StaticEdges, OccupancyEdges DEF Moves, SessionStates
<1>5. live' \in Nat
  BY <1>1, <1>3, StaticCounts, OccupancyEdges DEF Moves
<1>6. orphanTimer' \in BOOLEAN
  BY <1>1, BoundsAssumption DEF Send
<1> QED BY <1>4, <1>5, <1>6

\* Dropping a registered id keeps the types of what it touches.
LEMMA DropTyped ==
  ASSUME TypeOK, NEW id \in Ids, Drop(id)
  PROVE  /\ state' \in SessionStates /\ live' \in Nat /\ orphanTimer' \in BOOLEAN
         /\ byId' \subseteq Ids /\ unoccupying' \subseteq Ids
         /\ publishers' \in [Tracks -> Ids \union {Nobody}]
         /\ modelClients' \subseteq Ids
<1>1. byId' \subseteq Ids /\ unoccupying' \subseteq Ids /\ modelClients' \subseteq Ids
  BY DEF Drop, TracksFreed, TypeOK
<1>2. publishers' \in [Tracks -> Ids \union {Nobody}]
  BY DEF Drop, TracksFreed, TypeOK
<1>3. state' \in SessionStates /\ live' \in Nat /\ orphanTimer' \in BOOLEAN
  <2>1. CASE UNCHANGED machine
    BY <2>1 DEF machine, TypeOK
  <2>2. CASE Send("CONNECTION_CLOSED")
    BY <2>2, SendTyped DEF Moves
  <2> QED BY <2>1, <2>2 DEF Drop
<1> QED BY <1>1, <1>2, <1>3

\* Every step keeps the types.
LEMMA TypeStep == TypeOK /\ [Next]_vars => TypeOK'
<1> USE DEF machine, registry, offers, inputs, teardown, model, process
<1> SUFFICES ASSUME TypeOK, [Next]_vars PROVE TypeOK'
  OBVIOUS
<1>1. CASE InitializationSuccess
  BY <1>1, SendTyped DEF InitializationSuccess, Moves, TypeOK
<1>2. CASE InitializationFail
  BY <1>2, SendTyped DEF InitializationFail, Moves, TypeOK
<1>3. ASSUME NEW shape \in StartShapes, StartSession(shape) PROVE TypeOK'
  <2>1. state = "READY" /\ live \in Nat
    BY <1>3, StaticEdges DEF StartSession, Legal, TypeOK
  <2>2. state' \in {"WAITING", "STREAMING"} /\ live' \in Nat
    BY <1>3, <2>1, StaticEdges, StaticCounts, OccupancyEdges
    DEF StartSession, SessionStates, Connectable
  <2>3. epoch' \in Nat /\ applying' \subseteq 1..MaxSessions
    BY <1>3, BoundsAssumption DEF StartSession, TypeOK
  <2>4. byId' \subseteq Ids /\ unoccupying' \subseteq Ids /\ modelClients' \subseteq Ids
    BY <1>3 DEF StartSession, TypeOK, Ids
  <2>5. startingDone' \in BOOLEAN /\ orphanTimer' \in BOOLEAN
    BY <1>3, BoundsAssumption DEF StartSession, StartShapes
  <2> QED BY <1>3, <2>2, <2>3, <2>4, <2>5 DEF StartSession, TypeOK, SessionStates
<1>4. CASE StopSession
  BY <1>4, SendTyped DEF StopSession, EnterClosing, Moves, TypeOK, Closers
<1>5. CASE OrphanTimeoutFires
  BY <1>5, SendTyped DEF OrphanTimeoutFires, EnterClosing, Moves, TypeOK, Closers
<1>6. CASE Evict
  BY <1>6, SendTyped DEF Evict, Moves, TypeOK, Closers
<1>7. ASSUME NEW c \in ConnIds, Sink(c) PROVE TypeOK'
  <2>1. CASE RefuseConnection(c)
    BY <2>1 DEF RefuseConnection, TypeOK, NoStamp
  <2>2. CASE AcceptConnection(c)
    <3>1. state' \in SessionStates /\ live' \in Nat /\ orphanTimer' \in BOOLEAN
      BY <2>2, SendTyped DEF AcceptConnection, Moves, TypeOK
    <3> QED BY <2>2, <3>1 DEF AcceptConnection, TypeOK, NoStamp, Ids
  <2>3. CASE ConnectionClosed(c)
    BY <2>3, DropTyped DEF ConnectionClosed, TypeOK, Ids
  <2>4. CASE RefusedConnectionCloses(c)
    BY <2>4 DEF RefusedConnectionCloses, TypeOK
  <2>5. ASSUME NEW tr \in Transports,
               \/ NewConnId(c, tr) \/ OfferAdmitted(c, tr) \/ OfferRefused(c, tr)
               \/ ConnectionFailed(c, tr)
        PROVE TypeOK'
    <3>1. CASE NewConnId(c, tr)
      BY <3>1 DEF NewConnId, TypeOK
    <3>2. CASE OfferAdmitted(c, tr)
      BY <3>2 DEF OfferAdmitted, TypeOK
    <3>3. CASE OfferRefused(c, tr)
      BY <3>3 DEF OfferRefused, TypeOK
    <3>4. CASE ConnectionFailed(c, tr)
      BY <3>4 DEF ConnectionFailed, TypeOK, NoStamp
    <3> QED BY <2>5, <3>1, <3>2, <3>3, <3>4
  <2>6. ASSUME NEW t \in Tracks, PublishTrack(c, t) \/ UnpublishTrack(c, t) PROVE TypeOK'
    BY <2>6 DEF PublishTrack, UnpublishTrack, TypeOK, Ids
  <2> QED BY <1>7, <2>1, <2>2, <2>3, <2>4, <2>5, <2>6 DEF Sink
<1>8. ASSUME NEW s \in applying, StartingInput(s) PROVE TypeOK'
  <2>1. CASE StartingCommandRefused(s)
    BY <2>1, SendTyped DEF StartingCommandRefused, EnterClosing, Moves, TypeOK, Closers
  <2>2. CASE StartingInputSubmitted(s)
    <3>1. SystemId \in Ids
      BY DEF Ids
    <3>2. CASE Drop(SystemId)
      BY <2>2, <3>1, <3>2, DropTyped DEF StartingInputSubmitted, TypeOK
    <3>3. CASE UNCHANGED <<machine, byId, unoccupying, publishers, modelClients>>
      BY <2>2, <3>3 DEF StartingInputSubmitted, TypeOK
    <3> QED BY <2>2, <3>2, <3>3 DEF StartingInputSubmitted
  <2> QED BY <1>8, <2>1, <2>2 DEF StartingInput
<1>9. ASSUME NEW k \in Closers, Teardown(k) PROVE TypeOK'
  <2>1. CASE CloseAllStarts(k)
    BY <2>1 DEF CloseAllStarts, TypeOK
  <2>2. ASSUME NEW id \in Ids, ConnectionCloseReturns(k, id) PROVE TypeOK'
    BY <2>2 DEF ConnectionCloseReturns, TypeOK
  <2>3. ASSUME NEW id \in Ids, ConnectionCloseRaises(k, id) PROVE TypeOK'
    BY <2>3 DEF ConnectionCloseRaises, TypeOK, Ids
  <2> QED BY <1>9, <2>1, <2>2, <2>3 DEF Teardown
<1>10. CASE CleanupComplete
  <2>1. state' \in SessionStates /\ live' \in Nat /\ orphanTimer' \in BOOLEAN
    BY <1>10, SendTyped DEF CleanupComplete, Moves, TypeOK
  <2> QED BY <1>10, <2>1 DEF CleanupComplete, TypeOK, Closers
<1>11. CASE EvictionClosed
  BY <1>11 DEF EvictionClosed, TypeOK, Closers
<1>12. CASE Drain
  <2>1. state' \in SessionStates /\ live' \in Nat /\ orphanTimer' \in BOOLEAN
    BY <1>12, SendTyped DEF Drain, Moves, TypeOK
  <2> QED BY <1>12, <2>1 DEF Drain, EnterClosing, TypeOK, Closers
<1>13. CASE DrainReturns \/ Stopped
  BY <1>13 DEF DrainReturns, Stopped, TypeOK
<1>14. CASE Stop
  <2>1. awaited' \in [closers : SUBSET Closers, refusals : SUBSET ConnIds]
    BY <1>14 DEF Stop, TypeOK
  <2> QED BY <1>14, <2>1 DEF Stop, TypeOK
<1>15. CASE UNCHANGED vars
  BY <1>15 DEF vars, TypeOK
<1> QED
  BY <1>1, <1>2, <1>3, <1>4, <1>5, <1>6, <1>7, <1>8, <1>9, <1>10, <1>11, <1>12, <1>13, <1>14, <1>15
  DEF Next, Exited

\* The initial state is well formed.
LEMMA TypeInit == Init => TypeOK
<1> SUFFICES ASSUME Init PROVE TypeOK
  OBVIOUS
<1>1. state \in SessionStates /\ live \in Nat /\ epoch \in Nat /\ stamps \in [ConnIds -> Int]
  BY DEF Init, SessionStates, NoStamp
<1>2. /\ publishers \in [Tracks -> Ids \union {Nobody}]
      /\ claims \in [ConnIds -> Transports \union {Nobody}]
  BY DEF Init
<1>3. start \in StartShapes /\ awaited \in [closers : SUBSET Closers, refusals : SUBSET ConnIds]
  BY DEF Init, StartShapes
<1>4. /\ closer \in [Closers -> {"idle", "spawned", "closing"}]
      /\ toClose \in [Closers -> SUBSET Ids]
  BY DEF Init
<1> QED BY <1>1, <1>2, <1>3, <1>4 DEF Init, TypeOK

\* Every state of the process is well formed: the machine is in one of its
\* states with a natural count, the registry and the teardowns hold known ids,
\* the tasks belong to sessions that started.
THEOREM TypeCorrect == Spec => []TypeOK
BY TypeInit, TypeStep, PTL DEF Spec

-------------------------------------------------------------------------------
(* Occupancy: the count and the registry never part.                       *)

\* What holds in every reachable state, strong enough to be kept by every step.
SessionInv ==
  /\ TypeOK /\ OccupancyAgrees /\ ModelSeesRegistry /\ PublisherIsRegistered
  /\ ClosingHasCloser /\ BetweenSessions

\* The registered connections are finitely many.
LEMMA OccupyingFinite == TypeOK => IsFiniteSet(Occupying)
<1>1. IsFiniteSet(Ids)
  BY ConnIdsAssumption, FS_AddElement DEF Ids
<1>2. TypeOK => Occupying \subseteq Ids
  BY DEF TypeOK, Occupying
<1> QED BY <1>1, <1>2, FS_Subset

\* One more occupying connection, one more in the count.
LEMMA JoinAgrees ==
  ASSUME TypeOK, TypeOK', OccupancyAgrees, Running, NEW id, id \notin Occupying,
         Occupying' = Occupying \union {id}, live' = live + 1, state' = "STREAMING"
  PROVE  OccupancyAgrees'
<1>1. Cardinality(Occupying') = Cardinality(Occupying) + 1
  BY OccupyingFinite, FS_AddElement
<1> QED BY <1>1 DEF OccupancyAgrees, Running

\* One occupying connection less: the session is orphaned when it was the last.
LEMMA LeaveAgrees ==
  ASSUME TypeOK, TypeOK', OccupancyAgrees, state = "STREAMING", NEW id, id \in Occupying,
         Occupying' = Occupying \ {id}, live' = IF live > 0 THEN live - 1 ELSE 0,
         state' = IF live <= 1 THEN "ORPHANED" ELSE "STREAMING"
  PROVE  OccupancyAgrees'
<1>1. IsFiniteSet(Occupying) /\ IsFiniteSet(Occupying')
  BY OccupyingFinite, FS_RemoveElement
<1>2. Cardinality(Occupying') = Cardinality(Occupying) - 1
  BY <1>1, FS_RemoveElement
<1>3. live = Cardinality(Occupying) /\ live \in Nat
  BY DEF OccupancyAgrees, Running, Connectable, TypeOK
<1>4. Cardinality(Occupying) # 0
  BY <1>1, FS_EmptySet
<1>5. (Occupying' = {}) <=> (Cardinality(Occupying') = 0)
  BY <1>1, FS_EmptySet
<1>6. live' = Cardinality(Occupying')
  BY <1>2, <1>3, <1>4
<1>7. (live <= 1) <=> (Occupying' = {})
  BY <1>2, <1>3, <1>4, <1>5
<1> QED BY <1>6, <1>7 DEF OccupancyAgrees

\* The moves into CLOSING, whoever asks for them.
LEMMA ClosingStep ==
  ASSUME SessionInv, TypeOK', NEW e \in {"STOP_SESSION", "TIMEOUT"}, Send(e), EnterClosing,
         UNCHANGED <<byId, unoccupying, publishers, epoch, toClose, model>>
  PROVE  SessionInv'
<1>1. Running /\ state' = "CLOSING" /\ live' = 0
  BY StaticEdges, StaticCounts
  DEF Send, Legal, SessionInv, TypeOK, Running, Connectable, SessionStates, Rejected
<1>2. closer["session"] = "idle" /\ closer["evict"] = "idle"
  BY <1>1 DEF SessionInv, ClosingHasCloser, BetweenSessions, Running, Connectable, TypeOK, Closers
<1>3. closer' = [closer EXCEPT !["session"] = "spawned"]
  BY DEF EnterClosing
<1>4. /\ closer'["session"] = "spawned" /\ closer'["evict"] = "idle"
      /\ toClose'["session"] = {} /\ toClose'["evict"] = {}
  BY <1>2, <1>3 DEF SessionInv, TypeOK, BetweenSessions, Closers
<1>5. OccupancyAgrees' /\ ModelSeesRegistry'
  BY <1>1 DEF OccupancyAgrees, ModelSeesRegistry, Running, Connectable
<1>6. PublisherIsRegistered'
  BY DEF SessionInv, PublisherIsRegistered
<1>7. ClosingHasCloser' /\ BetweenSessions'
  BY <1>1, <1>4 DEF ClosingHasCloser, BetweenSessions, SessionInv, Closers
<1> QED BY <1>5, <1>6, <1>7 DEF SessionInv

\* A registered connection leaves, while the session runs or after.
LEMMA DropStep ==
  ASSUME SessionInv, TypeOK', NEW id \in byId, Drop(id),
         UNCHANGED <<epoch, closer, toClose, modelSession>>
  PROVE  SessionInv'
<1>1. /\ byId' = byId \ {id} /\ unoccupying' = unoccupying \ {id}
      /\ publishers' = [t \in Tracks |-> IF publishers[t] = id THEN Nobody ELSE publishers[t]]
  BY DEF Drop, TracksFreed
<1>2. TypeOK /\ state \notin {"CREATED", "READY"}
  BY DEF SessionInv, BetweenSessions, Empty
<1>3. PublisherIsRegistered'
  BY <1>1, <1>2 DEF PublisherIsRegistered, SessionInv
<1>4. /\ state = "CLOSING" => closer["session"] # "closing"
      /\ state \in SessionStates /\ live \in Nat
  BY <1>2 DEF SessionInv, BetweenSessions, Empty, TypeOK
<1>5. unoccupying' \subseteq {SystemId}
  BY <1>1 DEF SessionInv, BetweenSessions
<1>6. CASE id \in unoccupying
  <2>1. /\ UNCHANGED <<state, live>> /\ Occupying' = Occupying
        /\ modelClients' = IF Running THEN modelClients \ {id} ELSE modelClients
    BY <1>1, <1>6 DEF Drop, TracksFreed, machine, Send, Occupying
  <2>2. OccupancyAgrees' /\ ModelSeesRegistry'
    BY <1>1, <2>1 DEF SessionInv, OccupancyAgrees, ModelSeesRegistry, Running
  <2> QED BY <1>2, <1>3, <1>4, <1>5, <2>1, <2>2 DEF SessionInv, ClosingHasCloser, BetweenSessions
<1>7. CASE id \notin unoccupying /\ Send("CONNECTION_CLOSED")
  <2>1. /\ state = "STREAMING"
        /\ state' = (IF live <= 1 THEN "ORPHANED" ELSE "STREAMING")
        /\ live' = (IF live > 0 THEN live - 1 ELSE 0)
    BY <1>4, <1>7, OccupancyEdges DEF Send, Legal
  <2>2. modelClients' = modelClients \ {id}
    <3>1. Legal("CONNECTION_CLOSED", state, live)
      BY <1>7 DEF Send
    <3> QED BY <1>7, <3>1 DEF Drop
  <2>3. id \in Occupying /\ Occupying' = Occupying \ {id}
    BY <1>1, <1>7 DEF Occupying
  <2>4. OccupancyAgrees'
    BY <1>2, <2>1, <2>3, LeaveAgrees DEF SessionInv
  <2>5. ModelSeesRegistry'
    BY <1>1, <2>1, <2>2 DEF SessionInv, ModelSeesRegistry, Running, Connectable
  <2>6. closer["session"] = "idle" /\ closer["evict"] = "idle"
    BY <2>1 DEF SessionInv, ClosingHasCloser, BetweenSessions
  <2> QED BY <1>2, <1>3, <1>5, <2>1, <2>4, <2>5, <2>6
          DEF SessionInv, ClosingHasCloser, BetweenSessions
<1>8. CASE id \notin unoccupying /\ ~Legal("CONNECTION_CLOSED", state, live)
  <2>1. UNCHANGED <<state, live, modelClients>>
    BY <1>8 DEF Drop, TracksFreed, machine, Send
  <2>2. state # "STREAMING"
    BY <1>4, <1>8, OccupancyEdges DEF Legal, Rejected
  <2>3. id \in Occupying
    BY <1>8 DEF Occupying
  <2>4. ~Running
    BY <2>2, <2>3 DEF SessionInv, OccupancyAgrees
  <2>5. OccupancyAgrees' /\ ModelSeesRegistry'
    BY <2>1, <2>4 DEF OccupancyAgrees, ModelSeesRegistry, Running
  <2> QED BY <1>2, <1>3, <1>4, <1>5, <2>1, <2>5 DEF SessionInv, ClosingHasCloser, BetweenSessions
<1> QED BY <1>6, <1>7, <1>8 DEF Drop

\* A step that leaves the machine, the registry, the model's view and the
\* teardowns' places alone, and only shortens what they have to close.
LEMMA QuietStep ==
  ASSUME SessionInv, TypeOK',
         UNCHANGED <<state, live, byId, unoccupying, publishers, epoch, model>>,
         closer' = closer, \A k \in Closers : toClose'[k] \subseteq toClose[k]
  PROVE  SessionInv'
<1>1. OccupancyAgrees' /\ ModelSeesRegistry' /\ PublisherIsRegistered'
  BY DEF SessionInv, OccupancyAgrees, ModelSeesRegistry, PublisherIsRegistered, Running, Occupying, model
<1>2. ClosingHasCloser' /\ BetweenSessions'
  BY DEF SessionInv, ClosingHasCloser, BetweenSessions, Empty, model
<1> QED BY <1>1, <1>2 DEF SessionInv

\* A start: nothing is left of the session before, so the count starts from the
\* system client or from nothing.
LEMMA StartStep ==
  ASSUME SessionInv, TypeOK', NEW shape \in StartShapes, StartSession(shape)
  PROVE  SessionInv'
<1>1. state = "READY" /\ state \in SessionStates /\ live \in Nat
  BY StaticEdges DEF StartSession, Legal, SessionInv, TypeOK
<1>2. Empty /\ live = 0 /\ modelClients = {} /\ closer["session"] = "idle" /\ closer["evict"] = "idle"
  BY <1>1 DEF SessionInv, BetweenSessions, ClosingHasCloser
<1>3. /\ publishers' = publishers /\ closer' = closer /\ toClose' = toClose /\ modelSession'
      /\ epoch' = epoch + 1
  BY DEF StartSession, teardown
<1>4. CASE shape.unattended
  <2>1. state' = "STREAMING" /\ live' = 1 /\ byId' = {SystemId} /\ unoccupying' = {}
        /\ modelClients' = {SystemId}
    BY <1>1, <1>2, <1>4, StaticEdges, StaticCounts, OccupancyEdges
    DEF StartSession, Empty, Connectable, SessionStates
  <2>2. Cardinality({SystemId}) = 1
    BY FS_Singleton
  <2>3. OccupancyAgrees' /\ ModelSeesRegistry'
    BY <1>3, <2>1, <2>2 DEF OccupancyAgrees, ModelSeesRegistry, Occupying
  <2>4. PublisherIsRegistered' /\ ClosingHasCloser' /\ BetweenSessions'
    BY <1>2, <1>3, <2>1
    DEF PublisherIsRegistered, ClosingHasCloser, BetweenSessions, Empty, SessionInv
  <2> QED BY <2>3, <2>4 DEF SessionInv
<1>5. CASE ~shape.unattended
  <2>1. state' = "WAITING" /\ live' = 0 /\ byId' = unoccupying' /\ unoccupying' \subseteq {SystemId}
        /\ modelClients' = byId'
    BY <1>1, <1>2, <1>5, StaticEdges, StaticCounts DEF StartSession, Empty
  <2>2. Occupying' = {} /\ Cardinality({}) = 0
    BY <2>1, FS_EmptySet DEF Occupying
  <2>3. OccupancyAgrees' /\ ModelSeesRegistry'
    BY <1>3, <2>1, <2>2 DEF OccupancyAgrees, ModelSeesRegistry
  <2>4. PublisherIsRegistered' /\ ClosingHasCloser' /\ BetweenSessions'
    BY <1>2, <1>3, <2>1
    DEF PublisherIsRegistered, ClosingHasCloser, BetweenSessions, Empty, SessionInv
  <2> QED BY <2>3, <2>4 DEF SessionInv
<1> QED BY <1>4, <1>5

\* A wire that belongs to the live session is registered.
LEMMA AcceptStep ==
  ASSUME SessionInv, TypeOK', NEW c \in ConnIds, AcceptConnection(c)
  PROVE  SessionInv'
<1>1. Running /\ state \in SessionStates /\ live \in Nat /\ TypeOK
  BY DEF AcceptConnection, WiresExist, StaleConnectionStates, SessionInv, BetweenSessions, TypeOK,
         SessionStates, Running, Connectable
<1>2. /\ byId' = byId \union {c}
      /\ UNCHANGED <<unoccupying, publishers, epoch, closer, toClose, modelSession>>
  BY DEF AcceptConnection, teardown
<1>3. c \notin unoccupying
  BY ConnIdsAssumption DEF SessionInv, BetweenSessions
<1>4. closer["session"] = "idle" /\ closer["evict"] = "idle"
  BY <1>1 DEF SessionInv, ClosingHasCloser, BetweenSessions, Running, Connectable
<1>5. PublisherIsRegistered'
  BY <1>2 DEF SessionInv, PublisherIsRegistered
<1>6. CASE c \in byId
  <2>1. UNCHANGED <<state, live, modelClients>> /\ byId' = byId /\ Occupying' = Occupying
    BY <1>2, <1>6 DEF AcceptConnection, machine, Occupying
  <2>2. OccupancyAgrees' /\ ModelSeesRegistry'
    BY <1>2, <2>1 DEF SessionInv, OccupancyAgrees, ModelSeesRegistry, Running
  <2>3. ClosingHasCloser' /\ BetweenSessions'
    BY <1>2, <2>1 DEF SessionInv, ClosingHasCloser, BetweenSessions, Empty
  <2> QED BY <1>5, <2>2, <2>3 DEF SessionInv
<1>7. CASE c \notin byId
  <2>1. Legal("CONNECTION_OPENED", state, live)
    BY <1>1, OccupancyEdges DEF Legal, Running, Rejected
  <2>2. state' = "STREAMING" /\ live' = live + 1 /\ modelClients' = modelClients \union {c}
    BY <1>1, <1>7, <2>1, OccupancyEdges DEF AcceptConnection, Send, Running
  <2>3. c \notin Occupying /\ Occupying' = Occupying \union {c}
    BY <1>2, <1>3, <1>7 DEF Occupying
  <2>4. OccupancyAgrees'
    BY <1>1, <2>2, <2>3, JoinAgrees DEF SessionInv
  <2>5. ModelSeesRegistry'
    BY <1>1, <1>2, <2>2 DEF SessionInv, ModelSeesRegistry
  <2>6. ClosingHasCloser' /\ BetweenSessions'
    BY <1>2, <1>4, <2>2 DEF SessionInv, ClosingHasCloser, BetweenSessions
  <2> QED BY <1>5, <2>4, <2>5, <2>6 DEF SessionInv
<1> QED BY <1>6, <1>7

\* Every step keeps the invariant: one step per action.
LEMMA SessionStep == SessionInv /\ [Next]_vars => SessionInv'
<1> USE DEF machine, registry, offers, inputs, teardown, model, process
<1> SUFFICES ASSUME SessionInv, [Next]_vars PROVE SessionInv'
  OBVIOUS
<1>0. TypeOK /\ TypeOK'
  BY TypeStep DEF SessionInv
<1>1. CASE InitializationSuccess \/ InitializationFail
  <2>1. state = "CREATED" /\ state' \in {"READY", "TERMINATED"} /\ live' = 0
    BY <1>0, <1>1, StaticEdges, StaticCounts
    DEF InitializationSuccess, InitializationFail, Send, Legal, TypeOK, SessionStates
  <2>2. UNCHANGED <<byId, unoccupying, publishers, epoch, closer, toClose, modelSession, modelClients>>
    BY <1>1 DEF InitializationSuccess, InitializationFail
  <2>3. OccupancyAgrees' /\ ModelSeesRegistry' /\ PublisherIsRegistered'
    BY <2>1, <2>2 DEF SessionInv, OccupancyAgrees, ModelSeesRegistry, PublisherIsRegistered,
                      Running, Connectable
  <2>4. ClosingHasCloser' /\ BetweenSessions'
    BY <2>1, <2>2 DEF SessionInv, ClosingHasCloser, BetweenSessions, Empty
  <2> QED BY <1>0, <2>3, <2>4 DEF SessionInv
<1>2. ASSUME NEW shape \in StartShapes, StartSession(shape) PROVE SessionInv'
  BY <1>0, <1>2, StartStep
<1>3. CASE StopSession
  BY <1>0, <1>3, ClosingStep DEF StopSession
<1>4. CASE OrphanTimeoutFires
  BY <1>0, <1>4, ClosingStep DEF OrphanTimeoutFires
<1>5. CASE Evict
  <2>1. state # "CREATED" /\ state # "TERMINATED" /\ state' = "TERMINATED" /\ live' = 0
    BY <1>0, <1>5, StaticEdges, StaticCounts DEF Evict, Send, Legal, TypeOK
  <2>2. /\ closer' = [closer EXCEPT !["evict"] = "spawned"]
        /\ UNCHANGED <<byId, unoccupying, publishers, epoch, toClose, modelSession, modelClients>>
    BY <1>5 DEF Evict
  <2>3. /\ closer'["session"] = closer["session"] /\ closer["evict"] = "idle"
        /\ closer'["evict"] = "spawned" /\ toClose["evict"] = {}
    BY <1>0, <2>1, <2>2 DEF SessionInv, BetweenSessions, TypeOK, Closers
  <2>4. OccupancyAgrees' /\ ModelSeesRegistry' /\ PublisherIsRegistered'
    BY <2>1, <2>2 DEF SessionInv, OccupancyAgrees, ModelSeesRegistry, PublisherIsRegistered,
                      Running, Connectable
  <2>5. ClosingHasCloser' /\ BetweenSessions'
    BY <2>1, <2>2, <2>3 DEF SessionInv, ClosingHasCloser, BetweenSessions, Closers
  <2> QED BY <1>0, <2>4, <2>5 DEF SessionInv
<1>6. ASSUME NEW c \in ConnIds, Sink(c) PROVE SessionInv'
  <2>1. CASE RefuseConnection(c) \/ RefusedConnectionCloses(c)
    BY <1>0, <2>1, QuietStep DEF RefuseConnection, RefusedConnectionCloses
  <2>2. CASE AcceptConnection(c)
    BY <1>0, <2>2, AcceptStep
  <2>3. CASE ConnectionClosed(c)
    BY <1>0, <2>3, DropStep DEF ConnectionClosed
  <2>4. ASSUME NEW tr \in Transports,
               \/ NewConnId(c, tr) \/ OfferAdmitted(c, tr) \/ OfferRefused(c, tr)
               \/ ConnectionFailed(c, tr)
        PROVE SessionInv'
    BY <1>0, <2>4, QuietStep DEF NewConnId, OfferAdmitted, OfferRefused, ConnectionFailed
  <2>5. ASSUME NEW t \in Tracks, PublishTrack(c, t) \/ UnpublishTrack(c, t) PROVE SessionInv'
    <3>1. UNCHANGED <<state, live, byId, unoccupying, epoch, closer, toClose, modelSession, modelClients>>
      BY <2>5 DEF PublishTrack, UnpublishTrack
    <3>2. OccupancyAgrees' /\ ModelSeesRegistry'
      BY <3>1 DEF SessionInv, OccupancyAgrees, ModelSeesRegistry, Running, Occupying
    <3>3. PublisherIsRegistered'
      BY <1>0, <2>5 DEF PublishTrack, UnpublishTrack, SessionInv, PublisherIsRegistered, TypeOK
    <3>4. c \in byId
      BY <2>5, ConnIdsAssumption DEF PublishTrack, UnpublishTrack, SessionInv, PublisherIsRegistered
    <3>5. ClosingHasCloser' /\ BetweenSessions'
      BY <3>1, <3>4 DEF SessionInv, ClosingHasCloser, BetweenSessions, Empty
    <3> QED BY <1>0, <3>2, <3>3, <3>5 DEF SessionInv
  <2> QED BY <1>6, <2>1, <2>2, <2>3, <2>4, <2>5 DEF Sink
<1>7. ASSUME NEW s \in applying, StartingInput(s) PROVE SessionInv'
  <2>1. CASE StartingCommandRefused(s)
    BY <1>0, <2>1, ClosingStep DEF StartingCommandRefused
  <2>2. CASE StartingInputSubmitted(s)
    <3>1. CASE SystemId \in byId /\ Drop(SystemId)
      BY <1>0, <2>2, <3>1, DropStep DEF StartingInputSubmitted
    <3>2. CASE UNCHANGED <<machine, byId, unoccupying, publishers, modelClients>>
      BY <1>0, <2>2, <3>2, QuietStep DEF StartingInputSubmitted
    <3> QED BY <2>2, <3>1, <3>2 DEF StartingInputSubmitted
  <2> QED BY <1>7, <2>1, <2>2 DEF StartingInput
<1>8. ASSUME NEW k \in Closers, Teardown(k) PROVE SessionInv'
  <2>1. CASE CloseAllStarts(k)
    <3>1. /\ closer[k] = "spawned" /\ closer' = [closer EXCEPT ![k] = "closing"]
          /\ toClose' = [toClose EXCEPT ![k] = byId] /\ Empty'
          /\ UNCHANGED <<state, live, epoch, modelSession, modelClients>>
      BY <2>1 DEF CloseAllStarts, Empty
    <3>2. state \in {"CLOSING", "TERMINATED"}
      BY <3>1 DEF SessionInv, ClosingHasCloser, BetweenSessions, Closers
    <3>3. OccupancyAgrees' /\ ModelSeesRegistry' /\ PublisherIsRegistered'
      BY <3>1, <3>2 DEF OccupancyAgrees, ModelSeesRegistry, PublisherIsRegistered, Empty,
                        Running, Connectable
    <3>4. ClosingHasCloser' /\ BetweenSessions'
      BY <1>0, <3>1, <3>2 DEF SessionInv, ClosingHasCloser, BetweenSessions, Empty, TypeOK, Closers
    <3> QED BY <1>0, <3>3, <3>4 DEF SessionInv
  <2>2. ASSUME NEW id \in Ids, ConnectionCloseReturns(k, id) \/ ConnectionCloseRaises(k, id)
        PROVE SessionInv'
    <3>1. \A j \in Closers : toClose'[j] \subseteq toClose[j]
      BY <1>0, <2>2 DEF ConnectionCloseReturns, ConnectionCloseRaises, TypeOK
    <3> QED BY <1>0, <2>2, <3>1, QuietStep DEF ConnectionCloseReturns, ConnectionCloseRaises
  <2> QED BY <1>8, <2>1, <2>2 DEF Teardown
<1>9. CASE CleanupComplete
  <2>1. /\ closer["session"] = "closing" /\ toClose["session"] = {}
        /\ closer' = [closer EXCEPT !["session"] = "idle"]
        /\ UNCHANGED <<byId, unoccupying, publishers, epoch, toClose>>
    BY <1>9 DEF CleanupComplete
  <2>2. closer'["session"] = "idle" /\ closer'["evict"] = closer["evict"]
    BY <1>0, <2>1 DEF TypeOK, Closers
  <2>3. PublisherIsRegistered'
    BY <2>1 DEF SessionInv, PublisherIsRegistered
  <2>4. CASE state = "CLOSING"
    <3>1. state' = "READY" /\ live' = 0 /\ ~modelSession' /\ modelClients' = {}
      BY <1>0, <1>9, <2>4, StaticEdges, StaticCounts DEF CleanupComplete, Send, Legal, TypeOK, Rejected
    <3>2. OccupancyAgrees' /\ ModelSeesRegistry'
      BY <3>1 DEF OccupancyAgrees, ModelSeesRegistry, Running, Connectable
    <3>3. ClosingHasCloser' /\ BetweenSessions'
      BY <2>1, <2>2, <2>4, <3>1 DEF SessionInv, ClosingHasCloser, BetweenSessions, Empty, Closers
    <3> QED BY <1>0, <2>3, <3>2, <3>3 DEF SessionInv
  <2>5. CASE state # "CLOSING"
    <3>1. state = "TERMINATED"
      BY <2>1, <2>5 DEF SessionInv, ClosingHasCloser
    <3>2. UNCHANGED <<state, live, modelSession, modelClients>>
      BY <1>0, <1>9, <2>5, StaticEdges DEF CleanupComplete, Legal, TypeOK
    <3>3. OccupancyAgrees' /\ ModelSeesRegistry'
      BY <3>1, <3>2 DEF OccupancyAgrees, ModelSeesRegistry, Running, Connectable
    <3>4. ClosingHasCloser' /\ BetweenSessions'
      BY <2>1, <2>2, <3>1, <3>2 DEF SessionInv, ClosingHasCloser, BetweenSessions, Closers
    <3> QED BY <1>0, <2>3, <3>3, <3>4 DEF SessionInv
  <2> QED BY <2>4, <2>5
<1>10. CASE EvictionClosed
  <2>1. /\ closer' = [closer EXCEPT !["evict"] = "idle"] /\ toClose["evict"] = {}
        /\ UNCHANGED <<state, live, byId, unoccupying, publishers, epoch, toClose, modelSession, modelClients>>
    BY <1>10 DEF EvictionClosed
  <2>2. closer'["session"] = closer["session"] /\ closer'["evict"] = "idle"
    BY <1>0, <2>1 DEF TypeOK, Closers
  <2>3. OccupancyAgrees' /\ ModelSeesRegistry' /\ PublisherIsRegistered'
    BY <2>1 DEF SessionInv, OccupancyAgrees, ModelSeesRegistry, PublisherIsRegistered, Running, Occupying
  <2>4. ClosingHasCloser' /\ BetweenSessions'
    BY <2>1, <2>2 DEF SessionInv, ClosingHasCloser, BetweenSessions, Empty, Closers
  <2> QED BY <1>0, <2>3, <2>4 DEF SessionInv
<1>11. CASE Drain
  <2>1. CASE Running
    BY <1>0, <1>11, <2>1, ClosingStep DEF Drain
  <2>2. CASE ~Running
    BY <1>0, <1>11, <2>2, QuietStep DEF Drain
  <2> QED BY <2>1, <2>2
<1>12. CASE DrainReturns \/ Stop \/ Stopped
  BY <1>0, <1>12, QuietStep DEF DrainReturns, Stop, Stopped
<1>13. CASE UNCHANGED vars
  BY <1>0, <1>13, QuietStep DEF vars
<1> QED
  BY <1>1, <1>2, <1>3, <1>4, <1>5, <1>6, <1>7, <1>8, <1>9, <1>10, <1>11, <1>12, <1>13
  DEF Next, Exited

\* The initial state satisfies it.
LEMMA SessionInit == Init => SessionInv
<1> SUFFICES ASSUME Init PROVE SessionInv
  OBVIOUS
<1>1. TypeOK
  BY TypeInit
<1>2. OccupancyAgrees /\ ModelSeesRegistry /\ PublisherIsRegistered
  BY DEF Init, OccupancyAgrees, ModelSeesRegistry, PublisherIsRegistered, Running, Connectable
<1>3. ClosingHasCloser /\ BetweenSessions
  BY DEF Init, ClosingHasCloser, BetweenSessions, Empty, Closers
<1> QED BY <1>1, <1>2, <1>3 DEF SessionInv

\* The invariant holds in every reachable state.
THEOREM SessionSafe == Spec => []SessionInv
BY SessionInit, SessionStep, PTL DEF Spec

\* However connections, drops, reconnects, stops, timeouts, crashes and the
\* system client interleave, the machine's count is the number of registered
\* connections that occupy the session, and it streams exactly when there is one.
THEOREM OccupancySafe == Spec => []OccupancyAgrees
<1>1. SessionInv => OccupancyAgrees
  BY DEF SessionInv
<1> QED BY <1>1, SessionSafe, PTL

\* While a session runs the model has been told of exactly the registered
\* connections.
THEOREM ModelSeesSafe == Spec => []ModelSeesRegistry
<1>1. SessionInv => ModelSeesRegistry
  BY DEF SessionInv
<1> QED BY <1>1, SessionSafe, PTL

\* No track is held by a connection that is gone.
THEOREM PublisherSafe == Spec => []PublisherIsRegistered
<1>1. SessionInv => PublisherIsRegistered
  BY DEF SessionInv
<1> QED BY <1>1, SessionSafe, PTL

\* A closing session has the coroutine that will finish closing it.
THEOREM CloserSafe == Spec => []ClosingHasCloser
<1>1. SessionInv => ClosingHasCloser
  BY DEF SessionInv
<1> QED BY <1>1, SessionSafe, PTL

\* The registry, the machine's count and the model's view of the clients agree.
THEOREM RegistrySafe == Spec => []RegistryAgrees
BY OccupancySafe, ModelSeesSafe, PublisherSafe, PTL DEF RegistryAgrees

\* Every move of the machine re-arms the timer for the state it enters.
LEMMA SendKeepsTimer ==
  ASSUME TimerMatchesState, phase' \in {"up", "draining", "drained"} => phase \in {"up", "draining", "drained"},
         (\E e \in Moves : Send(e)) \/ UNCHANGED machine
  PROVE  TimerMatchesState'
BY DEF TimerMatchesState, Send, machine

\* Every step keeps the timer in line with the state.
LEMMA TimerStep == TimerMatchesState /\ [Next]_vars => TimerMatchesState'
<1> USE DEF process
<1> SUFFICES ASSUME TimerMatchesState, [Next]_vars PROVE TimerMatchesState'
  OBVIOUS
<1> DEFINE Quiet == (\E e \in Moves : Send(e)) \/ UNCHANGED machine
<1>1. CASE InitializationSuccess \/ InitializationFail \/ StopSession \/ OrphanTimeoutFires \/ Evict
  <2>1. Quiet /\ phase' = phase
    BY <1>1 DEF InitializationSuccess, InitializationFail, StopSession, OrphanTimeoutFires, Evict, Moves
  <2> QED BY <2>1, SendKeepsTimer
<1>2. ASSUME NEW shape \in StartShapes, StartSession(shape) PROVE TimerMatchesState'
  BY <1>2 DEF StartSession, TimerMatchesState
<1>3. ASSUME NEW c \in ConnIds, Sink(c) PROVE TimerMatchesState'
  <2>1. CASE AcceptConnection(c) \/ ConnectionClosed(c)
    <3>1. Quiet /\ phase' = phase
      BY <2>1 DEF AcceptConnection, ConnectionClosed, Drop, Moves
    <3> QED BY <3>1, SendKeepsTimer
  <2>2. CASE RefuseConnection(c) \/ RefusedConnectionCloses(c)
    <3>1. UNCHANGED machine /\ phase' = phase
      BY <2>2 DEF RefuseConnection, RefusedConnectionCloses
    <3> QED BY <3>1, SendKeepsTimer
  <2>3. ASSUME NEW tr \in Transports,
               \/ NewConnId(c, tr) \/ OfferAdmitted(c, tr) \/ OfferRefused(c, tr)
               \/ ConnectionFailed(c, tr)
        PROVE TimerMatchesState'
    <3>1. UNCHANGED machine /\ phase' = phase
      BY <2>3 DEF NewConnId, OfferAdmitted, OfferRefused, ConnectionFailed
    <3> QED BY <3>1, SendKeepsTimer
  <2>4. ASSUME NEW t \in Tracks, PublishTrack(c, t) \/ UnpublishTrack(c, t)
        PROVE TimerMatchesState'
    <3>1. UNCHANGED machine /\ phase' = phase
      BY <2>4 DEF PublishTrack, UnpublishTrack
    <3> QED BY <3>1, SendKeepsTimer
  <2> QED BY <1>3, <2>1, <2>2, <2>3, <2>4 DEF Sink
<1>4. ASSUME NEW s \in applying, StartingInput(s) PROVE TimerMatchesState'
  <2>1. Quiet /\ phase' = phase
    BY <1>4 DEF StartingInput, StartingCommandRefused, StartingInputSubmitted, Drop, Moves
  <2> QED BY <2>1, SendKeepsTimer
<1>5. ASSUME NEW k \in Closers, Teardown(k) PROVE TimerMatchesState'
  <2>1. UNCHANGED machine /\ phase' = phase
    BY <1>5 DEF Teardown, CloseAllStarts, ConnectionCloseReturns, ConnectionCloseRaises
  <2> QED BY <2>1, SendKeepsTimer
<1>6. CASE CleanupComplete \/ EvictionClosed
  <2>1. Quiet /\ phase' = phase
    BY <1>6 DEF CleanupComplete, EvictionClosed, Moves
  <2> QED BY <2>1, SendKeepsTimer
<1>7. CASE Drain \/ DrainReturns \/ Stopped
  <2>1. Quiet /\ (phase' = "stopped" \/ phase \in {"up", "draining"})
    BY <1>7 DEF Drain, DrainReturns, Stopped, Moves
  <2> QED BY <2>1, SendKeepsTimer
<1>8. CASE Stop
  BY <1>8 DEF Stop, TimerMatchesState
<1>9. CASE UNCHANGED vars
  <2>1. UNCHANGED machine /\ phase' = phase
    BY <1>9 DEF vars
  <2> QED BY <2>1, SendKeepsTimer
<1> QED BY <1>1, <1>2, <1>3, <1>4, <1>5, <1>6, <1>7, <1>8, <1>9 DEF Next, Exited

\* A session without a client has its timer, a closing one its coroutine: the
\* orphan timer of _dispatch_transition and the task of _close_session are never
\* missing, and never left over from a state the machine has gone from.
THEOREM AttendedSafe == Spec => []SessionIsAttended
<1>1. Init => TimerMatchesState
  BY DEF Init, TimerMatchesState
<1>2. Spec => []TimerMatchesState
  BY <1>1, TimerStep, PTL DEF Spec
<1> QED BY <1>2, CloserSafe, PTL DEF SessionIsAttended

\* Nothing of a session that is over is left when the next one may start.
THEOREM ReadySafe == Spec => []ReadyIsClean
<1>1. SessionInv => ReadyIsClean
  BY DEF SessionInv, ReadyIsClean, BetweenSessions, ClosingHasCloser, Empty, Closers
<1> QED BY <1>1, SessionSafe, PTL

-------------------------------------------------------------------------------
(* Refinement, and the finality of an eviction.                            *)

\* A step that moves neither the machine nor the occupying connections is a
\* stutter of the abstract session.
LEMMA StutterRefines ==
  ASSUME UNCHANGED <<state, Occupying>>
  PROVE  UNCHANGED Abstract!occupancy
BY DEF Abstract!occupancy, SessionClients, Running

\* A move into CLOSING ends the abstract session.
LEMMA ClosingRefines ==
  ASSUME TypeOK, NEW e \in {"STOP_SESSION", "TIMEOUT"}, Send(e)
  PROVE  Abstract!End
<1>1. Running /\ state' = "CLOSING"
  BY StaticEdges DEF Send, Legal, TypeOK, Running, Connectable, SessionStates, Rejected
<1>2. SessionClients' = {}
  BY <1>1 DEF SessionClients, Running, Connectable
<1> QED BY <1>1, <1>2 DEF Abstract!End, Abstract!Open, Running, Connectable

\* A registered connection that goes leaves the abstract session, if it was in it.
LEMMA DropRefines ==
  ASSUME SessionInv, SessionInv', NEW id \in byId, Drop(id)
  PROVE  [Abstract!Next]_(Abstract!occupancy)
<1>1. byId' = byId \ {id} /\ unoccupying' = unoccupying \ {id}
  BY DEF Drop, TracksFreed
<1>2. CASE id \in unoccupying
  <2>1. UNCHANGED <<state, Occupying>>
    BY <1>1, <1>2 DEF Drop, TracksFreed, machine, Occupying
  <2> QED BY <2>1, StutterRefines
<1>3. CASE id \notin unoccupying /\ Send("CONNECTION_CLOSED")
  <2>1. state = "STREAMING" /\ state' \in {"ORPHANED", "STREAMING"}
    BY <1>3, OccupancyEdges DEF Send, Legal, SessionInv, TypeOK
  <2>2. id \in SessionClients /\ SessionClients' = SessionClients \ {id}
    BY <1>1, <1>3, <2>1 DEF SessionClients, Occupying, Running, Connectable
  <2>3. state' = IF SessionClients' = {} THEN "ORPHANED" ELSE "STREAMING"
    BY <2>1 DEF SessionInv, OccupancyAgrees, SessionClients, Running, Connectable
  <2>4. id \in Ids
    BY DEF SessionInv, TypeOK
  <2>5. Abstract!Leave(id)
    BY <2>1, <2>2, <2>3 DEF Abstract!Leave, Abstract!Open
  <2> QED BY <2>4, <2>5 DEF Abstract!Next
<1>4. CASE id \notin unoccupying /\ ~Legal("CONNECTION_CLOSED", state, live)
  <2>1. state' = state /\ state # "STREAMING"
    BY <1>4, OccupancyEdges DEF Drop, TracksFreed, Send, Legal, machine, SessionInv, TypeOK, Rejected
  <2>2. ~Running
    BY <1>4, <2>1 DEF SessionInv, OccupancyAgrees, Occupying
  <2>3. SessionClients' = SessionClients
    BY <2>1, <2>2 DEF SessionClients, Running
  <2> QED BY <2>1, <2>3 DEF Abstract!occupancy
<1> QED BY <1>2, <1>3, <1>4 DEF Drop

\* Every step of the runtime is a step of the abstract session or a stutter.
LEMMA RefineStep ==
  SessionInv /\ SessionInv' /\ [Next]_vars => [Abstract!Next]_(Abstract!occupancy)
<1> USE DEF machine, registry, offers, inputs, teardown, model, process
<1> SUFFICES ASSUME SessionInv, SessionInv', [Next]_vars
             PROVE  [Abstract!Next]_(Abstract!occupancy)
  OBVIOUS
<1>0. TypeOK
  BY DEF SessionInv
<1>1. CASE InitializationSuccess \/ InitializationFail
  <2>1. state = "CREATED" /\ state' \in {"READY", "TERMINATED"}
    BY <1>0, <1>1, StaticEdges DEF InitializationSuccess, InitializationFail, Send, Legal, TypeOK
  <2>2. SessionClients' = {}
    BY <2>1 DEF SessionClients, Running, Connectable
  <2> QED BY <2>1, <2>2 DEF Abstract!Next, Abstract!Load
<1>2. ASSUME NEW shape \in StartShapes, StartSession(shape)
      PROVE  [Abstract!Next]_(Abstract!occupancy)
  <2>1. state = "READY" /\ Empty
    BY <1>0, <1>2, StaticEdges DEF StartSession, Legal, TypeOK, SessionInv, BetweenSessions
  <2>2. CASE shape.unattended
    <3>1. state' = "STREAMING" /\ byId' = {SystemId} /\ unoccupying' = {}
      BY <1>0, <1>2, <2>1, <2>2, StaticEdges, StaticCounts, OccupancyEdges
      DEF StartSession, Empty, Connectable, SessionStates, TypeOK
    <3>2. SessionClients' = {SystemId} /\ SystemId \in Ids
      BY <3>1 DEF SessionClients, Occupying, Running, Connectable, Ids
    <3>3. Abstract!Start
      BY <2>1, <3>1, <3>2 DEF Abstract!Start
    <3> QED BY <3>3 DEF Abstract!Next
  <2>3. CASE ~shape.unattended
    <3>1. state' = "WAITING" /\ byId' = unoccupying'
      BY <1>0, <1>2, <2>1, <2>3, StaticEdges DEF StartSession, Empty, TypeOK
    <3>2. SessionClients' = {}
      BY <3>1 DEF SessionClients, Occupying
    <3>3. Abstract!Start
      BY <2>1, <3>1, <3>2 DEF Abstract!Start
    <3> QED BY <3>3 DEF Abstract!Next
  <2> QED BY <2>2, <2>3
<1>3. CASE StopSession
  BY <1>0, <1>3, ClosingRefines DEF StopSession, Abstract!Next
<1>4. CASE OrphanTimeoutFires
  BY <1>0, <1>4, ClosingRefines DEF OrphanTimeoutFires, Abstract!Next
<1>5. CASE Evict
  <2>1. state \notin {"CREATED", "TERMINATED"} /\ state' = "TERMINATED"
    BY <1>0, <1>5, StaticEdges DEF Evict, Send, Legal, TypeOK
  <2>2. SessionClients' = {}
    BY <2>1 DEF SessionClients, Running, Connectable
  <2> QED BY <2>1, <2>2 DEF Abstract!Next, Abstract!Evict
<1>6. ASSUME NEW c \in ConnIds, Sink(c) PROVE [Abstract!Next]_(Abstract!occupancy)
  <2>1. CASE AcceptConnection(c)
    <3>1. Running /\ byId' = byId \union {c} /\ unoccupying' = unoccupying /\ c \notin unoccupying
      BY <1>0, <2>1, ConnIdsAssumption
      DEF AcceptConnection, WiresExist, StaleConnectionStates, SessionInv, BetweenSessions, TypeOK,
          SessionStates, Running, Connectable
    <3>2. CASE c \in byId
      <4>1. UNCHANGED <<state, Occupying>>
        BY <2>1, <3>1, <3>2 DEF AcceptConnection, Occupying
      <4> QED BY <4>1, StutterRefines
    <3>3. CASE c \notin byId
      <4>1. Legal("CONNECTION_OPENED", state, live)
        BY <1>0, <3>1, OccupancyEdges DEF Legal, Running, Rejected, TypeOK
      <4>2. state' = "STREAMING"
        BY <1>0, <2>1, <3>1, <3>3, <4>1, OccupancyEdges DEF AcceptConnection, Send, Running, TypeOK
      <4>3. SessionClients' = SessionClients \union {c}
        BY <3>1, <4>2 DEF SessionClients, Occupying, Running, Connectable
      <4>4. c \in Ids
        BY DEF Ids
      <4>5. Abstract!Join(c)
        BY <3>1, <4>2, <4>3 DEF Abstract!Join, Abstract!Open, Running, Connectable
      <4> QED BY <4>4, <4>5 DEF Abstract!Next
    <3> QED BY <3>2, <3>3
  <2>2. CASE ConnectionClosed(c)
    BY <2>2, DropRefines DEF ConnectionClosed
  <2>3. CASE ~AcceptConnection(c) /\ ~ConnectionClosed(c)
    <3>1. UNCHANGED <<state, byId, unoccupying>>
      BY <1>6, <2>3 DEF Sink, RefuseConnection, RefusedConnectionCloses, NewConnId, OfferAdmitted,
                        OfferRefused, ConnectionFailed, PublishTrack, UnpublishTrack
    <3> QED BY <3>1, StutterRefines DEF Occupying
  <2> QED BY <2>1, <2>2, <2>3
<1>7. ASSUME NEW s \in applying, StartingInput(s) PROVE [Abstract!Next]_(Abstract!occupancy)
  <2>1. CASE StartingCommandRefused(s)
    BY <1>0, <2>1, ClosingRefines DEF StartingCommandRefused, Abstract!Next
  <2>2. CASE StartingInputSubmitted(s)
    <3>1. CASE SystemId \in byId /\ Drop(SystemId)
      BY <3>1, DropRefines
    <3>2. CASE UNCHANGED <<state, byId, unoccupying>>
      BY <3>2, StutterRefines DEF Occupying
    <3> QED BY <2>2, <3>1, <3>2 DEF StartingInputSubmitted
  <2> QED BY <1>7, <2>1, <2>2 DEF StartingInput
<1>8. ASSUME NEW k \in Closers, Teardown(k) PROVE [Abstract!Next]_(Abstract!occupancy)
  <2>1. CASE CloseAllStarts(k)
    <3>1. state' = state /\ ~Running
      BY <2>1 DEF CloseAllStarts, SessionInv, ClosingHasCloser, BetweenSessions, Closers,
                  Running, Connectable
    <3>2. SessionClients' = SessionClients
      BY <3>1 DEF SessionClients, Running
    <3> QED BY <3>1, <3>2 DEF Abstract!occupancy
  <2>2. CASE ~CloseAllStarts(k)
    <3>1. UNCHANGED <<state, byId, unoccupying>>
      BY <1>8, <2>2 DEF Teardown, ConnectionCloseReturns, ConnectionCloseRaises
    <3> QED BY <3>1, StutterRefines DEF Occupying
  <2> QED BY <2>1, <2>2
<1>9. CASE CleanupComplete
  <2>1. CASE Legal("CLEANUP_COMPLETE", state, live)
    <3>1. state = "CLOSING" /\ state' = "READY"
      BY <1>0, <1>9, <2>1, StaticEdges DEF CleanupComplete, Send, Legal, TypeOK
    <3>2. SessionClients' = {}
      BY <3>1 DEF SessionClients, Running, Connectable
    <3> QED BY <3>1, <3>2 DEF Abstract!Next, Abstract!Unwind
  <2>2. CASE ~Legal("CLEANUP_COMPLETE", state, live)
    BY <1>9, <2>2, StutterRefines DEF CleanupComplete, Occupying
  <2> QED BY <2>1, <2>2
<1>10. CASE EvictionClosed \/ DrainReturns \/ Stop \/ Stopped \/ UNCHANGED vars
  BY <1>10, StutterRefines DEF EvictionClosed, DrainReturns, Stop, Stopped, vars, Occupying
<1>11. CASE Drain
  <2>1. CASE Running
    BY <1>0, <1>11, <2>1, ClosingRefines DEF Drain, Abstract!Next
  <2>2. CASE ~Running
    BY <1>11, <2>2, StutterRefines DEF Drain, Occupying
  <2> QED BY <2>1, <2>2
<1> QED
  BY <1>1, <1>2, <1>3, <1>4, <1>5, <1>6, <1>7, <1>8, <1>9, <1>10, <1>11 DEF Next, Exited

\* The runtime's count, registry, tasks and teardowns implement a session whose
\* status follows the set of its clients.
THEOREM Refinement == Spec => ImplementsOccupancy
<1>1. Init => Abstract!Init
  BY DEF Init, Abstract!Init, SessionClients, Running, Connectable
<1> QED BY <1>1, RefineStep, SessionSafe, PTL DEF Spec, ImplementsOccupancy, Abstract!Spec

\* Whatever is still in flight when the model crashes, nothing leaves TERMINATED.
THEOREM TerminatedSafe == Spec => TerminatedIsFinal
<1>1. SessionInv /\ [Next]_vars => [state = "TERMINATED" => state' = "TERMINATED"]_state
  <2> SUFFICES ASSUME SessionInv, SessionInv', [Next]_vars, state = "TERMINATED"
               PROVE  state' = "TERMINATED"
    BY SessionStep
  <2>1. \/ UNCHANGED Abstract!occupancy
        \/ Abstract!Next
    BY RefineStep
  <2> QED BY <2>1 DEF Abstract!occupancy, Abstract!Next, Abstract!Load, Abstract!Start, Abstract!End,
                      Abstract!Unwind, Abstract!Evict, Abstract!Join, Abstract!Leave, Abstract!Open
<1> QED BY <1>1, SessionSafe, PTL DEF Spec, TerminatedIsFinal

\* The task of an earlier session's starting input, which takes itself out of
\* applying when it ends, does nothing else: only the current session's may end
\* the session, release the system id or settle the starting input.
THEOREM OldStartingInputSafe == Spec => OldStartingInputIsHarmless
<1>1. [Next]_vars =>
        [\A s \in applying \ applying' : s # epoch =>
           UNCHANGED <<state, live, byId, startingDone, modelClients>>]_vars
  <2> SUFFICES ASSUME [Next]_vars, NEW s \in applying \ applying', s # epoch
               PROVE  UNCHANGED <<state, live, byId, startingDone, modelClients>>
    OBVIOUS
  <2>1. CASE \E r \in applying : StartingInput(r)
    <3>1. PICK r \in applying : StartingInput(r)
      BY <2>1
    <3>2. applying' = applying \ {r}
      BY <3>1 DEF StartingInput, StartingCommandRefused, StartingInputSubmitted
    <3>3. r = s /\ ~IsCurrent(r)
      BY <3>2 DEF IsCurrent
    <3> QED
      BY <3>1, <3>3 DEF StartingInput, StartingCommandRefused, StartingInputSubmitted, IsCurrent, machine
  <2>2. CASE ~\E r \in applying : StartingInput(r)
    <3>1. applying \subseteq applying'
      <4> USE DEF inputs
      <4>1. CASE \E shape \in StartShapes : StartSession(shape)
        BY <4>1 DEF StartSession
      <4>2. CASE \E c \in ConnIds : Sink(c)
        BY <4>2 DEF Sink, RefuseConnection, AcceptConnection, ConnectionClosed, RefusedConnectionCloses,
                    NewConnId, OfferAdmitted, OfferRefused, ConnectionFailed, PublishTrack, UnpublishTrack
      <4>3. CASE \E k \in Closers : Teardown(k)
        BY <4>3 DEF Teardown, CloseAllStarts, ConnectionCloseReturns, ConnectionCloseRaises
      <4>4. CASE \/ InitializationSuccess \/ InitializationFail \/ StopSession \/ OrphanTimeoutFires
                 \/ Evict \/ CleanupComplete \/ EvictionClosed \/ UNCHANGED vars
        BY <4>4 DEF InitializationSuccess, InitializationFail, StopSession, OrphanTimeoutFires, Evict,
                    CleanupComplete, EvictionClosed, vars
      <4>5. CASE Drain \/ DrainReturns \/ Stop \/ Stopped \/ Exited
        BY <4>5 DEF Drain, DrainReturns, Stop, Stopped, Exited, vars
      <4> QED BY <2>2, <4>1, <4>2, <4>3, <4>4, <4>5 DEF Next
    <3> QED BY <3>1
  <2> QED BY <2>1, <2>2
<1> QED BY <1>1, PTL DEF Spec, OldStartingInputIsHarmless

===============================================================================
