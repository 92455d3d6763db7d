--------------------------- MODULE SessionLifecycle ---------------------------
(***************************************************************************)
(* One session after another on one runtime process: runner/runner.py with *)
(* the objects it drives (the session machine, the ConnectionManager's     *)
(* registry, the OfferEpochs, the system client), the tasks it spawns (the *)
(* orphan timer, the starting input, the session's teardown) and the       *)
(* process's drain and stop.                                               *)
(*                                                                         *)
(* Every handler below runs on the runtime's event loop without awaiting,  *)
(* so it is one action; what happens after an await is an action of its    *)
(* own.  The transports are an open environment here: they may report any  *)
(* connection opening, closing or failing at any time a wire can exist.    *)
(* The model thread is represented by what has been posted to it.          *)
(***************************************************************************)
EXTENDS SessionStateMachine, FiniteSets

CONSTANTS ConnIds,        \* the ids transports mint or claim
          SystemId,       \* SYSTEM_CONN_ID, the runtime's own client
          Tracks,         \* input tracks one connection at a time publishes
          Transports,     \* the transports that claim ids
          Nobody,         \* a free track, an unclaimed id
          OrphanTimeout,  \* whether cfg.orphan_timeout > 0
          MaxSessions     \* bound: sessions started in one behaviour

ASSUME ConnIdsAssumption == /\ IsFiniteSet(ConnIds)
                            /\ SystemId \notin ConnIds
                            /\ Nobody \notin ConnIds \union {SystemId}
ASSUME TransportsAssumption == Nobody \notin Transports
ASSUME BoundsAssumption == OrphanTimeout \in BOOLEAN /\ MaxSessions \in Nat

Ids == ConnIds \union {SystemId}
NoStamp == -1

\* Faulty: a wire that opens while its session closes is registered.
StaleStatesWithoutClosing == {"READY", "TERMINATED"}

StaleConnectionStates == {"READY", "CLOSING", "TERMINATED"}

\* What a start asks for: a starting input (seeded), and a step count on a
\* streamed session, which then runs with no client of its own (unattended).
StartShapes == [seeded : BOOLEAN, unattended : BOOLEAN]

\* The two teardown coroutines: _close_session, and an eviction's close_all.
Closers == {"session", "evict"}

VARIABLES
  state,         \* SessionStateMachine._state
  live,          \* SessionStateMachine._live
  orphanTimer,   \* _orphan_task is pending
  byId,          \* ConnectionManager._by_id: the registered ids
  unoccupying,   \* ConnectionManager._unoccupying
  publishers,    \* ConnectionManager._publishers
  claims,        \* ConnectionManager._claims
  epoch,         \* OfferEpochs._current
  stamps,        \* OfferEpochs._stamps
  start,         \* _session_start
  startingDone,  \* the current _starting_input_done is set
  applying,      \* the sessions whose _apply_starting_input task still runs
  closer,        \* where each teardown coroutine stands
  toClose,       \* the connections each of them still has to close
  refusing,      \* refused connections whose close is running
  abandoned,     \* connections the last close_all took and never closed
  modelSession,  \* the model was told a session runs
  modelClients,  \* the clients the model was told of
  phase,         \* the process: up, draining, drained, stopping, stopped
  awaited        \* the teardown tasks stop() waits for

machine  == <<state, live, orphanTimer>>
registry == <<byId, unoccupying, publishers, claims>>
offers   == <<epoch, stamps>>
inputs   == <<start, startingDone, applying>>
teardown == <<closer, toClose, refusing, abandoned>>
model    == <<modelSession, modelClients>>
process  == <<phase, awaited>>
vars     == <<machine, registry, offers, inputs, teardown, model, process>>

-------------------------------------------------------------------------------
Init ==
  /\ state = "CREATED" /\ live = 0 /\ orphanTimer = FALSE
  /\ byId = {} /\ unoccupying = {}
  /\ publishers = [t \in Tracks |-> Nobody]
  /\ claims = [c \in ConnIds |-> Nobody]
  /\ epoch = 0 /\ stamps = [c \in ConnIds |-> NoStamp]
  /\ start = [seeded |-> FALSE, unattended |-> FALSE]
  /\ startingDone = TRUE /\ applying = {}
  /\ closer = [k \in Closers |-> "idle"]
  /\ toClose = [k \in Closers |-> {}]
  /\ refusing = {} /\ abandoned = {}
  /\ modelSession = FALSE /\ modelClients = {}
  /\ phase = "up" /\ awaited = [closers |-> {}, refusals |-> {}]

Alive == phase # "stopped"
Running == state \in Connectable

\* Faulty: leaving a state does not cancel its timer.
SendKeepingTimer(e) ==
  /\ Legal(e, state, live)
  /\ state' = Resolve(e, state, live)
  /\ live' = UpdateCount(e, live)
  /\ orphanTimer' = (orphanTimer \/ (OrphanTimeout /\ state' \in {"WAITING", "ORPHANED"}))

\* Faulty: no timer for a session whose last client left.
SendNotArmingOrphaned(e) ==
  /\ Legal(e, state, live)
  /\ state' = Resolve(e, state, live)
  /\ live' = UpdateCount(e, live)
  /\ orphanTimer' = IF state' = state THEN orphanTimer
                    ELSE OrphanTimeout /\ state' = "WAITING"

\* send() for an event whose edge is legal: the count, the state, and the
\* orphan timer, which every real change of state re-arms for the state entered.
Send(e) ==
  /\ Legal(e, state, live)
  /\ state' = Resolve(e, state, live)
  /\ live' = UpdateCount(e, live)
  /\ orphanTimer' = IF state' = state THEN orphanTimer
                    ELSE OrphanTimeout /\ state' \in {"WAITING", "ORPHANED"}

\* Faulty: nobody tears the session down.
EnterClosingWithoutTeardown == startingDone' = TRUE /\ UNCHANGED closer

\* What _dispatch_transition does on entering CLOSING.
EnterClosing ==
  /\ startingDone' = TRUE
  /\ closer' = [closer EXCEPT !["session"] = "spawned"]

-------------------------------------------------------------------------------
(* The model's load: start().  A load that fails is terminal.              *)

InitializationSuccess ==
  /\ Send("INITIALIZATION_SUCCESS")
  /\ UNCHANGED <<registry, offers, inputs, teardown, model, process>>

InitializationFail ==
  /\ Send("INITIALIZATION_FAIL")
  /\ UNCHANGED <<registry, offers, inputs, teardown, model, process>>

-------------------------------------------------------------------------------
(* Session control.                                                        *)

\* start_session, with the _begin_session_inputs it ends in: the machine opens
\* the session, the epoch moves, and a seeded or unattended session registers
\* the system client, which occupies it only when it is unattended.
StartSession(shape) ==
  LET opened == Resolve("START_SESSION", state, live)
      cleared == UpdateCount("START_SESSION", live)
      joins == (shape.seeded \/ shape.unattended) /\ SystemId \notin byId
      occupies == joins /\ shape.unattended
  IN
  /\ phase \in {"up", "draining", "drained"}
  /\ Legal("START_SESSION", state, live)
  /\ epoch < MaxSessions
  /\ state' = IF occupies THEN Resolve("CONNECTION_OPENED", opened, cleared) ELSE opened
  /\ live' = IF occupies THEN UpdateCount("CONNECTION_OPENED", cleared) ELSE cleared
  /\ orphanTimer' = (OrphanTimeout /\ state' \in {"WAITING", "ORPHANED"})
  /\ epoch' = epoch + 1
  /\ start' = shape
  /\ byId' = IF joins THEN byId \union {SystemId} ELSE byId
  /\ unoccupying' = IF joins /\ ~occupies THEN unoccupying \union {SystemId}
                    ELSE unoccupying
  /\ startingDone' = ~shape.seeded
  /\ applying' = IF shape.seeded THEN applying \union {epoch + 1} ELSE applying
  /\ modelSession' = TRUE
  /\ modelClients' = IF joins THEN modelClients \union {SystemId} ELSE modelClients
  /\ UNCHANGED <<publishers, claims, stamps, teardown, process>>

\* A stop while a session runs: stop_session for a request, or the runner's own
\* when the steps are done or a handler failed.  Any other is rejected.
StopSession ==
  /\ Alive
  /\ Send("STOP_SESSION")
  /\ EnterClosing
  /\ UNCHANGED <<registry, offers, start, applying, toClose, refusing, abandoned,
                 model, process>>

\* _orphan_timeout once its sleep is over.
OrphanTimeoutFires ==
  /\ Alive /\ orphanTimer
  /\ Send("TIMEOUT")
  /\ EnterClosing
  /\ UNCHANGED <<registry, offers, start, applying, toClose, refusing, abandoned,
                 model, process>>

\* _evict_on_failure: the model's run loop crashed.  The model thread exists
\* once the load is over.
Evict ==
  /\ Alive /\ state # "CREATED"
  /\ Send("EVICTION")
  /\ startingDone' = TRUE
  /\ closer' = [closer EXCEPT !["evict"] = "spawned"]
  /\ UNCHANGED <<registry, offers, start, applying, toClose, refusing, abandoned,
                 model, process>>

-------------------------------------------------------------------------------
(* The sink the transports report to.  No wire exists before the first     *)
(* offer, and no offer before the first session.                           *)

WiresExist == Alive /\ epoch > 0

\* An offer: the id is claimed for its transport and stamped with the epoch.
\* The route checked that a session runs, and LiveKit's has waited for its last
\* room since, so the session may be over.
OfferAdmitted(c, tr) ==
  /\ WiresExist /\ claims[c] \in {Nobody, tr}
  /\ claims' = [claims EXCEPT ![c] = tr]
  /\ stamps' = [stamps EXCEPT ![c] = epoch]
  /\ UNCHANGED <<machine, byId, unoccupying, publishers, epoch, inputs, teardown,
                 model, process>>

\* An offer the transport refuses: a claim made for it is released again, the
\* stamp stays.
OfferRefused(c, tr) ==
  /\ WiresExist /\ claims[c] \in {Nobody, tr}
  /\ stamps' = [stamps EXCEPT ![c] = epoch]
  /\ UNCHANGED <<machine, registry, epoch, inputs, teardown, model, process>>

\* new_conn_id.
NewConnId(c, tr) ==
  /\ WiresExist /\ claims[c] = Nobody
  /\ claims' = [claims EXCEPT ![c] = tr]
  /\ UNCHANGED <<machine, byId, unoccupying, publishers, offers, inputs, teardown,
                 model, process>>

\* OfferEpochs.consume: an unstamped id is not stale.
Stale(c) == stamps[c] # NoStamp /\ stamps[c] # epoch

\* connection_opened for a wire that does not belong to the live session.
RefuseConnection(c) ==
  /\ WiresExist
  /\ state \in StaleConnectionStates \/ Stale(c)
  /\ stamps' = [stamps EXCEPT ![c] = NoStamp]
  /\ refusing' = refusing \union {c}
  /\ UNCHANGED <<machine, registry, epoch, inputs, closer, toClose, abandoned,
                 model, process>>

\* connection_opened for a wire that does: register().  A known id only has
\* its handle replaced.
AcceptConnection(c) ==
  /\ WiresExist
  /\ state \notin StaleConnectionStates /\ ~Stale(c)
  /\ stamps' = [stamps EXCEPT ![c] = NoStamp]
  /\ byId' = byId \union {c}
  /\ IF c \in byId \/ ~Legal("CONNECTION_OPENED", state, live)
     THEN UNCHANGED <<machine, modelClients>>
     ELSE /\ Send("CONNECTION_OPENED")
          /\ modelClients' = modelClients \union {c}
  /\ UNCHANGED <<unoccupying, publishers, claims, epoch, inputs, teardown,
                 modelSession, process>>

\* Faulty: a track stays with the connection that left.
TracksKept(id) == publishers

\* The tracks a departing connection held are freed.
TracksFreed(id) ==
  [t \in Tracks |-> IF publishers[t] = id THEN Nobody ELSE publishers[t]]

\* drop(): the handle goes, the machine and the model hear of it if the session
\* still runs, and every track the connection held is freed.
Drop(id) ==
  /\ byId' = byId \ {id}
  /\ unoccupying' = unoccupying \ {id}
  /\ publishers' = TracksFreed(id)
  /\ \/ /\ id \in unoccupying
        /\ modelClients' = IF Running THEN modelClients \ {id} ELSE modelClients
        /\ UNCHANGED machine
     \/ /\ id \notin unoccupying /\ Send("CONNECTION_CLOSED")
        /\ modelClients' = modelClients \ {id}
     \/ /\ id \notin unoccupying /\ ~Legal("CONNECTION_CLOSED", state, live)
        /\ UNCHANGED <<machine, modelClients>>

\* connection_closed; one for an id that is not registered is ignored.
ConnectionClosed(c) ==
  /\ WiresExist /\ c \in byId
  /\ Drop(c)
  /\ UNCHANGED <<claims, offers, inputs, teardown, modelSession, process>>

\* connection_failed: only the holder's report consumes the offer's stamp.
ConnectionFailed(c, tr) ==
  /\ WiresExist /\ claims[c] = tr
  /\ stamps' = [stamps EXCEPT ![c] = NoStamp]
  /\ UNCHANGED <<machine, registry, epoch, inputs, teardown, model, process>>

\* publish_track: first come, and only a registered connection.
PublishTrack(c, t) ==
  /\ WiresExist
  /\ c \in byId /\ publishers[t] = Nobody
  /\ publishers' = [publishers EXCEPT ![t] = c]
  /\ UNCHANGED <<machine, byId, unoccupying, claims, offers, inputs, teardown,
                 model, process>>

\* unpublish_track: only by the holder.
UnpublishTrack(c, t) ==
  /\ WiresExist
  /\ publishers[t] = c
  /\ publishers' = [publishers EXCEPT ![t] = Nobody]
  /\ UNCHANGED <<machine, byId, unoccupying, claims, offers, inputs, teardown,
                 model, process>>

-------------------------------------------------------------------------------
(* _apply_starting_input for session s.  The task outlives its session; it *)
(* knows its own by the identity of the done event.                        *)

\* Faulty: any session's task takes the running session for its own.
IsCurrentAlways(s) == TRUE

IsCurrent(s) == s = epoch

\* A command was refused, in an unattended session: it ends, the rest unsent.
StartingCommandRefused(s) ==
  /\ Alive /\ s \in applying
  /\ IsCurrent(s) /\ Running /\ start.unattended
  /\ Send("STOP_SESSION")
  /\ EnterClosing
  /\ applying' = applying \ {s}
  /\ UNCHANGED <<registry, offers, start, toClose, refusing, abandoned, model, process>>

\* Faulty: the task ends without letting the clients' commands through.
SubmittedWithoutRelease(s) ==
  /\ Alive /\ s \in applying
  /\ applying' = applying \ {s}
  /\ IF IsCurrent(s) /\ Running /\ ~start.unattended /\ SystemId \in byId
     THEN Drop(SystemId)
     ELSE UNCHANGED <<machine, byId, unoccupying, publishers, modelClients>>
  /\ UNCHANGED <<startingDone, claims, offers, start, teardown, modelSession, process>>

\* The list was submitted: the system client leaves a session that waits for
\* a client.  A task whose session has ended or moved on changes nothing.
StartingInputSubmitted(s) ==
  /\ Alive /\ s \in applying
  /\ applying' = applying \ {s}
  /\ startingDone' = IF IsCurrent(s) THEN TRUE ELSE startingDone
  /\ IF IsCurrent(s) /\ Running /\ ~start.unattended /\ SystemId \in byId
     THEN Drop(SystemId)
     ELSE UNCHANGED <<machine, byId, unoccupying, publishers, modelClients>>
  /\ UNCHANGED <<claims, offers, start, teardown, modelSession, process>>

-------------------------------------------------------------------------------
(* Teardown: close_all empties the registry as it starts, then closes one  *)
(* connection at a time.                                                   *)

CloseAllStarts(k) ==
  /\ Alive /\ closer[k] = "spawned"
  /\ closer' = [closer EXCEPT ![k] = "closing"]
  /\ toClose' = [toClose EXCEPT ![k] = byId]
  /\ byId' = {} /\ unoccupying' = {}
  /\ publishers' = [t \in Tracks |-> Nobody]
  /\ claims' = [c \in ConnIds |-> Nobody]
  /\ abandoned' = {}
  /\ UNCHANGED <<machine, offers, inputs, refusing, model, process>>

\* One connection's close() returns.
ConnectionCloseReturns(k, id) ==
  /\ Alive /\ id \in toClose[k]
  /\ toClose' = [toClose EXCEPT ![k] = @ \ {id}]
  /\ UNCHANGED <<machine, registry, offers, inputs, closer, refusing, abandoned,
                 model, process>>

\* One connection's close() raises, as WebRTCConnection.close does when its
\* pacer thread does not stop: the loop ends and the rest are never closed.
ConnectionCloseRaises(k, id) ==
  /\ Alive /\ id \in toClose[k] \ {SystemId}
  /\ toClose' = [toClose EXCEPT ![k] = {}]
  /\ abandoned' = abandoned \union (toClose[k] \ {id, SystemId})
  /\ UNCHANGED <<machine, registry, offers, inputs, closer, refusing, model, process>>

\* _close_session's last line; a machine evicted meanwhile rejects it.
CleanupComplete ==
  /\ Alive /\ closer["session"] = "closing" /\ toClose["session"] = {}
  /\ closer' = [closer EXCEPT !["session"] = "idle"]
  /\ IF Legal("CLEANUP_COMPLETE", state, live)
     THEN /\ Send("CLEANUP_COMPLETE")
          /\ modelSession' = FALSE /\ modelClients' = {}
     ELSE UNCHANGED <<machine, model>>
  /\ UNCHANGED <<registry, offers, inputs, toClose, refusing, abandoned, process>>

EvictionClosed ==
  /\ Alive /\ closer["evict"] = "closing" /\ toClose["evict"] = {}
  /\ closer' = [closer EXCEPT !["evict"] = "idle"]
  /\ UNCHANGED <<machine, registry, offers, inputs, toClose, refusing, abandoned,
                 model, process>>

RefusedConnectionCloses(c) ==
  /\ Alive /\ c \in refusing
  /\ refusing' = refusing \ {c}
  /\ UNCHANGED <<machine, registry, offers, inputs, closer, toClose, abandoned,
                 model, process>>

-------------------------------------------------------------------------------
(* The process's wind-down.  The service drains every component, then      *)
(* stops them, the HTTP edge before the runner: requests still arrive until *)
(* the edge has stopped.                                                    *)

Drain ==
  /\ phase = "up" /\ state # "CREATED"
  /\ IF Running
     THEN Send("STOP_SESSION") /\ EnterClosing /\ phase' = "draining"
     ELSE UNCHANGED <<machine, startingDone, closer>> /\ phase' = "drained"
  /\ UNCHANGED <<registry, offers, start, applying, toClose, refusing, abandoned,
                 model, awaited>>

\* _await_ready returns: the session unwound, or the grace period is over.
DrainReturns ==
  /\ phase = "draining"
  /\ phase' = "drained"
  /\ UNCHANGED <<machine, registry, offers, inputs, teardown, model, awaited>>

\* stop(): the orphan timer is cancelled, and the teardown tasks of this
\* moment are the ones waited for.
Stop ==
  /\ phase = "drained"
  /\ phase' = "stopping"
  /\ orphanTimer' = FALSE
  /\ awaited' = [closers |-> {k \in Closers : closer[k] # "idle"}, refusals |-> refusing]
  /\ UNCHANGED <<state, live, registry, offers, inputs, teardown, model>>

\* The awaited tasks are done and the model thread is released.
Stopped ==
  /\ phase = "stopping"
  /\ \A k \in awaited.closers : closer[k] = "idle"
  /\ awaited.refusals \intersect refusing = {}
  /\ phase' = "stopped"
  /\ UNCHANGED <<machine, registry, offers, inputs, teardown, model, awaited>>

Exited == phase = "stopped" /\ UNCHANGED vars

-------------------------------------------------------------------------------
Sink(c) ==
  \/ RefuseConnection(c) \/ AcceptConnection(c)
  \/ ConnectionClosed(c) \/ RefusedConnectionCloses(c)
  \/ \E tr \in Transports : \/ NewConnId(c, tr) \/ OfferAdmitted(c, tr) \/ OfferRefused(c, tr)
                            \/ ConnectionFailed(c, tr)
  \/ \E t \in Tracks : PublishTrack(c, t) \/ UnpublishTrack(c, t)

Teardown(k) ==
  \/ CloseAllStarts(k)
  \/ \E id \in Ids : ConnectionCloseReturns(k, id) \/ ConnectionCloseRaises(k, id)

StartingInput(s) == StartingCommandRefused(s) \/ StartingInputSubmitted(s)

Next ==
  \/ InitializationSuccess \/ InitializationFail
  \/ \E shape \in StartShapes : StartSession(shape)
  \/ StopSession \/ OrphanTimeoutFires \/ Evict
  \/ \E c \in ConnIds : Sink(c)
  \/ \E s \in applying : StartingInput(s)
  \/ \E k \in Closers : Teardown(k)
  \/ CleanupComplete \/ EvictionClosed
  \/ Drain \/ DrainReturns \/ Stop \/ Stopped \/ Exited

Spec == Init /\ [][Next]_vars

\* What the event loop guarantees: a task that is ready runs, a connection's
\* close ends (its waits are bounded), a timer fires.  Nothing is assumed of
\* requests, of wires or of the model.
Fairness ==
  /\ WF_vars(OrphanTimeoutFires)
  /\ \A k \in Closers : WF_vars(Teardown(k))
  /\ WF_vars(CleanupComplete) /\ WF_vars(EvictionClosed)
  /\ \A s \in 1..MaxSessions : WF_vars(StartingInput(s))

FairSpec == Spec /\ Fairness

-------------------------------------------------------------------------------
\* Every variable holds what the runner and its objects keep in it.
TypeOK ==
  /\ state \in SessionStates /\ live \in Nat /\ orphanTimer \in BOOLEAN
  /\ byId \subseteq Ids /\ unoccupying \subseteq Ids
  /\ publishers \in [Tracks -> Ids \union {Nobody}]
  /\ claims \in [ConnIds -> Transports \union {Nobody}]
  /\ epoch \in Nat /\ stamps \in [ConnIds -> Int]
  /\ start \in StartShapes /\ startingDone \in BOOLEAN
  /\ applying \subseteq 1..MaxSessions
  /\ closer \in [Closers -> {"idle", "spawned", "closing"}]
  /\ toClose \in [Closers -> SUBSET Ids]
  /\ refusing \subseteq ConnIds /\ abandoned \subseteq ConnIds
  /\ modelSession \in BOOLEAN /\ modelClients \subseteq Ids
  /\ phase \in {"up", "draining", "drained", "stopping", "stopped"}
  /\ awaited \in [closers : SUBSET Closers, refusals : SUBSET ConnIds]

Occupying == byId \ unoccupying

\* The machine counts connections and the manager holds them, and each hears
\* of a change separately: while a session runs the count is the number of
\* registered connections that occupy it, and the session streams exactly when
\* there is one.
OccupancyAgrees ==
  Running => /\ live = Cardinality(Occupying)
             /\ (state = "STREAMING") <=> (Occupying # {})

\* The clients the model was told of are the ones registered, at every moment
\* a session runs: no drop, refusal, reconnect or system client is announced
\* to one side only, and no client of an earlier session is still listed.
ModelSeesRegistry == Running => modelSession /\ modelClients = byId

\* A session that is over leaves nothing registered to the next: no connection,
\* no publisher, no client or session the model still believes in,
\* and no teardown that could fall into the next session.
ReadyIsClean ==
  state = "READY" =>
    /\ byId = {} /\ unoccupying = {} /\ live = 0
    /\ \A t \in Tracks : publishers[t] = Nobody
    /\ ~modelSession /\ modelClients = {}
    /\ closer["session"] = "idle" /\ toClose["session"] = {}

\* A track is never held by a connection that is gone, however it left.
PublisherIsRegistered == \A t \in Tracks : publishers[t] # Nobody => publishers[t] \in byId

\* The orphan timer runs exactly while a session has no client, until stop()
\* cancels it.
TimerMatchesState ==
  phase \in {"up", "draining", "drained"} =>
    orphanTimer = (OrphanTimeout /\ state \in {"WAITING", "ORPHANED"})

\* A session that is closing has the coroutine that will finish closing it, so
\* it cannot be stranded; and only a closing or evicted session has one.
ClosingHasCloser ==
  /\ state = "CLOSING" => closer["session"] # "idle"
  /\ closer["session"] # "idle" => state \in {"CLOSING", "TERMINATED"}

\* The three records of who is in the session never part: the machine's count,
\* the manager's registry with its track publishers, and the clients the model
\* was told of, each of which hears of an open, a drop or a teardown separately.
RegistryAgrees == OccupancyAgrees /\ ModelSeesRegistry /\ PublisherIsRegistered

\* A session that nobody is in ends by itself: while it has no client its timer
\* runs, and once it closes the coroutine that finishes the close exists.
SessionIsAttended == TimerMatchesState /\ ClosingHasCloser

\* Why the invariants above hold together.  Before its first session and
\* between two of them everything is empty; the registry is emptied before a
\* closing session becomes ready and cannot fill again meanwhile; a teardown
\* empties it only when no session runs; and only the system client can be
\* registered without occupying the session.
Empty == byId = {} /\ unoccupying = {} /\ \A t \in Tracks : publishers[t] = Nobody
BetweenSessions ==
  /\ state \in {"CREATED", "READY"} => Empty /\ live = 0 /\ ~modelSession /\ modelClients = {}
  /\ state = "CREATED" => epoch = 0
  /\ state = "CLOSING" => live = 0 /\ (closer["session"] = "closing" => Empty)
  /\ closer["evict"] # "idle" => state = "TERMINATED"
  /\ \A k \in Closers : closer[k] # "closing" => toClose[k] = {}
  /\ unoccupying \subseteq {SystemId}

\* Nothing revives a process whose model has gone: the teardown of the session
\* it was closing may still end after the eviction.
TerminatedIsFinal == [][state = "TERMINATED" => state' = "TERMINATED"]_state

\* A task of an earlier session's starting input ends or removes nothing of the
\* session that followed it.
OldStartingInputIsHarmless ==
  [][\A s \in applying \ applying' : s # epoch =>
       UNCHANGED <<state, live, byId, startingDone, modelClients>>]_vars

SessionClients == IF Running THEN Occupying ELSE {}
Abstract == INSTANCE SessionOccupancy
              WITH Clients <- Ids, status <- state, clients <- SessionClients

\* The count the machine keeps, the registry the manager keeps and the order in
\* which they hear of a change implement a session whose status follows the set
\* of its clients.
ImplementsOccupancy == Abstract!Spec

\* A session that started closing becomes ready, or its process is gone.
ClosingEnds == (state = "CLOSING") ~> (state \in {"READY", "TERMINATED"} \/ phase = "stopped")

\* A session with no client gets one or closes itself.
OrphanEnds ==
  OrphanTimeout => ((state \in {"WAITING", "ORPHANED"})
                      ~> (state \notin {"WAITING", "ORPHANED"} \/ ~(phase \in {"up", "draining", "drained"})))

\* Client commands, which wait for the starting input, are let through in the end.
CommandsReleased == (~startingDone) ~> (startingDone \/ phase = "stopped")

\* _close_session: "the session only unwinds to ready once its connections have
\* actually closed".
ReadyAfterEveryClose == state = "READY" => abandoned = {}

===============================================================================
