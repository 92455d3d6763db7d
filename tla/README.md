# A TLA+ model of the Reactor runtime

The Reactor runtime is the Python process that serves one interactive model. It
loads the model, opens one session at a time over it, lets clients in through
WebRTC or LiveKit, and carries their inputs to the model and the model's frames
back. A deployment can split it in two: session runtimes that hold the clients,
and one model server that holds the weights and steps the requests of all of
them in batches. This directory models the parts of it that decide: who is
connected, which session a connection belongs to, who holds a slot, what a
request is answered with, and what is left when something goes away.

Paths below are relative to `src/src/reactor_runtime/`.

## 1. Inventory

| component | state it keeps | operations | what is hard about it | what makes it correct |
|---|---|---|---|---|
| session state machine (`runner/state_machine.py`, `core/session.py`) | the state, the number of clients that occupy the session | `send(event)` | edges that depend on the count; the same event legal in some states only | the state follows the set of clients; a terminated machine stays terminated |
| session runner (`runner/runner.py`, `offer_epochs.py`, `system_client.py`, `session_start.py`) | epoch, orphan timer, starting input, teardown tasks, drain and stop | `start_session`, `stop_session`, the sink `connection_opened/closed/failed`, eviction, timers | a teardown that awaits while clients come and go; tasks of one session that outlive it; two teardowns at once | a ready session is empty; a closing one ends; nothing of a session touches the next |
| connection manager (`runner/connection_manager.py`) | registry by id, who occupies, publisher of each track, id claims | `register`, `drop`, `close_all`, `publish_track`, `claim_conn_id` | the machine, the registry and the model each hear of a change through another call | the three agree after every call |
| WebRTC acceptor (`transport/webrtc/acceptor.py`, `connection.py`, `router.py`) | tables by connection id: connections, answers, deadlines, pinned ports, buffered candidates, offer generations | offer, negotiate, take answer, add candidate, deadline, loss, close | an id is offered again while its previous connection is being closed by someone else; some tables are cleared by id, some by generation | an id's newer connection is never hurt by the older one's end; slots and ports are given back |
| model server (`model_server/server_core.py`, `batching.py`, `connection.py`, `client.py`) | connections, slots and generations, lifecycle events, waiting and running requests, outboxes | hello, step, cancel, reset, leave, expiry, drain, stop | a step thread, a reader and a writer per connection, threads that complete futures, an event loop that stops all of it | one answer a request; the model told of exactly the sessions held; every call ends |
| model server link and process (`model_server/shm_link.py`, `link.py`, `process.py`), `ipc/` | the blocks of a slot, who maps them | send, receive, cancel, close, reclaim | one block a direction reused without an acknowledgement; a peer killed while holding one | every step runs on its own arrays; a slot holds a bounded number of blocks |
| application step loop (`interface/internal/reactor_core.py`, `bridge.py`, `input_buffer.py`, `interface/app/reactor_app.py`, `interface/pipeline/`) | inbound queue, input buffers, gate, step lock, pending step, failed calls, the pipeline's generator | post a command, a step or a session fact; push a frame; step; read; report; crash | two threads and, on the model's, two tasks; the next session begins before the model has finished the last | a step runs on its own session's state, after the starting input; every message is answered once; the limit ends the session |
| LiveKit transport (`transport/livekit/`) | rooms, participants, who feeds an input, inbound budgets, outboxes, the room's pacer | open room, join, retire, lose, publish, stream, packet, RPC, flush | several tasks finish one room; checks made before an await; a release that calls back into the tables it changes | a room is left once and always; an input is fed by its holder; messages pass in order, once |
| WebRTC peer and pacer (`transport/webrtc/peer.py`, `pacer.py`, `sdp.py`) | held frames, readiness, frame and audio queues, flush counts, pause set, descriptions | engine callbacks, push, pace, flush, pause, negotiate, stop | five threads and the loop; a flush or a stop at any point of a push; an applier that is ending | order kept, cuts clean, nothing left at the end, no producer stuck |
| recorder, step results (`recording/`, `step_results/`) | feed queue, segments, markers, save queue, failed ranges | record, cut, announce, admit, save, reap, close | a thread per recording, a worker per store; full queues; close between two looks | announced in order and fetchable; saved once, in order |
| event stream, upload store (`event_stream.py`, `metrics/session.py`, `upload_store.py`) | history, subscriber queues, series, slots and bytes | emit, subscribe, snapshot, put, fetch, clear | a subscriber that is behind; an upload awaited across a session's end | no gap goes unreported; nobody waits for bytes that are there |
| statistics (`runner/runtime_stats.py`, `stages.py`, `transport/webrtc/metrics.py`) | counts and windows per session, the wire's last totals | count, take, merge, sample | counted on one thread, reset on another | every frame is told once, in its session |
| wire protocol and gateway (`protocol/`, `message_gateway.py`), contract (`core/typespec.py`, `core/fields.py`, `interface/model/`) | reply routes; declarations | encode, decode, route, check, coerce, publish a schema | two versions and plain-data observers in one session; a value checked before and after its files arrive | a client is answered where and in the words it asked; what the schema accepts is accepted |
| distributed runner (`distributed/`) | ranks, inboxes, one outbox | start, call, collect, shut down | answers without a call number; ranks that die or answer late | ranks stay in lockstep; every call ends |
| service (`service.py`, `serve.py`) | components and their state, exit deadlines, exit code | start, request shutdown, drain, stop, force exit | a component that raises or hangs; a crash in a wind-down | the process ends, in order, with the right status |
| HTTP edge, manifest, logging | - | parsing, observation | - | - |

How they interact. Transports report connections to the runner (the *sink*).
The runner registers them, feeds the state machine, and posts to the model
thread. The state machine's transitions call back into the runner, which arms
timers and spawns teardowns; teardowns close the transports' connections, whose
loss is not reported back. Everything in the runner and in the acceptor runs on
one event loop, so a handler is atomic up to its awaits. The model server is
threads around one condition variable; a WebRTC peer is libwebrtc's threads, the
pacing and pump threads and the loop; recorder and step store have worker
threads that the loop feeds; two processes share a slot's directory.

## 2. Modules

| module | models | state and actions |
|---|---|---|
| `SessionStateMachine` | `runner/state_machine.py` | the transition table and the count, as operators |
| `SessionLifecycle` | runner, connection manager, offer epochs, system client, drain and stop | one variable per table or task; one action per handler, and one per stretch of a coroutine between awaits |
| `SessionOccupancy` | abstract | a status that follows the set of clients |
| `SessionLifecycleProofs` | - | the theorems about `SessionLifecycle` |
| `WebRTCAcceptor` | `acceptor.py`, `connection.py` | extends `SessionLifecycle`; the two share the sink. An offer's number on its id is its generation |
| `WebRTCAcceptorProofs` | - | the theorems about `WebRTCAcceptor`; extends those of the session |
| `WirePeer` | `peer.py` (inbound), `connection.py`, `step_frames.py` | engine states, held frames, the loop's callbacks in order, the gate's queue |
| `MediaPath` | `pacer.py`, `peer.py` (outbound) | pacer queue, frame queue, audio buffer, flush counts; one program counter a thread |
| `TrackPauses`, `Sdp` | `peer.py` (pauses, negotiation), `sdp.py` | the pause set, the applier, the engine's directions; descriptions as sections |
| `MediaPathProofs` | - | the theorems about `MediaPath`, `TrackPauses`, `RoomMedia` and `WirePeer` |
| `LiveKitRoom` | `router.py`, `room.py`, `connection.py` | a record of program counters per room: join, attempt, finisher, closer, abandon, leave |
| `LiveKitRoomProofs` | - | the theorems about `LiveKitRoom` and `ParticipantOutbox` |
| `LiveKitInputs` | `media_in.py` with the manager's arbitration, and the `publish_track`/`unpublish_track` a room client may send itself | the tables a release calls back into, as functions of one record |
| `ParticipantInbox`, `ParticipantOutbox` | `participant.py` | slots of a topic and the byte budget; outbox, calls and answers with thread hops |
| `RoomMedia` | `livekit/pacer.py`, `livekit/connection.py` | the pacing thread, the loop's callbacks, an audio pump |
| `ModelServer` | `server_core.py`, `batching.py`, `connection.py`, `client.py` | the server with its clients |
| `ModelServerProofs` | - | the theorems about `ModelServer` |
| `ShmLink` | `shm_link.py`, `ipc/`, `client.py` | links by number, block files, who maps what, deaths |
| `DistributedRunner` | `distributed/` | caller, rank and outbox; answers tagged with a call number only the model knows |
| `ServiceRun` | `service.py`, `serve.py`, `model_server/__main__.py` | component states, deadlines, exit code |
| `ProcessProofs` | - | the theorems about `ServiceRun`, `DistributedRunner` and `ShmLink` |
| `StepLoop` | `reactor_core.py`, `bridge.py`, `reactor_app.py`, the runner's step side | the inbound loop and `run()`, input buffer, uploads awaited, starting input, step records |
| `StepLoopProofs` | - | the theorems about `StepLoop` |
| `PipelineLoop` | `reactor_pipeline.py`, `input_buffer.py` | the generator's life, parked reads, resets |
| `StepMedia` | `step_frames.py`, `protocol/frames.py`, `core/values.py`, `input_buffer.py` | a request's frames through checks, decoder and buffers; a bundle cut into frames |
| `StepStore` | `step_results/store.py` and the reports that feed it | queue, ranges, worker, folders saved |
| `SessionDataProofs` | - | the theorems about `StepStore`, `Uploads`, `Recorder` and `SessionJournal` |
| `Recorder` | `recording/` | directories by id, ids used again, feed, watch, stop and reaper threads, clips; what is claimed under a lock and what was called back after it |
| `EventStream` | `event_stream.py`, `metrics/session.py`, `/events` | history, queues, mirrors, series; connections of clients, of the system and of those that do not occupy the session |
| `SessionStats` | `runtime_stats.py`, `stages.py`, `webrtc/metrics.py`, `frame_stages.py` | counts, windows, the wire's totals |
| `SessionJournal` | - | the two side by side, and what they say together |
| `Uploads` | `upload_store.py`, `http/routes.py` uploads, `upload_resolution.py` | slots, PUTs under way, commands that wait |
| `Replies` | `protocol/v0`, `protocol/v1`, `message_gateway.py`, the runner's answers, the manager's sends | the mail of each connection, requests and their routes |
| `CommandContract` | `core/typespec.py`, `core/fields.py`, `interface/model/schema.py`, `session_start.py` | types, constraints and schema as recursive operators; the three places a payload is checked |
| `MCSessionLifecycle`, `MCWebRTCAcceptor`, `MCModelServer` | - | symmetry sets |
| `MCSessionProgress`, `MCTransport`, `MCLiveKit`, `MCProcesses`, `MCSessionData` | - | components that share no state, one per behaviour (the variable `focus` says which), with the instances' data and the properties that join theirs |

Definitions keep the source's names (`_close_session` is `CleanupComplete` after
`CloseAllStarts`, `_answer_in_flight` is `AnswerInFlight`). `PROJECT.json`, under
`map`, gives the lines each one translates. Definitions commented "Faulty" are
plausible bugs; each is put in place of the definition that follows it to show
that a property would notice.

Choices a reader should know:

* *Session.* The transports are open: they may report any connection opening,
  closing or failing whenever a wire can exist. A transport other than WebRTC
  may have an offer admitted in any state, because the LiveKit route stamps the
  id after an await. A connection's `close` may return or raise.
* *Acceptor.* An offer's number on its id is its generation and names the
  connection it builds. A candidate is one token an offer. One port can be
  pinned. The model does not crash here and the process does not stop; those
  are `SessionLifecycle`'s.
* *Model server.* What holds the condition is one action, with the answer it
  decides. Calls into the model that other threads can overlap are a begin and
  an end. A client's message and the reader's handling of it are one action,
  which loses nothing because links are FIFO and the client's own state does not
  depend on when the message is read. Timeouts and the batch window may end at
  any moment, so whether a batch is full decides nothing. Cancelling a future is
  that future being done, which can happen at any time.
* *Step loop.* A task of either event loop is one action from one await to the
  next. The step lock is asyncio's: a release hands it to the task that waits.
  The inbound loop may dispatch any number of queued items before `run()`, woken
  by the gate, is scheduled: `queue.get()` of a queue that is not empty and an
  uncontended lock do not yield. A wire lives until the teardown has closed it,
  so frames and messages arrive in `CLOSING` too. `CleanupComplete` comes after
  the messages that the end of the session woke, which are ahead of it in the
  loop's ready queue. One client at a time, one starting command, and at most
  one call in a step request. `generate()` cannot be interleaved with anything
  and belongs to the acceptance of the input. `Capacity` 0 is a model without an
  input track. The session's own machine is reduced to the four states that this
  code asks about; `SessionLifecycle` has the others.
* *Transports.* libwebrtc reports one channel's states one at a time and in
  order. The check and the report of a loss are one step: both are under the
  peer's lock. A frame carries video, one audio frame and metadata, so a bundle
  passes through every queue. The joins of the pump threads may time out, as
  they may in the code. A LiveKit attempt settles in the end; a leave need not
  be answered. A close does not raise here; what a raising close does to the
  teardown is `SessionLifecycle`'s.
* *Processes.* A killed process loses its sockets and leaves its files. A
  component's start, drain and stop may return, raise or hang. A rank may die at
  any point, and a call in it need not end. The ranks of a caller that is killed
  in a broadcast are outside the model: nobody is left to ask about them.
* *Data.* A recording's frame is the number of its session. A value of the
  contract keeps its kind, its magnitude (floats in halves) or its length. An
  H.264 frame is its NAL units, and what the decoder returns for them is
  external. A message is its family, side, payload name and request id.

## 3. Runs

| run | constants | states | checks |
|---|---|---|---|
| `session_safety` | 2 clients + system client, 1 track, 1 transport, 2 sessions | 3.3 M | `TypeOK`, `RegistryAgrees`, `ReadyIsClean`, `SessionIsAttended`, `TerminatedIsFinal`, `OldStartingInputIsHarmless`, `ImplementsOccupancy` |
| `session_progress` | 1 client, 2 sessions; 2 sessions of 2 steps, save queue of 1, 3 reports, 1 fault | 136 k | `SessionEnds` (closing, orphaned, held-back commands), `StepsAreKept`, `SavesHappen` |
| `webrtc_reconnect` | 1 id, 3 offers, 2 sessions, no ceiling | 470 k | `AcceptorHolds` (types, answers, deadlines, held while alive, none after the session), `PinSurvivesReconnect`, `HalfOpenEnds` |
| `webrtc_ceiling` | 2 ids, 2 offers each, ceiling 1 | 1.01 M | `CeilingHolds` (slots and pinned ports) |
| `model_server_safety` | 2 clients, 2 slots, batches of 2, outbox 2, 2 calls each | 3.1 M | `AnsweredOnce`, `SlotsHold` (types, holders, the model's mirror, busy, stop) |
| `step_loop` | 2 sessions of either generation, limit none or 1, with or without starting input, 2 joins, 1 step request, buffer of 1, 2 steps, connection hooks, a backlog of 5 | 2.4 M | `StepStaysInItsSession`, `StopsAtItsSteps` |
| `step_answers` | 2 sessions of either generation with limit 1 and starting input, 1 command and 1 step request, no connection hooks, a backlog of 3 | 534 k | `AtMostOneAnswer`, `EveryMessageAnswered` |
| `transport` | 2 frames in, at most 1 held early; queues of 1 and 2, 2 emissions, 1 flush; 2 tracks, 3 pause requests from 2 threads, 1 failure; 3 room frames, 1 cut; offers of 3 sections | 1.30 M | `WireIsOrdered`, `MediaPlays`, `PausesSettle`, `RoomEndsQuiet`, `ProducerReturns`, `NegotiationIsSound` |
| `livekit` | 2 rooms, 1 chosen id and minted ones, 2 sessions; 4 tracks of 2 participants and another client over 2 inputs, 2 streams, requests of their own; 4 messages in over 2 topics, budget 5; 2 sends, 2 calls with a retry, 1 request | 1.01 M | `RoomHolds`, `EndedIsLeft`, `InboundHolds` (`InputsHold`, `InboxIsExact`), `OutboxDelivers` |
| `processes` | 1 client, 4 calls; 2 links, 2 steps, 1 death; 3 components, 2 requests; 2 ranks, 2 calls, 1 death | 125 k | `ClientKnowsGeneration`, `LinkHolds` (blocks of a slot, arrays of a step), `CallsComplete`, `ServiceWindsDown`, `ShutdownEnds`, `RanksAgree` |
| `session_data` | 2 recordings, 2 ids, 2 chunks; the rest in `SessionData.cfg` and `MCSessionData` | 672 k | `RecordingIsServed`, `JournalIsExact`, `UploadsArrive`, `ExchangesHold` (`ContractHolds`, `MediaIsWhole`, `RepliesAreExact`) |
| `webrtc_ghost_client` | 1 id, 2 offers, 1 session | - | `StreamingHasWire`, a statement of the code's own comments, which TLC refutes (section 6) |

Why the bounds are enough. Two sessions are the least in which one can reach
into the next. What a session leaves behind is its epoch, its tasks and its
stamps, and they are compared with the current epoch for equality, so a third
session adds something only where a second one's stamp can be taken away before
it is compared. That happens: the proof of `RoomHolds` did not go through for an
id the caller chose, and three sessions show why (`RegisteredInItsSession` in
section 6). For
the session, the acceptor, the rooms, the media path, the step store, the
uploads, the recorder, the outbox, the model server, the step loop, the service and the ranks
the bounds do not matter any more: section 5 has the
theorems for all of them. Two clients are the least for one to leave while
another stays; a third occupies the session as the second does. Three offers on
one id let an offer replace another that is itself replacing one. In the model
server two connections contend for one slot or share a batch; two calls are a
reset and a step, and four, in `processes`, a full second generation. An
outbox of two overflows whenever a client does not read. In the step loop a
limit of one and two steps let a step run past the limit before the session's end
reaches the model; a second join lets the gate drop and reopen within a session
or across the two; one step request can be admitted in the first session and be
delayed into the second, and the second run adds the command it queues behind.
The inbound queue has no bound; `MaxBacklog` only says how far the model may be
behind when the caller or the client does something new, and five items hold the
rest of one session and the whole start of the next.

In the other modules a bound of one or two is the smallest at which the case in
question happens: a queue of one is full after one frame; two emissions let one be
played while the other is cut; two rooms let one replace another; two links are a
session's and its successor's on the same slot; two ranks can answer differently;
three pause requests let one come while the applier handles another and a third
after it. The streams of `LiveKitInputs` have four bytes at most, in frames of two
samples, so that a remainder is carried. The contract's instance has one
declaration of each shape with the values on either side of what it accepts; the
media's has frames that are whole, short, empty and of the wrong kind. The
contract has a number, a string, a list and an upload with bounds, because a
length bound means one thing to the schema and another to the check. Two
recordings of two chunks fill the recorder's queue, let a stop overlap the next
session, and let the second be recorded under the first one's id. `RecordingSafe`
covers every number of recordings, and TLC was run once with three on its
invariant (one chunk, 2.2 M states, a minute and a half), too large for the suite.

Deadlock is checked for the session. It is not for the others: the offers, calls
and sessions are bounded, and a stopped server stands still.

Closes that overlap. The acceptor clears several tables by id when a connection's
close ends (`acceptor.py:519`, `:538`), and a close may drain for seconds.
`close()` of a connection that another task is already closing returns at once, so
a re-offer can build the id's next connection first, and the end of the earlier
close then forgets it: nothing holds that connection any more, its deadline is gone
and the teardown of its session does not find it. The model has all of this. A
history variable, `overlapped`, notes the offers whose negotiation began while a
connection of their id other than the one they replace was still there, and
`AliveIsHeld`, `AnsweredHasDeadline`, `UnwoundIsDisconnected` and `HalfOpenEnds`
say that no other offer suffers from it. The claim without the exception is
`EveryAliveIsHeld`, and is refuted (section 6). `overlapped` of `Recorder` plays
the same part for a recorder that was started while a thread of an earlier session
could still report.

## 4. Fairness

* Session: the orphan timer's sleep ends; a teardown's coroutine advances (each
  `close` returns or raises); the task that applies a starting input advances.
  All are tasks of the event loop; nothing is assumed of clients or transports.
* Acceptor: a negotiation task that was created starts; a deadline's sleep ends.
* Model server: the threads run; a call into the model returns (a step that
  never returns is what `health()` reports as stuck, and the process is
  replaced); the hello timer, a running request's timeout and the drain's
  deadline pass. A step has a timeout unless its caller passes 0
  (`config.DEFAULT_STEP_TIMEOUT`). Futures need never be done, clients never
  act, faults never happen.
* Step loop: every task of either event loop that can go on does. Handlers, hooks
  and the model's own methods return; an emit ends, and a wait for an upload ends
  with its bytes, its timeout or the clear. Clients, media, stops and crashes
  need never come.
* Step store: the worker and the loop run; a save may fail but returns.
* WebRTC media: every thread runs and the locks are held for bounded work.
  Pauses, engine states and negotiation are checked for safety only.
* LiveKit rooms: the loop runs what is ready and the SDK settles an attempt. It
  need not answer a leave, and nobody need ask for anything.
* Service: the loop and the timer's thread run, and the joins of the loop's
  workers are bounded. Nothing is assumed of a component or of the interpreter's
  own joins at exit; the deadline is what ends those.
* Ranks: the caller's own steps, its timeout among them. A rank need never act.

## 5. Proofs

Everything here is checked by TLAPS for every value of the constants: any sets
of clients, tracks, transports, rooms, participants, components and ranks, any
queue sizes, any number of sessions, offers, frames, flushes, calls, reports and
messages. The bounds the runs need (`MaxSessions` and the like) are constants
like the others. The assumptions are those named in the modules: sets of ids are
finite and their extra values (`NoConn`, the system client's id) are none of
them, and sizes are positive where the code's are.

| theorem | module | says |
|---|---|---|
| `TypeCorrect`, `RegistrySafe`, `ReadySafe`, `AttendedSafe`, `TerminatedSafe`, `OldStartingInputSafe`, `Refinement` | `SessionLifecycleProofs` | `TypeOK`, `RegistryAgrees`, `ReadyIsClean`, `SessionIsAttended`, `TerminatedIsFinal`, `OldStartingInputIsHarmless`; `SessionLifecycle` implements `SessionOccupancy` |
| `CeilingSafe`, `PinSafe` | `WebRTCAcceptorProofs` | `CeilingHolds`, `PinSurvivesReconnect`, however slow a close is |
| `AcceptorSafe` | `WebRTCAcceptorProofs` | `AcceptorHolds`, with closes of any length: an answer is the last offer's, and a connection that overlapped no earlier one of its id is held while alive, under a deadline until it connects, and gone when its session has unwound |
| `TransportRefinesSession` | `WebRTCAcceptorProofs` | the acceptor with the runner implements the session specification, so all of the first row holds with real offers and closes in place of the session's open environment |
| `RoomsSafe` | `LiveKitRoomProofs` | `RoomHolds`: a room is left once; what is registered through it is its own, and in its session if the id was minted |
| `MediaSafe` | `MediaPathProofs` | `MediaPlays`: frames in order, none of before a flush after it returned, none kept past the end |
| `StepsSafe` | `SessionDataProofs` | `StepsAreKept`: steps saved in order and once, messages once, failed ranges whole |
| `UploadsSafe` | `SessionDataProofs` | `UploadsArrive`: nobody waits for bytes that are there, and a file a command was given is whole and of its session |
| `RecordingSafe` | `SessionDataProofs` | `RecordingIsServed`: unless a thread of an earlier session could still report when the recorder was started, a segment is announced once and none is passed over; what was announced or reported ready can be fetched while its directory is its session's; the directory in use is never reaped, and does not read as ended by an earlier session of its id |
| `JournalSafe` (from `EventsSafe` and `StatsSafe`) | `SessionDataProofs` | `JournalIsExact`: a consumer that met no gap and has taken all there is sees what the journal sees; the live gauge is the number of clients' connections, whatever system connections there are, and each session is counted once; readings add up, and counters follow the wire |
| `PausesSafe`, `RoomMediaSafe` | `MediaPathProofs` | `PausesSettle`: once the applier has gone the engine holds the last set asked for; `RoomEndsQuiet`: a closed room connection plays out at most the frame its source was taking |
| `WireSafe` | `MediaPathProofs` | `WireIsOrdered`: a channel's frames go up in order, none lost but past the early bound and none twice, behind the wire's opening and ahead of its one end |
| `OutboxSafe` | `LiveKitRoomProofs` | `OutboxDelivers`: a call runs once, a request is answered once, a drained close sent everything |
| `SlotsSafe`, `AnswersSafe`, `GenerationSafe` | `ModelServerProofs` | `SlotsHold`: one holder a slot, the model told of exactly the sessions held; `AnsweredOnce`: one answer a request; `ClientKnowsGeneration`: a client's generation is the server's |
| `StepsStayInTheirSession`, `SessionsStop`, `AnsweredAtMostOnce` | `StepLoopProofs` | `StepStaysInItsSession`, `StopsAtItsSteps`, `AtMostOneAnswer` |
| `WindDownSafe` | `ProcessProofs` | `ServiceWindsDown`: the order of the wind-down, and a crash reported |
| `RanksSafe` | `ProcessProofs` | `RanksAgree`: answers belong to their call, ranks in lockstep, nothing left |
| `LinkSafe` | `ProcessProofs` | `LinkHolds`: a slot holds two request blocks and one output block at most, and every step runs on its own arrays |

None of these properties is inductive, but for the timer's. What each proof adds:

* *Session.* `ReadyIsClean` at `CLEANUP_COMPLETE` needs to know that `close_all`
  emptied the registry when it started and that nobody was registered since;
  that needs the refusal of wires in `CLOSING`; the agreement of count and
  registry needs that a drop after the teardown finds nothing to count.
  `SessionInv` conjoins the type invariant, the agreements and `BetweenSessions`,
  which says what is empty before the first session, in a ready one and in a
  closing one whose teardown has begun. `SessionStep` shows each action keeps
  it; `DropStep`, `AcceptStep` and `StartStep` carry the three cases that move
  the count, and rest on the cardinality of the set of occupying connections.
  The timer is inductive by itself: `SendKeepsTimer` says that every move of the
  machine re-arms it for the state entered, and every action of the runner is
  such a move, leaves the machine alone, starts a session or is the stop that
  cancels it. The refinement maps the registry to the abstract set of clients
  while the session runs and to the empty set otherwise; each action is then a
  named abstract step or a stutter.
* *Acceptor.* `OfferInv` holds for any peer: which offer of an id each table
  speaks of, and that a slot or a pin is given back only by the offer that took
  it. It gives the ceiling and the pin. `LoneInv` adds what is true of an offer
  whose negotiation began alone: it is the id's newest connection and no close of
  another one is under way, so tables cleared by id are cleared for the right
  connection (`NegotiatesInStep`, `LoneIsHeld`, `UnderDeadline`, `OpenIsKnown`).
  The refinement is the identity on the session's variables, so its obligations
  are that every action of the acceptor is one of the session's, or a stutter.
* *Rooms.* `RoomInv` says who may leave a room and that there is one of them
  (`OneLeaver`), that an id's stamp stays while its join is under way
  (`KeepsStamp`), and how rooms, registry and epochs agree. Under a chosen id
  `KeepsStamp` is false, and so is `RegisteredInItsSession` (section 6).
* *Media.* Frames stand in one line from the pacer's queue to the track
  (`FramesInLine`); each carries the count of flushes it was emitted under, and
  where it waits that count is current, or whoever takes it next can see that it
  is not (`FramesAreCurrent`); `EndStages` says what is empty at each step of a
  connection's end.
* *Steps.* What is saved, held, queued and failed stands in one line
  (`StepsInLine`, `RangesAreLast`): a failed range is its session's last, and the
  entries of its session are among those the worker counted when it took the
  range. `StepsAreNumbered` ties the line to the runner's numbers, and
  `MessagesInOnePlace` says a message is held, on its way or admitted, and only
  one of these.
* *Service.* `Progress` says how far each component can be at each place of
  `run()`; the order rests on `AcyclicAssumption`, because `_topological_order`
  raises on a cycle before anything starts.
* *Ranks.* `StartTalk` and `CallTalk` count who has spoken: an answer is taken
  for its call because, when the runner has as many answers as ranks, every rank
  has spoken (`EveryRankSpoke`, the pigeonhole principle) and none speaks twice.
* *Links.* `BlocksInv` says whose each file is: the request blocks are the last
  link's, the one in use and at most one retired (`RequestsKept`), and the output
  block is the slot holder's, or the one a set-up is about to remove under the
  slot's lock (`OutputsKept`). `ArraysInv` has the steps of a link in one line from
  the session and back (`InOrder`), so a result the client accepts is the last one
  written to the output block; and a step's frame names a block that still holds
  its arrays (`FrameOK`), because a fresh block replaces the one in use whenever
  the client stops waiting, unless there was no room for it.
* *Uploads.* A slot is always the running session's (`SlotInSession`), because the
  clear that ends a session takes every slot. A minted id is reserved once, so a
  body or a command that names one meets its own session's slot or none
  (`BodyFitsSlot`, `NamesItsOwn`). `WaitsOnEvent` ties a waiting command to the
  event of the one id it waits for, which is what makes `put` and `clear` wake it.
* *Recorder.* The directory of the moment is the last claim's (`ClaimsInStep`), and
  segments and end marks only grow under a directory that is there and that no later
  session has claimed, so what was closed when it was claimed stays closed until it
  is reported and after (`SaidIsClosed`). `CountIsKept` says that every segment
  below the count is announced or in exactly one thread's hand, which is what makes
  an announcement neither lost nor repeated although the callbacks follow the lock;
  `HandsAreHeld` that only a thread that may still report has anything in hand, and
  `StartsAlone` that there is none while a start clears the count, or `overlapped`
  says there was. `MarkedByItsStop` says whose end marker the directory in use has.
* *Journal.* `Traced` says there is one history of all moves, with the view after
  each, that the retained events are the end of and that every consumer follows
  (`Follows`): what waits for it is of that history under its own number, and
  while it has no gap its mirror is the view at its last number and, if it is
  behind, the newest move is the last thing waiting. A queue may shed anything but
  its newest, so a loss cannot go unseen. `SeriesInv` ties the machine's count to
  the connections held that occupy the session, and the series to the clients'
  among them. `WireInLine` says that the counter, with what the next sample would
  add, is never above the wire's frames, and is all of them until the wire
  restarts.
* *Pauses and room media.* `OneApplier` says that one applier runs, or is on its
  way, while the flag says so, and that a change noted has one; `LastPassApplies`
  that the set it looks at next is the last one asked for. `CloseInLine` says that
  nothing but flushes stands behind the continuation of a close in the loop's
  callbacks, and `PacerEnds` and `PumpEnds` who can still fill what it emptied.
* *Inbound wire.* `LineInv` has the frames of a channel in one line, from what went
  up through the gate, the loop and the early hold to the sink: along it numbers
  rise, and it carries exactly the frames kept. That needs to know that nothing is
  held once the wire is connected and that the sink has its channel's last frame
  (`HoldInv`), and that one task drains or nothing is queued (`GateInv`): a second
  task would take frames past the first. `ReportInv` says that the opening was said
  or is scheduled, once, ahead of every frame on the loop or at the gate, and that
  a connection still alive, or in a commanded close, has no end said of it.
* *Outbox.* A payload is in one place between its thread and the wire: a callback
  on its way, the outbox, the caller's hand (`MessageInPlace`, `CallInPlace`,
  `ReplyInPlace`), and the end of the queue stands behind everything scheduled
  before the close (`EndInLine`).
* *Model server.* `SlotsInv` says what each thread holds between two turns of the
  condition, what the model has been told and what is on its way to it;
  `RequestsInv` that a request owed an answer is newer than the last one answered;
  `ClientsInv` what a client may believe of its link. The three need one another.
* *Step loop.* `LoopInv` has the lock, the gate and the app's state at each await
  of the two tasks (`ModelInv`, `RunnerInv`); the queue between the threads, where
  every item stands at a stage, the number of sessions started and whether the
  last is open, and the stages lead from what the model knows to what the runner
  has posted (`Tracked`); the starting input (`SeedInv`), the steps taken and
  reported (`StopInv`), and the one place a message is in (`InOnePlace`).

Each inductive invariant was checked by TLC on a small instance too, but for
`Traced`, which quantifies over every history.

Model-checked only:

* liveness (`SessionEnds`, `SavesHappen`, `HalfOpenEnds`, `EveryMessageAnswered`,
  `ProducerReturns`, `EndedIsLeft`, `CallsComplete`, `ShutdownEnds`): the prover
  does not reason about fairness;
* `NegotiationIsSound`, `ContractHolds`, `MediaIsWhole`: recursive operators;
* `InputsHold`, `RepliesAreExact` and `InboxIsExact`: they select from sequences,
  fold or sum, and what such an operator returns is an induction over data.

## 6. Where code and comments disagree

`webrtc_ghost_client` has a run that TLC refutes and an entry under `findings`: a
re-offer that comes to nothing leaves its id registered with a closed connection,
and the session streams to no one.

The other statements below are definitions of the modules named, with a comment
that quotes the line. No run checks them; TLC refutes each when it is made the
`INVARIANT` of a run that has its module. `RequestedShutdownEnds` is a `PROPERTY`
of `processes`; `ParkedReadReleased` is one of `PipelineLoop` itself, under
`PipeSpec`, which has the fairness it needs.

| definition | what is said | what the code does |
|---|---|---|
| `SessionLifecycle!ReadyAfterEveryClose` | `runner/runner.py:2857`, ready only once the connections have closed | one `close` that raises ends `close_all` (`connection_manager.py:414`); the rest are never closed |
| `WebRTCAcceptor!NoWireOfAnotherSession` | `runner.py:607`, a wire of an earlier session is closed | the epoch stamp is per id (`offer_epochs.py:36`): a re-offer in the next session legitimises a half-open wire of the previous one |
| `WebRTCAcceptor!EveryAliveIsHeld` | `acceptor.py`, the acceptor "Holds every connection it has negotiated so trickle ICE can keep reaching it over the connection's life" | a connection negotiated while another of its id is still closing is forgotten when that close ends: candidates no longer reach it, its deadline is gone, and it may outlive its session |
| `LiveKitInputs!OneOwner` | `media_in.py:28`, "Each input track has one owner across the session, whatever its transport" | a room client that sends `unpublish_track` itself frees the session's slot for another client, and the room goes on feeding the input from its track |
| `StepLoop!StartsFromEmptyTracks`, `PipelineLoop!OldFramesAreGone` | `reactor_app.py:307`, the next session starts from empty tracks | the buffers are reset where a pass through the open gate ends; a session whose gate never opened resets nothing |
| `PipelineLoop!ParkedReadReleased` | `input_buffer.py:121`, teardown wakes a parked read | a read parked when its session ends waits for the next one's frames |
| `PipelineLoop!GeneratorServesOneSession` | `reactor_pipeline.py:94`, each cycle gets a new generator | a gate that drops and opens during one advance goes unnoticed |
| `Recorder!RecordingsAreApart` | `recorder.py:319`, "sequential recordings never share a directory" | a chunk taken before a stop is written after the next start; and an id may be used again, into the directory its files are in |
| `Recorder!NotifiedOncePerSegment` | `recorder.py:890`, the consumer is notified once per segment | a watch thread in a callback for longer than the stop waits for it goes on after the next start has cleared the count, and claims the segments of the directory again |
| `Recorder!AnnouncedInOrder` | `recorder.py:889`, "Walks the closed media segments in order" | the callbacks come after the lock is released: stop claims the next segments and reports them while the watch thread still has earlier ones in hand |
| `Recorder!AnnouncedWasFed` | `recorder.py:887`, "every recording segment that has closed since the last poll" | under an id used before, the files the earlier session left read as closed and are announced as the new one's |
| `StepStore!AdmittedIsSaved` | `store.py:180`, True means a result follows | a save that fails, or a close that times out, leaves none |
| `StepStore!MessagesStayInTheirSession` | - | a message sent late in a session lands with the next one's first step |
| `RoomMedia!RoomCutIsClean` | `livekit/pacer.py:151`, nothing flushed plays afterwards | the frame in the pacing thread's hand is captured after the flush returned |
| `ServiceRun!RequestedShutdownEnds` | `service.py:12`, a requested shutdown ends the process | a start that raises disarms the deadline and nobody arms another |
| `ShmLink!SlotFits`, `ShmLink!PreviousIsGone` | `shm_link.py:60`, `:425` | pages stay while a process maps them; a client that reconnects is its own predecessor |
| `LiveKitRoom!KeptUntilLeft` | `router.py:159`, a replaced room is kept until it left | a second replacement drops the first from the table |
| `LiveKitRoom!RegisteredInItsSession` (3 sessions) | `runner.py:607`, a wire whose negotiation finishes with a later session running is closed | `connection_failed` consumes its id's stamp before it compares epochs (`runner.py:1461`): under an id the caller chose the late failure of one session's room takes the stamp of the next session's, which then opens, unstamped, in a third |
| `LiveKitRoom!FailureStaysInItsSession` | `runner.py:1439` | a join under an id the caller chose, which fails late, is journalled in the session running then |
| `WirePeer!DecodersReleased` | `step_frames.py:15`, released when the connection closes | a request being decoded at the close opens one again |
| `TrackPauses!AppliedIsHeld` | `peer.py:506`, the applied set is what was accepted | a pass that fails between its two descriptions leaves the engine elsewhere |
| `Uploads!BytesStayInTheirSession` | `upload_store.py:4`, session-scoped | a PUT still reading when its session ends fills the slot the next reserved under the same chosen id |
| `Replies!AnswersStayInTheirSession` | - | an answer carries no session, and an id can be claimed again |
| `SessionStats!ReceivedInItsSession` | `runtime_stats.py`, counts run for the session | the count follows the push, with no session to check |
| `EventStream!SnapshotCountsOpen` | `event_stream.py:59`, connections currently open | those a teardown closes are never taken off |
| `CommandContract!SchemaCannotDrift` | `core/typespec.py:12`, schema and validation cannot drift | an optional number with a bound is published as accepting null and refuses it; a length bound on a list is published as `minLength`, which means nothing for a list, and the list is refused by its length |
| `CommandContract!StartedNeverRefused` | `runner.py:1344`, "a session that starts never has a starting command refused for its arguments" | an upload field with a length bound: the reference checked before the start has a length, the file that replaces it has none, and the command is refused when it runs |

Met while modelling, with no line that says otherwise:

* nothing reads what `drain` sets (`_accepting`), so a session can start while
  the process drains;
* a candidate trickled during a re-offer can go to the connection being replaced,
  or be dropped with it; a buffered candidate that fails to replay cancels the
  deadline of a connection that is already held;
* a stepped session's end resets the input buffers without naming the session,
  and with them frames already pushed for the next one; `run()` woken by a gate
  that has closed again resets the buffers of the session that is still running;
* the LiveKit route reads the epoch before it awaits the previous room's
  retirement, and stamps with what it read;
* an event-stream subscription whose iterator is never started is never
  deregistered; a number from a previous process resumes silently in this one;
* the cumulative loss RTP reports may go down, which `_advance` takes for a
  restart;
* `Literal[1]` accepts `True`; the fields of a dataclass argument are not
  coerced; an upload's published schema requires more than the check does;
* the ranks of a caller killed in the middle of a broadcast wait for a request
  that some of them have.

Read in the source only: a re-offer without a pin frees the port while the earlier
peer is still bound; a registration that replaces an id keeps its publisher
entries; `stop()` awaits the teardown tasks it finds, not those spawned while it
waits; a cancel that arrives while `step()` runs is forgotten, so the request is
answered although its client gave up (its client ignores the answer).

## 7. Not modelled

Out of reach or not worth a model: codecs and the media engine, the byte layout of
messages, blocks and files, HTTP routing and parsing, the manifest and the
configuration, labels and logs, the test harnesses. Of the modelled components:
the choice of peers for media fan-out and the stats message (runner), playout
settings (manager), the bound of the early-candidate buffer (acceptor), signals
and `health()` (model server), upload hooks and an author's own `run()` (step
loop), the results' reaper (step store).

Paths left out of operations that are modelled: a close that raises inside the
acceptor or a room (`webrtc/pacer.py:285`); a link the server starts to close between
claiming its slot and making its output block (`shm_link.py:427` to `:431`); a
teardown of the ranks that fails or is interrupted (`distributed/runner.py:230`); a
room request that has passed `require_session_running` and waits for another's
(`router.py:191`), and a participant there is no id left for (`room.py:591`); the
files of one container, which are fetched side by side and are fetched here one
after the other (`upload_resolution.py:87`); a video batch of no frames
(`core/values.py:398`); what the engine holds after a pause pass that failed half
way, which `PausesSettle` leaves open (`peer.py:1465`); the init segment's own
announcement, and a recorder's reading of its directory before it takes the lock it
claims under (one step with the claim here, exact unless `overlapped`).

The components of a composed run share no state there. Where two of them meet in
the code, one models the other's side: `LiveKitRoom` has the runner's sink,
`WirePeer` the connection's reports, `StepStore` the runner's numbering.
