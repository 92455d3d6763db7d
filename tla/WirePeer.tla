------------------------------- MODULE WirePeer -------------------------------
(***************************************************************************)
(* One WebRTC connection's inbound half: WebRTCPeer's readiness and held   *)
(* frames (transport/webrtc/peer.py), WebRTCConnection around it           *)
(* (connection.py) and the StepFrameGate its messages pass                 *)
(* (transport/step_frames.py).                                             *)
(*                                                                         *)
(* libwebrtc calls in on its own threads, one per observer; the peer       *)
(* answers by putting callbacks on the event loop, which runs them in      *)
(* order.  Closing tears the peer down on a worker thread meanwhile.       *)
(* External: the engine's states, of which one channel's are reported in   *)
(* order, and what a frame decodes to.                                     *)
(***************************************************************************)
EXTENDS Naturals, Sequences, SequencesExt

CONSTANTS MaxEarly,   \* _MAX_EARLY_FRAMES
          MaxFrames   \* bound: frames the client sends

ASSUME WireAssumption == {MaxEarly, MaxFrames} \subseteq Nat

Wires == {"data", "control"}

VARIABLES
  engine,     \* the state of each channel in the media engine
  notices,    \* state changes of each channel its observer has not reported yet
  open,       \* _data_open, _control_open
  pcUp,       \* _peer_connected
  connected,  \* _connected
  stopped,    \* _stop_event
  inSink,     \* per channel, the frame past the sink's stop check, as a sequence
  early,      \* _early_frames
  ready,      \* the event loop's callbacks of this peer
  sunk,       \* per channel, the frames that reached the sink
  overflow,   \* frames the early bound dropped
  alive,      \* WebRTCConnection._alive
  closing,    \* WebRTCConnection.close awaits the peer's
  teardown,   \* WebRTCPeer.close on its worker: "none", "asked", "set", "done"
  watchdog,   \* _watchdog_task: "none", "polling", "closing"
  backlog,    \* StepFrameGate._backlog
  tasks,      \* the _drain tasks ever created
  draining,   \* StepFrameGate._draining, 0 for None
  decoder,    \* whether _decoders holds the input track's decoder
  up          \* what the connection reported to its owner

peerVars   == <<engine, notices, open, pcUp, connected, stopped, inSink, early, sunk, overflow>>
connVars   == <<alive, closing, teardown, watchdog>>
gateVars   == <<backlog, tasks, draining, decoder>>
wireVars   == <<peerVars, ready, connVars, gateVars, up>>

WireInit ==
  /\ engine = [c \in Wires |-> "connecting"] /\ notices = [c \in Wires |-> <<>>]
  /\ open = [c \in Wires |-> FALSE] /\ pcUp = FALSE /\ connected = FALSE /\ stopped = FALSE
  /\ inSink = [c \in Wires |-> <<>>] /\ early = <<>> /\ ready = <<>>
  /\ sunk = [c \in Wires |-> 0] /\ overflow = {}
  /\ alive = TRUE /\ closing = FALSE /\ teardown = "none" /\ watchdog = "none"
  /\ backlog = <<>> /\ tasks = <<>> /\ draining = 0 /\ decoder = FALSE
  /\ up = <<>>

\* A report is a frame, or what the connection says of itself on channel "wire".
Report(what) == [ch |-> "wire", n |-> 0, kind |-> what]
Callback(what) == Report(what)

-------------------------------------------------------------------------------
\* The observers, on libwebrtc's threads.

\* Faulty: the held frames are scheduled and stay held.
FireConnectedKeepsHeld(isUp, isOpen) ==
  IF isUp /\ (\A c \in Wires : isOpen[c]) /\ ~stopped /\ ~connected
  THEN /\ connected' = TRUE /\ UNCHANGED early
       /\ ready' = ready \o <<Callback("connected")>> \o early
  ELSE UNCHANGED <<connected, early, ready>>

\* _fire_connected_if_ready, with _ready_lock held: the connected callback and
\* behind it every frame held so far.
FireConnectedIfReady(isUp, isOpen) ==
  IF isUp /\ (\A c \in Wires : isOpen[c]) /\ ~stopped /\ ~connected
  THEN /\ connected' = TRUE /\ early' = <<>>
       /\ ready' = ready \o <<Callback("connected")>> \o early
  ELSE UNCHANGED <<connected, early, ready>>

\* _on_connection_state_change: Connected
PeerConnects ==
  /\ ~pcUp /\ pcUp' = TRUE
  /\ FireConnectedIfReady(TRUE, open)
  /\ UNCHANGED <<engine, notices, open, stopped, inSink, sunk, overflow, connVars,
                 gateVars, up>>

\* _on_connection_state_change: failed, disconnected or closed
PeerIsLost ==
  /\ ~\E i \in DOMAIN ready : ready[i].kind = "loss"
  /\ ~stopped
  /\ ready' = Append(ready, Callback("loss"))
  /\ UNCHANGED <<peerVars, connVars, gateVars, up>>

\* The engine opens a channel, or closes it again.
ChannelMoves(c) ==
  /\ engine[c] \in {"connecting", "open"}
  /\ engine' = [engine EXCEPT ![c] = IF @ = "open" THEN "closed" ELSE "open"]
  /\ notices' = [notices EXCEPT ![c] = Append(@, engine'[c])]
  /\ UNCHANGED <<open, pcUp, connected, stopped, inSink, early, ready, sunk, overflow, connVars, gateVars, up>>

\* _on_data_channel and the channel's state sink, through _set_channel_open
SetChannelOpen(c) ==
  /\ notices[c] # <<>>
  /\ notices' = [notices EXCEPT ![c] = Tail(@)]
  /\ open' = [open EXCEPT ![c] = Head(notices[c]) = "open"]
  /\ FireConnectedIfReady(pcUp, open')
  /\ UNCHANGED <<engine, pcUp, stopped, inSink, sunk, overflow, connVars, gateVars, up>>

\* The message sink up to the lock: a frame of a stopped peer is dropped.
FrameArrives(c, kind) ==
  /\ engine[c] = "open" /\ inSink[c] = <<>> /\ sunk["data"] + sunk["control"] < MaxFrames
  /\ kind = "step" => c = "data"
  /\ kind = "unpublish" => c = "control"
  /\ ~stopped
  /\ sunk' = [sunk EXCEPT ![c] = @ + 1]
  /\ inSink' = [inSink EXCEPT ![c] = <<[ch |-> c, n |-> sunk'[c], kind |-> kind]>>]
  /\ UNCHANGED <<engine, notices, open, pcUp, connected, stopped, early, ready, overflow, connVars, gateVars, up>>

\* The message sink under _ready_lock: hold the frame within the bound, or
\* schedule it.
FrameLocks(c) ==
  /\ inSink[c] # <<>>
  /\ inSink' = [inSink EXCEPT ![c] = <<>>]
  /\ IF connected
     THEN ready' = ready \o inSink[c] /\ UNCHANGED <<early, overflow>>
     ELSE /\ IF Len(early) >= MaxEarly
             THEN overflow' = overflow \cup Range(inSink[c]) /\ UNCHANGED early
             ELSE early' = early \o inSink[c] /\ UNCHANGED overflow
          /\ UNCHANGED ready
  /\ UNCHANGED <<engine, notices, open, pcUp, connected, stopped, sunk, connVars,
                 gateVars, up>>

-------------------------------------------------------------------------------
\* The gate, on the event loop.

\* _pass: a message goes up as it is; one that unpublishes the track lets its
\* decoder go.
Pass(frames, has) == has /\ \A i \in DOMAIN frames : frames[i].kind # "unpublish"

\* _drain from where it is, with `before` already going up: every message up to
\* the next encoded step, which it then decodes; with none left it ends.
Drains(t, before, has, queued) ==
  \/ /\ \A i \in DOMAIN queued : queued[i].kind # "step"
     /\ up' = up \o before \o queued /\ decoder' = Pass(queued, has)
     /\ backlog' = <<>> /\ draining' = 0
     /\ tasks' = [tasks EXCEPT ![t] = [at |-> "ended", frame |-> <<>>]]
  \/ \E next \in DOMAIN queued :
       LET front == SubSeq(queued, 1, next - 1) IN
       /\ queued[next].kind = "step" /\ \A i \in 1 .. next - 1 : queued[i].kind # "step"
       /\ up' = up \o before \o front /\ decoder' = Pass(front, has)
       /\ backlog' = SubSeq(queued, next + 1, Len(queued))
       /\ tasks' = [tasks EXCEPT ![t] = [at |-> "decoding", frame |-> <<queued[next]>>]]
       /\ UNCHANGED draining

\* submit
GateSubmit(frame) ==
  IF draining = 0 /\ frame.kind # "step"
  THEN /\ up' = Append(up, frame) /\ decoder' = Pass(<<frame>>, decoder)
       /\ UNCHANGED <<backlog, tasks, draining>>
  ELSE /\ backlog' = Append(backlog, frame)
       /\ IF draining = 0
          THEN /\ tasks' = Append(tasks, [at |-> "due", frame |-> <<>>])
               /\ draining' = Len(tasks')
          ELSE UNCHANGED <<tasks, draining>>
       /\ UNCHANGED <<decoder, up>>

\* close: a task that has not begun never runs; one that decodes is unwound
\* later, its `finally` included.
GateClose ==
  /\ backlog' = <<>> /\ decoder' = FALSE /\ draining' = 0
  /\ tasks' = IF draining = 0 THEN tasks
              ELSE [tasks EXCEPT ![draining].at = IF @ = "due" THEN "ended" ELSE "cancelled"]

DrainBegins(t) ==
  /\ tasks[t].at = "due"
  /\ Drains(t, <<>>, decoder, backlog)
  /\ UNCHANGED <<peerVars, ready, connVars>>

\* decode_step_frames returned: the decoders it opened are kept, a refusal is
\* answered on the connection and the request goes no further.
DecodeReturns(t, opened, decoded) ==
  /\ tasks[t].at = "decoding" /\ (decoded => opened)
  /\ Drains(t, IF decoded THEN tasks[t].frame ELSE <<[tasks[t].frame[1] EXCEPT !.kind = "refused"]>>,
            decoder \/ opened, backlog)
  /\ UNCHANGED <<peerVars, ready, connVars>>

DrainUnwinds(t) ==
  /\ tasks[t].at = "cancelled"
  /\ tasks' = [tasks EXCEPT ![t] = [at |-> "ended", frame |-> <<>>]] /\ draining' = 0
  /\ UNCHANGED <<peerVars, ready, connVars, backlog, decoder, up>>

-------------------------------------------------------------------------------
\* The connection, on the event loop.

\* WebRTCConnection._report_loss, its _cancel_tasks included
ReportLoss ==
  IF alive
  THEN /\ alive' = FALSE /\ watchdog' = "none" /\ GateClose /\ up' = Append(up, Report("lost"))
  ELSE UNCHANGED <<alive, watchdog, gateVars, up>>

\* _handle_connected: the pacer and the stats sampler have no part here.
HandleConnected ==
  /\ Head(ready).kind = "connected"
  /\ IF alive THEN watchdog' = "polling" /\ up' = Append(up, Report("connected"))
     ELSE UNCHANGED <<watchdog, up>>
  /\ UNCHANGED <<peerVars, alive, closing, teardown, gateVars>>

\* _message_on_loop, _handle_message and the ping behind it
HandleMessage ==
  /\ Head(ready).ch \in Wires
  /\ GateSubmit(Head(ready))
  /\ UNCHANGED <<peerVars, connVars>>

\* WebRTCPeer._report_loss releases the wire and schedules the connection's.
PeerReportsLoss ==
  /\ Head(ready).kind = "loss"
  /\ IF stopped THEN UNCHANGED <<stopped, connected, pcUp, open, early>>
     ELSE /\ stopped' = TRUE /\ connected' = FALSE /\ pcUp' = FALSE
          /\ open' = [c \in Wires |-> FALSE] /\ early' = <<>>
  /\ UNCHANGED <<engine, notices, inSink, sunk, overflow, connVars, gateVars, up>>

HandleDisconnect ==
  /\ Head(ready).kind = "disconnect"
  /\ ReportLoss
  /\ UNCHANGED <<peerVars, closing, teardown>>

LoopRuns ==
  /\ ready # <<>>
  /\ \/ HandleConnected \/ HandleMessage \/ PeerReportsLoss \/ HandleDisconnect
  /\ ready' = Tail(ready) \o (IF Head(ready).kind = "loss" /\ ~stopped THEN <<Callback("disconnect")>> ELSE <<>>)

\* close: commanded by the session or by a reconnect
CloseWire ==
  /\ alive /\ alive' = FALSE
  /\ watchdog' = "none" /\ GateClose
  /\ teardown' = IF teardown = "none" THEN "asked" ELSE teardown
  /\ closing' = TRUE
  /\ UNCHANGED <<peerVars, ready, up>>

\* close again, once the peer's has returned: on_closed
CloseReturns ==
  /\ closing /\ teardown = "done" /\ closing' = FALSE
  /\ up' = Append(up, Report("closed"))
  /\ UNCHANGED <<peerVars, ready, alive, teardown, watchdog, gateVars>>

\* _watchdog_loop: no ping in time; the peer is closed before the loss goes up.
WatchdogFires ==
  /\ watchdog = "polling" /\ watchdog' = "closing"
  /\ teardown' = IF teardown = "none" THEN "asked" ELSE teardown
  /\ UNCHANGED <<peerVars, ready, alive, closing, gateVars, up>>

WatchdogReports ==
  /\ watchdog = "closing" /\ teardown = "done"
  /\ ReportLoss
  /\ UNCHANGED <<peerVars, ready, closing, teardown>>

\* _teardown on its worker: mark the stop, then release the wire.  The second
\* of two teardowns finds nothing left to do.
TeardownStops ==
  /\ teardown = "asked" /\ teardown' = "set" /\ stopped' = TRUE
  /\ UNCHANGED <<engine, notices, open, pcUp, connected, inSink, early, sunk, overflow, ready, alive,
                 closing, watchdog, gateVars, up>>

TeardownReleases ==
  /\ teardown = "set" /\ teardown' = "done" /\ early' = <<>>
  /\ UNCHANGED <<engine, notices, open, pcUp, connected, stopped, inSink, sunk, overflow, ready, alive,
                 closing, watchdog, gateVars, up>>

WireNext ==
  \/ PeerConnects
  \/ PeerIsLost
  \/ \E c \in Wires : ChannelMoves(c) \/ SetChannelOpen(c) \/ FrameLocks(c)
  \/ \E c \in Wires, kind \in {"plain", "step", "unpublish"} : FrameArrives(c, kind)
  \/ LoopRuns \/ CloseWire \/ CloseReturns \/ WatchdogFires \/ WatchdogReports \/ TeardownStops \/ TeardownReleases
  \/ \E t \in DOMAIN tasks : DrainBegins(t) \/ DrainUnwinds(t)
  \/ \E t \in DOMAIN tasks, opened, decoded \in BOOLEAN : DecodeReturns(t, opened, decoded)

WireSpec == WireInit /\ [][WireNext]_wireVars

-------------------------------------------------------------------------------
\* What waits at the gate, behind what went up.
Decoding == IF draining = 0 THEN <<>> ELSE tasks[draining].frame

\* Everything a client sends on one channel, from what went up to what just
\* arrived, reading the stages a frame passes from the last to the first.
Pipeline(c) == up \o Decoding \o backlog \o ready \o early \o inSink[c]

\* A connection's messages reach the runner in the order they arrived, none
\* lost and none twice, through the early hold, the loop and the gate; only a
\* frame past the early bound is missing (peer.py:919, step_frames.py:21).
FramesGoUpInOrder ==
  alive /\ ~stopped =>
    \A c \in Wires :
      LET line == Pipeline(c)
          mine == {i \in DOMAIN line : line[i].ch = c}
      IN  /\ \A i, j \in mine : i < j => line[i].n < line[j].n
          /\ {line[i].n : i \in mine} = {n \in 1 .. sunk[c] : \A f \in overflow : f.ch = c => f.n # n}

\* The owner hears of the wire before its first frame, and of its end once,
\* whichever of the peer's loss, the watchdog and a commanded close comes first.
ReportsOnce ==
  LET ends == {i \in DOMAIN up : up[i].kind \in {"lost", "closed"}}
      opens == {i \in DOMAIN up : up[i].kind = "connected"}
  IN  /\ \A i, j \in ends : i = j
      /\ \A i, j \in opens : i = j
      /\ \A e \in ends, o \in opens : o < e
      /\ \A i \in DOMAIN up : up[i].ch \in Wires /\ alive =>
           \E o \in opens : o < i

\* What the runner hears of one connection is its wire opening, its frames in
\* order and one end.
WireIsOrdered == FramesGoUpInOrder /\ ReportsOnce

\* "it is released when the connection unpublishes the track or closes"
\* (step_frames.py:15): the gate of a closed connection holds no decoder.
DecodersReleased == ~alive => ~decoder
===============================================================================
