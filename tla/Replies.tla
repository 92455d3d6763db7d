-------------------------------- MODULE Replies --------------------------------
(***************************************************************************)
(* Messages between clients and the runtime: the two wire codecs            *)
(* (protocol/v0/codec.py, protocol/v1/codec.py, protocol/base.py), the      *)
(* gateway that reads an inbound frame (message_gateway.py), the runner's   *)
(* answers and notices, and the sends of the connection manager.  A session *)
(* mixes clients of both versions, connections that observe messages as     *)
(* plain data (a LiveKit participant), and commands that came in off the    *)
(* protocol and are answered elsewhere (ReplyRoute).                        *)
(*                                                                         *)
(* A message is its family, its side, its payload's name and its            *)
(* request_id, 0 when empty.  What is inside a payload is left out.  The     *)
(* model takes one command or step at a time, in the order they came.        *)
(***************************************************************************)
EXTENDS Naturals, Sequences, SequencesExt

CONSTANTS
    Wires,            \* connection ids, claimable again in every session
    Requests,         \* request ids: each is used once
    MaxReplySessions,
    MaxNotices        \* broadcasts of the model

ASSUME ReplyAssumption == Requests \subseteq Nat \ {0} /\ MaxReplySessions \in Nat /\ MaxNotices \in Nat

Versions == {"v0", "v1"}
Routes == {"protocol", "observer", "none"}

Message(family, side, payload, id) == [family |-> family, side |-> side, payload |-> payload, id |-> id]

ClientData == {"command", "request_step"}
ClientControl == {"ping", "request_schema", "file_uploaded", "request_clip", "request_recording",
                  "publish_track", "pause_track", "resume_track", "unpublish_track"}
\* What is answered as it is read, and with what.
AtOnce == [publish_track |-> {"publish_track", "error"}, request_schema |-> {"model_schema"},
           request_clip |-> {"clip_ready", "clip_failed"}, request_recording |-> {"clip_ready", "clip_failed"}]

-------------------------------------------------------------------------------
(* The codecs *)

Unsupported == [channel |-> "", frame |-> [form |-> "unsupported"]]
Legacy(form, type, id) == [form |-> form, type |-> type, id |-> id]

\* The types of the runtime scope, as the encoder writes them.
RuntimeName ==
    [ping |-> "ping", request_schema |-> "requestSchema", file_uploaded |-> "fileUploaded",
     request_clip |-> "requestClip", request_recording |-> "requestRecording",
     model_schema |-> "modelSchema", clip_ready |-> "clipReady", clip_failed |-> "clipFailed",
     moderation |-> "moderation", session_ended |-> "sessionEnded"]

\* Faulty: a clip request is read as a request for the whole recording.
RuntimeClientSwapped ==
    [ping |-> "ping", requestSchema |-> "request_schema", fileUploaded |-> "file_uploaded",
     requestClip |-> "request_recording", requestRecording |-> "request_recording"]

\* The types of the runtime scope, as the decoder reads them.
RuntimeClient ==
    [ping |-> "ping", requestSchema |-> "request_schema", fileUploaded |-> "file_uploaded",
     requestClip |-> "request_clip", requestRecording |-> "request_recording"]

RuntimeServer ==
    [modelSchema |-> "model_schema", clipReady |-> "clip_ready", clipFailed |-> "clip_failed",
     moderation |-> "moderation", sessionEnded |-> "session_ended"]

\* V0Codec.encode: legacy JSON on the channel it always used.
EncodeV0(m) ==
    CASE m.family = "data" /\ m.payload \in {"command", "message"} ->
            [channel |-> "data", frame |-> Legacy("application", "named", 0)]
      [] m.family = "control" /\ m.payload \in DOMAIN RuntimeName ->
            [channel |-> "data", frame |-> Legacy("runtime", RuntimeName[m.payload], 0)]
      [] m.family = "control" /\ m.side = "client" /\ m.payload = "publish_track" ->
            [channel |-> "control", frame |-> Legacy("request", "publish_track", m.id)]
      [] m.family = "control" /\ m.payload \in {"pause_track", "resume_track", "unpublish_track"} ->
            [channel |-> "control", frame |-> Legacy("notification", m.payload, 0)]
      [] m.family = "control" /\ m.side = "server" /\ m.payload \in {"publish_track", "error"} ->
            [channel |-> "control",
             frame |-> Legacy("response", IF m.payload = "error" THEN "error" ELSE "granted", m.id)]
      [] OTHER -> Unsupported

Garbled == Message("", "", "garbled", 0)

\* V0Codec.decode.
DecodeV0(f, channel, side) ==
    CASE channel = "control" /\ side = "client" /\ f.form \in {"request", "notification"} ->
            Message("control", side, f.type, f.id)
      [] channel = "control" /\ side = "server" /\ f.form = "response" ->
            Message("control", side, IF f.type = "error" THEN "error" ELSE "publish_track", f.id)
      [] channel = "data" /\ f.form = "application" ->
            Message("data", side, IF side = "client" THEN "command" ELSE "message", 0)
      [] channel = "data" /\ f.form = "runtime" /\ side = "client" /\ f.type \in DOMAIN RuntimeClient ->
            Message("control", side, RuntimeClient[f.type], 0)
      [] channel = "data" /\ f.form = "runtime" /\ side = "server" /\ f.type \in DOMAIN RuntimeServer ->
            Message("control", side, RuntimeServer[f.type], 0)
      [] OTHER -> Garbled

\* V1Codec.encode: the message itself, on its own channel.
EncodeV1(m) == [channel |-> m.family, frame |-> [form |-> "binary", message |-> m]]

\* V1Codec.decode: as the type of the channel and the side.
DecodeV1(f, channel, side) ==
    IF f.form = "binary" /\ f.message.family = channel /\ f.message.side = side
    THEN f.message ELSE Garbled

\* select.
Encode(version, m) == IF version = "v0" THEN EncodeV0(m) ELSE EncodeV1(m)
Decode(version, f, channel, side) ==
    IF version = "v0" THEN DecodeV0(f, channel, side) ELSE DecodeV1(f, channel, side)

\* What a client of a version can be told of m: legacy frames carry an id only
\* with a publish request and its response.
Carried(version, m) ==
    IF version = "v1" \/ (m.family = "control" /\ m.payload \in {"publish_track", "error"})
    THEN m ELSE [m EXCEPT !.id = 0]

-------------------------------------------------------------------------------
VARIABLES
    now,       \* the session, 0 before the first
    registered, \* _by_id: the connections, in the order they registered
    mail,      \* per connection, what reached it: how, the request it answers, of which session
    routes,    \* _reply_routes
    waiting,   \* the commands and steps handed to the model, in order
    ledger,    \* each request: who asked, in which session, and how it ended
    notices,   \* the broadcasts so far, and who was owed each
    astray     \* whether a codec could not carry a message, or a frame was read as another

replyVars == <<now, registered, mail, routes, waiting, ledger, notices, astray>>

Unused == [at |-> "unused", conn |-> "", session |-> 0, payload |-> "", route |-> ""]

ReplyInit ==
    /\ now = 0 /\ registered = <<>>
    /\ mail = [c \in Wires |-> <<>>]
    /\ routes = [c \in Wires |-> [r \in Requests |-> "protocol"]]
    /\ waiting = <<>>
    /\ ledger = [r \in Requests |-> Unused]
    /\ notices = <<>>
    /\ astray = FALSE

Registered == {k.id : k \in ToSet(registered)}
ConnOf(c) == CHOOSE k \in ToSet(registered) : k.id = c

-------------------------------------------------------------------------------
(* Connections and sessions *)

\* A connection registers; only a participant of a room observes.
Registers(c, version, observes) ==
    /\ now > 0 /\ c \notin Registered /\ (observes => version = "v1")
    /\ registered' = Append(registered, [id |-> c, version |-> version, observes |-> observes])
    /\ UNCHANGED <<now, mail, routes, waiting, ledger, notices, astray>>

\* The requests of a connection that left have nobody to be answered to.
Forgotten(cs) ==
    [r \in Requests |-> IF ledger[r].conn \in cs THEN [ledger[r] EXCEPT !.at = "gone"] ELSE ledger[r]]

Leaves(c) ==
    /\ c \in Registered
    /\ registered' = SelectSeq(registered, LAMBDA k : k.id # c)
    /\ mail' = [mail EXCEPT ![c] = <<>>]
    /\ ledger' = Forgotten({c})
    /\ notices' = [i \in DOMAIN notices |-> notices[i] \ {c}]
    /\ UNCHANGED <<now, routes, waiting, astray>>

\* start_session after the last session's close: nobody is connected and no
\* route is kept; what the model has still to answer is.
StartsSession ==
    /\ now < MaxReplySessions /\ registered = <<>>
    /\ now' = now + 1
    /\ routes' = [c \in Wires |-> [r \in Requests |-> "protocol"]]
    /\ UNCHANGED <<registered, mail, waiting, ledger, notices, astray>>

-------------------------------------------------------------------------------
(* Sends *)

\* A frame of m on a connection's channel, and whether its client reads m from it.
OnWire(k, channel, m, of) ==
    LET sent == Encode(k.version, m).frame IN
    [via |-> "wire", id |-> m.id, of |-> of,
     clear |-> Decode(k.version, sent, channel, "server") = Carried(k.version, m)]
AsData(m, of) == [via |-> "observer", id |-> m.id, of |-> of, clear |-> TRUE]

\* send: the observer first, then the frame on the data channel.
SendTo(k, m, of) ==
    (IF k.observes THEN <<AsData(m, of)>> ELSE <<>>) \o <<OnWire(k, "data", m, of)>>

\* Faulty: an acknowledgement for every version.
SendCommandAckToAll(k, m, of) == SendTo(k, m, of)

\* send_command_ack: a legacy client is sent none.
SendCommandAck(k, m, of) ==
    (IF k.observes THEN <<AsData(m, of)>> ELSE <<>>)
        \o (IF k.version = "v0" THEN <<>> ELSE <<OnWire(k, "data", m, of)>>)

\* observe.
ObserveOnly(k, m, of) == IF k.observes THEN <<AsData(m, of)>> ELSE <<>>

\* send_step_reply, and send_step_result for a result that fits.
SendStepReply(k, m, of) == IF k.version = "v0" THEN <<>> ELSE <<OnWire(k, "data", m, of)>>

\* send_response: on the channel the codec picks.
SendResponse(k, m, of) == <<OnWire(k, Encode(k.version, m).channel, m, of)>>

\* The mail of c, when it is still registered.
Mailed(c, misread, Sends(_)) ==
    LET sent == IF c \in Registered THEN Sends(ConnOf(c)) ELSE <<>> IN
    /\ mail' = [mail EXCEPT ![c] = @ \o sent]
    /\ astray' = (astray \/ misread \/ \E i \in DOMAIN sent : ~sent[i].clear)

-------------------------------------------------------------------------------
(* What a client sends *)

Asks(r, c, payload, route, at) ==
    ledger' = [ledger EXCEPT ![r] = [at |-> at, conn |-> c, session |-> now, payload |-> payload,
                                     route |-> route]]

\* A client writes in its version what that version has; the gateway reads in the
\* version negotiated.
Reads(k, m) == Decode(k.version, Encode(k.version, m).frame, Encode(k.version, m).channel, "client")
Writes(k, m) == Encode(k.version, m) # Unsupported

\* A command or a step request goes to the model, under the client's id or, when
\* its version carries none, under one minted for it.
ReceivesRequest(c, payload, r) ==
    /\ c \in Registered /\ ledger[r] = Unused
    /\ LET k == ConnOf(c)
           m == Message("data", "client", payload, r) IN
          /\ Writes(k, m)
          /\ astray' = (astray \/ Reads(k, m) # Carried(k.version, m))
    /\ waiting' = Append(waiting, r)
    /\ Asks(r, c, payload, "protocol", "asked")
    /\ UNCHANGED <<now, registered, mail, routes, notices>>

\* _route_control: publish, schema, clip and recording requests are answered as
\* they are read, under the id of the request.
ReceivesControl(c, payload, r) ==
    /\ c \in Registered /\ ledger[r] = Unused
    /\ LET k == ConnOf(c)
           m == Message("control", "client", payload, r)
           got == Reads(k, m) IN
       \E answer \in (IF got.payload \in DOMAIN AtOnce THEN AtOnce[got.payload] ELSE {}) :
          Mailed(c, got # Carried(k.version, m), LAMBDA w : SendResponse(w, Message("control", "server", answer, IF got.id = 0 THEN r ELSE got.id), now))
    /\ Asks(r, c, payload, "protocol", "answered")
    /\ UNCHANGED <<now, registered, routes, waiting, notices>>

\* Every other control message, and what is heard of it.
ReceivesNotification(c, payload) ==
    /\ c \in Registered /\ ~astray
    /\ LET m == Message("control", "client", payload, 0) IN
          astray' = (Reads(ConnOf(c), m) # Carried(ConnOf(c).version, m))
    /\ UNCHANGED <<now, registered, mail, routes, waiting, ledger, notices>>

\* command_received, for a command off the protocol: the route is kept until the
\* answer takes it.
ReceivesOffProtocol(c, r, route) ==
    /\ c \in Registered /\ ConnOf(c).observes /\ ledger[r] = Unused
    /\ routes' = [routes EXCEPT ![c][r] = route]
    /\ waiting' = Append(waiting, r)
    /\ Asks(r, c, "command", route, "asked")
    /\ UNCHANGED <<now, registered, mail, notices, astray>>

-------------------------------------------------------------------------------
(* The model's answers *)

Answered(r) == ledger' = [ledger EXCEPT ![r].at = IF @ = "asked" THEN "answered" ELSE @]

\* Faulty: an answer does not ask where it goes.
RouteIgnored(r) == "protocol"

\* _reply_route: taken, so kept no longer.
RouteOf(r) == routes[ledger[r].conn][r]

\* _send_addressed and _reject_command: a message, an acknowledgement ("") or an
\* error, where the command asked for it.
AnswerSends(k, m, of, route) ==
    CASE route = "none" -> <<>>
      [] route = "observer" -> ObserveOnly(k, m, of)
      [] route = "protocol" /\ m.payload = "message" -> SendTo(k, m, of)
      [] OTHER -> SendCommandAck(k, m, of)

\* The handler of a command returned, or reported or raised a failure; or the
\* command was refused before it reached the model.
AnswersCommand(r, answer) ==
    /\ waiting # <<>> /\ r = Head(waiting) /\ ledger[r].payload = "command"
    /\ waiting' = Tail(waiting)
    /\ Mailed(ledger[r].conn, FALSE, LAMBDA k :
          AnswerSends(k, Message("data", "server", answer, r), ledger[r].session, RouteOf(r)))
    /\ routes' = [routes EXCEPT ![ledger[r].conn][r] = "protocol"]
    /\ Answered(r)
    /\ UNCHANGED <<now, registered, notices>>

\* A step's result, or its refusal: dropped when its session is over.
AnswersStep(r) ==
    /\ waiting # <<>> /\ r = Head(waiting) /\ ledger[r].payload = "request_step"
    /\ waiting' = Tail(waiting)
    /\ IF ledger[r].session = now
       THEN /\ Mailed(ledger[r].conn, FALSE, LAMBDA k :
                  SendStepReply(k, Message("data", "server", "step_result", r), now))
            /\ Answered(r)
       ELSE /\ ledger' = [ledger EXCEPT ![r].at = "gone"]
            /\ UNCHANGED <<mail, astray>>
    /\ UNCHANGED <<now, registered, routes, notices>>

-------------------------------------------------------------------------------
(* Fan-outs *)

\* Faulty: the first wire that raises ends the fan-out.
ReachedBefore(refusing) ==
    {registered[i].id : i \in {j \in DOMAIN registered : \A n \in 1 .. j : registered[n].id \notin refusing}}

\* _deliver: a wire that raises keeps the frame from nobody else.
Reached(refusing) == Registered \ refusing

\* broadcast: a model's message to every connection in its own version; the plain
\* data reaches an observer whatever its wire does.
Broadcasts(refusing) ==
    /\ now > 0 /\ Len(notices) < MaxNotices /\ refusing \subseteq Registered
    /\ LET m == Message("data", "server", "message", 0)
           Copies(k) == IF k.id \in Reached(refusing) THEN SendTo(k, m, now) ELSE ObserveOnly(k, m, now)
           sent == [c \in Registered |-> Copies(ConnOf(c))] IN
       /\ mail' = [c \in Wires |-> IF c \in Registered THEN mail[c] \o sent[c] ELSE mail[c]]
       /\ astray' = (astray \/ \E c \in Registered : \E i \in DOMAIN sent[c] : ~sent[c][i].clear)
    /\ notices' = Append(notices, Registered \ refusing)
    /\ UNCHANGED <<now, registered, routes, waiting, ledger>>

\* broadcast_response, with a notice that ends the session, and the close of every
\* connection after it.
EndsSession(notice) ==
    /\ now > 0 /\ registered # <<>>
    /\ LET m == Message("control", "server", notice, 0) IN
          astray' = (astray \/ \E k \in ToSet(registered) : ~SendResponse(k, m, now)[1].clear)
    /\ registered' = <<>>
    /\ mail' = [c \in Wires |-> <<>>]
    /\ ledger' = Forgotten(Registered)
    /\ notices' = [i \in DOMAIN notices |-> {}]
    /\ UNCHANGED <<now, routes, waiting>>

ReplyNext ==
    \/ StartsSession
    \/ \E c \in Wires, version \in Versions, observes \in BOOLEAN : Registers(c, version, observes)
    \/ \E c \in Wires : Leaves(c)
    \/ \E c \in Wires, r \in Requests, payload \in ClientData : ReceivesRequest(c, payload, r)
    \/ \E c \in Wires, r \in Requests, payload \in DOMAIN AtOnce : ReceivesControl(c, payload, r)
    \/ \E c \in Wires, payload \in ClientControl \ DOMAIN AtOnce : ReceivesNotification(c, payload)
    \/ \E c \in Wires, r \in Requests, route \in {"observer", "none"} : ReceivesOffProtocol(c, r, route)
    \/ \E r \in Requests, answer \in {"message", "", "error"} : AnswersCommand(r, answer)
    \/ \E r \in Requests : AnswersStep(r)
    \/ \E refusing \in SUBSET Wires : Broadcasts(refusing)
    \/ \E notice \in {"moderation", "session_ended"} : EndsSession(notice)

ReplySpec == ReplyInit /\ [][ReplyNext]_replyVars

-------------------------------------------------------------------------------
(* Properties *)

\* A client understands what it is sent, and is understood: every frame decodes, in
\* the version of its connection and on the channel it travels, to what the sender
\* meant, and no codec is asked for a message it cannot carry (V0Codec raises
\* UnsupportedMessageError, on the model's thread for an answer).
ClientUnderstands == ~astray

\* How many answers to r reached its connection, on the wire or as plain data.
AnswersTo(r, via) ==
    Len(SelectSeq(mail[ledger[r].conn], LAMBDA e : e.via = via /\ e.id = r))

\* An answered request was answered once, where it asked: on the wire for a
\* request in the protocol (except a legacy client's command, whose handler
\* returned no message), to the observer alone for a call, nowhere for a command
\* that wants none (_reply_route: "it is answered once").
AnswersTakeTheirRoute ==
    \A r \in Requests : ledger[r].at = "answered" =>
        LET k == ConnOf(ledger[r].conn)
            plain == AnswersTo(r, "observer")
            framed == AnswersTo(r, "wire") IN
        CASE ledger[r].route = "none" -> plain = 0 /\ framed = 0
          [] ledger[r].route = "observer" -> framed = 0 /\ (k.observes => plain = 1)
          [] OTHER -> /\ framed <= 1 /\ (k.version = "v1" \/ ledger[r].payload # "command" => framed = 1)
                      /\ plain = IF k.observes /\ ledger[r].payload = "command" THEN 1 ELSE 0

\* A broadcast reaches every connection whose own wire took it, whatever another's
\* did: each connection has as many as it was owed (_deliver: "the remaining
\* connections are still owed the frame").
BroadcastsArrive ==
    \A c \in Registered :
        Len(SelectSeq(mail[c], LAMBDA e : e.via = "wire" /\ e.id = 0))
            = Len(SelectSeq(notices, LAMBDA owed : c \in owed))

\* What is not so: a connection hears answers of its own session only.  A command's
\* answer carries no session, and a connection id can be claimed again.
AnswersStayInTheirSession ==
    \A c \in Wires : \A i \in DOMAIN mail[c] : mail[c][i].of = now

===============================================================================
