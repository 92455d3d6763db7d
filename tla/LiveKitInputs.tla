----------------------------- MODULE LiveKitInputs -----------------------------
(***************************************************************************)
(* How a LiveKit room feeds the model's input tracks: RoomInputs           *)
(* (transport/livekit/media_in.py), against the first-come arbitration of  *)
(* the connection manager, which clients of other transports use too.      *)
(*                                                                         *)
(* Everything here runs on one loop, so a handler is one step; what makes  *)
(* it hard is that releasing an input calls back into RoomInputs before    *)
(* the release returns.  The handlers are therefore written over the       *)
(* record tbl of the tables they share, each callback a function of it.    *)
(* A room client may also send publish_track and unpublish_track itself, as *)
(* clients of other transports do: the session's arbitration then moves,   *)
(* and the room's own record does not.                                     *)
(***************************************************************************)
EXTENDS Naturals, Sequences, SequencesExt, FiniteSetsExt

CONSTANTS Participants,    \* the room's participants, each with its connection
          Others,        \* clients of other transports
          Inputs,        \* the model's input tracks
          StreamInput,   \* the input its byte stream topic is mapped to
          Tracks,        \* the remote tracks
          Owner,         \* the participant that publishes each
          Target,        \* the input each feeds, of its own kind
          FrameSamples,  \* samples of one 10 ms frame
          MaxStreams,    \* bound: byte streams opened
          MaxBytes       \* bound: bytes of one stream

ASSUME InputAssumption ==
  /\ Owner \in [Tracks -> Participants] /\ Target \in [Tracks -> Inputs]
  /\ StreamInput \in Inputs /\ Participants \cap Others = {}
  /\ FrameSamples \in Nat \ {0} /\ MaxStreams \in Nat /\ MaxBytes \in Nat

VARIABLES
  clients,    \* who is registered with the session
  members,    \* the room's _participants
  published,  \* the remote tracks the room has
  tbl,        \* publishers of the manager; _held, _waiting and _tracks of the room
  streams,    \* each byte stream opened: who sent it, and its StreamFramer
  feeding,    \* the stream in _streams for the topic, 0 for none
  sessionOpen,  \* close_all has not begun
  inputsOpen,   \* RoomInputs.close has not run
  asked         \* history: the inputs for which the session followed a
                \* participant's own publish or unpublish message

ends      == <<sessionOpen, inputsOpen>>
inputVars == <<clients, members, published, tbl, streams, feeding, ends, asked>>

NoOne == "nobody"
Free  == [conn |-> NoOne, streamed |-> FALSE]

InputInit ==
  /\ clients = {} /\ members = {} /\ published = {}
  /\ tbl = [publisher |-> [i \in Inputs |-> NoOne], held |-> [i \in Inputs |-> Free],
            waiting |-> <<>>, feeds |-> {}]
  /\ streams = <<>> /\ feeding = 0 /\ sessionOpen = TRUE /\ inputsOpen = TRUE /\ asked = {}

-----------------------------------------------------------------------------
(* The arbitration, as functions of the tables *)

\* _claim: the room's own record first, then ConnectionManager.publish_track.
CanClaim(t, i, c) ==
  IF t.held[i] # Free THEN t.held[i].conn = c
  ELSE t.publisher[i] = NoOne /\ c \in clients

Claim(t, i, c, streamed) ==
  [t EXCEPT !.publisher[i] = IF t.held[i] = Free THEN c ELSE @,
            !.held[i] = [conn |-> c, streamed |-> @.streamed \/ streamed]]

FeedTrack(t, k) == [Claim(t, Target[k], Owner[k], FALSE) EXCEPT !.feeds = @ \cup {k}]

\* _start_waiting: the first track waiting for the input that can claim it.
StartWaiting(t, i) ==
  LET able == {n \in DOMAIN t.waiting : /\ Target[t.waiting[n]] = i
                                        /\ CanClaim(t, i, Owner[t.waiting[n]])} IN
  IF able = {} THEN t
  ELSE FeedTrack([t EXCEPT !.waiting = RemoveAt(@, Min(able))], t.waiting[Min(able)])

\* _announce_input_freed, which reaches RoomInputs.input_freed.
Announce(t, i) ==
  IF inputsOpen /\ t.held[i] = Free THEN StartWaiting(t, i) ELSE t

\* unpublish_track: only the holder's release counts, and the freed input is
\* announced before it returns.
Unpublish(t, i, c) ==
  IF t.publisher[i] # c THEN t ELSE Announce([t EXCEPT !.publisher[i] = NoOne], i)

\* ConnectionManager.drop: every input the connection still held is freed,
\* and then each is announced.
DropPublisher(t, c) ==
  LET held == {i \in Inputs : t.publisher[i] = c} IN
  FoldSet(LAMBDA i, acc : Announce(acc, i),
          [t EXCEPT !.publisher = [i \in Inputs |-> IF i \in held THEN NoOne ELSE @[i]]], held)

-----------------------------------------------------------------------------
(* Byte streams *)

\* StreamFramer.push: whole samples are cut into whole frames, and half a
\* sample and a started frame are carried over.
Push(s, n) ==
  LET bytes   == s.carry + n
      samples == s.pending + bytes \div 2 IN
  [s EXCEPT !.carry = bytes % 2, !.pending = samples % FrameSamples,
            !.sent = @ + (samples - (samples % FrameSamples)), !.taken = @ + n,
            !.late = @ \/ s.ends > 0]

\* The samples sent and held are those of the bytes taken.
WholeSoFar(s) == 2 * (s.sent + s.pending) + s.carry = s.taken

\* _end: what the framer left, as a last shorter frame, then the end frame.  Of an
\* ended stream only whether it was whole is remembered.
EndStream(s) ==
  [s EXCEPT !.ends = @ + 1, !.open = FALSE, !.whole = @ /\ WholeSoFar(s),
            !.carry = 0, !.pending = 0, !.sent = 0, !.taken = 0]

\* on_byte_stream: claims the input for as long as its sender is in the room,
\* and ends the stream that fed the topic before.  A stream whose sender cannot
\* claim it is refused, and nothing changes.
OnByteStream(p) ==
  /\ p \in members /\ inputsOpen /\ Len(streams) < MaxStreams
  /\ LET new == [sender |-> p, carry |-> 0, pending |-> 0, sent |-> 0, taken |-> 0,
                 ends |-> 0, open |-> TRUE, late |-> FALSE, whole |-> TRUE]
         old == IF feeding = 0 THEN streams ELSE [streams EXCEPT ![feeding] = EndStream(@)] IN
     /\ CanClaim(tbl, StreamInput, p)
     /\ tbl' = Claim(tbl, StreamInput, p, TRUE)
     /\ streams' = Append(old, new) /\ feeding' = Len(streams) + 1
  /\ UNCHANGED <<clients, members, published, ends, asked>>

\* _feed takes a chunk; a stream that another has superseded is read no more.
FeedChunk(s, n) ==
  /\ streams[s].open /\ feeding = s /\ streams[s].taken + n <= MaxBytes
  /\ streams' = [streams EXCEPT ![s] = Push(@, n)]
  /\ UNCHANGED <<clients, members, published, tbl, feeding, ends, asked>>

FeedEnds(s) ==
  /\ streams[s].open /\ feeding = s
  /\ streams' = [streams EXCEPT ![s] = EndStream(@)] /\ feeding' = 0
  /\ UNCHANGED <<clients, members, published, tbl, ends, asked>>

-----------------------------------------------------------------------------
(* Tracks and participants *)

\* on_track: feeds its input, or waits for whoever holds it.
OnTrack(k) ==
  /\ Owner[k] \in members /\ k \notin published /\ inputsOpen
  /\ published' = published \cup {k}
  /\ tbl' = IF CanClaim(tbl, Target[k], Owner[k]) THEN FeedTrack(tbl, k)
            ELSE [tbl EXCEPT !.waiting = Append(@, k)]
  /\ UNCHANGED <<clients, members, streams, feeding, ends, asked>>

\* Faulty: the claim goes with the last track, a stream's included.
OnTrackGoneFreesStream(k) ==
  /\ k \in published /\ inputsOpen
  /\ published' = published \ {k}
  /\ LET i    == Target[k]
         gone == [tbl EXCEPT !.waiting = SelectSeq(@, LAMBDA w : w # k), !.feeds = @ \ {k}]
         keeps == \/ k \notin tbl.feeds
                  \/ gone.held[i].conn # Owner[k]
                  \/ \E other \in gone.feeds : Owner[other] = Owner[k] /\ Target[other] = i IN
     tbl' = IF keeps THEN gone
            ELSE StartWaiting(Unpublish([gone EXCEPT !.held[i] = Free], i, Owner[k]), i)
  /\ UNCHANGED <<clients, members, streams, feeding, ends, asked>>

\* on_track_gone: the claim goes with its last track, unless a stream took it.
OnTrackGone(k) ==
  /\ k \in published /\ inputsOpen
  /\ published' = published \ {k}
  /\ LET i    == Target[k]
         gone == [tbl EXCEPT !.waiting = SelectSeq(@, LAMBDA w : w # k), !.feeds = @ \ {k}]
         keeps == \/ k \notin tbl.feeds
                  \/ gone.held[i].conn # Owner[k] \/ gone.held[i].streamed
                  \/ \E other \in gone.feeds : Owner[other] = Owner[k] /\ Target[other] = i IN
     tbl' = IF keeps THEN gone
            ELSE StartWaiting(Unpublish([gone EXCEPT !.held[i] = Free], i, Owner[k]), i)
  /\ UNCHANGED <<clients, members, streams, feeding, ends, asked>>

\* A client registers; a participant's connection is the room's too.
JoinSession(p) ==
  /\ sessionOpen /\ inputsOpen
  /\ p \in (Participants \cup Others) \ (clients \cup members)
  /\ clients' = clients \cup {p} /\ members' = members \cup ({p} \cap Participants)
  /\ UNCHANGED <<published, tbl, streams, feeding, ends, asked>>

\* _remove_participant: RoomInputs.release, then connection_closed.
ReleaseInputs(t, p) ==
  LET quiet == [t EXCEPT !.feeds = {k \in @ : Owner[k] # p},
                         !.waiting = SelectSeq(@, LAMBDA k : Owner[k] # p)]
      freed == {i \in Inputs : t.held[i].conn = p}
      after == FoldSet(LAMBDA i, acc : Unpublish([acc EXCEPT !.held[i] = Free], i, p), quiet, freed)
  IN  FoldSet(LAMBDA i, acc : StartWaiting(acc, i), after, freed)

RemoveClient(p) ==
  /\ p \in members /\ inputsOpen
  /\ clients' = clients \ {p} /\ members' = members \ {p}
  /\ published' = {k \in published : Owner[k] # p}
  /\ tbl' = DropPublisher(ReleaseInputs(tbl, p), p)
  /\ IF feeding # 0 /\ streams[feeding].sender = p
       THEN streams' = [streams EXCEPT ![feeding] = EndStream(@)] /\ feeding' = 0
       ELSE UNCHANGED <<streams, feeding>>
  /\ UNCHANGED <<ends, asked>>

\* RoomSession._finish: the inputs close first, then every participant drops.
CloseInputs ==
  /\ inputsOpen /\ inputsOpen' = FALSE
  /\ IF feeding # 0 THEN streams' = [streams EXCEPT ![feeding] = EndStream(@)] ELSE UNCHANGED streams
  /\ feeding' = 0
  /\ tbl' = [tbl EXCEPT !.waiting = <<>>, !.feeds = {},
                        !.publisher = [i \in Inputs |-> IF @[i] \in members THEN NoOne ELSE @[i]]]
  /\ clients' = clients \ members /\ members' = {} /\ published' = {}
  /\ UNCHANGED <<sessionOpen, asked>>

\* close_all: the session's tables are emptied at once; the room's inputs go on
\* until the room connection's own close reaches them.
CloseAll ==
  /\ sessionOpen /\ sessionOpen' = FALSE
  /\ clients' = {} /\ tbl' = [tbl EXCEPT !.publisher = [i \in Inputs |-> NoOne]]
  /\ UNCHANGED <<members, published, streams, feeding, inputsOpen, asked>>

\* _connection_closed: the participants are taken out and closed, each with its
\* queued messages, before _finish closes the inputs.
ParticipantsClose ==
  /\ ~sessionOpen /\ members # {} /\ members' = {}
  /\ UNCHANGED <<clients, published, tbl, streams, feeding, ends, asked>>

-----------------------------------------------------------------------------
(* What any client may ask for by message *)

Ask(c, i) == asked' = IF c \in Participants THEN asked \cup {i} ELSE asked

\* publish_requested: granted if the session's slot is free; a refusal changes nothing.
ClientPublishes(c, i) ==
  /\ c \in clients /\ tbl.publisher[i] = NoOne
  /\ tbl' = [tbl EXCEPT !.publisher[i] = c] /\ Ask(c, i)
  /\ UNCHANGED <<clients, members, published, streams, feeding, ends>>

\* track_unpublished: only what the session's holder sends counts.
ClientUnpublishes(c, i) ==
  /\ c \in clients /\ tbl.publisher[i] = c
  /\ tbl' = Unpublish(tbl, i, c) /\ Ask(c, i)
  /\ UNCHANGED <<clients, members, published, streams, feeding, ends>>

OtherLeaves(c) ==
  /\ c \in clients \cap Others
  /\ clients' = clients \ {c} /\ tbl' = DropPublisher(tbl, c)
  /\ UNCHANGED <<members, published, streams, feeding, ends, asked>>

InputNext ==
  \/ \E p \in Participants : OnByteStream(p) \/ RemoveClient(p)
  \/ \E s \in DOMAIN streams : FeedEnds(s) \/ \E n \in 1..MaxBytes : FeedChunk(s, n)
  \/ \E k \in Tracks : OnTrack(k) \/ OnTrackGone(k)
  \/ \E c \in Participants \cup Others :
       \/ JoinSession(c)
       \/ \E i \in Inputs : ClientPublishes(c, i) \/ ClientUnpublishes(c, i)
  \/ \E c \in Others : OtherLeaves(c)
  \/ CloseAll \/ ParticipantsClose \/ CloseInputs

InputSpec == InputInit /\ [][InputNext]_inputVars
-----------------------------------------------------------------------------
(* Properties *)

\* Within the room only the participant its record names feeds an input, from
\* tracks or streams, whichever callbacks ran inside a release; and that record
\* agrees with the session's for every input that no participant's own publish or
\* unpublish message moved.
FedByItsHolder ==
  inputsOpen =>
    /\ \A k \in tbl.feeds : tbl.held[Target[k]].conn = Owner[k]
    /\ feeding # 0 => tbl.held[StreamInput].conn = streams[feeding].sender
    /\ sessionOpen => \A p \in Participants, i \in Inputs \ asked :
         tbl.held[i].conn = p <=> tbl.publisher[i] = p

\* No track waits for an input that nobody holds, in the room or in the session:
\* its sender is never told it was refused, so a missed start would leave it
\* silent for good.
NoneWaitsForFree ==
  sessionOpen => \A n \in DOMAIN tbl.waiting :
    LET i == Target[tbl.waiting[n]] IN tbl.publisher[i] # NoOne \/ tbl.held[i] # Free

\* A byte stream's samples are framed without loss across chunk boundaries,
\* it ends once, and nothing of it follows its end frame, whoever ends it.
StreamsIntact ==
  \A s \in DOMAIN streams :
    LET st == streams[s] IN
    /\ st.whole /\ WholeSoFar(st)
    /\ st.ends <= 1 /\ ~st.late
    /\ st.open <=> feeding = s

\* media_in: "Each input track has one owner across the session, whatever its
\* transport".  An owner in the room that sends unpublish_track keeps feeding the
\* input while the session gives it to the next client.
OneOwner ==
  sessionOpen /\ inputsOpen => \A k \in tbl.feeds : tbl.publisher[Target[k]] = Owner[k]

\* An input is fed by whoever holds it, whole, and by someone while anyone waits.
InputsHold == FedByItsHolder /\ NoneWaitsForFree /\ StreamsIntact

=============================================================================
