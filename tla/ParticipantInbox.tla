--------------------------- MODULE ParticipantInbox ---------------------------
(***************************************************************************)
(* What a room participant sends: the inbound half of                      *)
(* ParticipantConnection (transport/livekit/participant.py).  A message    *)
(* comes as one data packet, or as a byte stream whose reading takes any   *)
(* number of steps; each takes its place in its topic when it arrives and  *)
(* is handed on only in that order.  Messages are numbered by arrival and   *)
(* none is empty.                                                          *)
(***************************************************************************)
EXTENDS Naturals, Sequences, SequencesExt, FiniteSets, Functions

CONSTANTS Channels,          \* the protocol topics
          MaxPacket,         \* bytes of the largest data packet here
          MaxStreamed,       \* MAX_STREAMED_MESSAGE_BYTES
          MaxInbound,        \* MAX_INBOUND_BYTES
          MaxOpenStreams,    \* MAX_OPEN_STREAMS
          MaxArrivals        \* bound: messages the participant starts

ASSUME InboxAssumption == {MaxPacket, MaxStreamed, MaxInbound, MaxOpenStreams, MaxArrivals} \subseteq Nat

VARIABLES
  inClosed,   \* _closed
  inbound,    \* _inbound: per topic the slots in arrival order
  held,       \* _inbound_bytes
  readers,    \* _readers: the bytes each running _read_stream has taken
  arrived,    \* how many messages arrived
  handed      \* what reached the session, per topic

inboxVars == <<inClosed, inbound, held, readers, arrived, handed>>

InboxInit ==
  /\ inClosed = FALSE /\ inbound = [c \in Channels |-> <<>>] /\ held = 0
  /\ readers = << >> /\ arrived = 0 /\ handed = [c \in Channels |-> <<>>]

\* A slot: the message's number, whether it is done, and its bytes, 0 when it
\* was dropped.
Slot(n, size, done) == [n |-> n, size |-> size, done |-> done]

\* _deliver: the done slots at the front of the topic leave it in order, and
\* the bytes of those that carry a message are held no more.
Deliver(q, bytes, c) ==
  LET turn  == {k \in 0..Len(q) : \A j \in 1..k : q[j].done}
      front == SubSeq(q, 1, CHOOSE k \in turn : \A j \in turn : j <= k)
      given == SelectSeq(front, LAMBDA s : s.size > 0)
  IN  /\ inbound' = [inbound EXCEPT ![c] = SubSeq(q, Len(front) + 1, Len(q))]
      /\ held' = bytes - FoldSeq(LAMBDA s, sum : s.size + sum, 0, given)
      /\ handed' = [handed EXCEPT ![c] = @ \o [j \in DOMAIN given |-> given[j].n]]

\* receive_packet
ReceivePacket(c, size) ==
  /\ ~inClosed /\ arrived < MaxArrivals
  /\ arrived' = arrived + 1
  /\ IF held + size > MaxInbound THEN UNCHANGED <<inbound, held, handed>>
     ELSE Deliver(Append(inbound[c], Slot(arrived + 1, size, TRUE)), held + size, c)
  /\ UNCHANGED <<inClosed, readers>>

\* receive_stream: past the bound of open streams, or declared larger than a
\* message may be, it is closed unread.
ReceiveStream(c, oversized) ==
  /\ ~inClosed /\ arrived < MaxArrivals
  /\ arrived' = arrived + 1
  /\ IF oversized \/ Cardinality(DOMAIN readers) >= MaxOpenStreams THEN UNCHANGED <<inbound, readers>>
     ELSE /\ inbound' = [inbound EXCEPT ![c] = Append(@, Slot(arrived + 1, 0, FALSE))]
          /\ readers' = [n \in DOMAIN readers \cup {arrived + 1} |->
                           IF n = arrived + 1 THEN 0 ELSE readers[n]]
  /\ UNCHANGED <<inClosed, held, handed>>

\* Faulty: the bytes of a dropped message are never given back.
StreamDoneKeepsBytes(n, c, size) ==
  /\ readers' = Restrict(readers, DOMAIN readers \ {n})
  /\ LET k == CHOOSE j \in DOMAIN inbound[c] : inbound[c][j].n = n
     IN  Deliver([inbound[c] EXCEPT ![k] = Slot(n, size, TRUE)], held, c)

\* The end of _read_stream, whole or dropped: the slot is done, and unless the
\* connection closed the bytes of a dropped message are given back.
StreamDone(n, c, size) ==
  /\ readers' = Restrict(readers, DOMAIN readers \ {n})
  /\ LET k == CHOOSE j \in DOMAIN inbound[c] : inbound[c][j].n = n
         q == [inbound[c] EXCEPT ![k] = Slot(n, size, TRUE)]
     IN  Deliver(q, IF size = 0 THEN held - readers[n] ELSE held, c)

At(n, c) == n \in DOMAIN readers /\ \E k \in DOMAIN inbound[c] : inbound[c][k].n = n

\* _read_stream takes a chunk: one past the message's bound, or past what may
\* be held of this participant, drops the message.
ReadChunk(n, c, size) ==
  /\ At(n, c)
  /\ IF readers[n] + size > MaxStreamed \/ held + size > MaxInbound THEN StreamDone(n, c, 0)
     ELSE /\ readers' = [readers EXCEPT ![n] = @ + size] /\ held' = held + size
          /\ UNCHANGED <<inbound, handed>>
  /\ UNCHANGED <<inClosed, arrived>>

StreamArrives(n, c) ==
  /\ At(n, c) /\ readers[n] > 0
  /\ StreamDone(n, c, readers[n])
  /\ UNCHANGED <<inClosed, arrived>>

\* The stream times out or ends early.
StreamFails(n, c) ==
  /\ At(n, c)
  /\ StreamDone(n, c, 0)
  /\ UNCHANGED <<inClosed, arrived>>

\* close and drop: _stop_reading closes the readers and forgets what is queued.
StopReading ==
  /\ ~inClosed /\ inClosed' = TRUE
  /\ readers' = << >> /\ inbound' = [c \in Channels |-> <<>>] /\ held' = 0
  /\ UNCHANGED <<arrived, handed>>

InboxNext ==
  \/ StopReading
  \/ \E c \in Channels :
       \/ \E oversized \in BOOLEAN : ReceiveStream(c, oversized)
       \/ \E size \in 1..MaxPacket : ReceivePacket(c, size)
       \/ \E n \in 1..MaxArrivals : \/ StreamArrives(n, c) \/ StreamFails(n, c)
                                    \/ \E size \in 1..MaxPacket : ReadChunk(n, c, size)

InboxSpec == InboxInit /\ [][InboxNext]_inboxVars
-----------------------------------------------------------------------------
\* Messages of a topic reach the session in the order they arrived, however
\* long a stream ahead of a packet takes, and the budget counts exactly the
\* bytes that are held: those being read and those waiting their turn.  A byte
\* never given back would silence the participant for good.
InboxIsExact ==
  /\ \A c \in Channels : \A j, k \in DOMAIN handed[c] : j < k => handed[c][j] < handed[c][k]
  /\ held <= MaxInbound
  /\ held = FoldFunctionOnSet(LAMBDA b, sum : b + sum, 0, readers, DOMAIN readers)
            + FoldFunctionOnSet(LAMBDA q, sum : FoldSeq(LAMBDA s, t : s.size + t, 0, q) + sum,
                                0, inbound, Channels)
  /\ \A c \in Channels : inbound[c] # <<>> => ~inbound[c][1].done

=============================================================================
