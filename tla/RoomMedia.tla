------------------------------- MODULE RoomMedia -------------------------------
(***************************************************************************)
(* The model's media on its way into a LiveKit room: RoomPacer             *)
(* (transport/livekit/pacer.py) and RoomConnection                         *)
(* (transport/livekit/connection.py).  The pacing thread captures video    *)
(* itself and hands audio to the event loop, whose callbacks run in order; *)
(* one pump task per audio track feeds its source.                         *)
(* External: the room's sources.  A frame is its number, and carries video *)
(* and audio.                                                              *)
(***************************************************************************)
EXTENDS Naturals, Sequences, SequencesExt, FiniteSets

CONSTANTS RoomDepth,      \* RoomPacer._depth
          PumpMax,        \* _AUDIO_PUMP_MAX
          MaxRoomFrames,  \* bound: frames submitted
          MaxCuts         \* bound: flushes

ASSUME RoomMediaAssumption == {RoomDepth, PumpMax, MaxRoomFrames, MaxCuts} \subseteq Nat \ {0}

VARIABLES
  rq,          \* RoomPacer._queue
  rEpoch,      \* _epoch
  rHalted,     \* _stop
  rClosed,     \* RoomPacer._closed
  rBlack,      \* _black_pending
  rTick,       \* the pacing thread: [at, frame]
  rSubmit,     \* the producer: [at, epoch, wait]
  made,        \* frames submitted
  loop,        \* callbacks the loop has not run: frames to queue, Clear and Resume
  pending,     \* _AudioOut.pending
  rPump,       \* the pump task: "waiting", "feeding" or "cancelled", and its frame
  source,      \* what the audio source queues
  rLeaving,    \* RoomConnection.close: "none", "stopping", "joining", "clearing", "closed"
  overran,     \* the pacer did not stop in time
  cuts,        \* the number of frames made before the last flush returned
  nCuts,       \* flushes
  afterCut,    \* a frame of before a flush was captured after it
  afterEnd     \* audio frames that reached the source after close cleared it

roomMediaVars == <<rq, rEpoch, rHalted, rClosed, rBlack, rTick, rSubmit, made, loop, pending, rPump, source,
                   rLeaving, overran, cuts, nCuts, afterCut, afterEnd>>
roomPacerVars == <<rq, rEpoch, rHalted, rClosed, rBlack>>
roomAudioVars == <<pending, rPump, source>>
roomSeenVars  == <<cuts, nCuts, afterCut, afterEnd>>

\* The loop's callbacks that carry no frame: _clear_audio, and close going on.
Clear  == MaxRoomFrames + 1
Resume == MaxRoomFrames + 2

RoomMediaInit ==
  /\ rq = <<>> /\ rEpoch = 0 /\ rHalted = FALSE /\ rClosed = FALSE /\ rBlack = FALSE
  /\ rTick = [at |-> "idle", frame |-> 0] /\ rSubmit = [at |-> "idle"] /\ made = 0
  /\ loop = <<>> /\ pending = <<>> /\ rPump = [at |-> "waiting", frame |-> 0] /\ source = <<>>
  /\ rLeaving = "none" /\ overran = FALSE
  /\ cuts = 0 /\ nCuts = 0 /\ afterCut = FALSE /\ afterEnd = 0

\* submit, of one frame: the epoch is read, then the frame put under _room.
RoomSubmits(wait) ==
  /\ rSubmit.at = "idle" /\ made < MaxRoomFrames
  /\ made' = made + 1
  /\ rSubmit' = [at |-> "putting", epoch |-> rEpoch, wait |-> wait]
  /\ UNCHANGED <<roomPacerVars, rTick, loop, roomAudioVars, rLeaving, overran, roomSeenVars>>

RoomPuts ==
  /\ rSubmit.at = "putting"
  /\ \/ /\ rClosed \/ rEpoch # rSubmit.epoch \/ (rSubmit.wait /\ rHalted)
        /\ UNCHANGED rq
     \/ /\ ~rClosed /\ rEpoch = rSubmit.epoch /\ ~rSubmit.wait /\ Len(rq) >= RoomDepth
        /\ UNCHANGED rq
     \/ /\ ~rClosed /\ rEpoch = rSubmit.epoch /\ ~(rSubmit.wait /\ rHalted) /\ Len(rq) < RoomDepth
        /\ rq' = Append(rq, made)
  /\ rSubmit' = [at |-> "idle"]
  /\ UNCHANGED <<rEpoch, rHalted, rClosed, rBlack, rTick, made, loop, roomAudioVars, rLeaving, overran,
                 roomSeenVars>>

\* _emit_one_tick takes its frame, or the black one, under _room and lets the
\* lock go before it hands the frame over.
RoomTickTakes ==
  /\ rTick.at = "idle" /\ ~rHalted
  /\ rq # <<>> \/ rBlack
  /\ rTick' = [at |-> "sending", frame |-> IF rq = <<>> THEN 0 ELSE Head(rq)]
  /\ rq' = IF rq = <<>> THEN rq ELSE Tail(rq)
  /\ rBlack' = FALSE
  /\ UNCHANGED <<rEpoch, rHalted, rClosed, rSubmit, made, loop, roomAudioVars, rLeaving, overran,
                 roomSeenVars>>

\* _send_frame: the video source takes the picture here, the loop the sound.
RoomSendFrame ==
  /\ rTick.at = "sending"
  /\ rTick' = [at |-> "idle", frame |-> 0]
  /\ loop' = IF rTick.frame = 0 THEN loop ELSE Append(loop, rTick.frame)
  /\ afterCut' = (afterCut \/ rTick.frame \in 1..cuts)
  /\ UNCHANGED <<roomPacerVars, rSubmit, made, roomAudioVars, rLeaving, overran, cuts, nCuts, afterEnd>>

RoomPacerExits ==
  /\ rTick.at = "idle" /\ rHalted /\ rTick' = [at |-> "off", frame |-> 0]
  /\ UNCHANGED <<roomPacerVars, rSubmit, made, loop, roomAudioVars, rLeaving, overran, roomSeenVars>>

\* flush_media: the pacer's queue at once, the audio on the loop
RoomFlush(hold) ==
  /\ nCuts < MaxCuts /\ nCuts' = nCuts + 1
  /\ rEpoch' = rEpoch + 1 /\ rq' = <<>> /\ rBlack' = ~hold
  /\ loop' = Append(loop, Clear) /\ cuts' = made
  /\ UNCHANGED <<rHalted, rClosed, rTick, rSubmit, made, roomAudioVars, rLeaving, overran, afterCut,
                 afterEnd>>

\* _queue_audio drops the oldest when full; _clear_audio drops the audio that
\* waits for the source and what the source queues.
RoomLoopRuns ==
  /\ loop # <<>> /\ Head(loop) # Resume /\ loop' = Tail(loop)
  /\ \/ Head(loop) = Clear /\ pending' = <<>> /\ source' = <<>>
     \/ /\ Head(loop) # Clear /\ UNCHANGED source
        /\ pending' = Append(IF Len(pending) >= PumpMax THEN Tail(pending) ELSE pending, Head(loop))
  /\ UNCHANGED <<roomPacerVars, rTick, rSubmit, made, rPump, rLeaving, overran, roomSeenVars>>

\* _pump_audio: one frame at a time into the source, which takes it or refuses
PumpTakes ==
  /\ rPump.at = "waiting" /\ pending # <<>>
  /\ rPump' = [at |-> "feeding", frame |-> Head(pending)] /\ pending' = Tail(pending)
  /\ UNCHANGED <<roomPacerVars, rTick, rSubmit, made, loop, source, rLeaving, overran, roomSeenVars>>

PumpFeeds(taken) ==
  /\ rPump.frame # 0
  /\ rPump' = [at |-> IF rPump.at = "feeding" THEN "waiting" ELSE rPump.at, frame |-> 0]
  /\ source' = IF taken THEN Append(source, rPump.frame) ELSE source
  /\ afterEnd' = IF taken /\ rLeaving = "closed" THEN afterEnd + 1 ELSE afterEnd
  /\ UNCHANGED <<roomPacerVars, rTick, rSubmit, made, loop, pending, rLeaving, overran, cuts, nCuts, afterCut>>

\* The room plays what its source queues.
SourcePlays ==
  /\ source # <<>> /\ source' = Tail(source)
  /\ UNCHANGED <<roomPacerVars, rTick, rSubmit, made, loop, pending, rPump, rLeaving, overran, roomSeenVars>>

\* Faulty: the pacer is halted and still takes frames.
RoomStopsOpen ==
  /\ rLeaving = "none" /\ rLeaving' = "joining" /\ rHalted' = TRUE
  /\ UNCHANGED <<rq, rEpoch, rClosed, rBlack, rTick, rSubmit, made, loop, roomAudioVars, overran, roomSeenVars>>

\* close: RoomPacer.stop on a worker thread, which marks the stop, waits two
\* seconds for the pacing thread and drops the queue; its end comes back
\* through the loop, behind the callbacks already there.
RoomStops ==
  /\ rLeaving = "none" /\ rLeaving' = "joining" /\ rHalted' = TRUE /\ rClosed' = TRUE
  /\ UNCHANGED <<rq, rEpoch, rBlack, rTick, rSubmit, made, loop, roomAudioVars, overran, roomSeenVars>>

RoomJoins ==
  /\ rLeaving = "joining"
  /\ \/ rTick.at = "off" /\ rq' = <<>> /\ UNCHANGED overran
     \/ rTick.at # "off" /\ overran' = TRUE /\ UNCHANGED rq
  /\ rLeaving' = "clearing" /\ loop' = Append(loop, Resume)
  /\ UNCHANGED <<rEpoch, rHalted, rClosed, rBlack, rTick, rSubmit, made, roomAudioVars, roomSeenVars>>

\* close again: the pump is cancelled, the audio cleared, and the room left.
RoomClears ==
  /\ rLeaving = "clearing" /\ loop # <<>> /\ Head(loop) = Resume
  /\ loop' = Tail(loop) /\ rLeaving' = "closed"
  /\ rPump' = [rPump EXCEPT !.at = "cancelled"] /\ pending' = <<>> /\ source' = <<>>
  /\ UNCHANGED <<roomPacerVars, rTick, rSubmit, made, overran, roomSeenVars>>

RoomMediaNext ==
  \/ \E wait \in BOOLEAN : RoomSubmits(wait)
  \/ \E hold \in BOOLEAN : RoomFlush(hold)
  \/ \E taken \in BOOLEAN : PumpFeeds(taken)
  \/ RoomPuts \/ RoomTickTakes \/ RoomSendFrame \/ RoomPacerExits
  \/ RoomLoopRuns \/ PumpTakes \/ SourcePlays \/ RoomStops \/ RoomJoins \/ RoomClears

RoomMediaSpec == RoomMediaInit /\ [][RoomMediaNext]_roomMediaVars

-------------------------------------------------------------------------------
\* A closed room connection plays out nothing more: its queues are empty and
\* stay so, and at most the one audio frame its source was already taking
\* still reaches the room, unless the pacer overran its two seconds
\* (connection.py:187).
RoomEndsQuiet ==
  rLeaving = "closed" /\ ~overran =>
    /\ rq = <<>> /\ pending = <<>> /\ afterEnd <= 1 /\ Len(source) <= afterEnd
    /\ \A i \in DOMAIN loop : loop[i] = Clear

\* "so none of the flushed content plays afterwards" (pacer.py:151): no frame
\* submitted before a flush is captured once the flush returned.
RoomCutIsClean == ~afterCut
===============================================================================
