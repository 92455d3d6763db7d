------------------------------- MODULE MediaPath -------------------------------
(***************************************************************************)
(* One WebRTC connection's outbound media, from the model's emit to the    *)
(* wire: MediaPacer (transport/webrtc/pacer.py), the peer's frame queue    *)
(* and its two pump threads (transport/webrtc/peer.py), and the flush and  *)
(* the teardown that cut through both.  Five threads meet here: the        *)
(* producer, the one that flushes, the pacing thread, the drain thread and *)
(* the audio feeder; the event loop and a worker end the connection.       *)
(* Every frame carries video, one audio frame and metadata.                *)
(***************************************************************************)
EXTENDS Naturals, Sequences, SequencesExt

CONSTANTS QueueDepth,  \* MediaPacer's queue_depth
          Depths,      \* queue depths the session sets
          QueueMax,    \* _FRAME_QUEUE_MAX
          AudioMax,    \* _AUDIO_BUFFER_MAX_SAMPLES, in audio frames
          Chunks,      \* sizes of the chunks a model emits
          MaxEmitted,  \* bound: frames emitted
          MaxFlushes   \* bound: flushes

ASSUME MediaAssumption ==
  /\ Depths \cup Chunks \cup {QueueDepth, QueueMax, AudioMax} \subseteq Nat \ {0}
  /\ {MaxEmitted, MaxFlushes} \subseteq Nat

VARIABLES
  pq,          \* MediaPacer._queue
  depth,       \* MediaPacer._depth
  mEpoch,      \* MediaPacer._epoch
  halted,      \* MediaPacer._stop
  finished,    \* MediaPacer._closed
  black,       \* _boundary_black_pending
  last,        \* _last_frame, as a sequence
  tick,        \* the pacing thread: [at, frame]; it holds _dispatch_lock unless idle
  submit,      \* the producer's submit: [at, left, size, wait, epoch]
  emitted,     \* frames emitted so far
  flush,       \* the flushing thread: where it is in flush_media
  called,      \* flushes called
  returned,    \* flushes that returned
  fq,          \* WebRTCPeer._frame_queue: [frame, flushes]
  flushes,     \* WebRTCPeer._flushes
  tracks,      \* _out_tracks is not empty
  done,        \* WebRTCPeer._stop_event
  drain,       \* the drain thread: [at, item]
  feeder,      \* the audio feeder thread runs
  abuf,        \* _audio_bufs, in frames
  mEnding,     \* where the connection's end is, "none" before it
  cause,       \* "close" or "loss"
  video,       \* the distinct model frames put on the video track, in order
  late         \* frames that reached a track after a flush that followed them

pacerVars == <<pq, depth, mEpoch, halted, finished, black, last>>
makerVars == <<submit, emitted>>
cutVars   == <<flush, called, returned>>
queueVars == <<fq, flushes, abuf>>
pumpVars  == <<drain, feeder>>
stopVars  == <<tracks, done>>
endVars   == <<mEnding, cause>>
seenVars  == <<video, late>>
mediaVars == <<pacerVars, tick, makerVars, cutVars, queueVars, pumpVars, stopVars, endVars, seenVars>>

Black == [id |-> 0, after |-> 0, sound |-> FALSE]

MediaInit ==
  /\ pq = <<>> /\ depth = QueueDepth /\ mEpoch = 0 /\ halted = TRUE /\ finished = FALSE
  /\ black = TRUE /\ last = <<>> /\ tick = [at |-> "off", frame |-> Black]
  /\ submit = [at |-> "idle"] /\ emitted = 0
  /\ flush = "idle" /\ called = 0 /\ returned = 0
  /\ fq = <<>> /\ flushes = 0 /\ tracks = TRUE /\ done = FALSE
  /\ drain = [at |-> "idle"] /\ feeder = TRUE /\ abuf = <<>>
  /\ mEnding = "none" /\ cause = "none" /\ video = <<>> /\ late = {}

-------------------------------------------------------------------------------
\* MediaPacer, from the producer's side.

\* submit reads the epoch once, before its first frame.
SubmitBegins(size, wait) ==
  /\ submit.at = "idle" /\ emitted + size <= MaxEmitted
  /\ submit' = [at |-> "putting", left |-> size, size |-> size, wait |-> wait, epoch |-> mEpoch,
                after |-> called]
  /\ UNCHANGED <<pacerVars, tick, emitted, cutVars, queueVars, stopVars, pumpVars, endVars,
                 seenVars>>

SubmitReturns ==
  /\ submit' = [at |-> "idle"]
  /\ UNCHANGED pq

\* Faulty: a submit that waits for room does not look at the stop.
SubmitTurnIgnoresStop ==
  LET capacity == IF depth > submit.size THEN depth ELSE submit.size
      frame    == [id |-> emitted + 1, after |-> submit.after, sound |-> TRUE]
  IN  /\ submit.at = "putting"
      /\ \/ /\ submit.left = 0 \/ mEpoch # submit.epoch
            /\ SubmitReturns /\ UNCHANGED emitted
         \/ /\ submit.left > 0 /\ mEpoch = submit.epoch /\ ~submit.wait
            /\ Len(pq) >= capacity
            /\ SubmitReturns /\ emitted' = emitted + submit.left
         \/ /\ submit.left > 0 /\ mEpoch = submit.epoch /\ ~finished
            /\ Len(pq) < capacity
            /\ pq' = Append(pq, frame) /\ emitted' = emitted + 1
            /\ submit' = [submit EXCEPT !.left = @ - 1]
      /\ UNCHANGED <<depth, mEpoch, halted, finished, black, last, tick, cutVars, queueVars,
                     stopVars, pumpVars, endVars, seenVars>>

\* One turn of submit's loop under _room.  A backpressure submit sleeps while
\* the queue is full, which is this action not being enabled.
SubmitTurn ==
  LET capacity == IF depth > submit.size THEN depth ELSE submit.size
      frame    == [id |-> emitted + 1, after |-> submit.after, sound |-> TRUE]
  IN  /\ submit.at = "putting"
      /\ \/ /\ submit.left = 0 \/ finished \/ mEpoch # submit.epoch \/ (submit.wait /\ halted)
            /\ SubmitReturns /\ UNCHANGED emitted
         \/ /\ submit.left > 0 /\ ~finished /\ mEpoch = submit.epoch /\ ~submit.wait
            /\ Len(pq) >= capacity
            /\ SubmitReturns /\ emitted' = emitted + submit.left
         \/ /\ submit.left > 0 /\ ~finished /\ mEpoch = submit.epoch /\ ~(submit.wait /\ halted)
            /\ Len(pq) < capacity
            /\ pq' = Append(pq, frame) /\ emitted' = emitted + 1
            /\ submit' = [submit EXCEPT !.left = @ - 1]
      /\ UNCHANGED <<depth, mEpoch, halted, finished, black, last, tick, cutVars, queueVars,
                     stopVars, pumpVars, endVars, seenVars>>

SetDepth(d) ==
  /\ d # depth /\ depth' = d
  /\ UNCHANGED <<pq, mEpoch, halted, finished, black, last, tick, makerVars, cutVars, queueVars,
                 stopVars, pumpVars, endVars, seenVars>>

-------------------------------------------------------------------------------
\* The pacing thread: one tick, under _dispatch_lock from taking the frame to
\* handing it over.

\* start, on the connected callback
PacerStarts ==
  /\ mEnding = "none" /\ halted /\ ~finished /\ tick.at = "off"
  /\ halted' = FALSE /\ tick' = [tick EXCEPT !.at = "idle"]
  /\ UNCHANGED <<pq, depth, mEpoch, finished, black, last, makerVars, cutVars, queueVars, stopVars,
                 pumpVars, endVars, seenVars>>

\* _emit_one_tick_locked: the next frame, the boundary black, or the last
\* frame's video again.
TickTakes ==
  /\ tick.at = "idle" /\ flush \in {"idle", "wants"} /\ ~halted
  /\ \/ /\ pq # <<>>
        /\ tick' = [at |-> "sending", frame |-> Head(pq)]
        /\ pq' = Tail(pq) /\ last' = <<Head(pq)>> /\ black' = FALSE
     \/ /\ pq = <<>> /\ black
        /\ tick' = [at |-> "sending", frame |-> Black] /\ black' = FALSE /\ UNCHANGED <<pq, last>>
     \/ /\ pq = <<>> /\ ~black /\ last # <<>>
        /\ tick' = [at |-> "sending", frame |-> [Head(last) EXCEPT !.sound = FALSE]]
        /\ UNCHANGED <<pq, black, last>>
  /\ UNCHANGED <<depth, mEpoch, halted, finished, makerVars, cutVars, queueVars, stopVars, pumpVars,
                 endVars, seenVars>>

\* _pacing_loop ends at a tick's boundary.
PacerExits ==
  /\ tick.at = "idle" /\ halted /\ tick' = [at |-> "off", frame |-> Black]
  /\ UNCHANGED <<pacerVars, makerVars, cutVars, queueVars, stopVars, pumpVars, endVars, seenVars>>

\* send_media: the check, the put, and the check again that empties what a
\* teardown could no longer see.
SendChecks ==
  /\ tick.at = "sending"
  /\ tick' = IF done \/ ~tracks THEN [at |-> "idle", frame |-> Black] ELSE [tick EXCEPT !.at = "putting"]
  /\ UNCHANGED <<pacerVars, makerVars, cutVars, queueVars, stopVars, pumpVars, endVars, seenVars>>

SendPuts ==
  /\ tick.at = "putting" /\ tick' = [tick EXCEPT !.at = "put"]
  /\ fq' = IF Len(fq) < QueueMax THEN Append(fq, [frame |-> tick.frame, flushes |-> flushes]) ELSE fq
  /\ UNCHANGED <<pacerVars, makerVars, cutVars, flushes, stopVars, pumpVars, abuf, endVars,
                 seenVars>>

SendRechecks ==
  /\ tick.at = "put" /\ tick' = [at |-> "idle", frame |-> Black]
  /\ fq' = IF done THEN <<>> ELSE fq
  /\ UNCHANGED <<pacerVars, makerVars, cutVars, flushes, stopVars, pumpVars, abuf, endVars,
                 seenVars>>

-------------------------------------------------------------------------------
\* The peer's pumps.

\* A frame reaches a track: it is late when a flush that followed it returned.
Played(frame) == late' = late \cup (IF frame.after < returned /\ frame.id # 0 THEN {frame.id} ELSE {})

\* _frame_drain_loop: the next bundle, and _push_bundle's first look at the
\* flush count
DrainTakes ==
  /\ drain.at = "idle" /\ ~done /\ fq # <<>>
  /\ fq' = Tail(fq)
  /\ drain' = IF Head(fq).flushes = flushes THEN [at |-> "video", item |-> Head(fq)] ELSE drain
  /\ UNCHANGED <<pacerVars, tick, makerVars, cutVars, flushes, stopVars, feeder, abuf, endVars,
                 seenVars>>

\* The check and the push share _video_lock; a track already released raises,
\* which drops the bundle.
PushVideo ==
  /\ drain.at = "video"
  /\ IF tracks /\ drain.item.flushes = flushes
     THEN /\ drain' = IF drain.item.frame.sound THEN [drain EXCEPT !.at = "audio"] ELSE [at |-> "idle"]
          /\ video' = IF drain.item.frame.id = 0 \/ (video # <<>> /\ Last(video) = drain.item.frame.id)
                      THEN video ELSE Append(video, drain.item.frame.id)
          /\ Played(drain.item.frame)
     ELSE drain' = [at |-> "idle"] /\ UNCHANGED <<seenVars>>
  /\ UNCHANGED <<pacerVars, tick, makerVars, cutVars, queueVars, stopVars, feeder, endVars>>

\* Faulty: the flush count is compared before the bundle's video only.
EnqueueAudioUnchecked ==
  /\ drain.at = "audio" /\ drain' = [at |-> "idle"]
  /\ abuf' = IF done THEN abuf
             ELSE IF Len(abuf) < AudioMax THEN Append(abuf, drain.item.frame)
             ELSE Append(Tail(abuf), drain.item.frame)
  /\ UNCHANGED <<pacerVars, tick, makerVars, cutVars, fq, flushes, stopVars, feeder, endVars,
                 seenVars>>

\* _enqueue_audio: the check and the append share _audio_lock; past the bound
\* the oldest goes.
EnqueueAudio ==
  /\ drain.at = "audio" /\ drain' = [at |-> "idle"]
  /\ abuf' = IF done \/ drain.item.flushes # flushes THEN abuf
             ELSE IF Len(abuf) < AudioMax THEN Append(abuf, drain.item.frame)
             ELSE Append(Tail(abuf), drain.item.frame)
  /\ UNCHANGED <<pacerVars, tick, makerVars, cutVars, fq, flushes, stopVars, feeder, endVars,
                 seenVars>>

\* _push_audio_frame: the frame leaves its buffer and reaches the track under
\* _audio_lock.  A tick that finds none pushes silence, which changes nothing.
AudioFeeds ==
  /\ feeder /\ tracks /\ abuf # <<>>
  /\ abuf' = Tail(abuf) /\ Played(Head(abuf))
  /\ UNCHANGED <<pacerVars, tick, makerVars, cutVars, fq, flushes, stopVars, pumpVars, endVars,
                 video>>

\* _audio_feed_loop ends
FeederExits ==
  /\ feeder /\ done /\ feeder' = FALSE
  /\ UNCHANGED <<pacerVars, tick, makerVars, cutVars, queueVars, stopVars, drain, endVars,
                 seenVars>>

-------------------------------------------------------------------------------
\* WebRTCConnection.flush_media: inside between_ticks the pacer's queue goes
\* first, then what the peer holds.

FlushCalled ==
  /\ flush = "idle" /\ called < MaxFlushes /\ flush' = "wants" /\ called' = called + 1
  /\ UNCHANGED <<pacerVars, tick, makerVars, returned, queueVars, stopVars, pumpVars, endVars,
                 seenVars>>

\* The lock, then MediaPacer.flush under _room.  With hold the boundary black
\* is not re-armed.
FlushPacer(hold) ==
  /\ flush = "wants" /\ tick.at \in {"off", "idle"} /\ flush' = "pacer"
  /\ mEpoch' = mEpoch + 1 /\ pq' = <<>> /\ black' = ~hold /\ last' = <<>>
  /\ UNCHANGED <<depth, halted, finished, tick, makerVars, called, returned, queueVars, stopVars,
                 pumpVars, endVars, seenVars>>

\* WebRTCPeer.flush_media under both locks, and the return
FlushPeer ==
  /\ flush = "pacer" /\ flush' = "idle" /\ returned' = returned + 1
  /\ flushes' = flushes + 1 /\ fq' = <<>> /\ abuf' = <<>>
  /\ UNCHANGED <<pacerVars, tick, makerVars, called, stopVars, pumpVars, endVars, seenVars>>

-------------------------------------------------------------------------------
\* The end of the connection.  A commanded close stops the pacer and then
\* tears the peer down; a lost peer lets its wire go and the pacer stops after.

EndBegins(why) ==
  /\ mEnding = "none" /\ cause' = why
  /\ mEnding' = IF why = "close" THEN "halt" ELSE "mark"
  /\ UNCHANGED <<pacerVars, tick, makerVars, cutVars, queueVars, stopVars, pumpVars, seenVars>>

\* MediaPacer.stop: mark the stop, refuse further media, wait for the thread,
\* then drop what is held.
PacerHalts ==
  /\ mEnding = "halt" /\ mEnding' = "refuse" /\ halted' = TRUE
  /\ UNCHANGED <<pq, depth, mEpoch, finished, black, last, tick, makerVars, cutVars, queueVars,
                 stopVars, pumpVars, cause, seenVars>>

PacerRefuses ==
  /\ mEnding = "refuse" /\ mEnding' = "join" /\ finished' = TRUE
  /\ UNCHANGED <<pq, depth, mEpoch, halted, black, last, tick, makerVars, cutVars, queueVars,
                 stopVars, pumpVars, cause, seenVars>>

PacerReleases ==
  /\ mEnding = "join" /\ tick.at = "off" /\ pq' = <<>> /\ last' = <<>>
  /\ mEnding' = IF cause = "close" THEN "mark" ELSE "ended"
  /\ UNCHANGED <<depth, mEpoch, halted, finished, black, tick, makerVars, cutVars, queueVars,
                 stopVars, pumpVars, cause, seenVars>>

\* _teardown and the peer's _report_loss: mark the stop, release the wire, and
\* drop the media the pumps had not taken.  A teardown first waits a second
\* for each pump, and goes on without it.
PeerStops ==
  /\ mEnding = "mark" /\ mEnding' = "release" /\ done' = TRUE
  /\ UNCHANGED <<pacerVars, tick, makerVars, cutVars, queueVars, tracks, pumpVars, cause, seenVars>>

ReleaseWire ==
  /\ mEnding = "release" /\ mEnding' = "drop" /\ tracks' = FALSE
  /\ UNCHANGED <<pacerVars, tick, makerVars, cutVars, queueVars, done, pumpVars, cause, seenVars>>

EmptyFrameQueue ==
  /\ mEnding = "drop" /\ mEnding' = "silence" /\ fq' = <<>>
  /\ UNCHANGED <<pacerVars, tick, makerVars, cutVars, flushes, stopVars, pumpVars, abuf, cause,
                 seenVars>>

DropAudio ==
  /\ mEnding = "silence" /\ abuf' = <<>>
  /\ mEnding' = IF cause = "close" THEN "ended" ELSE "halt"
  /\ UNCHANGED <<pacerVars, tick, makerVars, cutVars, fq, flushes, stopVars, pumpVars, cause,
                 seenVars>>

MediaNext ==
  \/ \E size \in Chunks, wait \in BOOLEAN : SubmitBegins(size, wait)
  \/ \E d \in Depths : SetDepth(d)
  \/ SubmitTurn \/ PacerStarts \/ TickTakes \/ PacerExits \/ SendChecks \/ SendPuts \/ SendRechecks
  \/ DrainTakes \/ PushVideo \/ EnqueueAudio \/ AudioFeeds \/ FeederExits
  \/ FlushCalled \/ FlushPeer \/ \E hold \in BOOLEAN : FlushPacer(hold)
  \/ \E why \in {"close", "loss"} : EndBegins(why)
  \/ PacerHalts \/ PacerRefuses \/ PacerReleases
  \/ PeerStops \/ ReleaseWire \/ EmptyFrameQueue \/ DropAudio

\* Every thread runs, and the locks are held for bounded work.
MediaFairness ==
  /\ WF_mediaVars(SubmitTurn) /\ WF_mediaVars(PacerExits)
  /\ WF_mediaVars(TickTakes) /\ WF_mediaVars(SendChecks) /\ WF_mediaVars(SendPuts)
  /\ WF_mediaVars(SendRechecks) /\ WF_mediaVars(FlushPeer)

MediaSpec == MediaInit /\ [][MediaNext]_mediaVars /\ MediaFairness

-------------------------------------------------------------------------------
\* "once this returns, no frame queued before it reaches the wire": neither a
\* queued frame, nor one a tick, the drain thread or the feeder had in hand,
\* nor the rest of a chunk being submitted (connection.py:308, peer.py:1294).
CutIsClean == late = {}

\* The model's frames reach the video track in the order it emitted them,
\* whatever the queues drop and the gap-fill repeats.
FramesPlayInOrder == \A i, j \in DOMAIN video : i < j => video[i] < video[j]

\* A connection that ended holds no frame: not in the pacer, the peer's queue
\* or its audio buffer, however the teardown met a tick, a submit or a push
\* under way (pacer.py:260, peer.py:1312).
EndedHoldsNothing == mEnding = "ended" => pq = <<>> /\ last = <<>> /\ fq = <<>> /\ abuf = <<>>

\* What the client sees of the model's media: in order, cut clean by a flush,
\* and nothing kept past the connection's end.
MediaPlays == CutIsClean /\ FramesPlayInOrder /\ EndedHoldsNothing

\* A producer waiting for room is let go: by the pacing thread, by a flush or
\* by the stop (pacer.py:131).
ProducerReturns == submit.at = "putting" ~> submit.at = "idle"
===============================================================================
