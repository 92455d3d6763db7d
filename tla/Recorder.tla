-------------------------------- MODULE Recorder --------------------------------
(***************************************************************************)
(* The local recorder (recording/recorder.py, chunk_encoder.py, markers.py) *)
(* as the runner drives it: start() on the loop when a session starts,      *)
(* stop() on a worker thread when it closes, on_chunk() on the model's      *)
(* thread, one feed thread and one watch thread per recording, and the      *)
(* reaper.  The runner does not wait for a stop before it lets the next     *)
(* session start (runner.py _on_transition, _close_session).                *)
(*                                                                         *)
(* A session may be recorded under an id that was used before, and then     *)
(* into the directory its files are still in.  Of a directory only which    *)
(* segment files it has matters, Segment frames to a file, and of a frame   *)
(* the number of the session that emitted it.                               *)
(*                                                                         *)
(* What is ready is claimed under a lock and reported after it is released, *)
(* one call at a time, by the watch threads and by stop alike.              *)
(***************************************************************************)
EXTENDS Naturals, Sequences, FiniteSets

CONSTANTS
    MaxRecordings, \* sessions, and ids to record them under
    FeedDepth,     \* _FEED_DEPTH
    Segment,       \* frames in a segment
    MaxChunks,     \* chunks the model emits
    MaxClips,      \* clip requests
    MaxStuck       \* calls of libav and of the disk that fail, and joins that time out

ASSUME RecorderAssumption ==
    {MaxRecordings, FeedDepth, Segment} \subseteq Nat \ {0} /\ {MaxChunks, MaxClips, MaxStuck} \subseteq Nat

Recordings == 1 .. MaxRecordings
Threads    == {"watch", "stop"} \X Recordings  \* the threads that report what is ready

VARIABLES
    posted,    \* the session the runner is in, or was last in
    open,      \* whether it is still open
    starting,  \* how far Recorder.start is: "no", "reset", "claimed"
    started, halted, feedStop, \* _started, _disabled, _feed_stop
    run,       \* the last session whose start claimed a directory, 0 for none
    ids,       \* the id each session was recorded under, 0 for none
    folder,    \* _session_dir: the directory of an id, 0 for none
    encoder,   \* _encoder: an index of encoders, 0 for none
    encoders,  \* the ChunkEncoders made: directory, frames written, stopped, failed, and who is in a feed
    feedQueue, \* frames, and 0 for stop's sentinel
    feeder,    \* each recording's feed thread
    feedThread,\* _feed_thread: the recording whose thread it is, 0 for none
    watch, watchThread, watchStop, \* the watch threads, _watch_thread, _watch_stop
    stops,     \* each session's stop
    awaits,    \* the thread each stop took to wait for, 0 for none
    emitting,  \* the model's thread in on_chunk
    dirs,      \* the directories: segment files, end markers, whose frames
    nextChunk, \* _announced_chunk_idx + 1
    fed,       \* _markers: frames on the timeline
    clips,     \* _pending: boundary segments
    hands,     \* per thread, what it claimed and has still to report
    announced, \* per session, the segments announced
    fired,     \* the clip-ready notices
    repeated,  \* a segment of a session was announced again
    chunks, requests, stuck,
    overlapped \* the recorder was started again while a thread of an earlier session
               \* could still report

threadVars   == <<feedStop, feeder, feedThread, watch, watchThread, watchStop, stops, awaits>>
claimVars    == <<nextChunk, clips, hands>>
saidVars     == <<announced, fired, repeated>>
boundVars    == <<chunks, requests, stuck>>
recorderVars == <<posted, open, starting, started, halted, run, ids, folder, encoder, encoders, feedQueue,
    threadVars, emitting, dirs, fed, claimVars, saidVars, boundVars, overlapped>>

Idle == [at |-> "idle", frame |-> 0, enc |-> 0]
Done == [Idle EXCEPT !.at = "done"]
Absent == [there |-> FALSE, segs |-> 0, marks |-> {}, from |-> {}]
Disabled == halted \/ ~started \/ (encoder # 0 /\ encoders[encoder].failed)

RecorderInit ==
    /\ posted = 0 /\ open = FALSE /\ starting = "no"
    /\ started = FALSE /\ halted = FALSE /\ feedStop = FALSE
    /\ run = 0 /\ ids = [r \in Recordings |-> 0] /\ folder = 0
    /\ encoder = 0 /\ encoders = <<>> /\ feedQueue = <<>>
    /\ feeder = [r \in Recordings |-> [Idle EXCEPT !.at = "none"]] /\ feedThread = 0
    /\ watch = [r \in Recordings |-> "none"] /\ watchThread = 0 /\ watchStop = FALSE
    /\ stops = [r \in Recordings |-> "none"] /\ awaits = [r \in Recordings |-> 0] /\ emitting = Idle
    /\ dirs = [r \in Recordings |-> Absent] /\ nextChunk = 0 /\ fed = 0 /\ clips = {}
    /\ hands = [t \in Threads |-> {}]
    /\ announced = [r \in Recordings |-> {}] /\ fired = {} /\ repeated = FALSE
    /\ chunks = 0 /\ requests = 0 /\ stuck = 0 /\ overlapped = FALSE

-------------------------------------------------------------------------------
(* The loop *)

\* A thread that may still report what it finds ready.
Reporting(r) == watch[r] = "idle" \/ stops[r] \notin {"none", "queued", "over"}

\* A session starts: _start_recorder.  A recorder that still runs is left as it
\* is; otherwise the last session's state is cleared and its queue emptied.
StartRecorder ==
    /\ ~open /\ starting = "no" /\ posted < MaxRecordings
    /\ posted' = posted + 1 /\ open' = TRUE
    /\ IF started
       THEN UNCHANGED <<starting, halted, encoder, feedQueue, nextChunk, clips, overlapped>>
       ELSE /\ starting' = "reset"
            /\ halted' = FALSE /\ encoder' = 0 /\ feedQueue' = <<>>
            /\ nextChunk' = 0 /\ clips' = {}
            /\ overlapped' = (overlapped \/ \E r \in Recordings : Reporting(r))
    /\ UNCHANGED <<started, run, ids, folder, encoders, threadVars, emitting, dirs, fed, hands, saidVars,
                   boundVars>>

\* Faulty: an id used before keeps its end markers.
ClaimFolderMarked ==
    /\ starting = "reset" /\ starting' = "claimed"
    /\ \E id \in 1 .. posted :
          /\ folder' = id /\ ids' = [ids EXCEPT ![posted] = id]
          /\ dirs' = [dirs EXCEPT ![id].there = TRUE]
    /\ run' = posted /\ fed' = 0
    /\ UNCHANGED <<posted, open, started, halted, encoder, encoders, feedQueue, threadVars, emitting,
                   claimVars, saidVars, boundVars, overlapped>>

\* start, on: the directory of the session's id, new or used before, is claimed
\* and its end markers removed, under the reaper's lock.
ClaimFolder ==
    /\ starting = "reset" /\ starting' = "claimed"
    /\ \E id \in 1 .. posted :
          /\ folder' = id /\ ids' = [ids EXCEPT ![posted] = id]
          /\ dirs' = [dirs EXCEPT ![id].there = TRUE, ![id].marks = {}]
    /\ run' = posted /\ fed' = 0
    /\ UNCHANGED <<posted, open, started, halted, encoder, encoders, feedQueue, threadVars, emitting,
                   claimVars, saidVars, boundVars, overlapped>>

\* start, to its end: the workers.
SpawnWorkers ==
    /\ starting = "claimed" /\ starting' = "no" /\ started' = TRUE
    /\ feedStop' = FALSE /\ feeder' = [feeder EXCEPT ![posted] = Idle] /\ feedThread' = posted
    /\ watchStop' = FALSE /\ watch' = [watch EXCEPT ![posted] = "idle"] /\ watchThread' = posted
    /\ UNCHANGED <<posted, open, halted, run, ids, folder, encoder, encoders, feedQueue, stops, awaits,
                   emitting, dirs, fed, claimVars, saidVars, boundVars, overlapped>>

\* The session closes: its stop is handed to a worker thread, and the session
\* unwinds to ready without it.
EndSession ==
    /\ open /\ starting = "no"
    /\ open' = FALSE /\ stops' = [stops EXCEPT ![posted] = "queued"]
    /\ UNCHANGED <<posted, starting, started, halted, feedStop, run, ids, folder, encoder, encoders, feedQueue,
                   feeder, feedThread, watch, watchThread, watchStop, awaits, emitting, dirs, fed,
                   claimVars, saidVars, boundVars, overlapped>>

\* request_clip and request_recording: the boundary is the segment the timeline
\* ends in.
RequestClip ==
    /\ open /\ starting = "no" /\ ~Disabled /\ fed > 0 /\ requests < MaxClips
    /\ requests' = requests + 1
    /\ clips' = clips \cup {(fed - 1) \div Segment}
    /\ UNCHANGED <<posted, open, starting, started, halted, run, ids, folder, encoder, encoders, feedQueue,
                   threadVars, emitting, dirs, fed, nextChunk, hands, saidVars, chunks, stuck, overlapped>>

-------------------------------------------------------------------------------
(* The model's thread: on_chunk *)

EmitChunk ==
    /\ emitting.at = "idle" /\ chunks < MaxChunks /\ posted > 0
    /\ chunks' = chunks + 1
    /\ emitting' = IF Disabled \/ folder = 0 THEN Idle
                   ELSE [at |-> "checked", frame |-> posted, enc |-> run]
    /\ UNCHANGED <<posted, open, starting, started, halted, run, ids, folder, encoder, encoders, feedQueue,
                   threadVars, dirs, fed, claimVars, saidVars, requests, stuck, overlapped>>

\* _build_encoder on the first frame: into the directory of the moment.
BuildEncoder ==
    /\ emitting.at = "checked"
    /\ emitting' = [emitting EXCEPT !.at = "built"]
    /\ IF encoder # 0 THEN UNCHANGED <<encoder, encoders>>
       ELSE /\ encoders' = Append(encoders, [dir |-> folder, pos |-> 0, stopped |-> FALSE, failed |-> FALSE,
                                             by |-> 0])
            /\ encoder' = Len(encoders')
    /\ UNCHANGED <<posted, open, starting, started, halted, run, ids, folder, feedQueue, threadVars, dirs, fed,
                   claimVars, saidVars, boundVars, overlapped>>

\* _claim_slot finds room, and the frame is queued.
QueueFrame ==
    /\ emitting.at = "built" /\ Len(feedQueue) < FeedDepth
    /\ feedQueue' = Append(feedQueue, emitting.frame)
    /\ fed' = IF emitting.enc = run THEN fed + 1 ELSE fed
    /\ emitting' = Idle
    /\ UNCHANGED <<posted, open, starting, started, halted, run, ids, folder, encoder, encoders, threadVars,
                   dirs, claimVars, saidVars, boundVars, overlapped>>

\* _claim_slot gives up: the chunk does not wait, its wait ran out, or the
\* recording winds down.
DropFrame ==
    /\ emitting.at = "built" /\ Len(feedQueue) >= FeedDepth
    /\ emitting' = Idle
    /\ UNCHANGED <<posted, open, starting, started, halted, run, ids, folder, encoder, encoders, feedQueue,
                   threadVars, dirs, fed, claimVars, saidVars, boundVars, overlapped>>

-------------------------------------------------------------------------------
(* A feed thread: _feed_loop *)

otherThreads == <<feedStop, feedThread, watch, watchThread, watchStop, stops, awaits>>

FeedTakes(r) ==
    /\ feeder[r].at = "idle" /\ feedQueue # <<>>
    /\ feedQueue' = Tail(feedQueue)
    /\ feeder' = [feeder EXCEPT ![r] =
          IF Head(feedQueue) = 0 THEN Done
          ELSE IF encoder = 0 THEN @
          ELSE [at |-> "holding", frame |-> Head(feedQueue), enc |-> encoder]]
    /\ UNCHANGED <<posted, open, starting, started, halted, run, ids, folder, encoder, encoders, otherThreads,
                   emitting, dirs, fed, claimVars, saidVars, boundVars, overlapped>>

FeedExits(r) ==
    /\ feeder[r].at = "idle" /\ feedStop /\ feedQueue = <<>>
    /\ feeder' = [feeder EXCEPT ![r] = Done]
    /\ UNCHANGED <<posted, open, starting, started, halted, run, ids, folder, encoder, encoders, feedQueue,
                   otherThreads, emitting, dirs, fed, claimVars, saidVars, boundVars, overlapped>>

\* feed_video takes the encoder's lock, unless it was stopped: then what is left
\* in the queue is discarded and the thread ends.
FeedEnters(r) ==
    LET e == feeder[r].enc IN
    /\ feeder[r].at = "holding" /\ encoders[e].by = 0
    /\ IF encoders[e].stopped \/ encoders[e].failed
       THEN /\ feeder' = [feeder EXCEPT ![r] = Done] /\ feedQueue' = <<>>
            /\ halted' = (halted \/ ~encoders[e].stopped)
            /\ UNCHANGED encoders
       ELSE /\ feeder' = [feeder EXCEPT ![r].at = "writing"]
            /\ encoders' = [encoders EXCEPT ![e].by = r]
            /\ UNCHANGED <<feedQueue, halted>>
    /\ UNCHANGED <<posted, open, starting, started, run, ids, folder, encoder, otherThreads, emitting, dirs, fed,
                   claimVars, saidVars, boundVars, overlapped>>

\* The frame is written to its segment's file, over one an earlier session left
\* under the same name; in a directory that was reaped nothing is kept.
Written(d, e, f) ==
    IF ~d.there THEN d
    ELSE [d EXCEPT !.segs = IF @ > encoders[e].pos \div Segment THEN @ ELSE encoders[e].pos \div Segment + 1,
                   !.from = @ \cup {f}]

FeedWrites(r) ==
    LET e == feeder[r].enc IN
    /\ feeder[r].at = "writing"
    /\ dirs' = [dirs EXCEPT ![encoders[e].dir] = Written(@, e, feeder[r].frame)]
    /\ encoders' = [encoders EXCEPT ![e].by = 0, ![e].pos = encoders[e].pos + 1]
    /\ feeder' = [feeder EXCEPT ![r] = Idle]
    /\ UNCHANGED <<posted, open, starting, started, halted, run, ids, folder, encoder, feedQueue, otherThreads,
                   emitting, fed, claimVars, saidVars, boundVars, overlapped>>

\* libav refuses the frame: the encoder has failed and the recording is off.
FeedFails(r) ==
    LET e == feeder[r].enc IN
    /\ feeder[r].at = "writing" /\ stuck < MaxStuck /\ stuck' = stuck + 1
    /\ encoders' = [encoders EXCEPT ![e].by = 0, ![e].failed = TRUE]
    /\ feeder' = [feeder EXCEPT ![r] = Done]
    /\ halted' = TRUE /\ feedQueue' = <<>>
    /\ UNCHANGED <<posted, open, starting, started, run, ids, folder, encoder, otherThreads, emitting, dirs, fed,
                   claimVars, saidVars, chunks, requests, overlapped>>

-------------------------------------------------------------------------------
(* What is ready: claimed under a lock, then reported *)

\* _boundary_ready: the file is there, and its successor or the end marker is.
Closed(d, i) ==
    \/ dirs[d].segs > i + 1
    \/ "complete" \in dirs[d].marks /\ dirs[d].segs > i

\* manifest: what GET /clips says of a range that ends in segment i.
Manifest(d, i) ==
    IF ~dirs[d].there THEN "gone"
    ELSE IF Closed(d, i) THEN "ready"
    ELSE IF "incomplete" \in dirs[d].marks THEN "gone" ELSE "pending"

Notice(i, clip) == [run |-> run, at |-> i, clip |-> clip]

\* Faulty: what was claimed is not remembered.
ClaimChunksAgain(t) ==
    /\ \E last \in nextChunk .. nextChunk + dirs[folder].segs :
          /\ \A i \in nextChunk .. last - 1 : Closed(folder, i)
          /\ ~Closed(folder, last)
          /\ hands' = [hands EXCEPT ![t] = {Notice(i, FALSE) : i \in nextChunk .. last - 1}]
    /\ UNCHANGED <<nextChunk, clips>>

\* _fire_ready_chunks, under _chunk_lock: the segments closed since the last claim.
ClaimChunks(t) ==
    /\ \E last \in nextChunk .. nextChunk + dirs[folder].segs :
          /\ \A i \in nextChunk .. last - 1 : Closed(folder, i)
          /\ ~Closed(folder, last)
          /\ hands' = [hands EXCEPT ![t] = {Notice(i, FALSE) : i \in nextChunk .. last - 1}]
          /\ nextChunk' = last
    /\ UNCHANGED clips

\* _fire_ready_clips, under _pending_lock.
ClaimClips(t) ==
    /\ LET landed == {c \in clips : Closed(folder, c)}
       IN  /\ clips' = clips \ landed
           /\ hands' = [hands EXCEPT ![t] = {Notice(c, TRUE) : c \in landed}]
    /\ UNCHANGED nextChunk

\* A callback, once the lock is released: segments in their order, clips one by one.
Report(t) ==
    /\ \E n \in hands[t] :
          /\ n.clip \/ \A m \in hands[t] : n.at <= m.at
          /\ hands' = [hands EXCEPT ![t] = @ \ {n}]
          /\ IF n.clip
             THEN fired' = fired \cup {n} /\ UNCHANGED <<announced, repeated>>
             ELSE /\ announced' = [announced EXCEPT ![n.run] = @ \cup {n.at}]
                  /\ repeated' = (repeated \/ n.at \in announced[n.run])
                  /\ UNCHANGED fired
    /\ UNCHANGED <<posted, open, starting, started, halted, run, ids, folder, encoder, encoders, feedQueue,
                   threadVars, emitting, dirs, fed, nextChunk, clips, boundVars, overlapped>>

\* A pass of _watch_loop that finds something.
WatchClaims(r) ==
    /\ watch[r] = "idle" /\ hands[<<"watch", r>>] = {} /\ folder # 0
    /\ ClaimChunks(<<"watch", r>>) \/ ClaimClips(<<"watch", r>>)
    /\ hands' # hands
    /\ UNCHANGED <<posted, open, starting, started, halted, run, ids, folder, encoder, encoders, feedQueue,
                   threadVars, emitting, dirs, fed, saidVars, boundVars, overlapped>>

WatchExits(r) ==
    /\ watch[r] = "idle" /\ hands[<<"watch", r>>] = {} /\ watchStop
    /\ watch' = [watch EXCEPT ![r] = "done"]
    /\ UNCHANGED <<posted, open, starting, started, halted, feedStop, run, ids, folder, encoder, encoders,
                   feedQueue, feeder, feedThread, watchThread, watchStop, stops, awaits, emitting, dirs, fed,
                   claimVars, saidVars, boundVars, overlapped>>

-------------------------------------------------------------------------------
(* stop, on a worker thread *)

StopBegins(s) ==
    /\ stops[s] = "queued"
    /\ IF ~started
       THEN stops' = [stops EXCEPT ![s] = "over"] /\ UNCHANGED <<halted, feedStop, feedQueue, feedThread, awaits>>
       ELSE /\ stops' = [stops EXCEPT ![s] = "joining"]
            /\ awaits' = [awaits EXCEPT ![s] = feedThread] /\ feedThread' = 0
            /\ halted' = TRUE /\ feedStop' = TRUE /\ feedQueue' = Append(feedQueue, 0)
    /\ UNCHANGED <<posted, open, starting, started, run, ids, folder, encoder, encoders, feeder, watch,
                   watchThread, watchStop, emitting, dirs, fed, claimVars, saidVars, boundVars, overlapped>>

stopOnly == <<feedStop, feeder, feedThread, watch, watchThread, watchStop>>

\* The feed thread has ended, or the drain's time is over; another stop may have
\* taken the thread, and then there is none to wait for.
StopJoins(s) ==
    /\ stops[s] = "joining"
    /\ LET feeds == awaits[s] # 0 /\ feeder[awaits[s]].at # "done"
       IN  (feeds => stuck < MaxStuck) /\ stuck' = IF feeds THEN stuck + 1 ELSE stuck
    /\ stops' = [stops EXCEPT ![s] = "closing"] /\ awaits' = [awaits EXCEPT ![s] = 0]
    /\ UNCHANGED <<posted, open, starting, started, halted, run, ids, folder, encoder, encoders, feedQueue,
                   stopOnly, emitting, dirs, fed, claimVars, saidVars, chunks, requests, overlapped>>

\* ChunkEncoder.stop: with the lock the output is closed, which may fail; a feed
\* that keeps the lock past the timeout leaves it open.
StopCloses(s) ==
    /\ stops[s] = "closing"
    /\ \/ encoder = 0 /\ stops' = [stops EXCEPT ![s] = "complete"] /\ UNCHANGED <<encoders, stuck>>
       \/ /\ encoder # 0
          /\ encoders' = [encoders EXCEPT ![encoder].stopped = TRUE]
          /\ stops' = [stops EXCEPT ![s] = IF encoders[encoder].by = 0 THEN "complete" ELSE "incomplete"]
          /\ UNCHANGED stuck
       \/ /\ encoder # 0 /\ encoders[encoder].by = 0 /\ stuck < MaxStuck /\ stuck' = stuck + 1
          /\ encoders' = [encoders EXCEPT ![encoder].stopped = TRUE]
          /\ stops' = [stops EXCEPT ![s] = "incomplete"]
    /\ UNCHANGED <<posted, open, starting, started, halted, run, ids, folder, encoder, feedQueue, stopOnly,
                   awaits, emitting, dirs, fed, claimVars, saidVars, chunks, requests, overlapped>>

\* The end marker, which the disk may refuse.
StopMarks(s) ==
    /\ stops[s] \in {"complete", "incomplete"}
    /\ \/ /\ dirs' = IF folder = 0 THEN dirs ELSE [dirs EXCEPT ![folder].marks = @ \cup {stops[s]}]
          /\ UNCHANGED stuck
       \/ folder # 0 /\ stuck < MaxStuck /\ stuck' = stuck + 1 /\ UNCHANGED dirs
    /\ stops' = [stops EXCEPT ![s] = "marked"]
    /\ UNCHANGED <<posted, open, starting, started, halted, run, ids, folder, encoder, encoders, feedQueue,
                   stopOnly, awaits, emitting, fed, claimVars, saidVars, chunks, requests, overlapped>>

\* The last announcements: the segments, then the clips.
StopClaims(s) ==
    /\ hands[<<"stop", s>>] = {}
    /\ \/ /\ stops[s] = "marked" /\ stops' = [stops EXCEPT ![s] = "announcing"]
          /\ IF folder = 0 THEN UNCHANGED claimVars ELSE ClaimChunks(<<"stop", s>>)
       \/ /\ stops[s] = "announcing" /\ stops' = [stops EXCEPT ![s] = "firing"]
          /\ IF folder = 0 THEN UNCHANGED claimVars ELSE ClaimClips(<<"stop", s>>)
    /\ UNCHANGED <<posted, open, starting, started, halted, run, ids, folder, encoder, encoders, feedQueue,
                   stopOnly, awaits, emitting, dirs, fed, saidVars, boundVars, overlapped>>

\* The watch thread is told to end and taken to wait for.
StopWinds(s) ==
    /\ stops[s] = "firing" /\ hands[<<"stop", s>>] = {}
    /\ watchStop' = TRUE /\ watchThread' = 0
    /\ awaits' = [awaits EXCEPT ![s] = watchThread] /\ stops' = [stops EXCEPT ![s] = "winding"]
    /\ UNCHANGED <<posted, open, starting, started, halted, feedStop, run, ids, folder, encoder, encoders,
                   feedQueue, feeder, feedThread, watch, emitting, dirs, fed, claimVars, saidVars, boundVars,
                   overlapped>>

\* It has ended, or is in a callback for longer than the stop waits.
StopEnds(s) ==
    /\ stops[s] = "winding"
    /\ LET watches == awaits[s] # 0 /\ watch[awaits[s]] # "done"
       IN  (watches => stuck < MaxStuck) /\ stuck' = IF watches THEN stuck + 1 ELSE stuck
    /\ started' = FALSE
    /\ stops' = [stops EXCEPT ![s] = "over"] /\ awaits' = [awaits EXCEPT ![s] = 0]
    /\ UNCHANGED <<posted, open, starting, halted, run, ids, folder, encoder, encoders, feedQueue, stopOnly,
                   emitting, dirs, fed, claimVars, saidVars, chunks, requests, overlapped>>

\* Faulty: an ended directory is reaped whoever uses it.
ReapAny(d) ==
    /\ dirs[d].marks # {}
    /\ dirs' = [dirs EXCEPT ![d] = Absent]
    /\ UNCHANGED <<posted, open, starting, started, halted, run, ids, folder, encoder, encoders, feedQueue,
                   threadVars, emitting, fed, claimVars, saidVars, boundVars, overlapped>>

\* _reap_expired: a directory that ended, past its retention, and is not the
\* active one.
Reap(d) ==
    /\ d # folder /\ dirs[d].marks # {}
    /\ dirs' = [dirs EXCEPT ![d] = Absent]
    /\ UNCHANGED <<posted, open, starting, started, halted, run, ids, folder, encoder, encoders, feedQueue,
                   threadVars, emitting, fed, claimVars, saidVars, boundVars, overlapped>>

RecorderNext ==
    \/ StartRecorder \/ ClaimFolder \/ SpawnWorkers \/ EndSession \/ RequestClip
    \/ EmitChunk \/ BuildEncoder \/ QueueFrame \/ DropFrame
    \/ \E r \in Recordings :
          \/ FeedTakes(r) \/ FeedExits(r) \/ FeedEnters(r) \/ FeedWrites(r) \/ FeedFails(r)
          \/ WatchClaims(r) \/ WatchExits(r)
          \/ StopBegins(r) \/ StopJoins(r) \/ StopCloses(r) \/ StopMarks(r) \/ StopClaims(r)
          \/ StopWinds(r) \/ StopEnds(r) \/ Reap(r)
    \/ \E t \in Threads : Report(t)

RecorderSpec == RecorderInit /\ [][RecorderNext]_recorderVars

-------------------------------------------------------------------------------
(* Properties *)

\* A session's directory was neither reaped nor claimed by a later session.
Kept(r) == /\ ids[r] # 0 /\ dirs[ids[r]].there
           /\ \A q \in Recordings : q > r => ids[q] # ids[r]

Marked == {"marked", "announcing", "firing", "winding"}

InHand(r, i) == \E t \in Threads : \E n \in hands[t] : ~n.clip /\ n.run = r /\ n.at = i

\* Unless the recorder was started again while a thread of an earlier session could
\* still report: no segment of a session is announced twice, and none is passed
\* over, for one announced before an earlier segment is so only while a thread has
\* that one in hand; and each is closed for as long as its directory is the
\* session's (_fire_ready_chunks, _boundary_ready).
AnnouncedOnce ==
    ~overlapped =>
      /\ ~repeated
      /\ \A r \in Recordings : \A i \in announced[r] :
            /\ \A j \in 0 .. i : j \in announced[r] \/ InHand(r, j)
            /\ Kept(r) => Closed(ids[r], i)

\* A clip reported ready can be fetched for as long as its directory is its
\* session's: its manifest never goes back to pending, nor to gone (manifest,
\* _boundary_ready).
ReadyIsFetchable ==
    ~overlapped => \A f \in fired : Kept(f.run) => Manifest(ids[f.run], f.at) = "ready"

\* The reaper takes no directory a session is recording into; and, overlaps apart,
\* until its stop has marked it that directory does not read as ended, whatever an
\* earlier session of its id left there (start, _reap_expired).
LiveIsKept ==
    started => /\ folder # 0 /\ dirs[folder].there
               /\ \/ overlapped \/ dirs[folder].marks = {}
                  \/ \E s \in Recordings : stops[s] \in Marked

\* Segments are announced once and none is passed over, whichever thread reports
\* them; they and every clip said to be ready can be fetched for as long as their
\* directory is kept; and none is reaped while its session records (recorder.py).
RecordingIsServed == AnnouncedOnce /\ ReadyIsFetchable /\ LiveIsKept

\* "sequential recordings never share a directory" (recorder.py:319): what a
\* directory holds was emitted by a session recorded into it.
RecordingsAreApart == \A d \in Recordings : \A s \in dirs[d].from : ids[s] = d

\* "notifying the consumer once per segment so a recording can be mirrored as it
\* is produced" (recorder.py:890)
NotifiedOncePerSegment == ~repeated

\* "Walks the closed media segments in order" (recorder.py:889): what was announced
\* of a session is always a run of segments from its first.
AnnouncedInOrder == \A r \in Recordings : \A i \in announced[r] : 0 .. i \subseteq announced[r]

\* "Announce every recording segment that has closed since the last poll"
\* (recorder.py:887): of the running session only segments it has fed.
AnnouncedWasFed ==
    starting = "no" /\ run # 0 => \A i \in announced[run] : i * Segment < fed

=============================================================================
