----------------------------- MODULE StepMedia -----------------------------
(***************************************************************************)
(* The media of a stepped session, in and out.  In: the frames of a step   *)
(* request are checked and decoded at the transport                        *)
(* (transport/step_frames.py), checked against the model's tracks and      *)
(* their buffers by the runner, and written to the buffers when the step   *)
(* runs.  Out: a step's bundle is cut into frames, one per batched frame   *)
(* for the streamed path (core/values.py) and as wire frames for a step's  *)
(* result (protocol/frames.py).                                            *)
(*                                                                         *)
(* A frame keeps its encoding, dtype, shape and size in bytes, or for      *)
(* H.264 the NAL units it holds; a picture keeps the frame it was decoded  *)
(* from.                                                                   *)
(***************************************************************************)
EXTENDS Integers, Sequences, FiniteSets

CONSTANTS
    StepRequests,  \* the media inputs a client may send: sequences of entries
    Bundles,       \* the outputs a model may emit: [video, audio]
    MaxLen,        \* the video buffer's bound, in frames
    MaxFrames,     \* the audio buffer's bound, in frames
    MaxAudio,      \* the audio buffer's bound, in samples
    MaxStepCalls   \* bound: step requests

VARIABLES
    asking,        \* the request in hand: "none", "decoding", "checking", "admitted", "refused"
    request,       \* its media input
    inDecoder,     \* pictures a failed decode left in the track's decoder
    pictures,      \* the picture of each encoded frame, by <<entry, position>>
    buffers,       \* each input track's buffered frames
    called,        \* step requests so far
    emitted        \* the last bundle cut into frames: [bundle, frames, wire]

mediaVars == <<asking, request, inDecoder, pictures, buffers, called, emitted>>

InputTracks == [cam |-> "video", mic |-> "audio"]
NoPictures == <<>>
NothingOut == [bundle |-> <<>>, frames |-> <<>>, wire |-> 0]

-----------------------------------------------------------------------------
(* Raw frames (protocol/frames.py) *)

RECURSIVE Product(_)
Product(shape) == IF shape = <<>> THEN 1 ELSE Head(shape) * Product(Tail(shape))

RawLayout == [video |-> [dtype |-> "uint8", rank |-> 3, width |-> 1],
              audio |-> [dtype |-> "int16", rank |-> 2, width |-> 2]]

CheckRaw(frame, kind) ==
    LET layout == RawLayout[kind]
    IN  /\ frame.dtype = layout.dtype
        /\ Len(frame.shape) = layout.rank /\ \A i \in DOMAIN frame.shape : frame.shape[i] # 0
        /\ kind = "video" => frame.shape[3] = 3
        /\ frame.size = Product(frame.shape) * layout.width

CheckFrame(frame, kind) == frame.encoding = "raw" /\ CheckRaw(frame, kind)

\* Several channels are mixed down to one, so the samples are the last
\* dimension alone.
SampleCount(frame) == frame.shape[Len(frame.shape)]

-----------------------------------------------------------------------------
(* Encoded frames (transport/step_frames.py).  A NAL unit is "sps" (or any  *)
(* other unit that starts an access unit), or a slice: "idr" and "slice"    *)
(* begin a picture, "idr+" and "slice+" continue one.                       *)

Slices == {"idr", "slice", "idr+", "slice+"}
Begins == {"idr", "slice"}

FirstSlice(units) ==
    LET S == {i \in DOMAIN units : units[i] \in Slices}
    IN  IF S = {} THEN 0 ELSE CHOOSE i \in S : \A j \in S : i <= j

\* Faulty: a second picture in the frame is not noticed.
AccessUnitLenient(units) == FirstSlice(units) # 0

AccessUnit(units) ==
    LET first == FirstSlice(units)
    IN  /\ first # 0
        /\ \A i \in first + 1 .. Len(units) : units[i] \notin Begins \cup {"sps"}

EncodedPositions(entry) ==
    SelectSeq([p \in DOMAIN entry.frames |-> p], LAMBDA p : entry.frames[p].encoding = "h264")

HasEncoded(entry) == \E p \in DOMAIN entry.frames :
                        entry.frames[p].encoding \notin {"raw", "unspecified"}

\* _check_entry, for an entry with an encoded frame.
CheckEntry(entry) ==
    LET at == EncodedPositions(entry)
    IN  /\ \A p \in DOMAIN entry.frames :
                entry.frames[p].encoding \in {"raw", "unspecified", "h264"}
        /\ entry.track \in DOMAIN InputTracks /\ InputTracks[entry.track] = "video"
        /\ \A k \in DOMAIN at : AccessUnit(entry.frames[at[k]].units)
        /\ LET units == entry.frames[at[1]].units
           IN  units[FirstSlice(units)] \in {"idr", "idr+"}

\* What the decoder returns for an entry's packets (external): the picture
\* each packet begins with, under the packet's index, after whatever was left
\* inside it.
Decoded(e, entry, left) ==
    LET at == EncodedPositions(entry)
    IN  [k \in DOMAIN at |->
            IF k <= Len(left) THEN left[k] ELSE [call |-> called, entry |-> e, position |-> at[k]]]

\* Faulty: the decoder is not reset before the next request's packets.
DecodeUnflushed(e, entry) == Decoded(e, entry, inDecoder)

\* TrackDecoder.decode: reset first.
DecodeStream(e, entry) == Decoded(e, entry, <<>>)

EncodedEntries == {e \in DOMAIN request : HasEncoded(request[e])}

PicturesOf ==
    LET Keys == UNION {{<<e, p>> : p \in {EncodedPositions(request[e])[k] :
                            k \in DOMAIN EncodedPositions(request[e])}} : e \in EncodedEntries}
        Index(e, p) == CHOOSE k \in DOMAIN EncodedPositions(request[e]) :
                            EncodedPositions(request[e])[k] = p
    IN  [key \in Keys |-> DecodeStream(key[1], request[key[1]])[Index(key[1], key[2])]]

ReceiveStep(media) ==
    /\ asking = "none" /\ called < MaxStepCalls
    /\ called' = called + 1
    /\ request' = media
    /\ asking' = IF \E e \in DOMAIN media : HasEncoded(media[e]) THEN "decoding" ELSE "checking"
    /\ pictures' = NoPictures
    /\ emitted' = NothingOut
    /\ UNCHANGED <<inDecoder, buffers>>

DecodeStepFrames ==
    /\ asking = "decoding"
    /\ IF \A e \in EncodedEntries : CheckEntry(request[e])
         THEN /\ asking' = "checking" /\ pictures' = PicturesOf
              /\ inDecoder' = <<>>
         ELSE /\ asking' = "refused"
              /\ UNCHANGED <<pictures, inDecoder>>
    /\ UNCHANGED <<request, buffers, called, emitted>>

\* The stream does not decode past its first packet, whose picture stays
\* inside; or it decodes to too few pictures, or to a shape it did not declare.
DecodeFails ==
    /\ asking = "decoding"
    /\ \A e \in EncodedEntries : CheckEntry(request[e])
    /\ LET e == CHOOSE e \in EncodedEntries : TRUE
       IN  inDecoder' \in {<<>>, <<DecodeStream(e, request[e])[1]>>}
    /\ asking' = "refused"
    /\ UNCHANGED <<request, pictures, buffers, called, emitted>>

-----------------------------------------------------------------------------
(* The runner's check *)

Samples(entry) ==
    LET Sum[k \in 0 .. Len(entry.frames)] ==
            IF k = 0 THEN 0 ELSE Sum[k - 1] + SampleCount(entry.frames[k])
    IN  Sum[Len(entry.frames)]

\* Faulty: the samples the frames carry are left out.
HoldsByCount(kind, entry) ==
    IF kind = "audio" THEN Len(entry.frames) <= MaxFrames ELSE Len(entry.frames) <= MaxLen

Holds(kind, entry) ==
    IF kind = "audio"
      THEN Len(entry.frames) <= MaxFrames /\ Samples(entry) <= MaxAudio
      ELSE Len(entry.frames) <= MaxLen

CheckMediaEntry(e) ==
    LET entry == request[e]
        kind == InputTracks[entry.track]
    IN  /\ entry.track \in DOMAIN InputTracks
        /\ \A earlier \in 1 .. e - 1 : request[earlier].track # entry.track
        /\ entry.kind \in {"unspecified", kind}
        /\ \A p \in DOMAIN entry.frames :
                IF <<e, p>> \in DOMAIN pictures THEN kind = "video"
                ELSE CheckFrame(entry.frames[p], kind)
        /\ Holds(kind, entry)

CheckMediaInput ==
    /\ asking = "checking"
    /\ asking' = IF \A e \in DOMAIN request : CheckMediaEntry(e) THEN "admitted" ELSE "refused"
    /\ UNCHANGED <<request, inDecoder, pictures, buffers, called, emitted>>

AnswerRefusal ==
    /\ asking = "refused"
    /\ asking' = "none" /\ request' = <<>> /\ pictures' = NoPictures
    /\ UNCHANGED <<inDecoder, buffers, called, emitted>>

-----------------------------------------------------------------------------
(* Running the step *)

\* The frame a model reads: where it came from, and the picture in it.
Delivered(e, p) ==
    LET own == [call |-> called, entry |-> e, position |-> p]
    IN  [of |-> own,
         picture |-> IF <<e, p>> \in DOMAIN pictures THEN pictures[<<e, p>>] ELSE own,
         samples |-> IF request[e].track = "mic" THEN SampleCount(request[e].frames[p]) ELSE 0]

Sampled(buffer) ==
    LET Sum[k \in 0 .. Len(buffer)] == IF k = 0 THEN 0 ELSE Sum[k - 1] + buffer[k].samples
    IN  Sum[Len(buffer)]

OverBound(track, buffer) ==
    IF InputTracks[track] = "audio"
      THEN Sampled(buffer) > MaxAudio \/ Len(buffer) > MaxFrames
      ELSE Len(buffer) > MaxLen

RECURSIVE EvictFrames(_, _)
EvictFrames(track, buffer) ==
    IF Len(buffer) > 1 /\ OverBound(track, buffer) THEN EvictFrames(track, Tail(buffer)) ELSE buffer

RECURSIVE PushAll(_, _, _)
PushAll(track, buffer, frames) ==
    IF frames = <<>> THEN buffer
    ELSE PushAll(track, EvictFrames(track, Append(buffer, Head(frames))), Tail(frames))

FramesFor(track) ==
    LET E == {e \in DOMAIN request : request[e].track = track}
    IN  IF E = {} THEN <<>>
        ELSE LET e == CHOOSE e \in E : TRUE
             IN  [p \in DOMAIN request[e].frames |-> Delivered(e, p)]

RunRequestedStep ==
    /\ asking = "admitted"
    /\ buffers' = [t \in DOMAIN buffers |-> PushAll(t, buffers[t], FramesFor(t))]
    /\ asking' = "running"
    /\ UNCHANGED <<request, inDecoder, pictures, called, emitted>>

\* process_input reads what it wants of the buffers, or refuses the step and
\* leaves the frames where they are.
FinishStep(reads) ==
    /\ asking = "running"
    /\ buffers' = IF reads THEN [t \in DOMAIN buffers |-> <<>>] ELSE buffers
    /\ asking' = "none" /\ request' = <<>> /\ pictures' = NoPictures
    /\ UNCHANGED <<inDecoder, called, emitted>>

-----------------------------------------------------------------------------
(* Output.  A bundle has the batch sizes of its video tracks (0 for a track *)
(* without a batch) and the samples of its audio.                           *)

Batches(b) == {b.video[t] : t \in DOMAIN b.video} \ {0}
FrameCount(b) == IF Batches(b) = {} THEN 1 ELSE CHOOSE n \in Batches(b) : TRUE

\* Faulty: the audio left over by the division is dropped.
AudioShareEven(samples, n, i) == samples \div n

\* numpy's array_split: the first of the frames take the rest.
AudioShare(samples, n, i) == samples \div n + (IF i <= samples % n THEN 1 ELSE 0)

\* Each frame has every video track (its own frame of a batch, or the one
\* payload repeated) and its share of the audio.
SplitBatch(b) ==
    [i \in 1 .. FrameCount(b) |->
        [video |-> [t \in DOMAIN b.video |-> IF b.video[t] = 0 THEN 1 ELSE i],
         audio |-> IF Batches(b) = {} THEN b.audio ELSE AudioShare(b.audio, FrameCount(b), i)]]

\* The wire frames of a step's result: one per frame of a batch, one for an
\* unbatched track, none for audio without samples.
TrackFrames(b) ==
    [t \in DOMAIN b.video |-> IF b.video[t] = 0 THEN 1 ELSE b.video[t]]

\* Two batches that disagree are an error of the emission; nothing goes out.
EmitBundle(b) ==
    /\ asking = "none"
    /\ Cardinality(Batches(b)) <= 1
    /\ emitted' = [bundle |-> <<b>>, frames |-> SplitBatch(b), wire |-> TrackFrames(b)]
    /\ UNCHANGED <<asking, request, inDecoder, pictures, buffers, called>>

-----------------------------------------------------------------------------
MediaInit ==
    /\ asking = "none" /\ request = <<>> /\ inDecoder = <<>> /\ pictures = NoPictures
    /\ buffers = [t \in DOMAIN InputTracks |-> <<>>]
    /\ called = 0 /\ emitted = NothingOut

MediaNext ==
    \/ \E media \in StepRequests : ReceiveStep(media)
    \/ DecodeStepFrames
    \/ DecodeFails
    \/ CheckMediaInput
    \/ AnswerRefusal
    \/ RunRequestedStep
    \/ \E reads \in BOOLEAN : FinishStep(reads)
    \/ \E b \in Bundles : EmitBundle(b)

StepMediaSpec == MediaInit /\ [][MediaNext]_mediaVars

-----------------------------------------------------------------------------
(* Properties *)

\* A step runs on all of its own frames, in order, each with the picture of
\* its own packet: none was evicted by another of the request or by frames a
\* refused step left behind, none holds a picture an earlier request left in
\* the decoder, and every picture a packet carries is read
\* (decode_step_frames, input_overflow, _run_requested_step).
StepReadsItsFrames ==
    asking = "running" =>
        \A t \in DOMAIN buffers :
            LET mine == SelectSeq(buffers[t], LAMBDA f : f.of.call = called)
            IN  /\ mine = FramesFor(t)
                /\ \A k \in DOMAIN mine :
                    /\ mine[k].picture = mine[k].of
                    /\ LET frame == request[mine[k].of.entry].frames[mine[k].of.position]
                       IN  frame.encoding = "h264" =>
                            Len(SelectSeq(frame.units, LAMBDA u : u \in Begins)) <= 1

\* A bundle cut into frames loses nothing: the frames' audio adds up to the
\* bundle's, and each track has as many distinct frames as the step's result
\* carries for it (split_batch, track_frames).
SplitKeepsEverything ==
    emitted # NothingOut =>
        LET b == emitted.bundle[1]
            Sum[i \in 0 .. Len(emitted.frames)] ==
                IF i = 0 THEN 0 ELSE Sum[i - 1] + emitted.frames[i].audio
        IN  /\ Sum[Len(emitted.frames)] = b.audio
            /\ \A t \in DOMAIN b.video :
                    Cardinality({emitted.frames[i].video[t] : i \in DOMAIN emitted.frames})
                        = emitted.wire[t]

=============================================================================
