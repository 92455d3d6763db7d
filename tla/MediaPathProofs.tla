--------------------------- MODULE MediaPathProofs ---------------------------
(***************************************************************************)
(* Proofs about MediaPath, TrackPauses, RoomMedia and WirePeer, for every  *)
(* queue depth, chunk size and bound: any number of frames, flushes,       *)
(* emissions and pauses.                                                   *)
(***************************************************************************)
EXTENDS MediaPath, TrackPauses, RoomMedia, WirePeer, TLAPS

-------------------------------------------------------------------------------
(* The inductive invariant.                                                *)

Frames  == [id : Nat, after : Nat, sound : BOOLEAN]
Bundles == [frame : Frames, flushes : Nat]

Putting == [at : {"putting"}, left : Nat, size : Nat, wait : BOOLEAN, epoch : Nat, after : Nat]
Pushing == [at : {"video", "audio"}, item : Bundles]
TickSteps == {"off", "idle", "sending", "putting", "put"}

MediaTypeOK ==
  /\ pq \in Seq(Frames) /\ last \in Seq(Frames) /\ abuf \in Seq(Frames) /\ fq \in Seq(Bundles)
  /\ mEpoch \in Nat /\ emitted \in Nat /\ called \in Nat /\ returned \in Nat /\ flushes \in Nat
  /\ tick \in [at : TickSteps, frame : Frames]
  /\ submit = [at |-> "idle"] \/ submit \in Putting
  /\ drain = [at |-> "idle"] \/ drain \in Pushing
  /\ video \in Seq(Nat)
  /\ Len(last) <= 1

\* A tick from the frame it takes to the frame it puts, under _dispatch_lock.
InHand == tick.at \in {"sending", "putting"}

\* The two counts a flush moves, and the lock it takes between ticks.
FlushCounts ==
  /\ flush \in {"idle", "wants", "pacer"} /\ flushes = returned
  /\ called = returned + (IF flush = "idle" THEN 0 ELSE 1)
  /\ mEpoch = returned + (IF flush = "pacer" THEN 1 ELSE 0)
  /\ tick.at \in {"sending", "putting", "put"} => flush # "pacer"

\* A frame no flush since the count n has followed; the boundary black is the
\* pacer's own.
Current(f, n) == f.id = 0 \/ f.after >= n

\* Where a frame waits, it is current, or what carries it shows it is not.
FramesAreCurrent ==
  /\ submit.at = "putting" => submit.epoch <= mEpoch /\ submit.epoch <= submit.after
  /\ \A i \in DOMAIN pq : Current(pq[i], mEpoch)
  /\ \A i \in DOMAIN last : Current(last[i], mEpoch)
  /\ InHand => Current(tick.frame, mEpoch)
  /\ \A i \in DOMAIN fq : fq[i].flushes <= flushes /\ Current(fq[i].frame, fq[i].flushes)
  /\ drain.at # "idle" => drain.item.flushes <= flushes /\ Current(drain.item.frame, drain.item.flushes)
  /\ \A i \in DOMAIN abuf : Current(abuf[i], flushes)

\* The model's frames along their way: on the track, in the drain thread's hand,
\* in the peer's queue, the last the pacer took, and those waiting in the pacer.
PlayedIds  == {video[i] : i \in DOMAIN video}
DrainIds   == IF drain.at = "video" THEN {drain.item.frame.id} \ {0} ELSE {}
QueuedIds  == {fq[i].frame.id : i \in DOMAIN fq} \ {0}
LastIds    == {last[i].id : i \in DOMAIN last}
WaitingIds == {pq[i].id : i \in DOMAIN pq}

AtMost(A, B) == \A a \in A, b \in B : a <= b
Below(A, B)  == \A a \in A, b \in B : a < b

\* They stand in the order of their emission.
FramesInLine ==
  /\ \A i, j \in DOMAIN video : i < j => video[i] < video[j]
  /\ \A i, j \in DOMAIN fq : i < j /\ 0 \notin {fq[i].frame.id, fq[j].frame.id}
                                => fq[i].frame.id <= fq[j].frame.id
  /\ \A i, j \in DOMAIN pq : i < j => pq[i].id < pq[j].id
  /\ AtMost(PlayedIds, DrainIds \cup QueuedIds \cup LastIds)
  /\ AtMost(DrainIds, QueuedIds \cup LastIds) /\ AtMost(QueuedIds, LastIds)
  /\ Below(PlayedIds \cup DrainIds \cup QueuedIds \cup LastIds, WaitingIds)
  /\ PlayedIds \cup DrainIds \cup QueuedIds \cup LastIds \cup WaitingIds \subseteq 1..emitted
  /\ InHand /\ tick.frame.id # 0 => tick.frame.id \in LastIds

\* How far the end of the connection has come.
PacerDone  == mEnding = "ended" \/ (cause = "close" /\ mEnding \in {"mark", "release", "drop", "silence"})
PeerMarked == \/ mEnding \in {"release", "drop", "silence", "ended"}
              \/ cause = "loss" /\ mEnding \in {"halt", "refuse", "join"}
Dropped    == mEnding \in {"silence", "ended"} \/ (cause = "loss" /\ mEnding \in {"halt", "refuse", "join"})
Silenced   == mEnding = "ended" \/ (cause = "loss" /\ mEnding \in {"halt", "refuse", "join"})

\* What each stage has left behind, whatever tick or push was under way.
EndStages ==
  /\ mEnding \in {"none", "halt", "refuse", "join", "mark", "release", "drop", "silence", "ended"}
  /\ mEnding # "none" => cause \in {"close", "loss"}
  /\ mEnding \in {"refuse", "join"} \/ PacerDone => halted
  /\ mEnding = "join" \/ PacerDone => finished
  /\ PacerDone => tick.at = "off" /\ pq = <<>> /\ last = <<>>
  /\ PeerMarked => done
  /\ Dropped => fq = <<>> \/ tick.at = "put"
  /\ Silenced => abuf = <<>>

MediaInv ==
  MediaTypeOK /\ FlushCounts /\ FramesAreCurrent /\ FramesInLine /\ EndStages /\ CutIsClean

-------------------------------------------------------------------------------
(* Sequences.                                                              *)

LEMMA TailFacts ==
  ASSUME NEW S, NEW s \in Seq(S), s # <<>>
  PROVE  /\ Tail(s) \in Seq(S) /\ Head(s) \in S
         /\ Head(s) = s[1] /\ 1 \in DOMAIN s /\ Len(Tail(s)) = Len(s) - 1
         /\ \A i \in DOMAIN Tail(s) : i \in Nat /\ i + 1 \in DOMAIN s /\ Tail(s)[i] = s[i + 1]
         /\ \A i \in DOMAIN s : i \in Nat /\ i >= 1
OBVIOUS

LEMMA AppendFacts ==
  ASSUME NEW S, NEW s \in Seq(S), NEW e \in S
  PROVE  /\ Append(s, e) \in Seq(S) /\ Append(s, e) # <<>>
         /\ \A i \in DOMAIN s : i \in Nat /\ i < Len(s) + 1
         /\ \A i \in DOMAIN Append(s, e) : \/ i \in DOMAIN s /\ Append(s, e)[i] = s[i]
                                           \/ i = Len(s) + 1 /\ Append(s, e)[i] = e
OBVIOUS

LEMMA EmptyFacts == \A S : <<>> \in Seq(S) /\ DOMAIN <<>> = {}
OBVIOUS

-------------------------------------------------------------------------------
(* The types.                                                              *)

LEMMA MediaTypeInit == MediaInit => MediaTypeOK
<1>1. Black \in Frames
  BY DEF Black, Frames
<1> QED BY <1>1, EmptyFacts DEF MediaInit, MediaTypeOK, TickSteps

LEMMA SubmitTypes ==
  ASSUME MediaTypeOK, SubmitTurn \/ \E size \in Chunks, wait \in BOOLEAN : SubmitBegins(size, wait)
  PROVE  MediaTypeOK'
<1> USE MediaAssumption DEF cutVars, queueVars, pumpVars, seenVars, pacerVars
<1>1. UNCHANGED <<last, abuf, fq, mEpoch, called, returned, flushes, tick, drain, video>>
  BY DEF SubmitTurn, SubmitBegins
<1>2. submit' = [at |-> "idle"] \/ submit' \in Putting
  <2>1. CASE \E size \in Chunks, wait \in BOOLEAN : SubmitBegins(size, wait)
    <3>1. PICK size \in Chunks, wait \in BOOLEAN : SubmitBegins(size, wait)
      BY <2>1
    <3>2. size \in Nat
      OBVIOUS
    <3>3. submit' = [at |-> "putting", left |-> size, size |-> size, wait |-> wait, epoch |-> mEpoch,
                     after |-> called]
      BY <3>1 DEF SubmitBegins
    <3> QED BY <3>2, <3>3 DEF MediaTypeOK, Putting
  <2>2. CASE SubmitTurn
    <3>1. submit \in Putting
      BY <2>2 DEF SubmitTurn, MediaTypeOK
    <3>2. \/ submit' = [at |-> "idle"]
          \/ submit.left > 0 /\ submit' = [submit EXCEPT !.left = @ - 1]
      BY <2>2 DEF SubmitTurn, SubmitReturns
    <3>3. submit.left > 0 => submit.left - 1 \in Nat
      BY <3>1 DEF Putting
    <3> QED BY <3>1, <3>2, <3>3 DEF Putting
  <2> QED BY <2>1, <2>2
<1>3. pq' \in Seq(Frames) /\ emitted' \in Nat
  <2>1. CASE \E size \in Chunks, wait \in BOOLEAN : SubmitBegins(size, wait)
    BY <2>1 DEF SubmitBegins, MediaTypeOK
  <2>2. CASE SubmitTurn
    <3>1. submit \in Putting
      BY <2>2 DEF SubmitTurn, MediaTypeOK
    <3>2. submit.left \in Nat /\ submit.after \in Nat
      BY <3>1 DEF Putting
    <3>3. \/ pq' = pq /\ emitted' \in {emitted, emitted + submit.left}
          \/ /\ pq' = Append(pq, [id |-> emitted + 1, after |-> submit.after, sound |-> TRUE])
             /\ emitted' = emitted + 1
      BY <2>2 DEF SubmitTurn, SubmitReturns
    <3>4. [id |-> emitted + 1, after |-> submit.after, sound |-> TRUE] \in Frames
      BY <3>2 DEF Frames, MediaTypeOK
    <3>5. pq \in Seq(Frames) /\ emitted \in Nat /\ emitted + submit.left \in Nat
      BY <3>2 DEF MediaTypeOK
    <3>6. Append(pq, [id |-> emitted + 1, after |-> submit.after, sound |-> TRUE]) \in Seq(Frames)
      BY <3>4, <3>5, AppendFacts
    <3> QED BY <3>3, <3>5, <3>6
  <2> QED BY <2>1, <2>2
<1> QED BY <1>1, <1>2, <1>3 DEF MediaTypeOK

LEMMA TickTypes ==
  ASSUME MediaTypeOK,
         PacerStarts \/ TickTakes \/ PacerExits \/ SendChecks \/ SendPuts \/ SendRechecks
  PROVE  MediaTypeOK'
<1> USE DEF pacerVars, makerVars, cutVars, queueVars, pumpVars, seenVars
<1>1. UNCHANGED <<submit, emitted, called, returned, flushes, abuf, drain, video, mEpoch>>
  BY DEF PacerStarts, TickTakes, PacerExits, SendChecks, SendPuts, SendRechecks
<1>2. Black \in Frames /\ \A v \in TickSteps : [at |-> v, frame |-> Black] \in [at : TickSteps, frame : Frames]
  BY DEF Black, Frames
<1>3. pq' \in Seq(Frames) /\ last' \in Seq(Frames) /\ Len(last') <= 1
  <2>1. CASE TickTakes /\ pq # <<>> /\ pq' = Tail(pq) /\ last' = <<Head(pq)>>
    BY <2>1, TailFacts DEF MediaTypeOK
  <2>2. CASE UNCHANGED <<pq, last>>
    BY <2>2 DEF MediaTypeOK
  <2> QED BY <2>1, <2>2 DEF PacerStarts, TickTakes, PacerExits, SendChecks, SendPuts, SendRechecks
<1>4. tick' \in [at : TickSteps, frame : Frames]
  <2>1. tick \in [at : TickSteps, frame : Frames]
    BY DEF MediaTypeOK
  <2>2. CASE TickTakes
    <3>1. pq # <<>> => Head(pq) \in Frames
      BY TailFacts DEF MediaTypeOK
    <3>2. last # <<>> => [Head(last) EXCEPT !.sound = FALSE] \in Frames
      <4>1. last # <<>> => Head(last) \in Frames
        BY TailFacts DEF MediaTypeOK
      <4> QED BY <4>1 DEF Frames
    <3>3. \E f \in Frames : tick' = [at |-> "sending", frame |-> f]
      BY <1>2, <2>2, <3>1, <3>2 DEF TickTakes
    <3> QED BY <3>3 DEF TickSteps
  <2>3. CASE ~TickTakes
    <3>1. \/ \E v \in TickSteps : tick' = [tick EXCEPT !.at = v]
          \/ \E v \in TickSteps : tick' = [at |-> v, frame |-> Black]
      BY <2>3 DEF PacerStarts, PacerExits, SendChecks, SendPuts, SendRechecks, TickSteps
    <3> QED BY <1>2, <2>1, <3>1
  <2> QED BY <2>2, <2>3
<1>5. fq' \in Seq(Bundles)
  <2>1. CASE SendPuts
    <3>1. [frame |-> tick.frame, flushes |-> flushes] \in Bundles
      BY DEF MediaTypeOK, Bundles
    <3> QED BY <2>1, <3>1, AppendFacts DEF SendPuts, MediaTypeOK
  <2>2. CASE SendRechecks
    BY <2>2, EmptyFacts DEF SendRechecks, MediaTypeOK
  <2>3. CASE fq' = fq
    BY <2>3 DEF MediaTypeOK
  <2> QED BY <2>1, <2>2, <2>3 DEF PacerStarts, TickTakes, PacerExits, SendChecks
<1> QED BY <1>1, <1>3, <1>4, <1>5 DEF MediaTypeOK

LEMMA PumpTypes ==
  ASSUME MediaTypeOK, DrainTakes \/ PushVideo \/ EnqueueAudio \/ AudioFeeds \/ FeederExits
  PROVE  MediaTypeOK'
<1> USE MediaAssumption DEF pacerVars, makerVars, cutVars, queueVars, pumpVars, seenVars
<1>1. UNCHANGED <<pq, last, mEpoch, emitted, called, returned, flushes, tick, submit>>
  BY DEF DrainTakes, PushVideo, EnqueueAudio, AudioFeeds, FeederExits
<1>2. fq' \in Seq(Bundles)
  <2>1. fq \in Seq(Bundles) /\ (fq # <<>> => Tail(fq) \in Seq(Bundles))
    BY TailFacts DEF MediaTypeOK
  <2> QED BY <2>1 DEF DrainTakes, PushVideo, EnqueueAudio, AudioFeeds, FeederExits
<1>3. drain.at # "idle" => drain \in Pushing
  BY DEF MediaTypeOK
<1>4. drain' = [at |-> "idle"] \/ drain' \in Pushing
  <2>1. CASE DrainTakes
    <3>1. fq # <<>> => Head(fq) \in Bundles
      BY TailFacts DEF MediaTypeOK
    <3>2. drain' = drain \/ (fq # <<>> /\ drain' = [at |-> "video", item |-> Head(fq)])
      BY <2>1 DEF DrainTakes
    <3> QED BY <3>1, <3>2 DEF MediaTypeOK, Pushing
  <2>2. CASE PushVideo
    <3>1. drain \in Pushing
      BY <1>3, <2>2 DEF PushVideo
    <3>2. drain' = [at |-> "idle"] \/ drain' = [drain EXCEPT !.at = "audio"]
      BY <2>2 DEF PushVideo
    <3> QED BY <3>1, <3>2 DEF Pushing
  <2>3. CASE EnqueueAudio
    BY <2>3 DEF EnqueueAudio
  <2>4. CASE drain' = drain
    BY <2>4 DEF MediaTypeOK
  <2> QED BY <2>1, <2>2, <2>3, <2>4 DEF AudioFeeds, FeederExits
<1>5. abuf' \in Seq(Frames)
  <2>1. CASE EnqueueAudio
    <3>1. drain.item.frame \in Frames
      BY <1>3, <2>1 DEF EnqueueAudio, Pushing, Bundles
    <3>2. abuf' \in {abuf, Append(abuf, drain.item.frame)}
            \/ (~(Len(abuf) < AudioMax) /\ abuf' = Append(Tail(abuf), drain.item.frame))
      BY <2>1 DEF EnqueueAudio
    <3>3. ~(Len(abuf) < AudioMax) => Tail(abuf) \in Seq(Frames)
      <4>1. ~(Len(abuf) < AudioMax) => abuf # <<>>
        <5>1. AudioMax \in Nat /\ AudioMax > 0 /\ Len(<<>>) = 0
          OBVIOUS
        <5> QED BY <5>1
      <4> QED BY <4>1, TailFacts DEF MediaTypeOK
    <3>4. abuf \in Seq(Frames) /\ Append(abuf, drain.item.frame) \in Seq(Frames)
      BY <3>1, AppendFacts DEF MediaTypeOK
    <3>5. ~(Len(abuf) < AudioMax) => Append(Tail(abuf), drain.item.frame) \in Seq(Frames)
      BY <3>1, <3>3, AppendFacts
    <3> QED BY <3>2, <3>4, <3>5
  <2>2. CASE AudioFeeds
    BY <2>2, TailFacts DEF AudioFeeds, MediaTypeOK
  <2>3. CASE abuf' = abuf
    BY <2>3 DEF MediaTypeOK
  <2> QED BY <2>1, <2>2, <2>3 DEF DrainTakes, PushVideo, FeederExits
<1>6. video' \in Seq(Nat)
  <2>1. CASE PushVideo
    <3>1. drain.item.frame.id \in Nat
      BY <1>3, <2>1 DEF PushVideo, Pushing, Bundles, Frames
    <3>2. video' \in {video, Append(video, drain.item.frame.id)}
      BY <2>1 DEF PushVideo
    <3>3. video \in Seq(Nat) /\ Append(video, drain.item.frame.id) \in Seq(Nat)
      BY <3>1, AppendFacts DEF MediaTypeOK
    <3> QED BY <3>2, <3>3
  <2>2. CASE video' = video
    BY <2>2 DEF MediaTypeOK
  <2> QED BY <2>1, <2>2 DEF DrainTakes, EnqueueAudio, AudioFeeds, FeederExits
<1> QED BY <1>1, <1>2, <1>4, <1>5, <1>6 DEF MediaTypeOK

\* Flushes, the settings and the connection's end only empty what there is.
LEMMA OtherTypes ==
  ASSUME MediaTypeOK,
         \/ \E d \in Depths : SetDepth(d)
         \/ FlushCalled \/ FlushPeer \/ \E hold \in BOOLEAN : FlushPacer(hold)
         \/ \E why \in {"close", "loss"} : EndBegins(why)
         \/ PacerHalts \/ PacerRefuses \/ PacerReleases
         \/ PeerStops \/ ReleaseWire \/ EmptyFrameQueue \/ DropAudio
  PROVE  MediaTypeOK'
<1> USE DEF pacerVars, makerVars, cutVars, queueVars, pumpVars, seenVars
<1>1. UNCHANGED <<submit, emitted, tick, drain, video>>
  BY DEF SetDepth, FlushCalled, FlushPeer, FlushPacer, EndBegins, PacerHalts, PacerRefuses, PacerReleases,
         PeerStops, ReleaseWire, EmptyFrameQueue, DropAudio
<1>2. pq' \in {pq, <<>>} /\ last' \in {last, <<>>} /\ fq' \in {fq, <<>>} /\ abuf' \in {abuf, <<>>}
  BY DEF SetDepth, FlushCalled, FlushPeer, FlushPacer, EndBegins, PacerHalts, PacerRefuses, PacerReleases,
         PeerStops, ReleaseWire, EmptyFrameQueue, DropAudio
<1>3. mEpoch' \in Nat /\ called' \in Nat /\ returned' \in Nat /\ flushes' \in Nat
  BY DEF MediaTypeOK, SetDepth, FlushCalled, FlushPeer, FlushPacer, EndBegins, PacerHalts, PacerRefuses,
         PacerReleases, PeerStops, ReleaseWire, EmptyFrameQueue, DropAudio
<1>4. pq' \in Seq(Frames) /\ last' \in Seq(Frames) /\ fq' \in Seq(Bundles) /\ abuf' \in Seq(Frames)
  BY <1>2, EmptyFacts DEF MediaTypeOK
<1>5. Len(last') <= 1
  BY <1>2 DEF MediaTypeOK
<1> QED BY <1>1, <1>3, <1>4, <1>5 DEF MediaTypeOK

LEMMA MediaTypeStep == MediaTypeOK /\ MediaNext => MediaTypeOK'
BY SubmitTypes, TickTypes, PumpTypes, OtherTypes DEF MediaNext

-------------------------------------------------------------------------------
(* Flushes.                                                                *)

\* A flush takes the dispatch lock between ticks, and gives it back.
LEMMA FlushCountsStep ==
  ASSUME MediaTypeOK, FlushCounts, MediaNext
  PROVE  FlushCounts'
<1> USE DEF pacerVars, makerVars, cutVars, queueVars, pumpVars, seenVars
<1>1. CASE FlushCalled
  BY <1>1 DEF FlushCalled, FlushCounts, MediaTypeOK
<1>2. CASE FlushPeer
  BY <1>2 DEF FlushPeer, FlushCounts, MediaTypeOK
<1>3. CASE \E hold \in BOOLEAN : FlushPacer(hold)
  BY <1>3 DEF FlushPacer, FlushCounts, MediaTypeOK
<1>4. CASE UNCHANGED <<flush, called, returned, flushes, mEpoch>>
  <2>1. \/ UNCHANGED tick \/ (TickTakes /\ flush # "pacer") \/ tick'.at \in {"off", "idle"}
        \/ tick.at \in {"sending", "putting", "put"}
    BY DEF MediaNext, SubmitBegins, SetDepth, SubmitTurn, PacerStarts, TickTakes, PacerExits, SendChecks,
           SendPuts, SendRechecks, DrainTakes, PushVideo, EnqueueAudio, AudioFeeds, FeederExits, FlushCalled,
           FlushPeer, FlushPacer, EndBegins, PacerHalts, PacerRefuses, PacerReleases, PeerStops, ReleaseWire,
           EmptyFrameQueue, DropAudio, MediaTypeOK
  <2> QED BY <1>4, <2>1 DEF FlushCounts
<1>5. ~(FlushCalled \/ FlushPeer \/ \E hold \in BOOLEAN : FlushPacer(hold))
        => UNCHANGED <<flush, called, returned, flushes, mEpoch>>
  BY DEF MediaNext, SubmitBegins, SetDepth, SubmitTurn, PacerStarts, TickTakes, PacerExits, SendChecks,
         SendPuts, SendRechecks, DrainTakes, PushVideo, EnqueueAudio, AudioFeeds, FeederExits,
         EndBegins, PacerHalts, PacerRefuses, PacerReleases, PeerStops, ReleaseWire,
         EmptyFrameQueue, DropAudio
<1> QED BY <1>1, <1>2, <1>3, <1>4, <1>5

\* What the producer holds and the pacer keeps.
PacerCurrent ==
  /\ submit.at = "putting" => submit.epoch <= mEpoch /\ submit.epoch <= submit.after
  /\ \A i \in DOMAIN pq : Current(pq[i], mEpoch)
  /\ \A i \in DOMAIN last : Current(last[i], mEpoch)
  /\ InHand => Current(tick.frame, mEpoch)

\* What the peer keeps.
PeerCurrent ==
  /\ \A i \in DOMAIN fq : fq[i].flushes <= flushes /\ Current(fq[i].frame, fq[i].flushes)
  /\ drain.at # "idle" => drain.item.flushes <= flushes /\ Current(drain.item.frame, drain.item.flushes)
  /\ \A i \in DOMAIN abuf : Current(abuf[i], flushes)

LEMMA PacerCurrentStep ==
  ASSUME MediaTypeOK, FlushCounts, FramesAreCurrent, MediaNext
  PROVE  PacerCurrent'
<1> USE DEF pacerVars, makerVars, cutVars, queueVars, pumpVars, seenVars
<1>1. PacerCurrent
  BY DEF PacerCurrent, FramesAreCurrent
<1>2. CASE \E size \in Chunks, wait \in BOOLEAN : SubmitBegins(size, wait)
  <2>1. PICK size \in Chunks, wait \in BOOLEAN : SubmitBegins(size, wait)
    BY <1>2
  <2>2. submit'.epoch = mEpoch /\ submit'.after = called /\ UNCHANGED <<pq, last, tick, mEpoch>>
    BY <2>1 DEF SubmitBegins
  <2>3. mEpoch <= called /\ mEpoch <= mEpoch
    BY DEF FlushCounts, MediaTypeOK
  <2> QED BY <1>1, <2>2, <2>3 DEF PacerCurrent, InHand
<1>3. CASE SubmitTurn
  <2> DEFINE f == [id |-> emitted + 1, after |-> submit.after, sound |-> TRUE]
  <2>1. submit \in Putting /\ UNCHANGED <<last, tick, mEpoch>>
    BY <1>3 DEF SubmitTurn, MediaTypeOK
  <2>2. \/ submit'.at = "idle" /\ pq' = pq
        \/ /\ submit' = [submit EXCEPT !.left = @ - 1] /\ mEpoch = submit.epoch
           /\ pq' = Append(pq, f)
    BY <1>3 DEF SubmitTurn, SubmitReturns
  <2>3. submit'.at = "putting" => submit'.epoch = submit.epoch /\ submit'.after = submit.after
    BY <2>1, <2>2 DEF Putting
  <2>4. mEpoch = submit.epoch => Current(f, mEpoch)
    BY <1>1, <2>1 DEF PacerCurrent, Current, Putting
  <2>5. f \in Frames /\ pq \in Seq(Frames)
    BY <2>1 DEF Frames, Putting, MediaTypeOK
  <2> HIDE DEF f
  <2>6. \A i \in DOMAIN pq' : Current(pq'[i], mEpoch)
    BY <1>1, <2>2, <2>4, <2>5, AppendFacts DEF PacerCurrent
  <2>7. submit.at = "putting"
    BY <2>1 DEF Putting
  <2> QED BY <1>1, <2>1, <2>3, <2>6, <2>7 DEF PacerCurrent, InHand
<1>4. CASE TickTakes
  <2>1. UNCHANGED <<submit, mEpoch>>
    BY <1>4 DEF TickTakes
  <2>2. pq \in Seq(Frames) /\ last \in Seq(Frames)
    BY DEF MediaTypeOK
  <2>3. CASE pq # <<>> /\ tick' = [at |-> "sending", frame |-> Head(pq)] /\ pq' = Tail(pq) /\ last' = <<Head(pq)>>
    <3>1. Current(Head(pq), mEpoch)
      BY <1>1, <2>2, <2>3, TailFacts DEF PacerCurrent
    <3>2. \A i \in DOMAIN pq' : Current(pq'[i], mEpoch)
      BY <1>1, <2>2, <2>3, TailFacts DEF PacerCurrent
    <3>3. \A i \in DOMAIN last' : last'[i] = Head(pq)
      BY <2>3
    <3> QED BY <1>1, <2>1, <2>3, <3>1, <3>2, <3>3 DEF PacerCurrent
  <2>4. CASE tick' = [at |-> "sending", frame |-> Black] /\ UNCHANGED <<pq, last>>
    BY <1>1, <2>1, <2>4 DEF PacerCurrent, Black, Current
  <2>5. CASE /\ last # <<>> /\ tick' = [at |-> "sending", frame |-> [Head(last) EXCEPT !.sound = FALSE]]
             /\ UNCHANGED <<pq, last>>
    <3>1. Head(last) \in Frames /\ Current(Head(last), mEpoch)
      BY <1>1, <2>2, <2>5, TailFacts DEF PacerCurrent
    <3>2. Current([Head(last) EXCEPT !.sound = FALSE], mEpoch)
      BY <3>1 DEF Frames, Current
    <3> QED BY <1>1, <2>1, <2>5, <3>2 DEF PacerCurrent
  <2> QED BY <1>4, <2>3, <2>4, <2>5 DEF TickTakes
<1>5. CASE \E hold \in BOOLEAN : FlushPacer(hold)
  <2>1. /\ UNCHANGED <<submit, tick>> /\ tick.at \in {"off", "idle"}
        /\ mEpoch' = mEpoch + 1 /\ pq' = <<>> /\ last' = <<>>
    BY <1>5 DEF FlushPacer
  <2>2. submit.at = "putting" => submit.epoch <= mEpoch + 1
    <3>1. submit.at = "putting" => submit.epoch \in Nat
      BY DEF MediaTypeOK, Putting
    <3> QED BY <1>1, <3>1 DEF PacerCurrent, MediaTypeOK
  <2> QED BY <1>1, <2>1, <2>2, EmptyFacts DEF PacerCurrent, InHand
<1>6. CASE PacerStarts \/ PacerExits \/ SendChecks \/ SendPuts \/ SendRechecks
  <2>1. UNCHANGED <<submit, pq, last, mEpoch>> /\ (InHand' => InHand /\ tick'.frame = tick.frame)
    BY <1>6 DEF PacerStarts, PacerExits, SendChecks, SendPuts, SendRechecks, InHand, MediaTypeOK
  <2> QED BY <1>1, <2>1 DEF PacerCurrent
<1>7. CASE UNCHANGED <<submit, pq, last, mEpoch, tick>>
  BY <1>1, <1>7 DEF PacerCurrent, InHand
<1>8. CASE PacerReleases
  <2>1. UNCHANGED <<submit, mEpoch, tick>> /\ pq' = <<>> /\ last' = <<>>
    BY <1>8 DEF PacerReleases
  <2> QED BY <1>1, <2>1, EmptyFacts DEF PacerCurrent, InHand
<1> QED BY <1>2, <1>3, <1>4, <1>5, <1>6, <1>7, <1>8
        DEF MediaNext, SetDepth, DrainTakes, PushVideo, EnqueueAudio, AudioFeeds, FeederExits, FlushCalled,
            FlushPeer, EndBegins, PacerHalts, PacerRefuses, PeerStops, ReleaseWire, EmptyFrameQueue, DropAudio

LEMMA PeerCurrentStep ==
  ASSUME MediaTypeOK, FlushCounts, FramesAreCurrent, MediaNext
  PROVE  PeerCurrent'
<1> USE DEF pacerVars, makerVars, cutVars, queueVars, pumpVars, seenVars
<1>1. PeerCurrent
  BY DEF PeerCurrent, FramesAreCurrent
<1>2. fq \in Seq(Bundles) /\ abuf \in Seq(Frames) /\ flushes \in Nat /\ (drain.at # "idle" => drain \in Pushing)
  BY DEF MediaTypeOK
<1>3. CASE SendPuts
  <2> DEFINE b == [frame |-> tick.frame, flushes |-> flushes]
  <2>1. b \in Bundles /\ b.flushes = flushes /\ b.frame = tick.frame
    BY DEF MediaTypeOK, Bundles
  <2>2. Current(tick.frame, flushes) /\ flushes <= flushes
    <3>1. flush # "pacer" /\ Current(tick.frame, mEpoch)
      BY <1>3 DEF SendPuts, FlushCounts, FramesAreCurrent, InHand
    <3>2. mEpoch = flushes
      BY <3>1 DEF FlushCounts, MediaTypeOK
    <3> QED BY <1>2, <3>1, <3>2
  <2>3. UNCHANGED <<flushes, drain, abuf>> /\ (fq' = fq \/ fq' = Append(fq, b))
    BY <1>3 DEF SendPuts
  <2> HIDE DEF b
  <2>4. \A i \in DOMAIN fq' : fq'[i].flushes <= flushes /\ Current(fq'[i].frame, fq'[i].flushes)
    BY <1>1, <1>2, <2>1, <2>2, <2>3, AppendFacts DEF PeerCurrent
  <2> QED BY <1>1, <2>3, <2>4 DEF PeerCurrent
<1>4. CASE DrainTakes
  <2>1. /\ fq # <<>> /\ fq' = Tail(fq) /\ UNCHANGED <<flushes, abuf>>
        /\ drain' = drain \/ drain' = [at |-> "video", item |-> Head(fq)]
    BY <1>4 DEF DrainTakes
  <2>2. Head(fq).flushes <= flushes /\ Current(Head(fq).frame, Head(fq).flushes)
    BY <1>1, <1>2, <2>1, TailFacts DEF PeerCurrent
  <2>3. \A i \in DOMAIN fq' : fq'[i].flushes <= flushes /\ Current(fq'[i].frame, fq'[i].flushes)
    BY <1>1, <1>2, <2>1, TailFacts DEF PeerCurrent
  <2> QED BY <1>1, <2>1, <2>2, <2>3 DEF PeerCurrent
<1>5. CASE PushVideo
  <2>1. /\ drain \in Pushing /\ UNCHANGED <<fq, flushes, abuf>>
        /\ drain' = [at |-> "idle"] \/ drain' = [drain EXCEPT !.at = "audio"]
    BY <1>2, <1>5 DEF PushVideo
  <2>2. drain'.at # "idle" => drain'.item = drain.item /\ drain.at # "idle"
    BY <2>1 DEF Pushing
  <2> QED BY <1>1, <2>1, <2>2 DEF PeerCurrent
<1>6. CASE EnqueueAudio
  <2>1. /\ drain'.at = "idle" /\ UNCHANGED <<fq, flushes>> /\ drain \in Pushing /\ drain.at # "idle"
    BY <1>2, <1>6 DEF EnqueueAudio
  <2>2. drain.item.frame \in Frames
    BY <2>1 DEF Pushing, Bundles
  <2>3. \/ abuf' = abuf
        \/ drain.item.flushes = flushes /\ abuf' = Append(abuf, drain.item.frame)
        \/ /\ drain.item.flushes = flushes /\ ~(Len(abuf) < AudioMax)
           /\ abuf' = Append(Tail(abuf), drain.item.frame)
    BY <1>6 DEF EnqueueAudio
  <2>4. drain.item.flushes = flushes => Current(drain.item.frame, flushes)
    BY <1>1, <2>1 DEF PeerCurrent
  <2>5. ~(Len(abuf) < AudioMax) => abuf # <<>>
    <3>1. AudioMax \in Nat /\ AudioMax > 0 /\ Len(<<>>) = 0
      BY MediaAssumption
    <3> QED BY <3>1
  <2>6. abuf # <<>> => Tail(abuf) \in Seq(Frames) /\ \A i \in DOMAIN Tail(abuf) : Current(Tail(abuf)[i], flushes)
    BY <1>1, <1>2, TailFacts DEF PeerCurrent
  <2>7. \A i \in DOMAIN abuf' : Current(abuf'[i], flushes)
    <3>1. CASE abuf' = abuf
      BY <1>1, <3>1 DEF PeerCurrent
    <3>2. CASE drain.item.flushes = flushes /\ abuf' = Append(abuf, drain.item.frame)
      BY <1>1, <1>2, <2>2, <2>4, <3>2, AppendFacts DEF PeerCurrent
    <3>3. CASE /\ drain.item.flushes = flushes /\ ~(Len(abuf) < AudioMax)
               /\ abuf' = Append(Tail(abuf), drain.item.frame)
      BY <2>2, <2>4, <2>5, <2>6, <3>3, AppendFacts
    <3> QED BY <2>3, <3>1, <3>2, <3>3
  <2> QED BY <1>1, <2>1, <2>7 DEF PeerCurrent
<1>7. CASE AudioFeeds
  <2>1. abuf # <<>> /\ abuf' = Tail(abuf) /\ UNCHANGED <<fq, flushes, drain>>
    BY <1>7 DEF AudioFeeds
  <2>2. \A i \in DOMAIN abuf' : Current(abuf'[i], flushes)
    BY <1>1, <1>2, <2>1, TailFacts DEF PeerCurrent
  <2> QED BY <1>1, <2>1, <2>2 DEF PeerCurrent
<1>8. CASE FlushPeer
  <2>1. flushes' = flushes + 1 /\ fq' = <<>> /\ abuf' = <<>> /\ UNCHANGED drain
    BY <1>8 DEF FlushPeer
  <2>2. drain.at # "idle" => drain.item.flushes <= flushes + 1
    <3>1. drain.at # "idle" => drain.item.flushes \in Nat
      BY <1>2 DEF Pushing, Bundles
    <3> QED BY <1>1, <1>2, <3>1 DEF PeerCurrent
  <2> QED BY <1>1, <2>1, <2>2, EmptyFacts DEF PeerCurrent
<1>9. CASE UNCHANGED <<flushes, drain>> /\ fq' \in {fq, <<>>} /\ abuf' \in {abuf, <<>>}
  BY <1>1, <1>9, EmptyFacts DEF PeerCurrent
<1> QED BY <1>3, <1>4, <1>5, <1>6, <1>7, <1>8, <1>9
        DEF MediaNext, SubmitBegins, SubmitTurn, SetDepth, PacerStarts, TickTakes, PacerExits, SendChecks,
            SendRechecks, FeederExits, FlushCalled, FlushPacer, EndBegins, PacerHalts, PacerRefuses,
            PacerReleases, PeerStops, ReleaseWire, EmptyFrameQueue, DropAudio

\* No frame that a flush has followed reaches a track.
LEMMA CutStep ==
  ASSUME MediaTypeOK, FlushCounts, FramesAreCurrent, CutIsClean, MediaNext
  PROVE  CutIsClean'
<1> USE DEF pacerVars, makerVars, cutVars, queueVars, pumpVars, seenVars
<1>1. ASSUME NEW f \in Frames, Current(f, flushes), Played(f) PROVE late' = late
  <2>1. ~(f.after < returned /\ f.id # 0)
    BY <1>1 DEF Current, FlushCounts, MediaTypeOK, Frames
  <2> QED BY <1>1, <2>1 DEF Played
<1>2. CASE PushVideo
  <2>1. drain \in Pushing /\ drain.at # "idle"
    BY <1>2 DEF PushVideo, MediaTypeOK
  <2>2. late' = late \/ (drain.item.flushes = flushes /\ Played(drain.item.frame))
    BY <1>2 DEF PushVideo
  <2>3. drain.item.frame \in Frames
    BY <2>1 DEF Pushing, Bundles
  <2>4. drain.item.flushes = flushes => Current(drain.item.frame, flushes)
    BY <2>1 DEF FramesAreCurrent
  <2> QED BY <1>1, <2>2, <2>3, <2>4 DEF CutIsClean
<1>3. CASE AudioFeeds
  <2>1. abuf # <<>> /\ Played(Head(abuf))
    BY <1>3 DEF AudioFeeds
  <2>2. Head(abuf) \in Frames /\ Current(Head(abuf), flushes)
    BY <2>1, TailFacts DEF MediaTypeOK, FramesAreCurrent
  <2> QED BY <1>1, <2>1, <2>2 DEF CutIsClean
<1>4. CASE UNCHANGED late
  BY <1>4 DEF CutIsClean
<1> QED BY <1>2, <1>3, <1>4
        DEF MediaNext, SubmitBegins, SubmitTurn, SetDepth, PacerStarts, TickTakes, PacerExits, SendChecks,
            SendPuts, SendRechecks, DrainTakes, EnqueueAudio, FeederExits, FlushCalled, FlushPeer, FlushPacer,
            EndBegins, PacerHalts, PacerRefuses, PacerReleases, PeerStops, ReleaseWire, EmptyFrameQueue, DropAudio

-------------------------------------------------------------------------------
(* The order of the frames.                                                *)

FqOrdered == \A i, j \in DOMAIN fq : i < j /\ 0 \notin {fq[i].frame.id, fq[j].frame.id}
                                        => fq[i].frame.id <= fq[j].frame.id
PqOrdered == \A i, j \in DOMAIN pq : i < j => pq[i].id < pq[j].id

\* What leaves the line, or is passed over, disturbs no one.
LEMMA LineShrinks ==
  ASSUME MediaTypeOK, FramesInLine, emitted' \in Nat, emitted' >= emitted, video' = video,
         DrainIds' \subseteq DrainIds, QueuedIds' \subseteq QueuedIds,
         LastIds' \subseteq LastIds, WaitingIds' \subseteq WaitingIds, FqOrdered', PqOrdered',
         (InHand /\ tick.frame.id # 0 => tick.frame.id \in LastIds)'
  PROVE  FramesInLine'
<1>1. PlayedIds' = PlayedIds
  BY DEF PlayedIds
<1>2. emitted \in Nat /\ \A a \in 1..emitted : a \in 1..emitted'
  BY DEF MediaTypeOK
<1>3. \A i, j \in DOMAIN video' : i < j => video'[i] < video'[j]
  BY DEF FramesInLine
<1>4. /\ AtMost(PlayedIds, DrainIds \cup QueuedIds \cup LastIds)'
      /\ AtMost(DrainIds, QueuedIds \cup LastIds)' /\ AtMost(QueuedIds, LastIds)'
      /\ Below(PlayedIds \cup DrainIds \cup QueuedIds \cup LastIds, WaitingIds)'
  BY <1>1 DEF FramesInLine, AtMost, Below
<1>5. (PlayedIds \cup DrainIds \cup QueuedIds \cup LastIds \cup WaitingIds \subseteq 1..emitted)'
  BY <1>1, <1>2 DEF FramesInLine
<1> QED BY <1>3, <1>4, <1>5 DEF FramesInLine, FqOrdered, PqOrdered

\* Only the numbers of those who move change.
LEMMA LineSets ==
  /\ drain' = drain => DrainIds' = DrainIds
  /\ fq' = fq => QueuedIds' = QueuedIds /\ FqOrdered' = FqOrdered
  /\ fq' = <<>> => QueuedIds' = {} /\ FqOrdered'
  /\ last' = last => LastIds' = LastIds
  /\ last' = <<>> => LastIds' = {}
  /\ pq' = pq => WaitingIds' = WaitingIds /\ PqOrdered' = PqOrdered
  /\ pq' = <<>> => WaitingIds' = {} /\ PqOrdered'
  /\ FramesInLine => FqOrdered /\ PqOrdered
<1>1. drain' = drain => DrainIds' = DrainIds
  BY DEF DrainIds
<1>2. fq' = fq => QueuedIds' = QueuedIds /\ FqOrdered' = FqOrdered
  BY DEF QueuedIds, FqOrdered
<1>3. fq' = <<>> => QueuedIds' = {} /\ FqOrdered'
  BY EmptyFacts DEF QueuedIds, FqOrdered
<1>4. (last' = last => LastIds' = LastIds) /\ (last' = <<>> => LastIds' = {})
  BY EmptyFacts DEF LastIds
<1>5. pq' = pq => WaitingIds' = WaitingIds /\ PqOrdered' = PqOrdered
  BY DEF WaitingIds, PqOrdered
<1>6. pq' = <<>> => WaitingIds' = {} /\ PqOrdered'
  BY EmptyFacts DEF WaitingIds, PqOrdered
<1>7. FramesInLine => FqOrdered /\ PqOrdered
  BY DEF FramesInLine, FqOrdered, PqOrdered
<1> QED BY <1>1, <1>2, <1>3, <1>4, <1>5, <1>6, <1>7

\* A frame the producer puts is the newest.
LEMMA SubmitKeepsLine ==
  ASSUME MediaTypeOK, FramesInLine, SubmitTurn
  PROVE  FramesInLine'
<1> USE DEF pacerVars, makerVars, cutVars, queueVars, pumpVars, seenVars
<1> DEFINE f == [id |-> emitted + 1, after |-> submit.after, sound |-> TRUE]
<1>1. submit \in Putting /\ UNCHANGED <<last, tick, fq, drain, video>>
  BY DEF SubmitTurn, MediaTypeOK
<1>2. emitted \in Nat /\ submit.left \in Nat /\ pq \in Seq(Frames) /\ f \in Frames /\ f.id = emitted + 1
  BY <1>1 DEF MediaTypeOK, Putting, Frames
<1>3. \/ pq' = pq /\ emitted' \in {emitted, emitted + submit.left}
      \/ pq' = Append(pq, f) /\ emitted' = emitted + 1
  BY DEF SubmitTurn, SubmitReturns
<1> HIDE DEF f
<1>4. DrainIds' = DrainIds /\ QueuedIds' = QueuedIds /\ FqOrdered' /\ LastIds' = LastIds
  BY <1>1, LineSets
<1>5. (InHand /\ tick.frame.id # 0 => tick.frame.id \in LastIds)'
  BY <1>1, <1>4 DEF FramesInLine, InHand
<1>6. CASE pq' = pq /\ emitted' \in {emitted, emitted + submit.left}
  <2>1. WaitingIds' = WaitingIds /\ PqOrdered'
    BY <1>6, LineSets
  <2>2. emitted' \in Nat /\ emitted' >= emitted
    BY <1>2, <1>6
  <2> QED BY <1>1, <1>4, <1>5, <2>1, <2>2, LineShrinks
<1>7. CASE pq' = Append(pq, f) /\ emitted' = emitted + 1
  <2>1. \A i \in DOMAIN pq : pq[i].id \in WaitingIds /\ pq[i].id \in 1..emitted
    BY DEF WaitingIds, FramesInLine
  <2>2. WaitingIds' \subseteq WaitingIds \cup {emitted + 1}
    BY <1>2, <1>7, <2>1, AppendFacts DEF WaitingIds
  <2>3. PqOrdered'
    <3> SUFFICES ASSUME NEW i \in DOMAIN pq', NEW j \in DOMAIN pq', i < j PROVE pq'[i].id < pq'[j].id
      BY DEF PqOrdered
    <3>1. i \in DOMAIN pq /\ pq'[i] = pq[i]
      BY <1>2, <1>7, AppendFacts
    <3>2. CASE j \in DOMAIN pq /\ pq'[j] = pq[j]
      BY <3>1, <3>2, LineSets DEF PqOrdered
    <3>3. CASE pq'[j] = f
      BY <1>2, <2>1, <3>1, <3>3
    <3> QED BY <1>2, <1>7, <3>2, <3>3, AppendFacts
  <2>4. PlayedIds' = PlayedIds
    BY <1>1 DEF PlayedIds
  <2>5. \A a \in PlayedIds \cup DrainIds \cup QueuedIds \cup LastIds : a < emitted + 1 /\ a \in 1..(emitted + 1)
    BY <1>2 DEF FramesInLine
  <2>6. Below(PlayedIds \cup DrainIds \cup QueuedIds \cup LastIds, WaitingIds)'
    BY <1>4, <2>2, <2>4, <2>5 DEF Below, FramesInLine
  <2>7. (PlayedIds \cup DrainIds \cup QueuedIds \cup LastIds \cup WaitingIds \subseteq 1..emitted)'
    <3>1. \A a \in WaitingIds \cup {emitted + 1} : a \in 1..(emitted + 1)
      BY <1>2 DEF FramesInLine
    <3> QED BY <1>4, <1>7, <2>2, <2>4, <2>5, <3>1
  <2>8. /\ AtMost(PlayedIds, DrainIds \cup QueuedIds \cup LastIds)'
        /\ AtMost(DrainIds, QueuedIds \cup LastIds)' /\ AtMost(QueuedIds, LastIds)'
    BY <1>4, <2>4 DEF FramesInLine, AtMost
  <2>9. \A i, j \in DOMAIN video' : i < j => video'[i] < video'[j]
    BY <1>1 DEF FramesInLine
  <2> QED BY <1>4, <1>5, <2>3, <2>6, <2>7, <2>8, <2>9 DEF FramesInLine, FqOrdered, PqOrdered
<1> QED BY <1>3, <1>6, <1>7

\* A tick takes the oldest of those that wait, behind all that went before.
LEMMA TickKeepsLine ==
  ASSUME MediaTypeOK, FramesInLine, TickTakes
  PROVE  FramesInLine'
<1> USE DEF pacerVars, makerVars, cutVars, queueVars, pumpVars, seenVars
<1>1. UNCHANGED <<fq, drain, video, emitted>>
  BY DEF TickTakes
<1>2. DrainIds' = DrainIds /\ QueuedIds' = QueuedIds /\ FqOrdered' /\ PlayedIds' = PlayedIds
  BY <1>1, LineSets DEF PlayedIds
<1>3. pq \in Seq(Frames) /\ last \in Seq(Frames) /\ emitted \in Nat
  BY DEF MediaTypeOK
<1>4. CASE pq # <<>> /\ tick' = [at |-> "sending", frame |-> Head(pq)] /\ pq' = Tail(pq) /\ last' = <<Head(pq)>>
  <2> DEFINE h == Head(pq).id
  <2>1. Head(pq) = pq[1] /\ 1 \in DOMAIN pq /\ h \in WaitingIds
    BY <1>3, <1>4, TailFacts DEF WaitingIds
  <2>2. LastIds' = {h}
    BY <1>4 DEF LastIds
  <2>3. \A i \in DOMAIN pq' : i \in Nat /\ i + 1 \in DOMAIN pq /\ pq'[i] = pq[i + 1] /\ i + 1 > 1
    BY <1>3, <1>4, TailFacts
  <2>4. PqOrdered'
    <3> SUFFICES ASSUME NEW i \in DOMAIN pq', NEW j \in DOMAIN pq', i < j PROVE pq'[i].id < pq'[j].id
      BY DEF PqOrdered
    <3>1. i + 1 < j + 1
      BY <2>3
    <3> QED BY <2>3, <3>1, LineSets DEF PqOrdered
  <2>5. \A a \in WaitingIds' : a \in WaitingIds /\ h < a
    <3> SUFFICES ASSUME NEW i \in DOMAIN pq' PROVE pq'[i].id \in WaitingIds /\ h < pq'[i].id
      BY DEF WaitingIds
    <3>1. pq'[i] = pq[i + 1] /\ i + 1 \in DOMAIN pq /\ 1 < i + 1
      BY <2>3
    <3> QED BY <2>1, <3>1, LineSets DEF WaitingIds, PqOrdered
  <2> HIDE DEF h
  <2>6. \A a \in PlayedIds \cup DrainIds \cup QueuedIds : a < h /\ a \in 1..emitted
    BY <2>1 DEF FramesInLine, Below
  <2>7. h \in 1..emitted /\ \A a \in WaitingIds' : a \in 1..emitted
    BY <2>1, <2>5 DEF FramesInLine
  <2>8. /\ AtMost(PlayedIds, DrainIds \cup QueuedIds \cup LastIds)'
        /\ AtMost(DrainIds, QueuedIds \cup LastIds)' /\ AtMost(QueuedIds, LastIds)'
    <3>1. \A a \in PlayedIds \cup DrainIds \cup QueuedIds : a <= h
      BY <1>3, <2>6, <2>7
    <3> QED BY <1>2, <2>2, <3>1 DEF FramesInLine, AtMost
  <2>9. Below(PlayedIds \cup DrainIds \cup QueuedIds \cup LastIds, WaitingIds)'
    BY <1>2, <2>2, <2>5 DEF FramesInLine, Below
  <2>10. (PlayedIds \cup DrainIds \cup QueuedIds \cup LastIds \cup WaitingIds \subseteq 1..emitted)'
    BY <1>1, <1>2, <2>2, <2>6, <2>7
  <2>11. (InHand /\ tick.frame.id # 0 => tick.frame.id \in LastIds)'
    BY <1>4, <2>2 DEF h
  <2>12. \A i, j \in DOMAIN video' : i < j => video'[i] < video'[j]
    BY <1>1 DEF FramesInLine
  <2> QED BY <1>2, <2>4, <2>8, <2>9, <2>10, <2>11, <2>12 DEF FramesInLine, FqOrdered, PqOrdered
<1>5. CASE UNCHANGED <<pq, last>>
  <2>1. LastIds' = LastIds /\ WaitingIds' = WaitingIds /\ PqOrdered'
    BY <1>5, LineSets
  <2>2. tick'.frame.id = 0 \/ tick'.frame.id \in LastIds
    <3>1. CASE tick' = [at |-> "sending", frame |-> Black]
      BY <3>1 DEF Black
    <3>2. CASE last # <<>> /\ tick' = [at |-> "sending", frame |-> [Head(last) EXCEPT !.sound = FALSE]]
      <4>1. Head(last) = last[1] /\ 1 \in DOMAIN last /\ Head(last) \in Frames
        BY <1>3, <3>2, TailFacts
      <4>2. tick'.frame.id = Head(last).id
        BY <3>2, <4>1 DEF Frames
      <4> QED BY <4>1, <4>2 DEF LastIds
    <3>3. pq # <<>> => pq' # pq \/ pq' # Tail(pq)
      BY <1>3, TailFacts
    <3> QED BY <1>5, <3>1, <3>2, <3>3 DEF TickTakes
  <2>3. (InHand /\ tick.frame.id # 0 => tick.frame.id \in LastIds)'
    BY <2>1, <2>2
  <2>4. emitted' \in Nat /\ emitted' >= emitted
    BY <1>1, <1>3
  <2> QED BY <1>1, <1>2, <2>1, <2>3, <2>4, LineShrinks
<1> QED BY <1>4, <1>5 DEF TickTakes

LEMMA LastIsOne == MediaTypeOK => \A a, b \in LastIds : a = b
<1> SUFFICES ASSUME MediaTypeOK, NEW i \in DOMAIN last, NEW j \in DOMAIN last PROVE last[i].id = last[j].id
  BY DEF LastIds
<1>1. i = 1 /\ j = 1
  BY DEF MediaTypeOK
<1> QED BY <1>1

\* The frame in hand is the last the pacer took: it joins the peer's queue at its end.
LEMMA PutKeepsLine ==
  ASSUME MediaTypeOK, FramesInLine, SendPuts
  PROVE  FramesInLine'
<1> USE DEF pacerVars, makerVars, cutVars, queueVars, pumpVars, seenVars
<1> DEFINE b == [frame |-> tick.frame, flushes |-> flushes]
           t == tick.frame.id
<1>1. UNCHANGED <<pq, last, drain, video, emitted>> /\ tick.at = "putting" /\ tick'.at = "put"
  BY DEF SendPuts, MediaTypeOK
<1>2. fq \in Seq(Bundles) /\ b \in Bundles /\ b.frame.id = t /\ emitted \in Nat /\ t \in Nat
  BY DEF MediaTypeOK, Bundles, Frames
<1>3. fq' = fq \/ fq' = Append(fq, b)
  BY DEF SendPuts
<1>4. t = 0 \/ t \in LastIds
  BY <1>1 DEF FramesInLine, InHand
<1> HIDE DEF b, t
<1>5. /\ DrainIds' = DrainIds /\ LastIds' = LastIds /\ WaitingIds' = WaitingIds /\ PqOrdered'
      /\ PlayedIds' = PlayedIds
  BY <1>1, LineSets DEF PlayedIds
<1>6. (InHand /\ tick.frame.id # 0 => tick.frame.id \in LastIds)'
  BY <1>1 DEF InHand
<1>7. \A i \in DOMAIN fq : fq[i].frame.id = 0 \/ fq[i].frame.id \in QueuedIds
  BY DEF QueuedIds
<1>8. QueuedIds' \subseteq QueuedIds \cup ({t} \ {0})
  BY <1>2, <1>3, <1>7, AppendFacts DEF QueuedIds
<1>9. FqOrdered'
  <2>1. CASE fq' = fq
    BY <2>1, LineSets
  <2>2. CASE fq' = Append(fq, b)
    <3> SUFFICES ASSUME NEW i \in DOMAIN fq', NEW j \in DOMAIN fq', i < j,
                        fq'[i].frame.id # 0, fq'[j].frame.id # 0
                 PROVE  fq'[i].frame.id <= fq'[j].frame.id
      BY DEF FqOrdered
    <3>1. i \in DOMAIN fq /\ fq'[i] = fq[i]
      BY <1>2, <2>2, AppendFacts
    <3>2. CASE j \in DOMAIN fq /\ fq'[j] = fq[j]
      BY <3>1, <3>2, LineSets DEF FqOrdered
    <3>3. CASE fq'[j] = b
      BY <1>2, <1>4, <1>7, <3>1, <3>3 DEF FramesInLine, AtMost
    <3> QED BY <1>2, <2>2, <3>2, <3>3, AppendFacts
  <2> QED BY <1>3, <2>1, <2>2
<1>10. /\ AtMost(PlayedIds, DrainIds \cup QueuedIds \cup LastIds)'
       /\ AtMost(DrainIds, QueuedIds \cup LastIds)'
       /\ Below(PlayedIds \cup DrainIds \cup QueuedIds \cup LastIds, WaitingIds)'
       /\ (PlayedIds \cup DrainIds \cup QueuedIds \cup LastIds \cup WaitingIds \subseteq 1..emitted)'
  <2>1. QueuedIds' \subseteq QueuedIds \cup LastIds
    BY <1>4, <1>8
  <2> QED BY <1>1, <1>5, <2>1 DEF FramesInLine, AtMost, Below
<1>11. AtMost(QueuedIds, LastIds)'
  <2> SUFFICES ASSUME NEW a \in QueuedIds', NEW c \in LastIds PROVE a <= c
    BY <1>5 DEF AtMost
  <2>1. CASE a \in QueuedIds
    BY <2>1 DEF FramesInLine, AtMost
  <2>2. CASE a \in LastIds
    <3>1. a = c
      BY <2>2, LastIsOne
    <3>2. a \in 1..emitted
      BY <2>2 DEF FramesInLine
    <3> QED BY <3>1, <3>2
  <2> QED BY <1>4, <1>8, <2>1, <2>2
<1>12. \A i, j \in DOMAIN video' : i < j => video'[i] < video'[j]
  BY <1>1 DEF FramesInLine
<1> QED BY <1>5, <1>6, <1>9, <1>10, <1>11, <1>12 DEF FramesInLine, FqOrdered, PqOrdered

\* The drain thread takes the oldest of the queue.
LEMMA DrainKeepsLine ==
  ASSUME MediaTypeOK, FramesInLine, DrainTakes
  PROVE  FramesInLine'
<1> USE DEF pacerVars, makerVars, cutVars, queueVars, pumpVars, seenVars
<1> DEFINE h == Head(fq).frame.id
<1>1. /\ UNCHANGED <<pq, last, tick, video, emitted>> /\ fq # <<>> /\ fq' = Tail(fq) /\ drain.at = "idle"
      /\ drain' = drain \/ drain' = [at |-> "video", item |-> Head(fq)]
  BY DEF DrainTakes
<1>2. fq \in Seq(Bundles)
  BY DEF MediaTypeOK
<1>3. LastIds' = LastIds /\ WaitingIds' = WaitingIds /\ PqOrdered' /\ PlayedIds' = PlayedIds
  BY <1>1, LineSets DEF PlayedIds
<1>4. DrainIds' \subseteq {h} \ {0}
  BY <1>1 DEF DrainIds
<1>5. Head(fq) = fq[1] /\ 1 \in DOMAIN fq /\ (h # 0 => h \in QueuedIds)
  BY <1>1, <1>2, TailFacts DEF QueuedIds
<1>6. \A i \in DOMAIN fq' : i \in Nat /\ i + 1 \in DOMAIN fq /\ fq'[i] = fq[i + 1] /\ 1 < i + 1
  BY <1>1, <1>2, TailFacts
<1>7. FqOrdered'
  <2> SUFFICES ASSUME NEW i \in DOMAIN fq', NEW j \in DOMAIN fq', i < j,
                      fq'[i].frame.id # 0, fq'[j].frame.id # 0
               PROVE  fq'[i].frame.id <= fq'[j].frame.id
    BY DEF FqOrdered
  <2>1. i + 1 < j + 1
    BY <1>6
  <2> QED BY <1>6, <2>1, LineSets DEF FqOrdered
<1>8. \A a \in QueuedIds' : a \in QueuedIds /\ (h # 0 => h <= a)
  <2> SUFFICES ASSUME NEW i \in DOMAIN fq', fq'[i].frame.id # 0
               PROVE  fq'[i].frame.id \in QueuedIds /\ (h # 0 => h <= fq'[i].frame.id)
    BY DEF QueuedIds
  <2>1. fq'[i] = fq[i + 1] /\ i + 1 \in DOMAIN fq /\ 1 < i + 1
    BY <1>6
  <2> QED BY <1>5, <2>1, LineSets DEF QueuedIds, FqOrdered
<1> HIDE DEF h
<1>9. DrainIds' \subseteq QueuedIds /\ \A a \in DrainIds' : a = h /\ h # 0
  BY <1>4, <1>5
<1>10. /\ AtMost(PlayedIds, DrainIds \cup QueuedIds \cup LastIds)' /\ AtMost(QueuedIds, LastIds)'
       /\ Below(PlayedIds \cup DrainIds \cup QueuedIds \cup LastIds, WaitingIds)'
       /\ (PlayedIds \cup DrainIds \cup QueuedIds \cup LastIds \cup WaitingIds \subseteq 1..emitted)'
  BY <1>1, <1>3, <1>8, <1>9 DEF FramesInLine, AtMost, Below
<1>11. AtMost(DrainIds, QueuedIds \cup LastIds)'
  BY <1>3, <1>8, <1>9 DEF FramesInLine, AtMost
<1>12. (InHand /\ tick.frame.id # 0 => tick.frame.id \in LastIds)'
  BY <1>1, <1>3 DEF FramesInLine, InHand
<1>13. \A i, j \in DOMAIN video' : i < j => video'[i] < video'[j]
  BY <1>1 DEF FramesInLine
<1> QED BY <1>3, <1>7, <1>10, <1>11, <1>12, <1>13 DEF FramesInLine, FqOrdered, PqOrdered

\* The video track gets a newer frame, or the last again, which shows nothing new.
LEMMA VideoKeepsLine ==
  ASSUME MediaTypeOK, FramesInLine, PushVideo
  PROVE  FramesInLine'
<1> USE DEF pacerVars, makerVars, cutVars, queueVars, pumpVars, seenVars
<1> DEFINE d == drain.item.frame.id
<1>1. UNCHANGED <<pq, last, tick, fq, emitted>> /\ drain \in Pushing /\ drain.at = "video"
  BY DEF PushVideo, MediaTypeOK
<1>2. d \in Nat /\ video \in Seq(Nat) /\ emitted \in Nat
  BY <1>1 DEF Pushing, Bundles, Frames, MediaTypeOK
<1>3. drain' = [at |-> "idle"] \/ drain' = [drain EXCEPT !.at = "audio"]
  BY DEF PushVideo
<1>4. DrainIds' = {} /\ (d # 0 => d \in DrainIds)
  BY <1>1, <1>3 DEF DrainIds, Pushing
<1>5. video' = video \/ (d # 0 /\ video' = Append(video, d) /\ (video = <<>> \/ video[Len(video)] # d))
  BY DEF PushVideo, Last
<1>6. /\ LastIds' = LastIds /\ WaitingIds' = WaitingIds /\ PqOrdered' /\ FqOrdered'
      /\ QueuedIds' = QueuedIds
  BY <1>1, LineSets
<1>7. (InHand /\ tick.frame.id # 0 => tick.frame.id \in LastIds)'
  BY <1>1, <1>6 DEF FramesInLine, InHand
<1> HIDE DEF d
<1>8. CASE video' = video
  <2>1. emitted' \in Nat /\ emitted' >= emitted
    BY <1>1, <1>2
  <2> QED BY <1>4, <1>6, <1>7, <1>8, <2>1, LineShrinks
<1>9. CASE d # 0 /\ video' = Append(video, d) /\ (video = <<>> \/ video[Len(video)] # d)
  <2>1. \A i \in DOMAIN video : video[i] \in PlayedIds /\ video[i] <= d /\ video[i] \in Nat
    BY <1>2, <1>4, <1>9 DEF PlayedIds, FramesInLine, AtMost
  <2>2. \A i \in DOMAIN video : video[i] < d
    <3> SUFFICES ASSUME NEW i \in DOMAIN video PROVE video[i] < d
      OBVIOUS
    <3>1. Len(video) \in DOMAIN video /\ video # <<>> /\ i <= Len(video) /\ i \in Nat /\ Len(video) \in Nat
      BY <1>2
    <3>2. video[Len(video)] < d
      BY <1>2, <1>9, <2>1, <3>1
    <3>3. i = Len(video) \/ video[i] < video[Len(video)]
      BY <3>1 DEF FramesInLine
    <3> QED BY <1>2, <2>1, <3>1, <3>2, <3>3
  <2>3. \A i, j \in DOMAIN video' : i < j => video'[i] < video'[j]
    <3> SUFFICES ASSUME NEW i \in DOMAIN video', NEW j \in DOMAIN video', i < j PROVE video'[i] < video'[j]
      OBVIOUS
    <3>1. i \in DOMAIN video /\ video'[i] = video[i]
      BY <1>2, <1>9, AppendFacts
    <3>2. CASE j \in DOMAIN video /\ video'[j] = video[j]
      BY <3>1, <3>2 DEF FramesInLine
    <3>3. CASE video'[j] = d
      BY <2>2, <3>1, <3>3
    <3> QED BY <1>2, <1>9, <3>2, <3>3, AppendFacts
  <2>4. PlayedIds' \subseteq PlayedIds \cup {d}
    BY <1>2, <1>9, AppendFacts DEF PlayedIds
  <2>5. PlayedIds' \subseteq PlayedIds \cup DrainIds
    BY <1>4, <1>9, <2>4
  <2>6. /\ AtMost(PlayedIds, DrainIds \cup QueuedIds \cup LastIds)' /\ AtMost(QueuedIds, LastIds)'
        /\ AtMost(DrainIds, QueuedIds \cup LastIds)'
        /\ Below(PlayedIds \cup DrainIds \cup QueuedIds \cup LastIds, WaitingIds)'
        /\ (PlayedIds \cup DrainIds \cup QueuedIds \cup LastIds \cup WaitingIds \subseteq 1..emitted)'
    BY <1>1, <1>4, <1>6, <2>5 DEF FramesInLine, AtMost, Below
  <2> QED BY <1>6, <1>7, <2>3, <2>6 DEF FramesInLine, FqOrdered, PqOrdered
<1> QED BY <1>5, <1>8, <1>9

LEMMA LineStep ==
  ASSUME MediaTypeOK, FramesInLine, MediaNext
  PROVE  FramesInLine'
<1> USE DEF pacerVars, makerVars, cutVars, queueVars, pumpVars, seenVars
<1>1. CASE /\ UNCHANGED <<video, emitted>> /\ drain' \in {drain, [at |-> "idle"]}
           /\ fq' \in {fq, <<>>} /\ UNCHANGED <<pq, last>>
           /\ InHand' => InHand /\ tick'.frame = tick.frame
  <2>1. /\ DrainIds' \subseteq DrainIds /\ QueuedIds' \subseteq QueuedIds /\ LastIds' \subseteq LastIds
        /\ WaitingIds' \subseteq WaitingIds /\ FqOrdered' /\ PqOrdered' /\ LastIds' = LastIds
    <3>1. drain' = [at |-> "idle"] => DrainIds' = {}
      BY DEF DrainIds
    <3>2. DrainIds' \subseteq DrainIds
      BY <1>1, <3>1, LineSets
    <3>3. QueuedIds' \subseteq QueuedIds /\ FqOrdered'
      <4>1. CASE fq' = fq
        BY <4>1, LineSets
      <4>2. CASE fq' = <<>>
        BY <4>2, LineSets
      <4> QED BY <1>1, <4>1, <4>2
    <3>4. LastIds' = LastIds /\ WaitingIds' = WaitingIds /\ PqOrdered'
      BY <1>1, LineSets
    <3> QED BY <3>2, <3>3, <3>4
  <2>2. (InHand /\ tick.frame.id # 0 => tick.frame.id \in LastIds)'
    BY <1>1, <2>1 DEF FramesInLine
  <2>3. emitted' \in Nat /\ emitted' >= emitted
    BY <1>1 DEF MediaTypeOK
  <2> QED BY <1>1, <2>1, <2>2, <2>3, LineShrinks
<1>2. CASE PacerReleases \/ \E hold \in BOOLEAN : FlushPacer(hold)
  <2>1. UNCHANGED <<video, emitted, drain, fq, tick>> /\ pq' = <<>> /\ last' = <<>> /\ tick.at \in {"off", "idle"}
    BY <1>2 DEF PacerReleases, FlushPacer
  <2>2. /\ DrainIds' \subseteq DrainIds /\ QueuedIds' \subseteq QueuedIds /\ LastIds' \subseteq LastIds
        /\ WaitingIds' \subseteq WaitingIds /\ FqOrdered' /\ PqOrdered'
    BY <2>1, LineSets
  <2>3. (InHand /\ tick.frame.id # 0 => tick.frame.id \in LastIds)'
    BY <2>1 DEF InHand
  <2>4. emitted' \in Nat /\ emitted' >= emitted
    BY <2>1 DEF MediaTypeOK
  <2> QED BY <2>1, <2>2, <2>3, <2>4, LineShrinks
<1>3. CASE PacerStarts \/ PacerExits \/ SendChecks \/ SendRechecks
  <2>1. InHand' => InHand /\ tick'.frame = tick.frame
    BY <1>3 DEF PacerStarts, PacerExits, SendChecks, SendRechecks, InHand, MediaTypeOK
  <2>2. UNCHANGED <<video, emitted, pq, last, drain>> /\ fq' \in {fq, <<>>}
    BY <1>3 DEF PacerStarts, PacerExits, SendChecks, SendRechecks
  <2> QED BY <1>1, <2>1, <2>2
<1>4. CASE /\ UNCHANGED <<video, emitted, pq, last, tick>> /\ drain' \in {drain, [at |-> "idle"]}
           /\ fq' \in {fq, <<>>}
  BY <1>1, <1>4 DEF InHand
<1> QED BY <1>2, <1>3, <1>4, SubmitKeepsLine, TickKeepsLine, PutKeepsLine, DrainKeepsLine, VideoKeepsLine
        DEF MediaNext, SubmitBegins, SetDepth, EnqueueAudio, AudioFeeds, FeederExits, FlushCalled,
            FlushPeer, EndBegins, PacerHalts, PacerRefuses, PeerStops, ReleaseWire, EmptyFrameQueue, DropAudio

-------------------------------------------------------------------------------
(* The end of the connection.                                              *)

LEMMA EndStep ==
  ASSUME MediaTypeOK, EndStages, MediaNext
  PROVE  EndStages'
<1> USE DEF pacerVars, makerVars, cutVars, queueVars, pumpVars, seenVars, stopVars, endVars
<1> USE DEF PacerDone, PeerMarked, Dropped, Silenced
<1>1. CASE SubmitTurn
  <2>1. UNCHANGED <<mEnding, cause, halted, finished, tick, last, done, fq, abuf>>
    BY <1>1 DEF SubmitTurn
  <2>2. finished => pq' = pq
    BY <1>1 DEF SubmitTurn, SubmitReturns
  <2> QED BY <2>1, <2>2 DEF EndStages
<1>2. CASE PacerStarts
  BY <1>2 DEF PacerStarts, EndStages
<1>3. CASE TickTakes
  BY <1>3 DEF TickTakes, EndStages
<1>4. CASE PacerExits
  BY <1>4 DEF PacerExits, EndStages
<1>5. CASE SendChecks
  BY <1>5 DEF SendChecks, EndStages, MediaTypeOK
<1>6. CASE SendPuts
  <2>1. tick.at = "putting" /\ tick'.at = "put" /\ UNCHANGED <<mEnding, cause, halted, finished, pq, last, done, abuf>>
    BY <1>6 DEF SendPuts, MediaTypeOK
  <2> QED BY <2>1 DEF EndStages
<1>7. CASE SendRechecks
  <2>1. /\ tick.at = "put" /\ UNCHANGED <<mEnding, cause, halted, finished, pq, last, done, abuf>>
        /\ done => fq' = <<>>
    BY <1>7 DEF SendRechecks
  <2> QED BY <2>1 DEF EndStages
<1>8. CASE DrainTakes
  BY <1>8 DEF DrainTakes, EndStages
<1>9. CASE EnqueueAudio
  <2>1. UNCHANGED <<mEnding, cause, halted, finished, tick, pq, last, done, fq>> /\ (done => abuf' = abuf)
    BY <1>9 DEF EnqueueAudio
  <2> QED BY <2>1 DEF EndStages
<1>10. CASE AudioFeeds
  BY <1>10 DEF AudioFeeds, EndStages
<1>11. CASE FlushPeer \/ \E hold \in BOOLEAN : FlushPacer(hold)
  BY <1>11 DEF FlushPeer, FlushPacer, EndStages
<1>12. CASE \E why \in {"close", "loss"} : EndBegins(why)
  BY <1>12 DEF EndBegins, EndStages
<1>13. CASE PacerHalts \/ PacerRefuses \/ PacerReleases
  BY <1>13 DEF PacerHalts, PacerRefuses, PacerReleases, EndStages
<1>14. CASE PeerStops \/ ReleaseWire \/ EmptyFrameQueue \/ DropAudio
  BY <1>14 DEF PeerStops, ReleaseWire, EmptyFrameQueue, DropAudio, EndStages
<1>15. CASE UNCHANGED <<mEnding, cause, halted, finished, tick, pq, last, done, fq, abuf>>
  BY <1>15 DEF EndStages
<1> QED BY <1>1, <1>2, <1>3, <1>4, <1>5, <1>6, <1>7, <1>8, <1>9, <1>10, <1>11, <1>12, <1>13, <1>14, <1>15
        DEF MediaNext, SubmitBegins, SetDepth, PushVideo, FeederExits, FlushCalled

-------------------------------------------------------------------------------
(* The theorem.                                                            *)

LEMMA MediaInvInit == MediaInit => MediaInv
<1> SUFFICES ASSUME MediaInit PROVE MediaInv
  OBVIOUS
<1>1. MediaTypeOK
  BY MediaTypeInit
<1>2. FlushCounts /\ CutIsClean
  BY DEF MediaInit, FlushCounts, CutIsClean
<1>3. FramesAreCurrent
  BY EmptyFacts DEF MediaInit, FramesAreCurrent, InHand
<1>4. FramesInLine
  <2>1. pq = <<>> /\ last = <<>> /\ fq = <<>> /\ video = <<>> /\ drain.at = "idle" /\ tick.at = "off"
    BY DEF MediaInit
  <2>2. PlayedIds = {} /\ DrainIds = {} /\ QueuedIds = {} /\ LastIds = {} /\ WaitingIds = {}
    BY <2>1, EmptyFacts DEF PlayedIds, DrainIds, QueuedIds, LastIds, WaitingIds
  <2> QED BY <2>1, <2>2, EmptyFacts DEF FramesInLine, AtMost, Below, InHand
<1>5. EndStages
  BY DEF MediaInit, EndStages, PacerDone, PeerMarked, Dropped, Silenced
<1> QED BY <1>1, <1>2, <1>3, <1>4, <1>5 DEF MediaInv

LEMMA MediaInvStep == MediaInv /\ [MediaNext]_mediaVars => MediaInv'
<1> SUFFICES ASSUME MediaInv, [MediaNext]_mediaVars PROVE MediaInv'
  OBVIOUS
<1>1. MediaTypeOK /\ FlushCounts /\ FramesAreCurrent /\ FramesInLine /\ EndStages /\ CutIsClean
  BY DEF MediaInv
<1>2. CASE MediaNext
  <2>1. MediaTypeOK' /\ FlushCounts' /\ FramesInLine' /\ EndStages' /\ CutIsClean'
    BY <1>1, <1>2, MediaTypeStep, FlushCountsStep, LineStep, EndStep, CutStep
  <2>2. FramesAreCurrent'
    <3>1. PacerCurrent' /\ PeerCurrent'
      BY <1>1, <1>2, PacerCurrentStep, PeerCurrentStep
    <3> QED BY <3>1 DEF PacerCurrent, PeerCurrent, FramesAreCurrent
  <2> QED BY <2>1, <2>2 DEF MediaInv
<1>3. CASE UNCHANGED mediaVars
  <2> USE <1>1, <1>3 DEF mediaVars, pacerVars, makerVars, cutVars, queueVars, pumpVars, stopVars, endVars, seenVars
  <2>1. MediaTypeOK' /\ FlushCounts' /\ FramesAreCurrent' /\ CutIsClean'
    BY DEF MediaTypeOK, FlushCounts, FramesAreCurrent, CutIsClean, InHand
  <2>2. FramesInLine'
    BY DEF FramesInLine, PlayedIds, DrainIds, QueuedIds, LastIds, WaitingIds, InHand
  <2>3. EndStages'
    BY DEF EndStages, PacerDone, PeerMarked, Dropped, Silenced
  <2> QED BY <2>1, <2>2, <2>3 DEF MediaInv
<1> QED BY <1>2, <1>3

\* Whatever the producer, the pacing thread, the pumps, a flush and the end of
\* the connection do to one another: the model's frames reach the track in the
\* order it emitted them, none after a flush that followed it has returned
\* (flush_media), and nothing is held once the connection has ended.
THEOREM MediaSafe == MediaSpec => []MediaPlays
<1>1. MediaSpec => []MediaInv
  BY MediaInvInit, MediaInvStep, PTL DEF MediaSpec
<1>2. MediaInv => MediaPlays
  <2> SUFFICES ASSUME MediaInv PROVE MediaPlays
    OBVIOUS
  <2>1. FramesPlayInOrder
    BY DEF MediaInv, FramesInLine, FramesPlayInOrder
  <2>2. EndedHoldsNothing
    BY DEF MediaInv, EndStages, EndedHoldsNothing, PacerDone, Dropped, Silenced
  <2> QED BY <2>1, <2>2 DEF MediaInv, MediaPlays
<1> QED BY <1>1, <1>2, PTL

-------------------------------------------------------------------------------
(* Pauses: the requesters, the applier and the engine.                     *)

PauseTypeOK ==
  /\ paused \in SUBSET OutTracks /\ applied \in SUBSET OutTracks /\ inactive \in SUBSET OutTracks
  /\ pass \in [of : SUBSET OutTracks, left : SUBSET OutTracks]
  /\ changed \in BOOLEAN /\ running \in BOOLEAN /\ halfway \in BOOLEAN /\ wireStopped \in BOOLEAN
  /\ request \in [Requesters -> {"idle", "marking", "starting"}]
  /\ applier \in {"none", "looking", "reading", "remote", "restating"}

\* One applier runs or is on its way while the flag says so, and a change
\* noted has one.
OneApplier ==
  /\ applier # "none" \/ changed => running
  /\ \A r \in Requesters : request[r] = "starting" =>
       /\ running /\ applier = "none"
       /\ \A s \in Requesters : request[s] = "starting" => s = r

\* What the engine holds, between passes and within one.
EngineHolds ==
  /\ applier \in {"none", "looking", "reading"} /\ ~halfway => inactive = applied
  /\ applier \in {"remote", "restating"} =>
       \A t \in OutTracks \ pass.left : t \in inactive <=> t \in pass.of

\* Nobody is about to note a change and none is noted: the set is applied, or
\* the pass under way applies it.
LastPassApplies ==
  (\A r \in Requesters : request[r] # "marking") /\ ~changed /\ ~wireStopped =>
    /\ applier \in {"none", "looking"} /\ ~halfway => applied = paused
    /\ applier \in {"remote", "restating"} => pass.of = paused

PausesInv == PauseTypeOK /\ OneApplier /\ EngineHolds /\ LastPassApplies

LEMMA PausesInitial == PausesInit => PausesInv
<1> SUFFICES ASSUME PausesInit PROVE PausesInv
  OBVIOUS
<1> USE DEF PausesInit
<1>1. PauseTypeOK
  BY DEF PauseTypeOK
<1>2. OneApplier /\ EngineHolds /\ LastPassApplies
  BY DEF OneApplier, EngineHolds, LastPassApplies
<1> QED BY <1>1, <1>2 DEF PausesInv

LEMMA RequestKeepsPauses ==
  ASSUME PausesInv, NEW r \in Requesters, NEW t \in OutTracks, Request(r, t)
  PROVE  PausesInv'
<1> USE DEF PausesInv, PauseTypeOK, Request
<1>1. PauseTypeOK'
  OBVIOUS
<1>2. OneApplier'
  BY DEF OneApplier
<1>3. EngineHolds'
  BY DEF EngineHolds
<1>4. LastPassApplies'
  BY DEF LastPassApplies
<1> QED BY <1>1, <1>2, <1>3, <1>4

LEMMA ScheduleKeepsPauses ==
  ASSUME PausesInv, NEW r \in Requesters, ScheduleDirection(r)
  PROVE  PausesInv'
<1> USE DEF PausesInv, PauseTypeOK, ScheduleDirection
<1>1. PauseTypeOK'
  OBVIOUS
<1>2. OneApplier'
  BY DEF OneApplier
<1>3. EngineHolds'
  BY DEF EngineHolds
<1>4. LastPassApplies'
  BY DEF LastPassApplies
<1> QED BY <1>1, <1>2, <1>3, <1>4

LEMMA ApplierKeepsPauses ==
  ASSUME PausesInv,
         \/ \E r \in Requesters : ApplierStarts(r)
         \/ ApplierLooks \/ PassReads \/ SetRemote \/ WireStops
  PROVE  PausesInv'
<1> USE DEF PausesInv, PauseTypeOK
<1>1. CASE \E r \in Requesters : ApplierStarts(r)
  <2>1. PICK r \in Requesters : ApplierStarts(r)
    BY <1>1
  <2> USE <2>1 DEF ApplierStarts
  <2>2. PauseTypeOK'
    OBVIOUS
  <2>3. OneApplier' /\ EngineHolds'
    BY DEF OneApplier, EngineHolds
  <2>4. LastPassApplies'
    BY DEF LastPassApplies
  <2> QED BY <2>2, <2>3, <2>4
<1>2. CASE ApplierLooks
  <2> USE <1>2 DEF ApplierLooks
  <2>2. PauseTypeOK'
    OBVIOUS
  <2>3. OneApplier' /\ EngineHolds'
    BY DEF OneApplier, EngineHolds
  <2>4. LastPassApplies'
    BY DEF LastPassApplies
  <2> QED BY <2>2, <2>3, <2>4
<1>3. CASE PassReads
  <2> USE <1>3 DEF PassReads
  <2>2. PauseTypeOK'
    OBVIOUS
  <2>3. OneApplier' /\ EngineHolds'
    BY DEF OneApplier, EngineHolds
  <2>4. LastPassApplies'
    BY DEF LastPassApplies
  <2> QED BY <2>2, <2>3, <2>4
<1>4. CASE SetRemote
  <2> USE <1>4 DEF SetRemote
  <2>2. PauseTypeOK'
    OBVIOUS
  <2>3. OneApplier' /\ EngineHolds' /\ LastPassApplies'
    BY DEF OneApplier, EngineHolds, LastPassApplies
  <2> QED BY <2>2, <2>3
<1>5. CASE WireStops
  <2> USE <1>5 DEF WireStops
  <2>2. PauseTypeOK'
    OBVIOUS
  <2>3. OneApplier' /\ EngineHolds' /\ LastPassApplies'
    BY DEF OneApplier, EngineHolds, LastPassApplies
  <2> QED BY <2>2, <2>3
<1> QED BY <1>1, <1>2, <1>3, <1>4, <1>5

LEMMA PassKeepsPauses ==
  ASSUME PausesInv,
         SetLocal \/ PassFails \/ \E t \in OutTracks : Restate(t)
  PROVE  PausesInv'
<1> USE DEF PausesInv, PauseTypeOK
<1>1. CASE SetLocal
  <2> USE <1>1 DEF SetLocal
  <2>1. PauseTypeOK'
    OBVIOUS
  <2>2. inactive = pass.of
    BY DEF EngineHolds
  <2>3. OneApplier' /\ EngineHolds'
    BY <2>2 DEF OneApplier, EngineHolds
  <2>4. LastPassApplies'
    BY DEF LastPassApplies
  <2> QED BY <2>1, <2>3, <2>4
<1>2. CASE PassFails
  <2> USE <1>2 DEF PassFails
  <2>1. PauseTypeOK'
    OBVIOUS
  <2>2. OneApplier' /\ EngineHolds' /\ LastPassApplies'
    BY DEF OneApplier, EngineHolds, LastPassApplies
  <2> QED BY <2>1, <2>2
<1>3. CASE \E t \in OutTracks : Restate(t)
  <2>1. PICK t \in OutTracks : Restate(t)
    BY <1>3
  <2> USE <2>1 DEF Restate
  <2>2. PauseTypeOK'
    OBVIOUS
  <2>3. pass'.of = pass.of /\ pass'.left = pass.left \ {t}
    OBVIOUS
  <2>4. EngineHolds'
    <3>1. SUFFICES ASSUME NEW s \in OutTracks \ pass'.left
                   PROVE  s \in inactive' <=> s \in pass.of
      BY <2>3 DEF EngineHolds
    <3>2. CASE s = t
      BY <3>2
    <3>3. CASE s # t
      <4>1. s \in inactive' <=> s \in inactive
        BY <3>3
      <4> QED BY <2>3, <3>1, <3>3, <4>1 DEF EngineHolds
    <3> QED BY <3>2, <3>3
  <2>5. OneApplier' /\ LastPassApplies'
    BY <2>3 DEF OneApplier, LastPassApplies
  <2> QED BY <2>2, <2>4, <2>5
<1> QED BY <1>1, <1>2, <1>3

\* No request to pause or to resume a track is lost, for any number of tracks,
\* requesting threads and failed renegotiations, however they meet the
\* applier's last look (peer.py, _schedule_direction).
THEOREM PausesSafe == PausesSpec => []PausesSettle
<1>1. PausesInit => PausesInv
  BY PausesInitial
<1>2. PausesInv /\ [PausesNext]_pauseVars => PausesInv'
  <2> SUFFICES ASSUME PausesInv, [PausesNext]_pauseVars PROVE PausesInv'
    OBVIOUS
  <2>1. CASE PausesNext
    BY <2>1, RequestKeepsPauses, ScheduleKeepsPauses, ApplierKeepsPauses, PassKeepsPauses
       DEF PausesNext
  <2>2. CASE UNCHANGED pauseVars
    BY <2>2 DEF pauseVars, PausesInv, PauseTypeOK, OneApplier, EngineHolds, LastPassApplies
  <2> QED BY <2>1, <2>2
<1>3. PausesInv => PausesSettle
  BY DEF PausesInv, PauseTypeOK, OneApplier, EngineHolds, LastPassApplies, PausesSettle
<1> QED BY <1>1, <1>2, <1>3, PTL DEF PausesSpec

-------------------------------------------------------------------------------
(* A room's media: the pacing thread, the loop's callbacks and the pump.   *)

RoomFrames == 1 .. MaxRoomFrames

RoomTypeOK ==
  /\ rq \in Seq(RoomFrames) /\ made \in 0 .. MaxRoomFrames
  /\ rSubmit.at = "putting" => made # 0
  /\ rTick \in [at : {"idle", "sending", "off"}, frame : 0 .. MaxRoomFrames]
  /\ loop \in Seq(Nat) /\ pending \in Seq(Nat) /\ source \in Seq(Nat)
  /\ rPump \in [at : {"waiting", "feeding", "cancelled"}, frame : Nat]
  /\ rLeaving \in {"none", "joining", "clearing", "closed"} /\ overran \in BOOLEAN
  /\ afterEnd \in Nat

\* The pacer is stopped before it is joined, and empty once it has ended.
PacerEnds ==
  /\ rLeaving # "none" => rHalted /\ rClosed
  /\ rLeaving \in {"clearing", "closed"} /\ ~overran => rTick.at = "off" /\ rq = <<>>

\* close goes on where its callback stands, and nothing but flushes is behind it.
CloseInLine ==
  /\ rLeaving # "clearing" => \A i \in DOMAIN loop : loop[i] # Resume
  /\ rLeaving = "clearing" =>
       \E i \in DOMAIN loop :
         /\ loop[i] = Resume
         /\ \A j \in DOMAIN loop : j # i => loop[j] # Resume
         /\ ~overran => \A j \in DOMAIN loop : j > i => loop[j] = Clear
  /\ rLeaving = "closed" /\ ~overran => \A i \in DOMAIN loop : loop[i] = Clear

\* The pump holds one frame at the most, and takes none once it is cancelled.
PumpEnds ==
  /\ rLeaving # "closed" => afterEnd = 0
  /\ rLeaving = "closed" =>
       /\ rPump.at = "cancelled"
       /\ afterEnd <= 1 /\ (rPump.frame # 0 => afterEnd = 0)
       /\ ~overran => pending = <<>> /\ Len(source) <= afterEnd

RoomMediaInv == RoomTypeOK /\ PacerEnds /\ CloseInLine /\ PumpEnds

LEMMA RoomMediaInitial == RoomMediaInit => RoomMediaInv
<1> SUFFICES ASSUME RoomMediaInit PROVE RoomMediaInv
  OBVIOUS
<1> USE DEF RoomMediaInit
<1>0. MaxRoomFrames \in Nat
  BY RoomMediaAssumption
<1>1. RoomTypeOK
  <2>1. rq \in Seq(RoomFrames) /\ loop \in Seq(Nat) /\ pending \in Seq(Nat) /\ source \in Seq(Nat)
    OBVIOUS
  <2>2. made \in 0 .. MaxRoomFrames /\ afterEnd \in Nat /\ rSubmit.at # "putting"
    BY <1>0
  <2>3. /\ rTick \in [at : {"idle", "sending", "off"}, frame : 0 .. MaxRoomFrames]
        /\ rPump \in [at : {"waiting", "feeding", "cancelled"}, frame : Nat]
    BY <1>0
  <2>4. rLeaving \in {"none", "joining", "clearing", "closed"} /\ overran \in BOOLEAN
    OBVIOUS
  <2> QED BY <2>1, <2>2, <2>3, <2>4 DEF RoomTypeOK
<1>2. PacerEnds /\ CloseInLine /\ PumpEnds
  BY DEF PacerEnds, CloseInLine, PumpEnds
<1> QED BY <1>1, <1>2 DEF RoomMediaInv

\* What waits for the loop keeps its order where a callback joins it or leaves.
LEMMA LoopAppends ==
  ASSUME loop \in Seq(Nat), NEW x \in Nat, x # Resume, loop' = Append(loop, x),
         CloseInLine, UNCHANGED <<rLeaving, overran>>,
         rLeaving \in {"clearing", "closed"} /\ ~overran => x = Clear
  PROVE  CloseInLine'
<1>1. /\ DOMAIN loop = 1 .. Len(loop) /\ Len(loop) \in Nat /\ DOMAIN loop' = 1 .. Len(loop) + 1
      /\ \A i \in DOMAIN loop : loop'[i] = loop[i]
      /\ loop'[Len(loop) + 1] = x
  OBVIOUS
<1>2. \A i \in DOMAIN loop' : i \in DOMAIN loop \/ i = Len(loop) + 1
  BY <1>1
<1>3. Resume' = Resume /\ Clear' = Clear
  BY DEF Resume, Clear
<1>4. CASE rLeaving = "clearing"
  <2>1. PICK i \in DOMAIN loop :
         /\ loop[i] = Resume
         /\ \A j \in DOMAIN loop : j # i => loop[j] # Resume
         /\ ~overran => \A j \in DOMAIN loop : j > i => loop[j] = Clear
    BY <1>4 DEF CloseInLine
  <2>2. i \in DOMAIN loop' /\ loop'[i] = Resume
    BY <1>1, <2>1
  <2>3. \A j \in DOMAIN loop' : j # i => loop'[j] # Resume
    BY <1>1, <1>2, <2>1
  <2>4. ~overran => \A j \in DOMAIN loop' : j > i => loop'[j] = Clear
    BY <1>1, <1>2, <1>4, <2>1
  <2> QED BY <1>3, <1>4, <2>2, <2>3, <2>4 DEF CloseInLine
<1>5. CASE rLeaving # "clearing"
  BY <1>1, <1>2, <1>3, <1>5 DEF CloseInLine
<1> QED BY <1>4, <1>5

LEMMA LoopTakes ==
  ASSUME loop \in Seq(Nat), loop # <<>>, Head(loop) # Resume, loop' = Tail(loop),
         CloseInLine, UNCHANGED <<rLeaving, overran>>
  PROVE  CloseInLine'
<1>1. /\ DOMAIN loop = 1 .. Len(loop) /\ Len(loop) \in Nat \ {0}
      /\ DOMAIN loop' = 1 .. Len(loop) - 1
      /\ \A i \in DOMAIN loop' : loop'[i] = loop[i + 1]
      /\ Head(loop) = loop[1]
  OBVIOUS
<1>2. \A i \in DOMAIN loop' : i + 1 \in DOMAIN loop /\ i \in Nat
  BY <1>1
<1>3. Resume' = Resume /\ Clear' = Clear
  BY DEF Resume, Clear
<1>4. CASE rLeaving = "clearing"
  <2>1. PICK i \in DOMAIN loop :
         /\ loop[i] = Resume
         /\ \A j \in DOMAIN loop : j # i => loop[j] # Resume
         /\ ~overran => \A j \in DOMAIN loop : j > i => loop[j] = Clear
    BY <1>4 DEF CloseInLine
  <2>2. i # 1 /\ i \in Nat
    BY <1>1, <2>1
  <2>3. PICK k : k = i - 1
    OBVIOUS
  <2>4. k \in DOMAIN loop' /\ loop'[k] = Resume /\ k \in Nat
    BY <1>1, <2>1, <2>2, <2>3
  <2>5. \A j \in DOMAIN loop' : j # k => loop'[j] # Resume
    BY <1>1, <1>2, <2>1, <2>2, <2>3
  <2>6. ~overran => \A j \in DOMAIN loop' : j > k => loop'[j] = Clear
    BY <1>1, <1>2, <2>1, <2>2, <2>3
  <2> QED BY <1>3, <1>4, <2>4, <2>5, <2>6 DEF CloseInLine
<1>5. CASE rLeaving # "clearing"
  BY <1>1, <1>2, <1>3, <1>5 DEF CloseInLine
<1> QED BY <1>4, <1>5

LEMMA ProducerKeepsRoom ==
  ASSUME RoomMediaInv, (\E wait \in BOOLEAN : RoomSubmits(wait)) \/ RoomPuts
  PROVE  RoomMediaInv'
<1>0. MaxRoomFrames \in Nat
  BY RoomMediaAssumption
<1>1. UNCHANGED <<rHalted, rClosed, rTick, loop, pending, rPump, source, rLeaving, overran, afterEnd>>
  BY DEF RoomSubmits, RoomPuts, roomPacerVars, roomAudioVars, roomSeenVars
<1>2. rq' \in Seq(RoomFrames) /\ made' \in 0 .. MaxRoomFrames /\ (rSubmit'.at = "putting" => made' # 0)
  <2>1. CASE \E wait \in BOOLEAN : RoomSubmits(wait)
    BY <1>0, <2>1 DEF RoomSubmits, RoomMediaInv, RoomTypeOK, roomPacerVars
  <2>2. CASE RoomPuts
    <3>1. made \in RoomFrames
      BY <1>0, <2>2 DEF RoomPuts, RoomMediaInv, RoomTypeOK, RoomFrames
    <3>2. rq' = rq \/ rq' = Append(rq, made)
      BY <2>2 DEF RoomPuts
    <3>3. rq' \in Seq(RoomFrames)
      <4>1. rq \in Seq(RoomFrames)
        BY DEF RoomMediaInv, RoomTypeOK
      <4>2. Append(rq, made) \in Seq(RoomFrames)
        BY <3>1, <4>1
      <4> QED BY <3>2, <4>1, <4>2
    <3> QED BY <2>2, <3>3 DEF RoomPuts, RoomMediaInv, RoomTypeOK
  <2> QED BY <2>1, <2>2
<1>3. RoomTypeOK'
  BY <1>1, <1>2 DEF RoomMediaInv, RoomTypeOK, RoomFrames
<1>4. PacerEnds'
  <2>1. rLeaving # "none" => rq' = rq
    BY DEF RoomMediaInv, PacerEnds, RoomSubmits, RoomPuts, roomPacerVars
  <2> QED BY <1>1, <2>1 DEF RoomMediaInv, PacerEnds
<1>5. CloseInLine' /\ PumpEnds'
  BY <1>1 DEF RoomMediaInv, CloseInLine, PumpEnds, Resume, Clear
<1> QED BY <1>3, <1>4, <1>5 DEF RoomMediaInv

LEMMA PacerKeepsRoom ==
  ASSUME RoomMediaInv, RoomTickTakes \/ RoomSendFrame \/ RoomPacerExits
  PROVE  RoomMediaInv'
<1>0. MaxRoomFrames \in Nat
  BY RoomMediaAssumption
<1>1. /\ UNCHANGED <<rHalted, rClosed, rSubmit, made, pending, rPump, source, rLeaving, overran>>
      /\ afterEnd' = afterEnd
  BY DEF RoomTickTakes, RoomSendFrame, RoomPacerExits, roomPacerVars, roomAudioVars, roomSeenVars
<1>2. PumpEnds'
  BY <1>1 DEF RoomMediaInv, PumpEnds
<1>3. CASE RoomTickTakes
  <2>1. rq' \in Seq(RoomFrames)
    BY <1>3 DEF RoomTickTakes, RoomMediaInv, RoomTypeOK
  <2>2. rTick' \in [at : {"idle", "sending", "off"}, frame : 0 .. MaxRoomFrames]
    <3>1. rq # <<>> => Head(rq) \in 0 .. MaxRoomFrames
      BY <1>0 DEF RoomMediaInv, RoomTypeOK, RoomFrames
    <3> QED BY <1>0, <1>3, <3>1 DEF RoomTickTakes
  <2>3. RoomTypeOK'
    BY <1>1, <1>3, <2>1, <2>2 DEF RoomMediaInv, RoomTypeOK, RoomTickTakes, RoomFrames
  <2>4. PacerEnds' /\ CloseInLine'
    BY <1>1, <1>3 DEF RoomMediaInv, PacerEnds, CloseInLine, RoomTickTakes, Resume, Clear
  <2> QED BY <1>2, <2>3, <2>4 DEF RoomMediaInv
<1>4. CASE RoomSendFrame
  <2>1. rq' = rq /\ rTick' = [at |-> "idle", frame |-> 0] /\ rTick.at = "sending"
    BY <1>4 DEF RoomSendFrame, roomPacerVars
  <2>2. PacerEnds'
    BY <1>1, <2>1 DEF RoomMediaInv, PacerEnds
  <2>3. loop' \in Seq(Nat) /\ CloseInLine'
    <3>1. CASE rTick.frame = 0
      BY <1>1, <1>4, <3>1 DEF RoomSendFrame, RoomMediaInv, RoomTypeOK, CloseInLine, Resume, Clear
    <3>2. CASE rTick.frame # 0
      <4>1. PICK x : x = rTick.frame
        OBVIOUS
      <4>2. x \in Nat /\ x # Resume
        BY <1>0, <4>1 DEF RoomMediaInv, RoomTypeOK, Resume
      <4>3. loop' = Append(loop, x)
        BY <1>4, <3>2, <4>1 DEF RoomSendFrame
      <4>4. ~(rLeaving \in {"clearing", "closed"} /\ ~overran)
        BY <2>1 DEF RoomMediaInv, PacerEnds
      <4>5. loop \in Seq(Nat) /\ CloseInLine
        BY DEF RoomMediaInv, RoomTypeOK
      <4> QED BY <1>1, <4>2, <4>3, <4>4, <4>5, LoopAppends
    <3> QED BY <3>1, <3>2
  <2>4. RoomTypeOK'
    BY <1>0, <1>1, <2>1, <2>3 DEF RoomMediaInv, RoomTypeOK, RoomFrames
  <2> QED BY <1>2, <2>2, <2>3, <2>4 DEF RoomMediaInv
<1>5. CASE RoomPacerExits
  <2>1. UNCHANGED <<rq, loop>> /\ rTick' = [at |-> "off", frame |-> 0]
    BY <1>5 DEF RoomPacerExits, roomPacerVars
  <2>2. RoomTypeOK'
    BY <1>0, <1>1, <2>1 DEF RoomMediaInv, RoomTypeOK, RoomFrames
  <2>3. PacerEnds' /\ CloseInLine'
    BY <1>1, <2>1 DEF RoomMediaInv, PacerEnds, CloseInLine, Resume, Clear
  <2> QED BY <1>2, <2>2, <2>3 DEF RoomMediaInv
<1> QED BY <1>3, <1>4, <1>5

LEMMA FlushKeepsRoom ==
  ASSUME RoomMediaInv, NEW hold \in BOOLEAN, RoomFlush(hold)
  PROVE  RoomMediaInv'
<1>0. MaxRoomFrames \in Nat
  BY RoomMediaAssumption
<1>1. /\ UNCHANGED <<rHalted, rClosed, rTick, rSubmit, made, pending, rPump, source, rLeaving, overran>>
      /\ afterEnd' = afterEnd /\ rq' = <<>> /\ loop' = Append(loop, Clear)
  BY DEF RoomFlush, roomAudioVars
<1>2. PICK x : x = Clear
  OBVIOUS
<1>3. x \in Nat /\ x # Resume
  BY <1>0, <1>2 DEF Clear, Resume
<1>4. loop' \in Seq(Nat) /\ CloseInLine'
  <2>1. loop \in Seq(Nat) /\ CloseInLine
    BY DEF RoomMediaInv, RoomTypeOK
  <2> QED BY <1>1, <1>2, <1>3, <2>1, LoopAppends
<1>5. RoomTypeOK'
  BY <1>1, <1>4 DEF RoomMediaInv, RoomTypeOK, RoomFrames
<1>6. PacerEnds' /\ PumpEnds'
  BY <1>1 DEF RoomMediaInv, PacerEnds, PumpEnds
<1> QED BY <1>4, <1>5, <1>6 DEF RoomMediaInv

LEMMA AudioKeepsRoom ==
  ASSUME RoomMediaInv,
         RoomLoopRuns \/ PumpTakes \/ SourcePlays \/ \E taken \in BOOLEAN : PumpFeeds(taken)
  PROVE  RoomMediaInv'
<1>0. /\ UNCHANGED <<rq, rHalted, rClosed, rTick, rSubmit, made, rLeaving, overran>>
      /\ pending \in Seq(Nat) /\ source \in Seq(Nat) /\ loop \in Seq(Nat)
  BY DEF RoomLoopRuns, PumpTakes, SourcePlays, PumpFeeds, roomPacerVars, RoomMediaInv, RoomTypeOK
<1>1. PacerEnds'
  BY <1>0 DEF RoomMediaInv, PacerEnds
<1>2. CASE RoomLoopRuns
  <2>1. loop # <<>> /\ Head(loop) # Resume /\ loop' = Tail(loop) /\ rPump' = rPump /\ afterEnd' = afterEnd
    BY <1>2 DEF RoomLoopRuns, roomSeenVars
  <2>2. loop' \in Seq(Nat) /\ CloseInLine'
    BY <1>0, <2>1, LoopTakes DEF RoomMediaInv
  <2>3. PICK x : x = Head(loop)
    OBVIOUS
  <2>4. x \in Nat
    BY <1>0, <2>1, <2>3
  <2>5. pending' \in Seq(Nat) /\ source' \in Seq(Nat) /\ Len(source') <= Len(source)
    <3>1. CASE pending' = <<>> /\ source' = <<>>
      BY <1>0, <3>1
    <3>2. CASE source' = source /\ pending' = Append(IF Len(pending) >= PumpMax THEN Tail(pending) ELSE pending, x)
      <4>1. PICK rest : rest = IF Len(pending) >= PumpMax THEN Tail(pending) ELSE pending
        OBVIOUS
      <4>2. rest \in Seq(Nat)
        <5>1. Len(pending) >= PumpMax => pending # <<>>
          BY <1>0, RoomMediaAssumption
        <5> QED BY <1>0, <4>1, <5>1
      <4> QED BY <1>0, <2>4, <3>2, <4>1, <4>2
    <3> QED BY <1>2, <2>3, <3>1, <3>2 DEF RoomLoopRuns
  <2>6. rLeaving = "closed" /\ ~overran => pending' = <<>>
    <3>1. rLeaving = "closed" /\ ~overran => Head(loop) = Clear
      BY <1>0, <2>1 DEF RoomMediaInv, CloseInLine
    <3> QED BY <1>2, <3>1 DEF RoomLoopRuns
  <2>7. RoomTypeOK'
    BY <1>0, <2>1, <2>2, <2>5 DEF RoomMediaInv, RoomTypeOK, RoomFrames
  <2>8. PumpEnds'
    <3>1. Len(source') \in Nat /\ Len(source) \in Nat /\ afterEnd \in Nat
      BY <1>0, <2>5 DEF RoomMediaInv, RoomTypeOK
    <3> QED BY <1>0, <2>1, <2>5, <2>6, <3>1 DEF RoomMediaInv, PumpEnds
  <2> QED BY <1>1, <2>2, <2>7, <2>8 DEF RoomMediaInv
<1>3. CASE PumpTakes
  <2>1. /\ loop' = loop /\ source' = source /\ afterEnd' = afterEnd /\ rPump.at = "waiting"
        /\ pending # <<>> /\ pending' = Tail(pending) /\ rPump' = [at |-> "feeding", frame |-> Head(pending)]
    BY <1>3 DEF PumpTakes, roomSeenVars
  <2>2. pending' \in Seq(Nat) /\ rPump' \in [at : {"waiting", "feeding", "cancelled"}, frame : Nat]
    BY <1>0, <2>1
  <2>3. RoomTypeOK'
    BY <1>0, <2>1, <2>2 DEF RoomMediaInv, RoomTypeOK, RoomFrames
  <2>4. CloseInLine' /\ PumpEnds'
    BY <1>0, <2>1 DEF RoomMediaInv, CloseInLine, PumpEnds, Resume, Clear
  <2> QED BY <1>1, <2>3, <2>4 DEF RoomMediaInv
<1>4. CASE SourcePlays
  <2>1. UNCHANGED <<loop, pending, rPump>> /\ afterEnd' = afterEnd /\ source # <<>> /\ source' = Tail(source)
    BY <1>4 DEF SourcePlays, roomSeenVars
  <2>2. source' \in Seq(Nat) /\ Len(source') <= Len(source) /\ Len(source') \in Nat /\ Len(source) \in Nat
    BY <1>0, <2>1
  <2>3. RoomTypeOK'
    BY <1>0, <2>1, <2>2 DEF RoomMediaInv, RoomTypeOK, RoomFrames
  <2>4. CloseInLine'
    BY <1>0, <2>1 DEF RoomMediaInv, CloseInLine, Resume, Clear
  <2>5. PumpEnds'
    BY <1>0, <2>1, <2>2 DEF RoomMediaInv, PumpEnds, RoomTypeOK
  <2> QED BY <1>1, <2>3, <2>4, <2>5 DEF RoomMediaInv
<1>5. CASE \E taken \in BOOLEAN : PumpFeeds(taken)
  <2>0. PICK taken \in BOOLEAN : PumpFeeds(taken)
    BY <1>5
  <2>1. /\ UNCHANGED <<loop, pending>> /\ rPump.frame # 0
        /\ rPump' = [at |-> IF rPump.at = "feeding" THEN "waiting" ELSE rPump.at, frame |-> 0]
        /\ source' = IF taken THEN Append(source, rPump.frame) ELSE source
        /\ afterEnd' = IF taken /\ rLeaving = "closed" THEN afterEnd + 1 ELSE afterEnd
    BY <2>0 DEF PumpFeeds
  <2>2. rPump \in [at : {"waiting", "feeding", "cancelled"}, frame : Nat] /\ afterEnd \in Nat
    BY DEF RoomMediaInv, RoomTypeOK
  <2>3. /\ rPump' \in [at : {"waiting", "feeding", "cancelled"}, frame : Nat]
        /\ rPump'.frame = 0 /\ (rPump.at = "cancelled" => rPump'.at = "cancelled")
    BY <2>1, <2>2
  <2>4. /\ source' \in Seq(Nat) /\ afterEnd' \in Nat /\ Len(source) \in Nat
        /\ Len(source') = IF taken THEN Len(source) + 1 ELSE Len(source)
    BY <1>0, <2>1, <2>2
  <2>5. RoomTypeOK'
    BY <1>0, <2>1, <2>3, <2>4 DEF RoomMediaInv, RoomTypeOK, RoomFrames
  <2>6. CloseInLine'
    BY <1>0, <2>1 DEF RoomMediaInv, CloseInLine, Resume, Clear
  <2>7. PumpEnds'
    <3>1. CASE rLeaving = "closed"
      BY <1>0, <2>1, <2>2, <2>3, <2>4, <3>1 DEF RoomMediaInv, PumpEnds
    <3>2. CASE rLeaving # "closed"
      BY <1>0, <2>1, <3>2 DEF RoomMediaInv, PumpEnds
    <3> QED BY <3>1, <3>2
  <2> QED BY <1>1, <2>5, <2>6, <2>7 DEF RoomMediaInv
<1> QED BY <1>2, <1>3, <1>4, <1>5

LEMMA CloseKeepsRoom ==
  ASSUME RoomMediaInv, RoomStops \/ RoomJoins \/ RoomClears
  PROVE  RoomMediaInv'
<1>0. /\ MaxRoomFrames \in Nat /\ loop \in Seq(Nat)
      /\ UNCHANGED <<rTick, rSubmit, made>> /\ afterEnd' = afterEnd
  BY RoomMediaAssumption DEF RoomStops, RoomJoins, RoomClears, roomSeenVars, RoomMediaInv, RoomTypeOK
<1>1. Resume' = Resume /\ Clear' = Clear
  BY DEF Resume, Clear
<1>2. CASE RoomStops
  <2>1. /\ UNCHANGED <<rq, loop, pending, rPump, source, overran>>
        /\ rLeaving = "none" /\ rLeaving' = "joining" /\ rHalted' /\ rClosed'
    BY <1>2 DEF RoomStops, roomAudioVars
  <2>2. RoomTypeOK'
    BY <1>0, <2>1 DEF RoomMediaInv, RoomTypeOK, RoomFrames
  <2>3. PacerEnds' /\ CloseInLine' /\ PumpEnds'
    BY <1>0, <1>1, <2>1 DEF RoomMediaInv, PacerEnds, CloseInLine, PumpEnds
  <2> QED BY <2>2, <2>3 DEF RoomMediaInv
<1>3. CASE RoomJoins
  <2>1. /\ UNCHANGED <<pending, rPump, source, rHalted, rClosed>>
        /\ rLeaving = "joining" /\ rLeaving' = "clearing" /\ loop' = Append(loop, Resume)
        /\ \/ rTick.at = "off" /\ rq' = <<>> /\ overran' = overran
           \/ rq' = rq /\ overran' = TRUE
    BY <1>3 DEF RoomJoins, roomAudioVars
  <2>2. PICK x : x = Resume
    OBVIOUS
  <2>3. x \in Nat /\ x = Resume'
    BY <1>0, <1>1, <2>2 DEF Resume
  <2>4. /\ DOMAIN loop = 1 .. Len(loop) /\ Len(loop) \in Nat
        /\ loop' \in Seq(Nat) /\ DOMAIN loop' = 1 .. Len(loop) + 1
        /\ \A i \in DOMAIN loop : loop'[i] = loop[i]
        /\ loop'[Len(loop) + 1] = x
    BY <1>0, <2>1, <2>2, <2>3
  <2>5. CloseInLine'
    <3>1. PICK n : n = Len(loop) + 1
      OBVIOUS
    <3>2. n \in DOMAIN loop' /\ loop'[n] = Resume'
      BY <2>3, <2>4, <3>1
    <3>3. \A j \in DOMAIN loop' : j # n => loop'[j] # Resume'
      BY <1>1, <2>1, <2>4, <3>1 DEF RoomMediaInv, CloseInLine
    <3>4. \A j \in DOMAIN loop' : ~(j > n)
      BY <2>4, <3>1
    <3> QED BY <2>1, <3>2, <3>3, <3>4 DEF CloseInLine
  <2>6. RoomTypeOK'
    <3>0. rq \in Seq(RoomFrames) /\ overran \in BOOLEAN /\ <<>> \in Seq(RoomFrames)
      BY DEF RoomMediaInv, RoomTypeOK
    <3>1. rq' \in Seq(RoomFrames) /\ overran' \in BOOLEAN
      BY <2>1, <3>0
    <3> QED BY <1>0, <2>1, <2>4, <3>1 DEF RoomMediaInv, RoomTypeOK, RoomFrames
  <2>7. PacerEnds' /\ PumpEnds'
    BY <1>0, <2>1 DEF RoomMediaInv, PacerEnds, PumpEnds, RoomTypeOK
  <2> QED BY <2>5, <2>6, <2>7 DEF RoomMediaInv
<1>4. CASE RoomClears
  <2>1. /\ UNCHANGED <<rq, rHalted, rClosed, overran>>
        /\ rLeaving = "clearing" /\ loop # <<>> /\ Head(loop) = Resume
        /\ loop' = Tail(loop) /\ rLeaving' = "closed"
        /\ rPump' = [rPump EXCEPT !.at = "cancelled"] /\ pending' = <<>> /\ source' = <<>>
    BY <1>4 DEF RoomClears, roomPacerVars
  <2>2. /\ DOMAIN loop = 1 .. Len(loop) /\ Len(loop) \in Nat \ {0} /\ loop' \in Seq(Nat)
        /\ DOMAIN loop' = 1 .. Len(loop) - 1
        /\ \A i \in DOMAIN loop' : loop'[i] = loop[i + 1]
        /\ Head(loop) = loop[1]
    BY <1>0, <2>1
  <2>3. PICK i \in DOMAIN loop :
         /\ loop[i] = Resume
         /\ \A j \in DOMAIN loop : j # i => loop[j] # Resume
         /\ ~overran => \A j \in DOMAIN loop : j > i => loop[j] = Clear
    BY <2>1 DEF RoomMediaInv, CloseInLine
  <2>4. i = 1
    BY <2>1, <2>2, <2>3
  <2>5. \A j \in DOMAIN loop' : j + 1 \in DOMAIN loop /\ j + 1 > 1 /\ j + 1 # 1
    BY <2>2
  <2>6. CloseInLine'
    BY <1>1, <2>1, <2>2, <2>3, <2>4, <2>5 DEF CloseInLine
  <2>7. rPump' \in [at : {"waiting", "feeding", "cancelled"}, frame : Nat] /\ rPump'.at = "cancelled"
    BY <2>1 DEF RoomMediaInv, RoomTypeOK
  <2>8. RoomTypeOK'
    BY <1>0, <2>1, <2>2, <2>7 DEF RoomMediaInv, RoomTypeOK, RoomFrames
  <2>9. PacerEnds' /\ PumpEnds'
    BY <1>0, <2>1, <2>7 DEF RoomMediaInv, PacerEnds, PumpEnds
  <2> QED BY <2>6, <2>8, <2>9 DEF RoomMediaInv
<1> QED BY <1>2, <1>3, <1>4

\* A closed room connection plays out nothing more, for any number of frames
\* and flushes and any depth of its queues (livekit/connection.py, close).
THEOREM RoomMediaSafe == RoomMediaSpec => []RoomEndsQuiet
<1>1. RoomMediaInit => RoomMediaInv
  BY RoomMediaInitial
<1>2. RoomMediaInv /\ [RoomMediaNext]_roomMediaVars => RoomMediaInv'
  <2> SUFFICES ASSUME RoomMediaInv, [RoomMediaNext]_roomMediaVars PROVE RoomMediaInv'
    OBVIOUS
  <2>1. CASE RoomMediaNext
    BY <2>1, ProducerKeepsRoom, PacerKeepsRoom, FlushKeepsRoom, AudioKeepsRoom, CloseKeepsRoom
       DEF RoomMediaNext
  <2>2. CASE UNCHANGED roomMediaVars
    BY <2>2 DEF roomMediaVars, RoomMediaInv, RoomTypeOK, PacerEnds, CloseInLine, PumpEnds, RoomFrames,
                Resume, Clear
  <2> QED BY <2>1, <2>2
<1>3. RoomMediaInv => RoomEndsQuiet
  BY DEF RoomMediaInv, PacerEnds, CloseInLine, PumpEnds, RoomEndsQuiet
<1> QED BY <1>1, <1>2, <1>3, PTL DEF RoomMediaSpec

-------------------------------------------------------------------------------
(* The inbound half of a connection.                                       *)

FrameKinds == {"plain", "step", "unpublish", "refused"}
NoteKinds  == {"connected", "loss", "disconnect", "lost", "closed"}
WireFrames == [ch : Wires, n : Nat, kind : FrameKinds]
WireNotes  == [ch : {"wire"}, n : {0}, kind : NoteKinds]
Things     == WireFrames \cup WireNotes
DrainTasks == [at : {"due", "decoding", "cancelled", "ended"}, frame : Seq(WireFrames)]

WireTypeOK ==
  /\ pcUp \in BOOLEAN /\ connected \in BOOLEAN /\ stopped \in BOOLEAN /\ alive \in BOOLEAN /\ closing \in BOOLEAN
  /\ open \in [Wires -> BOOLEAN] /\ sunk \in [Wires -> Nat]
  /\ inSink \in [Wires -> Seq(WireFrames)]
  /\ early \in Seq(WireFrames) /\ backlog \in Seq(WireFrames)
  /\ ready \in Seq(Things) /\ up \in Seq(Things)
  /\ overflow \subseteq WireFrames
  /\ tasks \in Seq(DrainTasks) /\ draining \in 0 .. Len(tasks)

\* s carries the frame of channel c with the number m.
Carries(s, c, m) == \E i \in 1 .. Len(s) : s[i].ch = c /\ s[i].n = m

\* The numbers of channel c rise along s.
Rising(s, c) == \A i, j \in 1 .. Len(s) : i < j /\ s[i].ch = c /\ s[j].ch = c => s[i].n < s[j].n

\* Those of s come before those of t.
Precedes(s, t, c) == \A m, k \in Nat : Carries(s, c, m) /\ Carries(t, c, k) => m < k

LEMMA ThingIs == ASSUME NEW x \in Things PROVE x.n \in Nat
BY DEF Things, WireFrames, WireNotes

LEMMA FramesAreThings == ASSUME NEW s \in Seq(WireFrames) PROVE s \in Seq(Things)
BY DEF Things

LEMMA ConcatIs ==
  ASSUME NEW s \in Seq(Things), NEW t \in Seq(Things)
  PROVE  /\ s \o t \in Seq(Things) /\ Len(s \o t) = Len(s) + Len(t) /\ Len(s) \in Nat /\ Len(t) \in Nat
         /\ \A i \in 1 .. Len(s) : (s \o t)[i] = s[i]
         /\ \A i \in 1 .. Len(t) : (s \o t)[Len(s) + i] = t[i]
OBVIOUS

\* Every place of s \o t is one of s or one of t.
LEMMA ConcatPlace ==
  ASSUME NEW s \in Seq(Things), NEW t \in Seq(Things), NEW i \in 1 .. Len(s \o t)
  PROVE  \/ i \in 1 .. Len(s) /\ (s \o t)[i] = s[i]
         \/ i - Len(s) \in 1 .. Len(t) /\ (s \o t)[i] = t[i - Len(s)] /\ i > Len(s)
<1> DEFINE a == Len(s)
           b == Len(t)
           k == i - a
<1>1. a \in Nat /\ b \in Nat /\ i \in 1 .. a + b
  BY ConcatIs
<1>2. CASE i <= a
  BY <1>1, <1>2, ConcatIs
<1>3. CASE i > a
  <2>1. k \in 1 .. b /\ a + k = i
    BY <1>1, <1>3
  <2>2. (s \o t)[a + k] = t[k]
    BY <2>1, ConcatIs
  <2> QED
    BY <1>3, <2>1, <2>2
<1> QED
  BY <1>1, <1>2, <1>3

LEMMA ConcatCarries ==
  ASSUME NEW s \in Seq(Things), NEW t \in Seq(Things), NEW c, NEW m
  PROVE  Carries(s \o t, c, m) <=> Carries(s, c, m) \/ Carries(t, c, m)
<1>1. ASSUME Carries(s \o t, c, m) PROVE Carries(s, c, m) \/ Carries(t, c, m)
  <2>1. PICK i \in 1 .. Len(s \o t) : (s \o t)[i].ch = c /\ (s \o t)[i].n = m
    BY <1>1 DEF Carries
  <2> QED
    BY <2>1, ConcatPlace DEF Carries
<1>2. ASSUME Carries(s, c, m) PROVE Carries(s \o t, c, m)
  <2>1. PICK i \in 1 .. Len(s) : s[i].ch = c /\ s[i].n = m
    BY <1>2 DEF Carries
  <2>2. i \in 1 .. Len(s \o t) /\ (s \o t)[i] = s[i]
    BY ConcatIs
  <2> QED
    BY <2>1, <2>2 DEF Carries
<1>3. ASSUME Carries(t, c, m) PROVE Carries(s \o t, c, m)
  <2>1. PICK i \in 1 .. Len(t) : t[i].ch = c /\ t[i].n = m
    BY <1>3 DEF Carries
  <2>2. Len(s) + i \in 1 .. Len(s \o t) /\ (s \o t)[Len(s) + i] = t[i]
    BY ConcatIs
  <2> QED
    BY <2>1, <2>2 DEF Carries
<1> QED
  BY <1>1, <1>2, <1>3

LEMMA ConcatRising ==
  ASSUME NEW s \in Seq(Things), NEW t \in Seq(Things), NEW c
  PROVE  Rising(s \o t, c) <=> Rising(s, c) /\ Rising(t, c) /\ Precedes(s, t, c)
<1> DEFINE a == Len(s)
<1>0. a \in Nat
  BY ConcatIs
<1>1. ASSUME Rising(s, c), Rising(t, c), Precedes(s, t, c),
             NEW i \in 1 .. Len(s \o t), NEW j \in 1 .. Len(s \o t), i < j, (s \o t)[i].ch = c, (s \o t)[j].ch = c
      PROVE  (s \o t)[i].n < (s \o t)[j].n
  <2>1. CASE i \in 1 .. a /\ (s \o t)[i] = s[i]
    <3>1. CASE j \in 1 .. a /\ (s \o t)[j] = s[j]
      BY <1>1, <2>1, <3>1 DEF Rising
    <3>2. CASE j - a \in 1 .. Len(t) /\ (s \o t)[j] = t[j - a]
      <4>1. s[i] \in Things /\ t[j - a] \in Things
        BY <2>1, <3>2
      <4>2. s[i].n \in Nat /\ t[j - a].n \in Nat
        BY <4>1, ThingIs
      <4>3. Carries(s, c, s[i].n) /\ Carries(t, c, t[j - a].n)
        BY <1>1, <2>1, <3>2 DEF Carries
      <4> QED
        BY <1>1, <2>1, <3>2, <4>2, <4>3 DEF Precedes
    <3> QED
      BY <3>1, <3>2, ConcatPlace
  <2>2. CASE i - a \in 1 .. Len(t) /\ (s \o t)[i] = t[i - a] /\ i > a
    <3>1. j - a \in 1 .. Len(t) /\ (s \o t)[j] = t[j - a] /\ i - a < j - a
      <4>1. ~(j \in 1 .. a)
        BY <1>0, <1>1, <2>2
      <4>2. j - a \in 1 .. Len(t) /\ (s \o t)[j] = t[j - a]
        BY <4>1, ConcatPlace
      <4> QED
        BY <1>0, <1>1, <4>2
    <3> QED
      BY <1>1, <2>2, <3>1 DEF Rising
  <2> QED
    BY <2>1, <2>2, ConcatPlace
<1>2. ASSUME Rising(s \o t, c) PROVE Rising(s, c)
  <2>1. \A i \in 1 .. Len(s) : i \in 1 .. Len(s \o t) /\ (s \o t)[i] = s[i]
    BY ConcatIs
  <2> QED
    BY <1>2, <2>1 DEF Rising
<1>3. ASSUME Rising(s \o t, c) PROVE Rising(t, c)
  <2>1. ASSUME NEW i \in 1 .. Len(t), NEW j \in 1 .. Len(t), i < j
        PROVE  /\ a + i \in 1 .. Len(s \o t) /\ (s \o t)[a + i] = t[i]
               /\ a + j \in 1 .. Len(s \o t) /\ (s \o t)[a + j] = t[j] /\ a + i < a + j
    BY <1>0, <2>1, ConcatIs
  <2> QED
    BY <1>3, <2>1 DEF Rising
<1>4. ASSUME Rising(s \o t, c) PROVE Precedes(s, t, c)
  <2>1. ASSUME NEW m \in Nat, NEW k \in Nat, Carries(s, c, m), Carries(t, c, k) PROVE m < k
    <3>1. PICK i \in 1 .. Len(s) : s[i].ch = c /\ s[i].n = m
      BY <2>1 DEF Carries
    <3>2. PICK j \in 1 .. Len(t) : t[j].ch = c /\ t[j].n = k
      BY <2>1 DEF Carries
    <3>3. /\ i \in 1 .. Len(s \o t) /\ (s \o t)[i] = s[i]
          /\ a + j \in 1 .. Len(s \o t) /\ (s \o t)[a + j] = t[j] /\ i < a + j
      BY <1>0, ConcatIs
    <3> QED
      BY <1>4, <3>1, <3>2, <3>3 DEF Rising
  <2> QED
    BY <2>1 DEF Precedes
<1> QED
  BY <1>1, <1>2, <1>3, <1>4 DEF Rising

LEMMA EmptyIs ==
  ASSUME NEW c
  PROVE  /\ <<>> \in Seq(Things) /\ <<>> \in Seq(WireFrames) /\ Rising(<<>>, c)
         /\ \A m : ~Carries(<<>>, c, m)
BY DEF Rising, Carries

LEMMA OneIs ==
  ASSUME NEW x \in Things, NEW c
  PROVE  /\ <<x>> \in Seq(Things) /\ Rising(<<x>>, c)
         /\ \A m : Carries(<<x>>, c, m) <=> x.ch = c /\ x.n = m
<1>1. <<x>> \in Seq(Things) /\ Len(<<x>>) = 1 /\ <<x>>[1] = x
  OBVIOUS
<1> QED
  BY <1>1 DEF Rising, Carries

\* A note is of no channel.
LEMMA NoteIs ==
  ASSUME NEW what \in NoteKinds
  PROVE  /\ Report(what) \in Things /\ Callback(what) = Report(what) /\ Report(what).kind = what
         /\ Report(what).ch = "wire" /\ Report(what).ch \notin Wires
BY DEF Report, Callback, Things, WireNotes, Wires

\* The first of a sequence and the rest of it.
LEMMA HeadTail ==
  ASSUME NEW s \in Seq(Things), s # <<>>
  PROVE  /\ Head(s) \in Things /\ Tail(s) \in Seq(Things) /\ s = <<Head(s)>> \o Tail(s)
         /\ Head(s) = s[1] /\ Len(s) \in Nat /\ Len(s) > 0 /\ Len(Tail(s)) = Len(s) - 1
         /\ \A i \in 1 .. Len(Tail(s)) : Tail(s)[i] = s[i + 1] /\ i + 1 \in 1 .. Len(s)
OBVIOUS

\* A sequence is its parts, and so is what it carries.
LEMMA AppendIs ==
  ASSUME NEW s \in Seq(Things), NEW x \in Things
  PROVE  /\ Append(s, x) \in Seq(Things) /\ Append(s, x) = s \o <<x>>
         /\ Len(Append(s, x)) = Len(s) + 1 /\ Append(s, x)[Len(s) + 1] = x
         /\ \A i \in 1 .. Len(s) : Append(s, x)[i] = s[i]
OBVIOUS

LEMMA ConcatAssoc ==
  ASSUME NEW s \in Seq(Things), NEW t \in Seq(Things), NEW u \in Seq(Things)
  PROVE  (s \o t) \o u = s \o (t \o u)
OBVIOUS

LEMMA ConcatEmpty == ASSUME NEW s \in Seq(Things) PROVE s \o <<>> = s /\ <<>> \o s = s
OBVIOUS

-------------------------------------------------------------------------------
(* Where a frame can be, while the connection is alive.                    *)

\* What the gate has: gone up, being decoded, queued.
Gated == (up \o Decoding) \o backlog

\* A task that decodes has its frame, and one that has not begun has none.
TasksHold ==
  \A t \in 1 .. Len(tasks) :
    /\ tasks[t].at = "decoding" => \E f \in WireFrames : tasks[t].frame = <<f>>
    /\ tasks[t].at = "due" => tasks[t].frame = <<>>

\* One task drains, or nothing is queued.
GateInv ==
  alive =>
    /\ (draining = 0 => backlog = <<>>)
    /\ \A t \in 1 .. Len(tasks) : t # draining => tasks[t].at = "ended"
    /\ (draining # 0 => tasks[draining].at \in {"due", "decoding"})

\* Nothing is held once the wire is connected; the sink has its channel's last
\* frame; a torn-down peer was stopped.
HoldInv ==
  /\ (connected => early = <<>>)
  /\ (teardown \in {"set", "done"} => stopped)
  /\ \A c \in Wires : inSink[c] = <<>> \/ \E f \in WireFrames : inSink[c] = <<f>> /\ f.ch = c /\ f.n = sunk[c]
  /\ \A f \in overflow : f.n <= sunk[f.ch]

\* The frame m of channel c arrived, and was not past the early bound.
Kept(c, m) == m \in 1 .. sunk[c] /\ \A f \in overflow : f.ch = c => f.n # m

\* The frames of a channel stand in one line, from the gate to the sink.
InLine(c) ==
  /\ Rising(Gated, c) /\ Rising(ready, c) /\ Rising(early, c)
  /\ Precedes(Gated, ready, c) /\ Precedes(Gated, early, c) /\ Precedes(Gated, inSink[c], c)
  /\ Precedes(ready, early, c) /\ Precedes(ready, inSink[c], c) /\ Precedes(early, inSink[c], c)
  /\ \A m \in Nat : Carries(Gated, c, m) \/ Carries(ready, c, m) \/ Carries(early, c, m) \/ Carries(inSink[c], c, m)
                      <=> Kept(c, m)

LineInv == alive /\ ~stopped => \A c \in Wires : InLine(c)

LEMMA GatedIs ==
  ASSUME WireTypeOK
  PROVE  /\ Decoding \in Seq(WireFrames) /\ Decoding \in Seq(Things)
         /\ up \in Seq(Things) /\ backlog \in Seq(Things) /\ up \o Decoding \in Seq(Things) /\ Gated \in Seq(Things)
<1>1. Decoding \in Seq(WireFrames)
  <2>1. CASE draining = 0
    BY <2>1 DEF Decoding
  <2>2. CASE draining # 0
    <3>1. draining \in 1 .. Len(tasks) /\ tasks \in Seq(DrainTasks)
      BY <2>2 DEF WireTypeOK
    <3>2. tasks[draining] \in DrainTasks
      BY <3>1
    <3> QED
      BY <2>2, <3>2 DEF Decoding, DrainTasks
  <2> QED
    BY <2>1, <2>2
<1>2. Decoding \in Seq(Things) /\ up \in Seq(Things) /\ backlog \in Seq(Things)
  BY <1>1, FramesAreThings DEF WireTypeOK
<1>3. up \o Decoding \in Seq(Things)
  BY <1>2, ConcatIs
<1> QED
  BY <1>1, <1>2, <1>3, ConcatIs DEF Gated

\* A frame under another name is the same frame of the line.
LEMMA MiddleIs ==
  ASSUME NEW s \in Seq(Things), NEW t \in Seq(Things), NEW x \in Seq(Things), NEW y \in Seq(Things), NEW c,
         \A m : Carries(x, c, m) <=> Carries(y, c, m), Rising(x, c) <=> Rising(y, c)
  PROVE  /\ \A m : Carries((s \o x) \o t, c, m) <=> Carries((s \o y) \o t, c, m)
         /\ Rising((s \o x) \o t, c) <=> Rising((s \o y) \o t, c)
<1>1. s \o x \in Seq(Things) /\ s \o y \in Seq(Things)
  BY ConcatIs
<1>2. \A m : Carries(s \o x, c, m) <=> Carries(s \o y, c, m)
  BY ConcatCarries
<1>3. \A m : Carries((s \o x) \o t, c, m) <=> Carries((s \o y) \o t, c, m)
  BY <1>1, <1>2, ConcatCarries
<1>4. Precedes(s, x, c) <=> Precedes(s, y, c)
  BY DEF Precedes
<1>5. Precedes(s \o x, t, c) <=> Precedes(s \o y, t, c)
  BY <1>2 DEF Precedes
<1>6. Rising(s \o x, c) <=> Rising(s \o y, c)
  BY <1>4, ConcatRising
<1>7. Rising((s \o x) \o t, c) <=> Rising(s \o x, c) /\ Rising(t, c) /\ Precedes(s \o x, t, c)
  BY <1>1, ConcatRising
<1>8. Rising((s \o y) \o t, c) <=> Rising(s \o y, c) /\ Rising(t, c) /\ Precedes(s \o y, t, c)
  BY <1>1, ConcatRising
<1> QED
  BY <1>3, <1>5, <1>6, <1>7, <1>8

LEMMA SameSeq ==
  ASSUME NEW s \in Seq(Things), NEW t \in Seq(Things), Len(s) = Len(t), \A i \in 1 .. Len(s) : s[i] = t[i]
  PROVE  s = t
OBVIOUS

\* The gate's queue, up to a step and after it.
LEMMA SplitIs ==
  ASSUME NEW q \in Seq(WireFrames), NEW k \in 1 .. Len(q)
  PROVE  /\ SubSeq(q, 1, k - 1) \in Seq(WireFrames) /\ SubSeq(q, k + 1, Len(q)) \in Seq(WireFrames) /\ q[k] \in WireFrames
         /\ q = (SubSeq(q, 1, k - 1) \o <<q[k]>>) \o SubSeq(q, k + 1, Len(q))
<1> DEFINE n == Len(q)
           f == SubSeq(q, 1, k - 1)
           r == SubSeq(q, k + 1, n)
           w == (f \o <<q[k]>>) \o r
<1>1. n \in Nat /\ k \in 1 .. n /\ q[k] \in WireFrames
  OBVIOUS
<1>2. /\ f \in Seq(WireFrames) /\ Len(f) = k - 1 /\ \A i \in 1 .. k - 1 : f[i] = q[i]
  BY <1>1
<1>3. /\ r \in Seq(WireFrames) /\ Len(r) = n - k /\ \A i \in 1 .. n - k : r[i] = q[k + i]
  BY <1>1
<1> HIDE DEF f, r
<1>4. /\ f \o <<q[k]>> \in Seq(WireFrames) /\ Len(f \o <<q[k]>>) = k
      /\ \A i \in 1 .. k : (f \o <<q[k]>>)[i] = q[i]
  BY <1>1, <1>2
<1> DEFINE g == f \o <<q[k]>>
<1> HIDE DEF g
<1>5. g \in Seq(Things) /\ r \in Seq(Things) /\ q \in Seq(Things) /\ Len(g) = k /\ \A i \in 1 .. k : g[i] = q[i]
  BY <1>3, <1>4, FramesAreThings DEF g
<1>6. g \o r = q
  <2>1. g \o r \in Seq(Things) /\ Len(g \o r) = n
    <3>1. g \o r \in Seq(Things) /\ Len(g \o r) = Len(g) + Len(r)
      BY <1>5, ConcatIs
    <3>2. k + (n - k) = n
      BY <1>1
    <3> QED
      BY <1>3, <1>5, <3>1, <3>2
  <2>2. ASSUME NEW i \in 1 .. n PROVE (g \o r)[i] = q[i]
    <3>1. CASE i \in 1 .. k /\ (g \o r)[i] = g[i]
      BY <1>5, <3>1
    <3>2. CASE i - k \in 1 .. Len(r) /\ (g \o r)[i] = r[i - k]
      <4>1. k + (i - k) = i
        BY <1>1
      <4> QED
        BY <1>3, <3>2, <4>1
    <3> QED
      BY <1>5, <2>1, <3>1, <3>2, ConcatPlace
  <2> QED
    BY <1>5, <2>1, <2>2, SameSeq
<1> QED
  BY <1>1, <1>2, <1>3, <1>6 DEF f, g, r

\* What a drain leaves the gate with: the same line, the step it took up in place
\* of its own frame.
LEMMA DrainsIs ==
  ASSUME WireTypeOK, TasksHold, NEW t \in 1 .. Len(tasks), NEW before \in Seq(WireFrames), NEW has,
         Drains(t, before, has, backlog)
  PROVE  /\ up' \in Seq(Things) /\ backlog' \in Seq(WireFrames)
         /\ tasks' \in Seq(DrainTasks) /\ Len(tasks') = Len(tasks) /\ draining' \in 0 .. Len(tasks')
         /\ TasksHold'
         /\ \A i \in 1 .. Len(tasks) : i # t => tasks'[i] = tasks[i]
         /\ (t = draining => Gated' = (up \o before) \o backlog)
         /\ \/ draining' = 0 /\ backlog' = <<>> /\ tasks'[t].at = "ended"
            \/ draining' = draining /\ tasks'[t].at = "decoding"
         /\ \E front \in Seq(WireFrames) : up' = (up \o before) \o front
<1> DEFINE a == up \o before
<1>0. /\ up \in Seq(Things) /\ before \in Seq(Things) /\ a \in Seq(Things) /\ backlog \in Seq(WireFrames)
      /\ backlog \in Seq(Things)
      /\ tasks \in Seq(DrainTasks) /\ draining \in 0 .. Len(tasks) /\ Len(tasks) \in Nat
  <2>1. up \in Seq(Things) /\ before \in Seq(Things) /\ backlog \in Seq(WireFrames) /\ backlog \in Seq(Things)
    BY FramesAreThings DEF WireTypeOK
  <2> QED
    BY <2>1, ConcatIs DEF WireTypeOK
<1> HIDE DEF a
<1>1. CASE /\ up' = a \o backlog /\ backlog' = <<>> /\ draining' = 0
           /\ tasks' = [tasks EXCEPT ![t] = [at |-> "ended", frame |-> <<>>]]
  <2>1. up' \in Seq(Things) /\ backlog' \in Seq(WireFrames)
    BY <1>0, <1>1, ConcatIs, EmptyIs
  <2>2. [at |-> "ended", frame |-> <<>>] \in DrainTasks
    BY EmptyIs DEF DrainTasks
  <2>3. /\ tasks' \in Seq(DrainTasks) /\ Len(tasks') = Len(tasks)
        /\ tasks'[t].at = "ended" /\ \A i \in 1 .. Len(tasks) : i # t => tasks'[i] = tasks[i]
    BY <1>0, <1>1, <2>2
  <2>4. TasksHold'
    BY <1>0, <2>3 DEF TasksHold
  <2>5. Gated' = a \o backlog
    <3>1. Decoding' = <<>>
      BY <1>1 DEF Decoding
    <3>2. Gated' = (up' \o <<>>) \o <<>>
      BY <1>1, <3>1 DEF Gated
    <3> QED
      BY <1>1, <2>1, <3>2, ConcatEmpty
  <2>6. \E front \in Seq(WireFrames) : up' = a \o front
    BY <1>0, <1>1
  <2>7. draining' \in 0 .. Len(tasks')
    BY <1>0, <1>1, <2>3
  <2> QED
    BY <1>1, <2>1, <2>3, <2>4, <2>5, <2>6, <2>7 DEF a
<1>2. ASSUME NEW next \in 1 .. Len(backlog),
             up' = a \o SubSeq(backlog, 1, next - 1), backlog' = SubSeq(backlog, next + 1, Len(backlog)),
             tasks' = [tasks EXCEPT ![t] = [at |-> "decoding", frame |-> <<backlog[next]>>]], draining' = draining
      PROVE  /\ up' \in Seq(Things) /\ backlog' \in Seq(WireFrames)
             /\ tasks' \in Seq(DrainTasks) /\ Len(tasks') = Len(tasks) /\ draining' \in 0 .. Len(tasks')
             /\ TasksHold'
             /\ \A i \in 1 .. Len(tasks) : i # t => tasks'[i] = tasks[i]
             /\ (t = draining => Gated' = a \o backlog)
             /\ draining' = draining /\ tasks'[t].at = "decoding"
             /\ \E front \in Seq(WireFrames) : up' = a \o front
  <2> DEFINE f == SubSeq(backlog, 1, next - 1)
             r == SubSeq(backlog, next + 1, Len(backlog))
             x == backlog[next]
  <2>1. f \in Seq(WireFrames) /\ r \in Seq(WireFrames) /\ x \in WireFrames /\ backlog = (f \o <<x>>) \o r
    BY <1>0, SplitIs
  <2>2. up' = a \o f /\ backlog' = r /\ tasks' = [tasks EXCEPT ![t] = [at |-> "decoding", frame |-> <<x>>]]
    BY <1>2
  <2> HIDE DEF f, r, x
  <2>3. f \in Seq(Things) /\ r \in Seq(Things) /\ x \in Things /\ <<x>> \in Seq(Things) /\ <<x>> \in Seq(WireFrames)
    BY <2>1, FramesAreThings DEF Things
  <2>4. up' \in Seq(Things)
    BY <1>0, <2>2, <2>3, ConcatIs
  <2>5. [at |-> "decoding", frame |-> <<x>>] \in DrainTasks
    BY <2>3 DEF DrainTasks
  <2>6. /\ tasks' \in Seq(DrainTasks) /\ Len(tasks') = Len(tasks)
        /\ tasks'[t].at = "decoding" /\ tasks'[t].frame = <<x>>
        /\ \A i \in 1 .. Len(tasks) : i # t => tasks'[i] = tasks[i]
    BY <1>0, <2>2, <2>5
  <2>7. TasksHold'
    BY <1>0, <2>1, <2>6 DEF TasksHold
  <2>8. ASSUME t = draining PROVE Gated' = a \o backlog
    <3>1. Decoding' = <<x>>
      BY <1>2, <2>6, <2>8 DEF Decoding
    <3>2. Gated' = ((a \o f) \o <<x>>) \o r
      BY <2>2, <3>1 DEF Gated
    <3>3. (a \o f) \o <<x>> = a \o (f \o <<x>>)
      BY <1>0, <2>3, ConcatAssoc
    <3>4. f \o <<x>> \in Seq(Things)
      BY <2>3, ConcatIs
    <3> DEFINE fx == f \o <<x>>
    <3> HIDE DEF fx
    <3>5. (a \o fx) \o r = a \o (fx \o r)
      <4>1. a \in Seq(Things) /\ fx \in Seq(Things) /\ r \in Seq(Things)
        BY <1>0, <2>3, <3>4 DEF fx
      <4> QED
        BY <4>1, ConcatAssoc
    <3> QED
      BY <2>1, <3>2, <3>3, <3>5 DEF fx
  <2> QED
    BY <1>0, <1>2, <2>1, <2>2, <2>4, <2>6, <2>7, <2>8
<1>3. \/ /\ up' = a \o backlog /\ backlog' = <<>> /\ draining' = 0
         /\ tasks' = [tasks EXCEPT ![t] = [at |-> "ended", frame |-> <<>>]]
      \/ \E next \in 1 .. Len(backlog) :
           /\ up' = a \o SubSeq(backlog, 1, next - 1) /\ backlog' = SubSeq(backlog, next + 1, Len(backlog))
           /\ tasks' = [tasks EXCEPT ![t] = [at |-> "decoding", frame |-> <<backlog[next]>>]] /\ draining' = draining
  <2>1. DOMAIN backlog = 1 .. Len(backlog)
    BY <1>0
  <2> HIDE DEF a
  <2>2. a = up \o before
    BY DEF a
  <2> QED
    BY <2>1, <2>2 DEF Drains
<1>4. CASE \E next \in 1 .. Len(backlog) :
           /\ up' = a \o SubSeq(backlog, 1, next - 1) /\ backlog' = SubSeq(backlog, next + 1, Len(backlog))
           /\ tasks' = [tasks EXCEPT ![t] = [at |-> "decoding", frame |-> <<backlog[next]>>]] /\ draining' = draining
  BY <1>2, <1>4 DEF a
<1> QED
  BY <1>1, <1>3, <1>4

LEMMA GateCloseIs ==
  ASSUME WireTypeOK, TasksHold, GateClose
  PROVE  /\ backlog' \in Seq(WireFrames) /\ tasks' \in Seq(DrainTasks) /\ draining' \in 0 .. Len(tasks')
         /\ TasksHold'
<1>0. tasks \in Seq(DrainTasks) /\ draining \in 0 .. Len(tasks) /\ Len(tasks) \in Nat
  BY DEF WireTypeOK
<1>1. backlog' = <<>> /\ draining' = 0 /\ backlog' \in Seq(WireFrames)
  BY EmptyIs DEF GateClose
<1>2. CASE draining = 0
  <2>1. tasks' = tasks
    BY <1>2 DEF GateClose
  <2> QED
    BY <1>0, <1>1, <2>1 DEF TasksHold
<1>3. CASE draining # 0
  <2> DEFINE old == tasks[draining]
             a == IF old.at = "due" THEN "ended" ELSE "cancelled"
             new == [old EXCEPT !.at = a]
  <2>1. draining \in 1 .. Len(tasks) /\ old \in DrainTasks
    BY <1>0, <1>3
  <2>2. new \in DrainTasks /\ new.at \in {"ended", "cancelled"}
    BY <2>1 DEF DrainTasks
  <2>3. tasks' = [tasks EXCEPT ![draining] = new]
    BY <1>3 DEF GateClose
  <2> HIDE DEF new, a, old
  <2>4. /\ tasks' \in Seq(DrainTasks) /\ Len(tasks') = Len(tasks) /\ tasks'[draining] = new
        /\ \A i \in 1 .. Len(tasks) : i # draining => tasks'[i] = tasks[i]
    BY <1>0, <2>1, <2>2, <2>3
  <2>5. TasksHold'
    BY <2>2, <2>4 DEF TasksHold
  <2> QED
    BY <1>0, <1>1, <2>4, <2>5
<1> QED
  BY <1>2, <1>3

\* submit lengthens the gate's line by its frame.
LEMMA GateSubmitIs ==
  ASSUME WireTypeOK, TasksHold, NEW frame \in WireFrames, GateSubmit(frame)
  PROVE  /\ up' \in Seq(Things) /\ backlog' \in Seq(WireFrames) /\ tasks' \in Seq(DrainTasks)
         /\ draining' \in 0 .. Len(tasks') /\ TasksHold'
         /\ (up' = up \/ up' = Append(up, frame))
         /\ (GateInv /\ alive' = alive => GateInv')
         /\ (GateInv /\ alive => Gated' = Gated \o <<frame>>)
<1>0. /\ up \in Seq(Things) /\ backlog \in Seq(WireFrames) /\ backlog \in Seq(Things)
      /\ tasks \in Seq(DrainTasks) /\ draining \in 0 .. Len(tasks) /\ Len(tasks) \in Nat
      /\ frame \in Things /\ <<frame>> \in Seq(Things) /\ <<>> \in Seq(Things)
  BY FramesAreThings, EmptyIs DEF WireTypeOK, Things
<1>1. ASSUME draining = 0, backlog = <<>> PROVE Gated = up
  <2>1. Decoding = <<>>
    BY <1>1 DEF Decoding
  <2>2. Gated = (up \o <<>>) \o <<>>
    BY <1>1, <2>1 DEF Gated
  <2> QED
    BY <1>0, <2>2, ConcatEmpty
<1>2. CASE draining = 0 /\ up' = Append(up, frame) /\ UNCHANGED <<backlog, tasks, draining>>
  <2>1. up' \in Seq(Things) /\ up' = up \o <<frame>>
    BY <1>0, <1>2, AppendIs
  <2>2. TasksHold' /\ (GateInv /\ alive' = alive => GateInv')
    BY <1>2 DEF TasksHold, GateInv
  <2>3. ASSUME GateInv, alive PROVE Gated' = Gated \o <<frame>>
    <3>1. backlog = <<>>
      BY <1>2, <2>3 DEF GateInv
    <3>2. Decoding' = <<>>
      BY <1>2 DEF Decoding
    <3>3. Gated' = (up' \o <<>>) \o <<>>
      BY <1>2, <3>1, <3>2 DEF Gated
    <3>4. Gated' = up'
      BY <2>1, <3>3, ConcatEmpty
    <3> QED
      BY <1>1, <1>2, <2>1, <3>1, <3>4
  <2> QED
    BY <1>0, <1>2, <2>1, <2>2, <2>3
<1>3. CASE backlog' = Append(backlog, frame) /\ UNCHANGED up /\ ~(draining = 0 /\ frame.kind # "step")
  <2>1. backlog' \in Seq(WireFrames) /\ backlog' = backlog \o <<frame>>
    BY <1>0, <1>3
  <2>2. CASE draining = 0 /\ tasks' = Append(tasks, [at |-> "due", frame |-> <<>>]) /\ draining' = Len(tasks')
    <3> DEFINE new == [at |-> "due", frame |-> <<>>]
    <3>1. new \in DrainTasks /\ new.at = "due" /\ new.frame = <<>>
      BY EmptyIs DEF DrainTasks
    <3>2. tasks' = Append(tasks, new)
      BY <2>2
    <3> HIDE DEF new
    <3>3. /\ tasks' \in Seq(DrainTasks) /\ Len(tasks') = Len(tasks) + 1 /\ tasks'[Len(tasks) + 1] = new
          /\ \A i \in 1 .. Len(tasks) : tasks'[i] = tasks[i]
      BY <1>0, <3>1, <3>2
    <3>4. draining' = Len(tasks) + 1 /\ draining' # 0 /\ draining' \in 1 .. Len(tasks') /\ draining' \in 0 .. Len(tasks')
      BY <1>0, <2>2, <3>3
    <3>5. \A i \in 1 .. Len(tasks') : i # draining' => i \in 1 .. Len(tasks)
      BY <1>0, <3>3, <3>4
    <3>6. TasksHold'
      BY <3>1, <3>3, <3>4, <3>5 DEF TasksHold
    <3>7. GateInv /\ alive' = alive => GateInv'
      <4>1. ASSUME GateInv, alive' = alive, alive' PROVE GateInv'
        <5>1. \A i \in 1 .. Len(tasks') : i # draining' => tasks'[i].at = "ended"
          <6>1. \A i \in 1 .. Len(tasks) : i # 0
            BY <1>0
          <6> QED
            BY <2>2, <3>3, <3>5, <4>1, <6>1 DEF GateInv
        <5> QED
          BY <3>1, <3>3, <3>4, <5>1 DEF GateInv
      <4> QED
        BY <4>1 DEF GateInv
    <3>8. ASSUME GateInv, alive PROVE Gated' = Gated \o <<frame>>
      <4>1. backlog = <<>>
        BY <2>2, <3>8 DEF GateInv
      <4>2. Decoding' = <<>>
        BY <3>1, <3>3, <3>4 DEF Decoding
      <4>3. Gated' = (up \o <<>>) \o (<<>> \o <<frame>>)
        BY <1>3, <2>1, <4>1, <4>2 DEF Gated
      <4>4. Gated' = up \o <<frame>>
        BY <1>0, <4>3, ConcatEmpty
      <4> QED
        BY <1>1, <2>2, <4>1, <4>4
    <3> QED
      BY <1>0, <1>3, <2>1, <3>3, <3>4, <3>6, <3>7, <3>8
  <2>3. CASE draining # 0 /\ UNCHANGED <<tasks, draining>>
    <3>1. TasksHold' /\ (GateInv /\ alive' = alive => GateInv')
      BY <2>3 DEF TasksHold, GateInv
    <3>2. Gated' = Gated \o <<frame>>
      <4>1. Decoding' = Decoding
        BY <2>3 DEF Decoding
      <4>2. Gated' = (up \o Decoding) \o (backlog \o <<frame>>)
        BY <1>3, <2>1, <4>1 DEF Gated
      <4> DEFINE g == up \o Decoding
                 w == <<frame>>
      <4>3. g \in Seq(Things) /\ w \in Seq(Things) /\ backlog \in Seq(Things)
        BY <1>0, GatedIs
      <4>4. Gated' = g \o (backlog \o w) /\ Gated = g \o backlog
        BY <4>2 DEF Gated
      <4> HIDE DEF g, w
      <4>5. (g \o backlog) \o w = g \o (backlog \o w)
        BY <4>3, ConcatAssoc
      <4> QED
        BY <4>4, <4>5 DEF w
    <3> QED
      BY <1>0, <1>3, <2>1, <2>3, <3>1, <3>2
  <2> QED
    BY <1>3, <2>2, <2>3 DEF GateSubmit
<1> QED
  BY <1>2, <1>3 DEF GateSubmit

\* The wire connects once, with every frame held so far behind it.
LEMMA FireIs ==
  ASSUME WireTypeOK, NEW a, NEW b, FireConnectedIfReady(a, b)
  PROVE  \/ UNCHANGED <<connected, early, ready>>
         \/ /\ ~stopped /\ ~connected /\ connected' = TRUE /\ early' = <<>>
            /\ ready' = (ready \o <<Callback("connected")>>) \o early
BY DEF FireConnectedIfReady

LEMMA FireTypes ==
  ASSUME WireTypeOK, NEW a, NEW b, FireConnectedIfReady(a, b)
  PROVE  /\ connected' \in BOOLEAN /\ early' \in Seq(WireFrames) /\ ready' \in Seq(Things)
         /\ (HoldInv => (connected' => early' = <<>>))
<1>1. CASE UNCHANGED <<connected, early, ready>>
  BY <1>1 DEF WireTypeOK, HoldInv
<1>2. CASE /\ connected' = TRUE /\ early' = <<>>
           /\ ready' = (ready \o <<Callback("connected")>>) \o early
  <2>1. <<Callback("connected")>> \in Seq(Things) /\ ready \in Seq(Things) /\ early \in Seq(Things)
    BY NoteIs, OneIs, FramesAreThings DEF NoteKinds, WireTypeOK
  <2>2. ready \o <<Callback("connected")>> \in Seq(Things)
    BY <2>1, ConcatIs
  <2>3. ready' \in Seq(Things)
    BY <1>2, <2>1, <2>2, ConcatIs
  <2> QED
    BY <1>2, <2>3, EmptyIs
<1> QED
  BY <1>1, <1>2, FireIs

WireBase == WireTypeOK /\ TasksHold /\ GateInv /\ HoldInv

LEMMA BaseInit == WireInit => WireBase
<1> SUFFICES ASSUME WireInit PROVE WireBase
  OBVIOUS
<1>1. WireTypeOK
  <2>1. <<>> \in Seq(Things) /\ <<>> \in Seq(WireFrames) /\ <<>> \in Seq(DrainTasks) /\ Len(<<>>) = 0 /\ 0 \in 0 .. 0
    OBVIOUS
  <2>2. /\ open \in [Wires -> BOOLEAN] /\ sunk \in [Wires -> Nat] /\ inSink \in [Wires -> Seq(WireFrames)]
    BY <2>1 DEF WireInit
  <2>3. tasks \in Seq(DrainTasks) /\ draining \in 0 .. Len(tasks)
    BY <2>1 DEF WireInit
  <2> QED
    BY <2>1, <2>2, <2>3 DEF WireInit, WireTypeOK
<1> QED
  BY <1>1 DEF WireInit, WireBase, TasksHold, GateInv, HoldInv

\* What the gate leaves alone stays as it is.
LEMMA GateRests ==
  ASSUME WireBase, UNCHANGED gateVars, alive' => alive
  PROVE  TasksHold' /\ GateInv'
BY DEF WireBase, TasksHold, GateInv, gateVars

LEMMA PeerBase ==
  ASSUME WireBase,
         \/ PeerConnects \/ PeerIsLost
         \/ \E c \in Wires : ChannelMoves(c) \/ SetChannelOpen(c)
  PROVE  WireBase'
<1>1. UNCHANGED <<gateVars, connVars, stopped, inSink, sunk, overflow, up>>
  BY DEF PeerConnects, PeerIsLost, ChannelMoves, SetChannelOpen, peerVars
<1>2. UNCHANGED <<backlog, tasks, draining, alive, closing, teardown>>
  BY <1>1 DEF gateVars, connVars
<1>3. TasksHold' /\ GateInv'
  BY <1>1, <1>2, GateRests
<1> DEFINE Typed == /\ pcUp \in BOOLEAN /\ connected \in BOOLEAN /\ open \in [Wires -> BOOLEAN]
                    /\ early \in Seq(WireFrames) /\ ready \in Seq(Things) /\ (connected => early = <<>>)
<1>4. Typed'
  <2>0. WireTypeOK /\ HoldInv
    BY DEF WireBase
  <2>1. CASE PeerConnects
    BY <2>0, <2>1, FireTypes DEF PeerConnects, WireTypeOK
  <2>2. CASE PeerIsLost
    <3>1. Callback("loss") \in Things
      BY NoteIs DEF NoteKinds
    <3>2. ready' \in Seq(Things)
      BY <2>0, <2>2, <3>1, AppendIs DEF PeerIsLost, WireTypeOK
    <3> QED
      BY <2>0, <2>2, <3>2 DEF PeerIsLost, peerVars, WireTypeOK, HoldInv
  <2>3. ASSUME NEW c \in Wires, ChannelMoves(c) PROVE Typed'
    BY <2>0, <2>3 DEF ChannelMoves, WireTypeOK, HoldInv
  <2>4. ASSUME NEW c \in Wires, SetChannelOpen(c) PROVE Typed'
    <3>1. (Head(notices[c]) = "open") \in BOOLEAN
      OBVIOUS
    <3>2. open' \in [Wires -> BOOLEAN] /\ pcUp' = pcUp
      BY <2>0, <2>4, <3>1 DEF SetChannelOpen, WireTypeOK
    <3>3. FireConnectedIfReady(pcUp, open')
      BY <2>4 DEF SetChannelOpen
    <3>4. connected' \in BOOLEAN /\ early' \in Seq(WireFrames) /\ ready' \in Seq(Things) /\ (connected' => early' = <<>>)
      BY <2>0, <3>3, FireTypes
    <3> QED
      BY <2>0, <3>2, <3>4 DEF WireTypeOK
  <2> QED
    BY <2>1, <2>2, <2>3, <2>4
<1>5. WireTypeOK'
  BY <1>1, <1>2, <1>4 DEF WireBase, WireTypeOK
<1>6. HoldInv'
  BY <1>1, <1>2, <1>4 DEF WireBase, HoldInv
<1> QED
  BY <1>3, <1>5, <1>6 DEF WireBase

LEMMA SinkBase ==
  ASSUME WireBase, NEW c \in Wires,
         FrameLocks(c) \/ \E kind \in {"plain", "step", "unpublish"} : FrameArrives(c, kind)
  PROVE  WireBase'
<1>0. WireTypeOK /\ HoldInv
  BY DEF WireBase
<1>1. UNCHANGED <<gateVars, connVars, stopped, pcUp, connected, open, up>>
  BY DEF FrameLocks, FrameArrives
<1>2. UNCHANGED <<backlog, tasks, draining, alive, closing, teardown>>
  BY <1>1 DEF gateVars, connVars
<1>3. TasksHold' /\ GateInv'
  BY <1>1, <1>2, GateRests
<1>4. CASE FrameLocks(c)
  <2>1. PICK f \in WireFrames : inSink[c] = <<f>> /\ f.ch = c /\ f.n = sunk[c]
    BY <1>0, <1>4 DEF FrameLocks, HoldInv
  <2>2. inSink' = [inSink EXCEPT ![c] = <<>>] /\ sunk' = sunk
    BY <1>4 DEF FrameLocks
  <2>3. <<f>> \in Seq(Things) /\ Range(<<f>>) = {f}
    BY OneIs DEF Things, Range
  <2>4. ready \o <<f>> \in Seq(Things) /\ early \o <<f>> \in Seq(WireFrames)
    BY <1>0, <2>3, ConcatIs DEF WireTypeOK
  <2>5. /\ early' \in Seq(WireFrames) /\ ready' \in Seq(Things) /\ (connected' => early' = <<>>)
        /\ (overflow' = overflow \/ overflow' = overflow \cup {f})
    <3>0. early \in Seq(WireFrames) /\ ready \in Seq(Things) /\ (connected => early = <<>>)
      BY <1>0 DEF WireTypeOK, HoldInv
    <3>1. \/ connected /\ ready' = ready \o <<f>> /\ early' = early /\ overflow' = overflow
          \/ ~connected /\ ready' = ready /\ early' = early /\ overflow' = overflow \cup {f}
          \/ ~connected /\ ready' = ready /\ early' = early \o <<f>> /\ overflow' = overflow
      BY <1>4, <2>1, <2>3 DEF FrameLocks
    <3> QED
      BY <1>1, <2>4, <3>0, <3>1
  <2>6. WireTypeOK'
    BY <1>0, <1>1, <1>2, <2>2, <2>5, EmptyIs DEF WireTypeOK
  <2>7. HoldInv'
    <3>1. \A d \in Wires : inSink'[d] = <<>> \/ inSink'[d] = inSink[d]
      BY <1>0, <2>2 DEF WireTypeOK
    <3>2. \A d \in Wires : inSink'[d] = <<>> \/ \E g \in WireFrames : inSink'[d] = <<g>> /\ g.ch = d /\ g.n = sunk'[d]
      BY <1>0, <2>2, <3>1 DEF HoldInv
    <3>3. \A g \in overflow' : g.n <= sunk'[g.ch]
      <4>1. f.n <= sunk[f.ch]
        BY <1>0, <2>1 DEF WireTypeOK
      <4> QED
        BY <1>0, <2>2, <2>5, <4>1 DEF HoldInv
    <3> QED
      BY <1>0, <1>1, <1>2, <2>5, <3>2, <3>3 DEF HoldInv
  <2> QED
    BY <1>3, <2>6, <2>7 DEF WireBase
<1>5. ASSUME NEW kind \in {"plain", "step", "unpublish"}, FrameArrives(c, kind) PROVE WireBase'
  <2> DEFINE f == [ch |-> c, n |-> sunk[c] + 1, kind |-> kind]
  <2>1. sunk[c] \in Nat /\ sunk \in [Wires -> Nat] /\ inSink \in [Wires -> Seq(WireFrames)]
    BY <1>0 DEF WireTypeOK
  <2>2. sunk' = [sunk EXCEPT ![c] = sunk[c] + 1] /\ sunk'[c] = sunk[c] + 1 /\ UNCHANGED <<early, ready, overflow>>
    BY <1>5, <2>1 DEF FrameArrives
  <2>3. inSink' = [inSink EXCEPT ![c] = <<f>>]
    BY <1>5, <2>2 DEF FrameArrives
  <2>4. f \in WireFrames /\ f.ch = c /\ f.n = sunk[c] + 1
    BY <2>1 DEF WireFrames, FrameKinds
  <2> HIDE DEF f
  <2>5. <<f>> \in Seq(WireFrames)
    BY <2>4
  <2>6. WireTypeOK'
    BY <1>0, <1>1, <1>2, <2>1, <2>2, <2>3, <2>5 DEF WireTypeOK
  <2>7. HoldInv'
    <3>1. \A d \in Wires : inSink'[d] = <<>> \/ \E g \in WireFrames : inSink'[d] = <<g>> /\ g.ch = d /\ g.n = sunk'[d]
      BY <1>0, <2>1, <2>2, <2>3, <2>4 DEF HoldInv
    <3>2. ASSUME NEW g \in overflow' PROVE g.n <= sunk'[g.ch]
      <4>1. g.n <= sunk[g.ch] /\ g.ch \in Wires /\ g.n \in Nat
        BY <1>0, <2>2 DEF HoldInv, WireTypeOK, WireFrames
      <4>2. sunk'[g.ch] = sunk[g.ch] \/ sunk'[g.ch] = sunk[g.ch] + 1
        BY <2>1, <2>2, <4>1
      <4> QED
        BY <2>1, <4>1, <4>2
    <3> QED
      BY <1>0, <1>1, <1>2, <2>2, <3>1, <3>2 DEF HoldInv
  <2> QED
    BY <1>3, <2>6, <2>7 DEF WireBase
<1> QED
  BY <1>4, <1>5

LEMMA LossBase ==
  ASSUME WireTypeOK, TasksHold, ReportLoss
  PROVE  /\ alive' \in BOOLEAN /\ ~alive' /\ TasksHold' /\ up' \in Seq(Things) /\ backlog' \in Seq(WireFrames)
         /\ tasks' \in Seq(DrainTasks) /\ draining' \in 0 .. Len(tasks')
<1>1. CASE alive
  <2>1. alive' = FALSE /\ GateClose /\ up' = Append(up, Report("lost"))
    BY <1>1 DEF ReportLoss
  <2>2. up' \in Seq(Things)
    BY <2>1, NoteIs, AppendIs DEF NoteKinds, WireTypeOK
  <2> QED
    BY <2>1, <2>2, GateCloseIs
<1>2. CASE ~alive
  BY <1>2 DEF ReportLoss, gateVars, WireTypeOK, TasksHold
<1> QED
  BY <1>1, <1>2

LEMMA LoopBase ==
  ASSUME WireBase, LoopRuns
  PROVE  WireBase'
<1>0. WireTypeOK /\ HoldInv /\ TasksHold /\ GateInv
  BY DEF WireBase
<1>1. ready \in Seq(Things) /\ ready # <<>> /\ Head(ready) \in Things /\ Tail(ready) \in Seq(Things)
  BY <1>0, HeadTail DEF LoopRuns, WireTypeOK
<1>2. ready' \in Seq(Things)
  <2>1. <<Callback("disconnect")>> \in Seq(Things) /\ <<>> \in Seq(Things)
    BY NoteIs, OneIs, EmptyIs DEF NoteKinds
  <2> QED
    BY <1>1, <2>1, ConcatIs DEF LoopRuns
<1>3. CASE HandleConnected
  <2>1. UNCHANGED <<peerVars, alive, closing, teardown, gateVars>>
    BY <1>3 DEF HandleConnected
  <2>2. up' \in Seq(Things)
    <3>1. Report("connected") \in Things
      BY NoteIs DEF NoteKinds
    <3> QED
      BY <1>0, <1>3, <3>1, AppendIs DEF HandleConnected, WireTypeOK
  <2>3. TasksHold' /\ GateInv'
    BY <2>1, GateRests
  <2>4. WireTypeOK' /\ HoldInv'
    BY <1>0, <1>2, <2>1, <2>2 DEF WireTypeOK, HoldInv, peerVars, gateVars
  <2> QED
    BY <2>3, <2>4 DEF WireBase
<1>4. CASE HandleMessage
  <2>1. UNCHANGED <<peerVars, connVars>> /\ GateSubmit(Head(ready)) /\ Head(ready).ch \in Wires
    BY <1>4 DEF HandleMessage
  <2>2. Head(ready) \in WireFrames
    BY <1>1, <2>1 DEF Things, WireNotes, Wires
  <2>3. /\ up' \in Seq(Things) /\ backlog' \in Seq(WireFrames) /\ tasks' \in Seq(DrainTasks)
        /\ draining' \in 0 .. Len(tasks') /\ TasksHold' /\ (GateInv /\ alive' = alive => GateInv')
    BY <1>0, <2>1, <2>2, GateSubmitIs
  <2>4. WireTypeOK' /\ HoldInv'
    BY <1>0, <1>2, <2>1, <2>3 DEF WireTypeOK, HoldInv, peerVars, connVars
  <2> QED
    BY <1>0, <2>1, <2>3, <2>4 DEF WireBase, connVars
<1>5. CASE PeerReportsLoss
  <2>1. UNCHANGED <<engine, notices, inSink, sunk, overflow, connVars, gateVars, up>>
    BY <1>5 DEF PeerReportsLoss
  <2>2. /\ stopped' \in BOOLEAN /\ connected' \in BOOLEAN /\ pcUp' \in BOOLEAN /\ open' \in [Wires -> BOOLEAN]
        /\ early' \in Seq(WireFrames) /\ (stopped => stopped') /\ (connected' => early' = <<>>)
    BY <1>0, <1>5, EmptyIs DEF PeerReportsLoss, WireTypeOK, HoldInv
  <2>3. TasksHold' /\ GateInv'
    BY <2>1, GateRests DEF connVars
  <2>4. WireTypeOK' /\ HoldInv'
    BY <1>0, <1>2, <2>1, <2>2 DEF WireTypeOK, HoldInv, connVars, gateVars
  <2> QED
    BY <2>3, <2>4 DEF WireBase
<1>6. CASE HandleDisconnect
  <2>1. UNCHANGED <<peerVars, closing, teardown>> /\ ReportLoss
    BY <1>6 DEF HandleDisconnect
  <2>2. /\ alive' \in BOOLEAN /\ ~alive' /\ TasksHold' /\ up' \in Seq(Things) /\ backlog' \in Seq(WireFrames)
        /\ tasks' \in Seq(DrainTasks) /\ draining' \in 0 .. Len(tasks')
    BY <1>0, <2>1, LossBase
  <2>3. WireTypeOK' /\ HoldInv' /\ GateInv'
    BY <1>0, <1>2, <2>1, <2>2 DEF WireTypeOK, HoldInv, GateInv, peerVars
  <2> QED
    BY <2>2, <2>3 DEF WireBase
<1> QED
  BY <1>3, <1>4, <1>5, <1>6 DEF LoopRuns

LEMMA CloseBase ==
  ASSUME WireBase,
         CloseWire \/ CloseReturns \/ WatchdogFires \/ WatchdogReports \/ TeardownStops \/ TeardownReleases
  PROVE  WireBase'
<1>0. WireTypeOK /\ HoldInv /\ TasksHold /\ GateInv
  BY DEF WireBase
<1>1. CASE CloseWire
  <2>1. /\ alive' = FALSE /\ GateClose /\ closing' = TRUE /\ UNCHANGED <<peerVars, ready, up>>
        /\ (teardown' = teardown \/ teardown' = "asked")
    BY <1>1 DEF CloseWire
  <2>2. backlog' \in Seq(WireFrames) /\ tasks' \in Seq(DrainTasks) /\ draining' \in 0 .. Len(tasks') /\ TasksHold'
    BY <1>0, <2>1, GateCloseIs
  <2> QED
    BY <1>0, <2>1, <2>2 DEF WireBase, WireTypeOK, HoldInv, GateInv, peerVars
<1>2. CASE CloseReturns
  <2>1. closing' = FALSE /\ up' = Append(up, Report("closed")) /\ UNCHANGED <<peerVars, ready, alive, teardown, gateVars>>
    BY <1>2 DEF CloseReturns
  <2>2. up' \in Seq(Things)
    BY <1>0, <2>1, NoteIs, AppendIs DEF NoteKinds, WireTypeOK
  <2>3. TasksHold' /\ GateInv'
    BY <2>1, GateRests
  <2> QED
    BY <1>0, <2>1, <2>2, <2>3 DEF WireBase, WireTypeOK, HoldInv, peerVars, gateVars
<1>3. CASE WatchdogFires
  <2>1. UNCHANGED <<peerVars, ready, alive, closing, gateVars, up>> /\ (teardown' = teardown \/ teardown' = "asked")
    BY <1>3 DEF WatchdogFires
  <2>3. TasksHold' /\ GateInv'
    BY <2>1, GateRests
  <2> QED
    BY <1>0, <2>1, <2>3 DEF WireBase, WireTypeOK, HoldInv, peerVars, gateVars
<1>4. CASE WatchdogReports
  <2>1. UNCHANGED <<peerVars, ready, closing, teardown>> /\ ReportLoss
    BY <1>4 DEF WatchdogReports
  <2>2. /\ alive' \in BOOLEAN /\ ~alive' /\ TasksHold' /\ up' \in Seq(Things) /\ backlog' \in Seq(WireFrames)
        /\ tasks' \in Seq(DrainTasks) /\ draining' \in 0 .. Len(tasks')
    BY <1>0, <2>1, LossBase
  <2> QED
    BY <1>0, <2>1, <2>2 DEF WireBase, WireTypeOK, HoldInv, GateInv, peerVars
<1>5. CASE TeardownStops \/ TeardownReleases
  <2>1. /\ UNCHANGED <<open, pcUp, connected, inSink, sunk, overflow, ready, alive, closing, gateVars, up>>
        /\ stopped' \in BOOLEAN /\ early' \in Seq(WireFrames) /\ (early' = early \/ early' = <<>>)
        /\ (teardown' \in {"set", "done"} => stopped')
    BY <1>0, <1>5, EmptyIs DEF TeardownStops, TeardownReleases, WireTypeOK, HoldInv
  <2>3. TasksHold' /\ GateInv'
    BY <2>1, GateRests
  <2> QED
    BY <1>0, <2>1, <2>3 DEF WireBase, WireTypeOK, HoldInv, gateVars
<1> QED
  BY <1>1, <1>2, <1>3, <1>4, <1>5

\* A drain that decodes has its frame in hand; refused, it keeps its number.
LEMMA DecodeIs ==
  ASSUME WireTypeOK, TasksHold, NEW t \in 1 .. Len(tasks), NEW opened, NEW decoded, DecodeReturns(t, opened, decoded)
  PROVE  \E f \in WireFrames, g \in WireFrames :
           /\ tasks[t].frame = <<f>> /\ g.ch = f.ch /\ g.n = f.n
           /\ Drains(t, <<g>>, decoder \/ opened, backlog)
           /\ g.kind \in FrameKinds
<1>1. PICK f \in WireFrames : tasks[t].frame = <<f>>
  BY DEF DecodeReturns, TasksHold
<1> DEFINE h == [f EXCEPT !.kind = "refused"]
<1>2. h \in WireFrames /\ h.ch = f.ch /\ h.n = f.n /\ <<f>>[1] = f
  BY DEF WireFrames, FrameKinds
<1>3. Drains(t, <<f>>, decoder \/ opened, backlog) \/ Drains(t, <<h>>, decoder \/ opened, backlog)
  BY <1>1, <1>2 DEF DecodeReturns
<1>4. f.kind \in FrameKinds /\ h.kind \in FrameKinds
  BY <1>2 DEF WireFrames
<1> QED
  BY <1>1, <1>2, <1>3, <1>4

LEMMA DrainBase ==
  ASSUME WireBase, NEW t \in 1 .. Len(tasks),
         DrainBegins(t) \/ DrainUnwinds(t) \/ \E opened, decoded \in BOOLEAN : DecodeReturns(t, opened, decoded)
  PROVE  WireBase'
<1>0. WireTypeOK /\ HoldInv /\ TasksHold /\ GateInv
  BY DEF WireBase
<1>1. UNCHANGED <<peerVars, ready, connVars>>
  BY DEF DrainBegins, DrainUnwinds, DecodeReturns
<1>2. ASSUME NEW before \in Seq(WireFrames), NEW has, Drains(t, before, has, backlog), tasks[t].at \in {"due", "decoding"}
      PROVE  WireBase'
  <2>1. /\ up' \in Seq(Things) /\ backlog' \in Seq(WireFrames)
        /\ tasks' \in Seq(DrainTasks) /\ Len(tasks') = Len(tasks) /\ draining' \in 0 .. Len(tasks')
        /\ TasksHold'
        /\ \A i \in 1 .. Len(tasks) : i # t => tasks'[i] = tasks[i]
        /\ \/ draining' = 0 /\ backlog' = <<>> /\ tasks'[t].at = "ended"
           \/ draining' = draining /\ tasks'[t].at = "decoding"
    BY <1>0, <1>2, DrainsIs
  <2>2. ASSUME alive' PROVE GateInv'
    <3>1. alive
      BY <1>1, <2>2 DEF connVars
    <3>2. t = draining
      BY <1>0, <1>2, <3>1 DEF GateInv
    <3>3. \A i \in 1 .. Len(tasks) : i # t => tasks'[i].at = "ended"
      BY <1>0, <2>1, <3>1, <3>2 DEF GateInv
    <3>4. t # 0
      BY <1>0 DEF WireTypeOK
    <3> QED
      BY <2>1, <3>2, <3>3, <3>4 DEF GateInv
  <2>3. GateInv'
    BY <2>2 DEF GateInv
  <2> QED
    BY <1>0, <1>1, <2>1, <2>3 DEF WireBase, WireTypeOK, HoldInv, peerVars, connVars
<1>3. CASE DrainBegins(t)
  BY <1>2, <1>3, EmptyIs DEF DrainBegins
<1>4. ASSUME NEW opened, NEW decoded, DecodeReturns(t, opened, decoded) PROVE WireBase'
  <2>1. PICK f \in WireFrames, g \in WireFrames : Drains(t, <<g>>, decoder \/ opened, backlog)
    BY <1>0, <1>4, DecodeIs
  <2>2. <<g>> \in Seq(WireFrames)
    OBVIOUS
  <2>3. tasks[t].at = "decoding"
    BY <1>4 DEF DecodeReturns
  <2> QED
    BY <1>2, <2>1, <2>2, <2>3
<1>5. CASE DrainUnwinds(t)
  <2>1. tasks[t].at = "cancelled" /\ draining' = 0 /\ UNCHANGED <<backlog, up>>
        /\ tasks' = [tasks EXCEPT ![t] = [at |-> "ended", frame |-> <<>>]]
    BY <1>5 DEF DrainUnwinds
  <2>2. [at |-> "ended", frame |-> <<>>] \in DrainTasks
    BY EmptyIs DEF DrainTasks
  <2>3. /\ tasks' \in Seq(DrainTasks) /\ Len(tasks') = Len(tasks) /\ Len(tasks) \in Nat
        /\ tasks'[t].at = "ended" /\ \A i \in 1 .. Len(tasks) : i # t => tasks'[i] = tasks[i]
    BY <1>0, <2>1, <2>2 DEF WireTypeOK
  <2>4. TasksHold'
    BY <1>0, <2>3 DEF TasksHold
  <2>5. ~alive
    <3>1. t # draining => tasks[t].at # "cancelled" \/ ~alive
      BY <1>0 DEF GateInv
    <3>2. t = draining /\ alive => tasks[t].at # "cancelled"
      <4>1. t # 0
        BY <2>3
      <4> QED
        BY <1>0, <4>1 DEF GateInv
    <3> QED
      BY <2>1, <3>1, <3>2
  <2> QED
    BY <1>0, <1>1, <2>1, <2>3, <2>4, <2>5 DEF WireBase, WireTypeOK, HoldInv, GateInv, peerVars, connVars
<1> QED
  BY <1>3, <1>4, <1>5

\* The line of a channel is the same when each of its parts carries the same.
LEMMA SameLine ==
  ASSUME NEW c \in Wires, InLine(c),
         \A m : Carries(Gated, c, m)' <=> Carries(Gated, c, m), Rising(Gated, c)' <=> Rising(Gated, c),
         \A m : Carries(ready, c, m)' <=> Carries(ready, c, m), Rising(ready, c)' <=> Rising(ready, c),
         UNCHANGED early, inSink'[c] = inSink[c], sunk'[c] = sunk[c], UNCHANGED overflow
  PROVE  InLine(c)'
<1>1. \A m : (Carries(early, c, m)' <=> Carries(early, c, m)) /\ (Carries(inSink[c], c, m)' <=> Carries(inSink[c], c, m))
  BY DEF Carries
<1>2. Rising(early, c)' <=> Rising(early, c)
  BY DEF Rising
<1>3. \A m : Kept(c, m)' <=> Kept(c, m)
  BY DEF Kept
<1>4. /\ Precedes(Gated, ready, c)' <=> Precedes(Gated, ready, c)
      /\ Precedes(Gated, early, c)' <=> Precedes(Gated, early, c)
      /\ Precedes(Gated, inSink[c], c)' <=> Precedes(Gated, inSink[c], c)
      /\ Precedes(ready, early, c)' <=> Precedes(ready, early, c)
      /\ Precedes(ready, inSink[c], c)' <=> Precedes(ready, inSink[c], c)
      /\ Precedes(early, inSink[c], c)' <=> Precedes(early, inSink[c], c)
  BY <1>1 DEF Precedes, Carries
<1> QED
  BY <1>1, <1>2, <1>3, <1>4 DEF InLine

\* While the gate rests its line does.
LEMMA GatedRests == ASSUME UNCHANGED <<up, tasks, draining, backlog>> PROVE Gated' = Gated
BY DEF Gated, Decoding

LEMMA FireKeepsLine ==
  ASSUME WireBase, LineInv, alive, ~stopped, NEW a, NEW b, FireConnectedIfReady(a, b),
         UNCHANGED <<inSink, sunk, overflow, up, tasks, draining, backlog>>, NEW c \in Wires
  PROVE  InLine(c)'
<1>0. InLine(c) /\ ready \in Seq(Things) /\ early \in Seq(Things)
  BY FramesAreThings DEF LineInv, WireBase, WireTypeOK
<1>1. Gated' = Gated
  BY GatedRests
<1>2. CASE UNCHANGED <<connected, early, ready>>
  <2>1. /\ \A m : Carries(Gated, c, m)' <=> Carries(Gated, c, m)
        /\ Rising(Gated, c)' <=> Rising(Gated, c)
        /\ \A m : Carries(ready, c, m)' <=> Carries(ready, c, m)
        /\ Rising(ready, c)' <=> Rising(ready, c)
    BY <1>1, <1>2 DEF Carries, Rising
  <2> QED
    BY <1>0, <1>2, <2>1, SameLine
<1>3. CASE early' = <<>> /\ ready' = (ready \o <<Callback("connected")>>) \o early
  <2> DEFINE x == Callback("connected")
             r == ready \o <<x>>
  <2>1. x \in Things /\ x.ch \notin Wires /\ <<x>> \in Seq(Things) /\ r \in Seq(Things)
    BY <1>0, NoteIs, OneIs, ConcatIs DEF NoteKinds
  <2>2. ready' = r \o early
    BY <1>3
  <2>3. /\ \A m : Carries(r, c, m) <=> Carries(ready, c, m)
        /\ Rising(r, c) <=> Rising(ready, c)
    <3>1. \A m : ~Carries(<<x>>, c, m)
      BY <2>1, OneIs
    <3>2. Rising(<<x>>, c) /\ Precedes(ready, <<x>>, c)
      BY <2>1, <3>1, OneIs DEF Precedes
    <3> QED
      BY <1>0, <2>1, <3>1, <3>2, ConcatCarries, ConcatRising
  <2> HIDE DEF r, x
  <2>4. \A m : Carries(ready', c, m) <=> Carries(ready, c, m) \/ Carries(early, c, m)
    BY <1>0, <2>1, <2>2, <2>3, ConcatCarries
  <2>5. Rising(ready', c)
    <3>1. Precedes(r, early, c)
      BY <1>0, <2>3 DEF Precedes, InLine
    <3> QED
      BY <1>0, <2>1, <2>2, <2>3, <3>1, ConcatRising DEF InLine
  <2>6. Rising(early', c) /\ \A m : ~Carries(early', c, m)
    BY <1>3, EmptyIs
  <2>7. Gated' = Gated /\ inSink'[c] = inSink[c] /\ \A m : Kept(c, m)' <=> Kept(c, m)
    BY <1>1 DEF Kept
  <2>8. /\ Precedes(Gated', ready', c) /\ Precedes(Gated', early', c) /\ Precedes(Gated', inSink'[c], c)
        /\ Precedes(ready', early', c) /\ Precedes(ready', inSink'[c], c) /\ Precedes(early', inSink'[c], c)
    BY <1>0, <2>4, <2>6, <2>7 DEF Precedes, InLine
  <2>9. \A m \in Nat : Carries(Gated', c, m) \/ Carries(ready', c, m) \/ Carries(early', c, m) \/ Carries(inSink'[c], c, m)
                      <=> Kept(c, m)'
    BY <1>0, <2>4, <2>6, <2>7 DEF InLine
  <2>10. Rising(Gated', c)
    BY <1>0, <1>1 DEF InLine
  <2> QED
    BY <2>5, <2>6, <2>8, <2>9, <2>10 DEF InLine, Rising, Precedes, Carries
<1> QED
  BY <1>2, <1>3, FireIs DEF WireBase

LEMMA ArriveKeepsLine ==
  ASSUME WireBase, LineInv, alive, NEW d \in Wires, NEW kind \in {"plain", "step", "unpublish"}, FrameArrives(d, kind),
         NEW c \in Wires
  PROVE  InLine(c)'
<1>0. /\ InLine(c) /\ sunk \in [Wires -> Nat] /\ sunk[c] \in Nat /\ sunk[d] \in Nat
      /\ inSink \in [Wires -> Seq(WireFrames)] /\ overflow \subseteq WireFrames
  BY DEF LineInv, WireBase, WireTypeOK, FrameArrives
<1>1. UNCHANGED <<up, tasks, draining, backlog, ready, early, overflow>>
  BY DEF FrameArrives, gateVars
<1>2. Gated' = Gated
  BY <1>1, GatedRests
<1> DEFINE f == [ch |-> d, n |-> sunk[d] + 1, kind |-> kind]
<1>3. sunk' = [sunk EXCEPT ![d] = sunk[d] + 1] /\ sunk'[d] = sunk[d] + 1 /\ inSink[d] = <<>>
  BY <1>0 DEF FrameArrives
<1>4. inSink' = [inSink EXCEPT ![d] = <<f>>]
  BY <1>3 DEF FrameArrives
<1>5. f \in Things /\ f.ch = d /\ f.n = sunk[d] + 1
  BY <1>0 DEF Things, WireFrames, FrameKinds
<1> HIDE DEF f
<1>6. CASE c # d
  <2>1. sunk'[c] = sunk[c] /\ inSink'[c] = inSink[c]
    BY <1>0, <1>3, <1>4, <1>6
  <2>2. /\ \A m : Carries(Gated, c, m)' <=> Carries(Gated, c, m)
        /\ Rising(Gated, c)' <=> Rising(Gated, c)
        /\ \A m : Carries(ready, c, m)' <=> Carries(ready, c, m)
        /\ Rising(ready, c)' <=> Rising(ready, c)
    BY <1>1, <1>2 DEF Carries, Rising
  <2> QED
    BY <1>0, <1>1, <2>1, <2>2, SameLine
<1>7. CASE c = d
  <2>1. inSink'[c] = <<f>> /\ sunk'[c] = sunk[c] + 1 /\ inSink[c] = <<>>
    BY <1>0, <1>3, <1>4, <1>7
  <2>2. \A m : (Carries(inSink'[c], c, m) <=> m = sunk[c] + 1) /\ ~Carries(inSink[c], c, m)
    <3>1. \A m : Carries(<<f>>, c, m) <=> f.ch = c /\ f.n = m
      BY <1>5, OneIs
    <3>2. \A m : Carries(<<f>>, c, m) <=> m = sunk[c] + 1
      BY <1>5, <1>7, <3>1
    <3>3. \A m : ~Carries(<<>>, c, m)
      BY EmptyIs
    <3> QED
      BY <2>1, <3>2, <3>3
  <2>3. \A m \in Nat : Kept(c, m)' <=> Kept(c, m) \/ m = sunk[c] + 1
    <3>1. \A g \in overflow : g.ch = c => g.n <= sunk[c] /\ g.n \in Nat
      BY <1>0 DEF WireBase, HoldInv, WireFrames
    <3>2. \A g \in overflow : g.ch = c => g.n # sunk[c] + 1
      BY <1>0, <3>1
    <3>3. \A m \in Nat : m \in 1 .. sunk'[c] <=> m \in 1 .. sunk[c] \/ m = sunk[c] + 1
      BY <1>0, <2>1
    <3> QED
      BY <1>1, <3>2, <3>3 DEF Kept
  <2>4. \A m \in Nat : Carries(Gated, c, m) \/ Carries(ready, c, m) \/ Carries(early, c, m) => m < sunk[c] + 1
    <3>1. \A m \in Nat : Kept(c, m) => m < sunk[c] + 1
      BY <1>0 DEF Kept
    <3> QED
      BY <1>0, <3>1 DEF InLine
  <2>5. Precedes(Gated, inSink'[c], c) /\ Precedes(ready, inSink'[c], c) /\ Precedes(early, inSink'[c], c)
    BY <2>2, <2>4 DEF Precedes
  <2>6. \A m \in Nat : Carries(Gated, c, m) \/ Carries(ready, c, m) \/ Carries(early, c, m) \/ Carries(inSink'[c], c, m)
                      <=> Kept(c, m)'
    BY <1>0, <2>2, <2>3 DEF InLine
  <2>7. Rising(Gated, c) /\ Rising(ready, c) /\ Rising(early, c)
        /\ Precedes(Gated, ready, c) /\ Precedes(Gated, early, c) /\ Precedes(ready, early, c)
    BY <1>0 DEF InLine
  <2> QED
    BY <1>1, <1>2, <2>5, <2>6, <2>7 DEF InLine, Rising, Precedes, Carries
<1> QED
  BY <1>6, <1>7

LEMMA LockKeepsLine ==
  ASSUME WireBase, LineInv, alive, ~stopped, NEW d \in Wires, FrameLocks(d), NEW c \in Wires
  PROVE  InLine(c)'
<1>0. /\ InLine(c) /\ ready \in Seq(Things) /\ early \in Seq(Things) /\ HoldInv
      /\ inSink \in [Wires -> Seq(WireFrames)]
  BY FramesAreThings DEF LineInv, WireBase, WireTypeOK
<1>1. UNCHANGED <<up, tasks, draining, backlog, sunk>> /\ inSink' = [inSink EXCEPT ![d] = <<>>]
  BY DEF FrameLocks, gateVars
<1>2. Gated' = Gated
  BY <1>1, GatedRests
<1>3. PICK f \in WireFrames : inSink[d] = <<f>> /\ f.ch = d /\ f.n = sunk[d]
  BY <1>0 DEF FrameLocks, HoldInv
<1>4. f \in Things /\ <<f>> \in Seq(Things) /\ Range(<<f>>) = {f} /\ f.n \in Nat
  BY OneIs DEF Things, Range, WireFrames
<1>5. \/ connected /\ ready' = ready \o <<f>> /\ early' = early /\ overflow' = overflow
      \/ ~connected /\ ready' = ready /\ early' = early /\ overflow' = overflow \cup {f}
      \/ ~connected /\ ready' = ready /\ early' = early \o <<f>> /\ overflow' = overflow
  BY <1>3, <1>4 DEF FrameLocks
<1>6. /\ Rising(<<f>>, c) /\ \A m : Carries(<<f>>, c, m) <=> f.ch = c /\ f.n = m
  BY <1>4, OneIs
<1>7. CASE c # d
  <2>1. inSink'[c] = inSink[c] /\ \A m : ~Carries(<<f>>, c, m)
    BY <1>0, <1>1, <1>3, <1>6, <1>7
  <2>2. /\ \A m : Carries(ready', c, m) <=> Carries(ready, c, m)
        /\ Rising(ready', c) <=> Rising(ready, c)
        /\ \A m : Carries(early', c, m) <=> Carries(early, c, m)
        /\ Rising(early', c) <=> Rising(early, c)
    <3>1. ASSUME NEW s \in Seq(Things)
          PROVE  /\ \A m : Carries(s \o <<f>>, c, m) <=> Carries(s, c, m)
                 /\ Rising(s \o <<f>>, c) <=> Rising(s, c)
      <4>1. Precedes(s, <<f>>, c)
        BY <2>1 DEF Precedes
      <4> QED
        BY <1>4, <1>6, <2>1, <4>1, ConcatCarries, ConcatRising
    <3>2. /\ \A m : Carries(ready \o <<f>>, c, m) <=> Carries(ready, c, m)
          /\ Rising(ready \o <<f>>, c) <=> Rising(ready, c)
      BY <1>0, <3>1
    <3>3. /\ \A m : Carries(early \o <<f>>, c, m) <=> Carries(early, c, m)
          /\ Rising(early \o <<f>>, c) <=> Rising(early, c)
      BY <1>0, <3>1
    <3>4. (ready' = ready \/ ready' = ready \o <<f>>) /\ (early' = early \/ early' = early \o <<f>>)
      BY <1>5
    <3> QED
      BY <3>2, <3>3, <3>4
  <2>3. \A m : Kept(c, m)' <=> Kept(c, m)
    BY <1>1, <1>3, <1>5, <1>7 DEF Kept
  <2>4. /\ Precedes(Gated', ready', c) /\ Precedes(Gated', early', c) /\ Precedes(Gated', inSink'[c], c)
        /\ Precedes(ready', early', c) /\ Precedes(ready', inSink'[c], c) /\ Precedes(early', inSink'[c], c)
    BY <1>0, <1>2, <2>1, <2>2 DEF Precedes, InLine
  <2>5. \A m \in Nat : Carries(Gated', c, m) \/ Carries(ready', c, m) \/ Carries(early', c, m) \/ Carries(inSink'[c], c, m)
                      <=> Kept(c, m)'
    BY <1>0, <1>2, <2>1, <2>2, <2>3 DEF InLine
  <2>6. Rising(Gated', c) /\ Rising(ready', c) /\ Rising(early', c)
    BY <1>0, <1>2, <2>2 DEF InLine
  <2> QED
    BY <2>4, <2>5, <2>6 DEF InLine, Rising, Precedes, Carries
<1>8. CASE c = d
  <2>1. inSink'[c] = <<>> /\ \A m : ~Carries(inSink'[c], c, m)
    BY <1>0, <1>1, <1>8, EmptyIs
  <2>2. \A m : Carries(inSink[c], c, m) <=> f.n = m
    BY <1>3, <1>6, <1>8
  <2>3. \A m \in Nat : Carries(Gated, c, m) \/ Carries(ready, c, m) \/ Carries(early, c, m) => m < f.n
    BY <1>0, <1>4, <2>2 DEF InLine, Precedes
  <2>4. Rising(Gated', c) /\ \A m : Carries(Gated', c, m) <=> Carries(Gated, c, m)
    BY <1>0, <1>2 DEF InLine
  <2>5. CASE connected /\ ready' = ready \o <<f>> /\ early' = early /\ overflow' = overflow
    <3>1. \A m : Carries(ready', c, m) <=> Carries(ready, c, m) \/ m = f.n
      BY <1>0, <1>3, <1>4, <1>6, <1>8, <2>5, ConcatCarries
    <3>2. Rising(ready', c)
      <4>1. Precedes(ready, <<f>>, c)
        BY <1>6, <2>3 DEF Precedes
      <4> QED
        BY <1>0, <1>4, <1>6, <2>5, <4>1, ConcatRising DEF InLine
    <3>3. Rising(early', c) /\ \A m : ~Carries(early', c, m) /\ ~Carries(early, c, m)
      BY <1>0, <2>5, EmptyIs DEF HoldInv
    <3>4. \A m : Kept(c, m)' <=> Kept(c, m)
      BY <1>1, <2>5 DEF Kept
    <3>5. /\ Precedes(Gated', ready', c) /\ Precedes(Gated', early', c) /\ Precedes(Gated', inSink'[c], c)
          /\ Precedes(ready', early', c) /\ Precedes(ready', inSink'[c], c) /\ Precedes(early', inSink'[c], c)
      BY <1>0, <1>4, <2>1, <2>3, <2>4, <3>1, <3>3 DEF Precedes, InLine
    <3>6. \A m \in Nat : Carries(Gated', c, m) \/ Carries(ready', c, m) \/ Carries(early', c, m) \/ Carries(inSink'[c], c, m)
                      <=> Kept(c, m)'
      BY <1>0, <2>1, <2>2, <2>4, <3>1, <3>3, <3>4 DEF InLine
    <3> QED
      BY <2>4, <3>2, <3>3, <3>5, <3>6 DEF InLine, Rising, Precedes, Carries
  <2>6. CASE ready' = ready /\ early' = early \o <<f>> /\ overflow' = overflow
    <3>1. \A m : Carries(early', c, m) <=> Carries(early, c, m) \/ m = f.n
      BY <1>0, <1>3, <1>4, <1>6, <1>8, <2>6, ConcatCarries
    <3>2. Rising(early', c)
      <4>1. Precedes(early, <<f>>, c)
        BY <1>6, <2>3 DEF Precedes
      <4> QED
        BY <1>0, <1>4, <1>6, <2>6, <4>1, ConcatRising DEF InLine
    <3>3. Rising(ready', c) /\ \A m : Carries(ready', c, m) <=> Carries(ready, c, m)
      BY <1>0, <2>6 DEF InLine
    <3>4. \A m : Kept(c, m)' <=> Kept(c, m)
      BY <1>1, <2>6 DEF Kept
    <3>5. /\ Precedes(Gated', ready', c) /\ Precedes(Gated', early', c) /\ Precedes(Gated', inSink'[c], c)
          /\ Precedes(ready', early', c) /\ Precedes(ready', inSink'[c], c) /\ Precedes(early', inSink'[c], c)
      BY <1>0, <1>4, <2>1, <2>3, <2>4, <3>1, <3>3 DEF Precedes, InLine
    <3>6. \A m \in Nat : Carries(Gated', c, m) \/ Carries(ready', c, m) \/ Carries(early', c, m) \/ Carries(inSink'[c], c, m)
                      <=> Kept(c, m)'
      BY <1>0, <2>1, <2>2, <2>4, <3>1, <3>3, <3>4 DEF InLine
    <3> QED
      BY <2>4, <3>2, <3>3, <3>5, <3>6 DEF InLine, Rising, Precedes, Carries
  <2>7. CASE ready' = ready /\ early' = early /\ overflow' = overflow \cup {f}
    <3>1. \A m : Kept(c, m)' <=> Kept(c, m) /\ m # f.n
      BY <1>1, <1>3, <1>8, <2>7 DEF Kept
    <3>2. Rising(ready', c) /\ Rising(early', c)
          /\ \A m : (Carries(ready', c, m) <=> Carries(ready, c, m)) /\ (Carries(early', c, m) <=> Carries(early, c, m))
      BY <1>0, <2>7 DEF InLine
    <3>3. \A m \in Nat : Carries(Gated, c, m) \/ Carries(ready, c, m) \/ Carries(early, c, m) => m # f.n
      BY <1>4, <2>3
    <3>4. /\ Precedes(Gated', ready', c) /\ Precedes(Gated', early', c) /\ Precedes(Gated', inSink'[c], c)
          /\ Precedes(ready', early', c) /\ Precedes(ready', inSink'[c], c) /\ Precedes(early', inSink'[c], c)
      BY <1>0, <2>1, <2>4, <3>2 DEF Precedes, InLine
    <3>5. \A m \in Nat : Carries(Gated', c, m) \/ Carries(ready', c, m) \/ Carries(early', c, m) \/ Carries(inSink'[c], c, m)
                      <=> Kept(c, m)'
      BY <1>0, <2>1, <2>2, <2>4, <3>1, <3>2, <3>3 DEF InLine
    <3> QED
      BY <2>4, <3>2, <3>4, <3>5 DEF InLine, Rising, Precedes, Carries
  <2> QED
    BY <1>5, <2>5, <2>6, <2>7
<1> QED
  BY <1>7, <1>8

\* A note that goes up is no frame of the gate's line.
LEMMA NoteKeepsGate ==
  ASSUME WireTypeOK, NEW c \in Wires, NEW x \in Things, x.ch \notin Wires, up' = Append(up, x),
         UNCHANGED <<tasks, draining, backlog>>
  PROVE  /\ \A m : Carries(Gated', c, m) <=> Carries(Gated, c, m)
         /\ Rising(Gated', c) <=> Rising(Gated, c)
<1>1. <<x>> \in Seq(Things) /\ up' = up \o <<x>> /\ up \in Seq(Things)
  BY OneIs, AppendIs DEF WireTypeOK
<1>2. Decoding' = Decoding /\ backlog' = backlog
  BY DEF Decoding
<1>3. Gated' = ((up \o <<x>>) \o Decoding) \o backlog
  BY <1>1, <1>2 DEF Gated
<1>4. Decoding \in Seq(Things) /\ backlog \in Seq(Things)
  BY GatedIs
<1>5. Gated' = (up \o (<<x>> \o Decoding)) \o backlog
  BY <1>1, <1>3, <1>4, ConcatAssoc
<1>6. \A m : ~Carries(<<x>>, c, m)
  BY <1>1, OneIs
<1>7. Rising(<<x>>, c) /\ Precedes(<<x>>, Decoding, c)
  BY <1>1, <1>6, OneIs DEF Precedes
<1>8. /\ <<x>> \o Decoding \in Seq(Things)
      /\ \A m : Carries(<<x>> \o Decoding, c, m) <=> Carries(Decoding, c, m)
      /\ Rising(<<x>> \o Decoding, c) <=> Rising(Decoding, c)
  BY <1>1, <1>4, <1>6, <1>7, ConcatIs, ConcatCarries, ConcatRising
<1> DEFINE y == <<x>> \o Decoding
<1> HIDE DEF y
<1>9. /\ y \in Seq(Things) /\ \A m : Carries(y, c, m) <=> Carries(Decoding, c, m)
      /\ Rising(y, c) <=> Rising(Decoding, c)
  BY <1>8 DEF y
<1>10. /\ \A m : Carries((up \o y) \o backlog, c, m) <=> Carries((up \o Decoding) \o backlog, c, m)
       /\ Rising((up \o y) \o backlog, c) <=> Rising((up \o Decoding) \o backlog, c)
  BY <1>1, <1>4, <1>9, MiddleIs
<1> QED
  BY <1>5, <1>10 DEF y, Gated

\* The loop takes the first callback: a frame goes to the end of the gate's line.
LEMMA LoopKeepsLine ==
  ASSUME WireBase, LineInv, alive, ~stopped, alive', ~stopped', LoopRuns, NEW c \in Wires
  PROVE  InLine(c)'
<1> DEFINE h == Head(ready)
           r == Tail(ready)
<1>0. /\ InLine(c) /\ ready \in Seq(Things) /\ WireTypeOK /\ TasksHold /\ GateInv /\ ready # <<>>
  BY DEF LineInv, WireBase, WireTypeOK, LoopRuns
<1>1. h \in Things /\ r \in Seq(Things) /\ ready = <<h>> \o r /\ <<h>> \in Seq(Things)
  BY <1>0, HeadTail, OneIs
<1>2. /\ Rising(r, c) /\ Precedes(<<h>>, r, c)
      /\ \A m : Carries(ready, c, m) <=> Carries(<<h>>, c, m) \/ Carries(r, c, m)
      /\ \A m : Carries(<<h>>, c, m) <=> h.ch = c /\ h.n = m
  <2> HIDE DEF h, r
  <2>1. Rising(<<h>> \o r, c)
    BY <1>0, <1>1 DEF InLine
  <2>2. Rising(r, c) /\ Precedes(<<h>>, r, c)
    BY <1>1, <2>1, ConcatRising
  <2>3. \A m : Carries(<<h>> \o r, c, m) <=> Carries(<<h>>, c, m) \/ Carries(r, c, m)
    BY <1>1, ConcatCarries
  <2>4. \A m : Carries(<<h>>, c, m) <=> h.ch = c /\ h.n = m
    BY <1>1, OneIs
  <2> QED
    BY <1>1, <2>2, <2>3, <2>4
<1>3. h.kind # "loss" => ready' = r
  <2>1. ASSUME h.kind # "loss" PROVE ready' = r \o <<>>
    BY <2>1 DEF LoopRuns
  <2> QED
    BY <1>1, <2>1, ConcatEmpty
<1>4. CASE HandleConnected
  <2>1. h.kind = "connected" /\ UNCHANGED <<peerVars, gateVars>> /\ up' = Append(up, Report("connected"))
    BY <1>4 DEF HandleConnected
  <2>2. h.ch \notin Wires /\ ready' = r
    BY <1>1, <1>3, <2>1 DEF Things, WireFrames, FrameKinds, WireNotes, Wires
  <2>3. \A m : Carries(ready', c, m) <=> Carries(ready, c, m)
    BY <1>2, <2>2
  <2>4. Rising(ready', c) /\ Rising(ready, c)
    BY <1>0, <1>2, <2>2 DEF InLine
  <2>5. /\ \A m : Carries(Gated', c, m) <=> Carries(Gated, c, m)
        /\ Rising(Gated', c) <=> Rising(Gated, c)
    <3> DEFINE x == Report("connected")
    <3>1. x \in Things /\ x.ch \notin Wires /\ up' = Append(up, x) /\ UNCHANGED <<tasks, draining, backlog>>
      BY <2>1, NoteIs DEF NoteKinds, gateVars
    <3> HIDE DEF x
    <3> QED
      BY <1>0, <3>1, NoteKeepsGate
  <2>6. UNCHANGED <<early, sunk, overflow, inSink>>
    BY <2>1 DEF peerVars
  <2>7. /\ \A m : Carries(Gated, c, m)' <=> Carries(Gated, c, m)
        /\ Rising(Gated, c)' <=> Rising(Gated, c)
        /\ \A m : Carries(ready, c, m)' <=> Carries(ready, c, m)
        /\ Rising(ready, c)' <=> Rising(ready, c)
    BY <2>3, <2>4, <2>5 DEF Carries, Rising
  <2> QED
    BY <1>0, <2>6, <2>7, SameLine
<1>5. CASE HandleMessage
  <2>1. UNCHANGED <<peerVars, connVars>> /\ GateSubmit(h) /\ h.ch \in Wires
    BY <1>5 DEF HandleMessage
  <2>2. h \in WireFrames /\ ready' = r
    BY <1>1, <1>3, <2>1 DEF Things, WireNotes, Wires, WireFrames, FrameKinds
  <2>3. Gated' = Gated \o <<h>> /\ Gated \in Seq(Things)
    BY <1>0, <2>1, <2>2, GateSubmitIs, GatedIs
  <2> HIDE DEF h, r
  <2>4. \A m : Carries(Gated', c, m) <=> Carries(Gated, c, m) \/ Carries(<<h>>, c, m)
    BY <1>1, <2>3, ConcatCarries
  <2>5. Rising(Gated', c)
    <3>1. Precedes(Gated, <<h>>, c) /\ Rising(<<h>>, c)
      BY <1>0, <1>1, <1>2, OneIs DEF Precedes, InLine
    <3> QED
      BY <1>0, <1>1, <2>3, <3>1, ConcatRising DEF InLine
  <2>6. UNCHANGED <<early, sunk, overflow, inSink>>
    BY <2>1 DEF peerVars
  <2>7. /\ Precedes(Gated', ready', c) /\ Precedes(Gated', early', c) /\ Precedes(Gated', inSink'[c], c)
        /\ Precedes(ready', early', c) /\ Precedes(ready', inSink'[c], c) /\ Precedes(early', inSink'[c], c)
    BY <1>0, <1>2, <2>2, <2>4, <2>6 DEF Precedes, InLine
  <2>8. \A m \in Nat : Carries(Gated', c, m) \/ Carries(ready', c, m) \/ Carries(early', c, m) \/ Carries(inSink'[c], c, m)
                      <=> Kept(c, m)'
    <3>1. \A m : Kept(c, m)' <=> Kept(c, m)
      BY <2>6 DEF Kept
    <3> QED
      BY <1>0, <1>2, <2>2, <2>4, <2>6, <3>1 DEF InLine
  <2>9. Rising(ready', c) /\ Rising(early', c)
    BY <1>0, <1>2, <2>2, <2>6 DEF InLine
  <2> QED
    BY <2>5, <2>7, <2>8, <2>9 DEF InLine, Rising, Precedes, Carries
<1>6. CASE PeerReportsLoss
  BY <1>6 DEF PeerReportsLoss
<1>7. CASE HandleDisconnect
  BY <1>7 DEF HandleDisconnect, ReportLoss
<1> QED
  BY <1>4, <1>5, <1>6, <1>7 DEF LoopRuns

LEMMA GateDrainKeepsLine ==
  ASSUME WireBase, LineInv, alive, ~stopped, NEW t \in 1 .. Len(tasks),
         DrainBegins(t) \/ DrainUnwinds(t) \/ \E opened, decoded \in BOOLEAN : DecodeReturns(t, opened, decoded),
         NEW c \in Wires
  PROVE  InLine(c)'
<1>0. InLine(c) /\ WireTypeOK /\ TasksHold /\ GateInv /\ t # 0
  BY DEF LineInv, WireBase, WireTypeOK
<1>1. tasks[t].at # "ended" => t = draining /\ tasks[t].at \in {"due", "decoding"}
  BY <1>0 DEF GateInv
<1>2. UNCHANGED <<peerVars, ready>>
  BY DEF DrainBegins, DrainUnwinds, DecodeReturns
<1>3. up \in Seq(Things) /\ backlog \in Seq(Things)
  BY <1>0, GatedIs
<1>4. /\ \A m : Carries(Gated', c, m) <=> Carries(Gated, c, m)
      /\ Rising(Gated', c) <=> Rising(Gated, c)
  <2>1. CASE DrainBegins(t)
    <3>1. t = draining /\ tasks[t].frame = <<>> /\ Drains(t, <<>>, decoder, backlog)
      BY <1>0, <1>1, <2>1 DEF DrainBegins, TasksHold
    <3>2. Decoding = <<>>
      BY <1>0, <3>1 DEF Decoding
    <3>3. Gated' = (up \o <<>>) \o backlog
      BY <1>0, <3>1, DrainsIs, EmptyIs
    <3> QED
      BY <3>2, <3>3 DEF Gated
  <2>2. ASSUME NEW opened, NEW decoded, DecodeReturns(t, opened, decoded)
        PROVE  /\ \A m : Carries(Gated', c, m) <=> Carries(Gated, c, m)
               /\ Rising(Gated', c) <=> Rising(Gated, c)
    <3>1. PICK f \in WireFrames, g \in WireFrames :
           /\ tasks[t].frame = <<f>> /\ g.ch = f.ch /\ g.n = f.n
           /\ Drains(t, <<g>>, decoder \/ opened, backlog)
      BY <1>0, <2>2, DecodeIs
    <3>2. t = draining
      BY <1>1, <2>2 DEF DecodeReturns
    <3>3. Decoding = <<f>>
      BY <1>0, <3>1, <3>2 DEF Decoding
    <3>4. <<g>> \in Seq(WireFrames) /\ f \in Things /\ g \in Things
      BY DEF Things
    <3>5. Gated' = (up \o <<g>>) \o backlog
      BY <1>0, <3>1, <3>2, <3>4, DrainsIs
    <3>6. /\ <<f>> \in Seq(Things) /\ <<g>> \in Seq(Things)
          /\ \A m : Carries(<<g>>, c, m) <=> Carries(<<f>>, c, m)
          /\ Rising(<<g>>, c) <=> Rising(<<f>>, c)
      BY <3>1, <3>4, OneIs
    <3>7. /\ \A m : Carries((up \o <<g>>) \o backlog, c, m) <=> Carries((up \o <<f>>) \o backlog, c, m)
          /\ Rising((up \o <<g>>) \o backlog, c) <=> Rising((up \o <<f>>) \o backlog, c)
      BY <1>3, <3>6, MiddleIs
    <3> QED
      BY <3>3, <3>5, <3>7 DEF Gated
  <2>3. ~DrainUnwinds(t)
    BY <1>1 DEF DrainUnwinds
  <2> QED
    BY <2>1, <2>2, <2>3
<1>5. /\ \A m : Carries(Gated, c, m)' <=> Carries(Gated, c, m)
      /\ Rising(Gated, c)' <=> Rising(Gated, c)
      /\ \A m : Carries(ready, c, m)' <=> Carries(ready, c, m)
      /\ Rising(ready, c)' <=> Rising(ready, c)
  BY <1>2, <1>4 DEF Carries, Rising
<1> QED
  BY <1>0, <1>2, <1>5, SameLine DEF peerVars

\* Each step of the wire keeps its frames in line.
LEMMA LineStarts == WireInit => LineInv
<1> SUFFICES ASSUME WireInit, NEW c \in Wires PROVE InLine(c)
  BY DEF LineInv
<1>1. up = <<>> /\ backlog = <<>> /\ ready = <<>> /\ early = <<>> /\ inSink[c] = <<>> /\ sunk[c] = 0 /\ draining = 0
  BY DEF WireInit
<1>2. Gated = <<>>
  <2>1. Gated = (<<>> \o <<>>) \o <<>>
    BY <1>1 DEF Gated, Decoding
  <2> QED
    BY <2>1, EmptyIs, ConcatEmpty
<1>3. Rising(<<>>, c) /\ \A m : ~Carries(<<>>, c, m)
  BY EmptyIs
<1>4. \A m \in Nat : ~Kept(c, m)
  BY <1>1 DEF Kept
<1> QED
  BY <1>1, <1>2, <1>3, <1>4 DEF InLine, Precedes

\* The line stays while nothing of it moves.
LEMMA LineRests ==
  ASSUME NEW c \in Wires, InLine(c),
         UNCHANGED <<up, tasks, draining, backlog, ready, early, inSink, sunk, overflow>>
  PROVE  InLine(c)'
<1>1. Gated' = Gated
  BY GatedRests
<1>2. /\ \A m : Carries(Gated, c, m)' <=> Carries(Gated, c, m)
      /\ Rising(Gated, c)' <=> Rising(Gated, c)
      /\ \A m : Carries(ready, c, m)' <=> Carries(ready, c, m)
      /\ Rising(ready, c)' <=> Rising(ready, c)
  BY <1>1 DEF Carries, Rising
<1> QED
  BY <1>2, SameLine

LEMMA LineKeeps ==
  ASSUME WireBase, LineInv, WireNext
  PROVE  LineInv'
<1> SUFFICES ASSUME alive', ~stopped', NEW c \in Wires PROVE InLine(c)'
  BY DEF LineInv
<1>0. WireTypeOK /\ HoldInv /\ DOMAIN tasks = 1 .. Len(tasks)
  BY DEF WireBase, WireTypeOK
<1>2. CASE PeerConnects
  <2>1. /\ FireConnectedIfReady(TRUE, open)
        /\ UNCHANGED <<inSink, sunk, overflow, up, tasks, draining, backlog, alive, stopped>>
    BY <1>2 DEF PeerConnects, connVars, gateVars
  <2> QED
    BY <2>1, FireKeepsLine
<1>3. CASE PeerIsLost
  <2> DEFINE x == Callback("loss")
  <2>1. /\ ready' = Append(ready, x) /\ alive /\ ~stopped
        /\ UNCHANGED <<up, tasks, draining, backlog, early, inSink, sunk, overflow>>
    BY <1>3 DEF PeerIsLost, connVars, gateVars, peerVars
  <2>2. x \in Things /\ x.ch \notin Wires /\ <<x>> \in Seq(Things) /\ ready \in Seq(Things)
    BY <1>0, NoteIs, OneIs DEF NoteKinds, WireTypeOK
  <2> HIDE DEF x
  <2>3. ready' = ready \o <<x>>
    BY <2>1, <2>2, AppendIs
  <2>4. \A m : ~Carries(<<x>>, c, m)
    BY <2>2, OneIs
  <2>5. Rising(<<x>>, c) /\ Precedes(ready, <<x>>, c)
    BY <2>2, <2>4, OneIs DEF Precedes
  <2>6. /\ \A m : Carries(ready \o <<x>>, c, m) <=> Carries(ready, c, m)
        /\ Rising(ready \o <<x>>, c) <=> Rising(ready, c)
    BY <2>2, <2>4, <2>5, ConcatCarries, ConcatRising
  <2>7. Gated' = Gated
    BY <2>1, GatedRests
  <2>8. /\ \A m : Carries(Gated, c, m)' <=> Carries(Gated, c, m)
        /\ Rising(Gated, c)' <=> Rising(Gated, c)
    BY <2>7 DEF Carries, Rising
  <2>9. /\ \A m : Carries(ready, c, m)' <=> Carries(ready, c, m)
        /\ Rising(ready, c)' <=> Rising(ready, c)
    BY <2>3, <2>6 DEF Carries, Rising
  <2> QED
    BY <2>1, <2>8, <2>9, SameLine DEF LineInv
<1>4. ASSUME NEW d \in Wires, ChannelMoves(d) PROVE InLine(c)'
  BY <1>4, LineRests DEF LineInv, ChannelMoves, connVars, gateVars
<1>5. ASSUME NEW d \in Wires, SetChannelOpen(d) PROVE InLine(c)'
  <2>1. /\ FireConnectedIfReady(pcUp, open')
        /\ UNCHANGED <<inSink, sunk, overflow, up, tasks, draining, backlog, alive, stopped>>
    BY <1>5 DEF SetChannelOpen, connVars, gateVars
  <2> QED
    BY <2>1, FireKeepsLine
<1>6. ASSUME NEW d \in Wires, FrameLocks(d) PROVE InLine(c)'
  <2>1. UNCHANGED <<alive, stopped>>
    BY <1>6 DEF FrameLocks, connVars
  <2> QED
    BY <1>6, <2>1, LockKeepsLine
<1>7. ASSUME NEW d \in Wires, NEW kind \in {"plain", "step", "unpublish"}, FrameArrives(d, kind) PROVE InLine(c)'
  <2>1. UNCHANGED alive
    BY <1>7 DEF FrameArrives, connVars
  <2> QED
    BY <1>7, <2>1, ArriveKeepsLine
<1>8. CASE LoopRuns
  <2>1. (alive' => alive) /\ (stopped => stopped')
    <3>0. CASE HandleConnected
      BY <3>0 DEF HandleConnected, peerVars
    <3>1. CASE HandleMessage
      BY <3>1 DEF HandleMessage, connVars, peerVars
    <3>2. CASE PeerReportsLoss
      BY <3>2 DEF PeerReportsLoss, connVars
    <3>3. CASE HandleDisconnect
      BY <3>3 DEF HandleDisconnect, ReportLoss, peerVars
    <3> QED
      BY <1>8, <3>0, <3>1, <3>2, <3>3 DEF LoopRuns
  <2> QED
    BY <1>8, <2>1, LoopKeepsLine
<1>9. CASE CloseWire \/ WatchdogReports \/ TeardownStops
  BY <1>9 DEF CloseWire, WatchdogReports, ReportLoss, TeardownStops
<1>10. CASE CloseReturns
  <2>1. /\ up' = Append(up, Report("closed"))
        /\ UNCHANGED <<tasks, draining, backlog, ready, early, inSink, sunk, overflow, alive, stopped>>
    BY <1>10 DEF CloseReturns, peerVars, gateVars
  <2> DEFINE x == Report("closed")
  <2>2. x \in Things /\ x.ch \notin Wires /\ up \in Seq(Things) /\ up' = Append(up, x)
    BY <1>0, <2>1, NoteIs DEF NoteKinds, WireTypeOK
  <2> HIDE DEF x
  <2>3. /\ \A m : Carries(Gated', c, m) <=> Carries(Gated, c, m)
        /\ Rising(Gated', c) <=> Rising(Gated, c)
    BY <1>0, <2>1, <2>2, NoteKeepsGate
  <2>4. /\ \A m : Carries(Gated, c, m)' <=> Carries(Gated, c, m)
        /\ Rising(Gated, c)' <=> Rising(Gated, c)
        /\ \A m : Carries(ready, c, m)' <=> Carries(ready, c, m)
        /\ Rising(ready, c)' <=> Rising(ready, c)
    BY <2>1, <2>3 DEF Carries, Rising
  <2> QED
    BY <2>1, <2>4, SameLine DEF LineInv
<1>11. CASE WatchdogFires
  BY <1>11, LineRests DEF LineInv, WatchdogFires, peerVars, gateVars
<1>12. CASE TeardownReleases
  BY <1>0, <1>12 DEF TeardownReleases, HoldInv
<1>13. ASSUME NEW t \in DOMAIN tasks,
              DrainBegins(t) \/ DrainUnwinds(t) \/ \E opened, decoded \in BOOLEAN : DecodeReturns(t, opened, decoded)
       PROVE  InLine(c)'
  <2>1. UNCHANGED <<alive, stopped>>
    BY <1>13 DEF DrainBegins, DrainUnwinds, DecodeReturns, connVars, peerVars
  <2> QED
    BY <1>0, <1>13, <2>1, GateDrainKeepsLine
<1> QED
  BY <1>2, <1>3, <1>4, <1>5, <1>6, <1>7, <1>8, <1>9, <1>10, <1>11, <1>12, <1>13 DEF WireNext

LEMMA BaseKeeps ==
  ASSUME WireBase, WireNext
  PROVE  WireBase'
<1>1. DOMAIN tasks = 1 .. Len(tasks)
  BY DEF WireBase, WireTypeOK
<1>2. CASE \/ PeerConnects \/ PeerIsLost
           \/ \E c \in Wires : ChannelMoves(c) \/ SetChannelOpen(c)
  BY <1>2, PeerBase
<1>3. CASE \/ \E c \in Wires : FrameLocks(c)
           \/ \E c \in Wires, kind \in {"plain", "step", "unpublish"} : FrameArrives(c, kind)
  BY <1>3, SinkBase
<1>4. CASE LoopRuns
  BY <1>4, LoopBase
<1>5. CASE CloseWire \/ CloseReturns \/ WatchdogFires \/ WatchdogReports \/ TeardownStops \/ TeardownReleases
  BY <1>5, CloseBase
<1>6. CASE \/ \E t \in DOMAIN tasks : DrainBegins(t) \/ DrainUnwinds(t)
           \/ \E t \in DOMAIN tasks, opened, decoded \in BOOLEAN : DecodeReturns(t, opened, decoded)
  BY <1>1, <1>6, DrainBase
<1> QED
  BY <1>2, <1>3, <1>4, <1>5, <1>6 DEF WireNext

\* The frames of one channel, in line, are what went up and what is on its way.
LEMMA LineIsOrdered ==
  ASSUME WireBase, LineInv
  PROVE  FramesGoUpInOrder
<1> SUFFICES ASSUME alive, ~stopped, NEW c \in Wires
    PROVE  /\ \A i, j \in {k \in DOMAIN Pipeline(c) : Pipeline(c)[k].ch = c} : i < j => Pipeline(c)[i].n < Pipeline(c)[j].n
           /\ {Pipeline(c)[i].n : i \in {k \in DOMAIN Pipeline(c) : Pipeline(c)[k].ch = c}}
                = {n \in 1 .. sunk[c] : \A f \in overflow : f.ch = c => f.n # n}
  BY DEF FramesGoUpInOrder
<1> DEFINE line == Pipeline(c)
           g == Gated
           s == inSink[c]
<1>0. /\ InLine(c) /\ g \in Seq(Things) /\ ready \in Seq(Things) /\ early \in Seq(Things) /\ s \in Seq(Things)
      /\ sunk[c] \in Nat
  <2>1. InLine(c) /\ g \in Seq(Things)
    BY GatedIs DEF LineInv, WireBase
  <2>2. ready \in Seq(Things) /\ early \in Seq(WireFrames) /\ s \in Seq(WireFrames) /\ sunk[c] \in Nat
    BY DEF WireBase, WireTypeOK
  <2> QED
    BY <2>1, <2>2, FramesAreThings
<1>1. line = ((g \o ready) \o early) \o s
  BY DEF Pipeline, Gated
<1>2. Rising(s, c)
  <2>1. s = <<>> \/ \E f \in WireFrames : s = <<f>>
    BY DEF WireBase, HoldInv
  <2> QED
    BY <2>1, EmptyIs, OneIs DEF Things
<1>3. /\ Rising(g, c) /\ Rising(ready, c) /\ Rising(early, c)
      /\ Precedes(g, ready, c) /\ Precedes(g, early, c) /\ Precedes(g, s, c)
      /\ Precedes(ready, early, c) /\ Precedes(ready, s, c) /\ Precedes(early, s, c)
      /\ \A m \in Nat : Carries(g, c, m) \/ Carries(ready, c, m) \/ Carries(early, c, m) \/ Carries(s, c, m) <=> Kept(c, m)
  BY <1>0 DEF InLine
<1> HIDE DEF g, s, line
<1> DEFINE gr == g \o ready
           gre == gr \o early
<1>4. /\ gr \in Seq(Things) /\ Rising(gr, c) /\ \A m : Carries(gr, c, m) <=> Carries(g, c, m) \/ Carries(ready, c, m)
  BY <1>0, <1>3, ConcatIs, ConcatRising, ConcatCarries
<1> HIDE DEF gr
<1>5. Precedes(gr, early, c) /\ Precedes(gr, s, c)
  BY <1>3, <1>4 DEF Precedes
<1>6. /\ gre \in Seq(Things) /\ Rising(gre, c) /\ \A m : Carries(gre, c, m) <=> Carries(gr, c, m) \/ Carries(early, c, m)
  BY <1>0, <1>3, <1>4, <1>5, ConcatIs, ConcatRising, ConcatCarries
<1>7. line = gre \o s
  BY <1>1 DEF gr
<1> HIDE DEF gre
<1>8. Precedes(gre, s, c)
  BY <1>3, <1>5, <1>6 DEF Precedes
<1>9. /\ line \in Seq(Things) /\ Rising(line, c) /\ \A m : Carries(line, c, m) <=> Carries(gre, c, m) \/ Carries(s, c, m)
  BY <1>0, <1>2, <1>6, <1>7, <1>8, ConcatIs, ConcatRising, ConcatCarries
<1>10. \A m \in Nat : Carries(line, c, m) <=> Kept(c, m)
  BY <1>3, <1>4, <1>6, <1>9
<1> DEFINE mine == {k \in DOMAIN line : line[k].ch = c}
<1>11. DOMAIN line = 1 .. Len(line) /\ \A k \in 1 .. Len(line) : line[k] \in Things /\ line[k].n \in Nat
  <2>1. DOMAIN line = 1 .. Len(line) /\ \A k \in 1 .. Len(line) : line[k] \in Things
    BY <1>9
  <2> QED
    BY <2>1, ThingIs
<1>12. \A i, j \in mine : i < j => line[i].n < line[j].n
  BY <1>9, <1>11 DEF Rising
<1>13. {line[i].n : i \in mine} = {n \in 1 .. sunk[c] : \A f \in overflow : f.ch = c => f.n # n}
  <2>1. \A m : m \in {line[i].n : i \in mine} <=> m \in Nat /\ Carries(line, c, m)
    BY <1>11 DEF Carries
  <2>2. \A m : m \in 1 .. sunk[c] => m \in Nat
    BY <1>0
  <2>3. \A m : m \in {n \in 1 .. sunk[c] : \A f \in overflow : f.ch = c => f.n # n} <=> m \in Nat /\ Kept(c, m)
    BY <2>2 DEF Kept
  <2> QED
    BY <1>10, <2>1, <2>3
<1> QED
  BY <1>12, <1>13 DEF line

-------------------------------------------------------------------------------
(* What the owner hears of the wire.                                       *)

Opens == {"connected"}
Ends  == {"lost", "closed"}

\* s has a report of one of the kinds K.
Says(s, K) == \E i \in 1 .. Len(s) : s[i].kind \in K

\* s has at most one.
Once(s, K) == \A i, j \in 1 .. Len(s) : s[i].kind \in K /\ s[j].kind \in K => i = j

\* A frame of s has the opening before it.
Opened(s) == \A i \in 1 .. Len(s) : s[i].ch \in Wires => \E o \in 1 .. Len(s) : o < i /\ s[o].kind \in Opens

\* The opening comes before the end.
EndsLast(s) == \A o, e \in 1 .. Len(s) : s[o].kind \in Opens /\ s[e].kind \in Ends => o < e

LEMMA ConcatSays ==
  ASSUME NEW s \in Seq(Things), NEW t \in Seq(Things), NEW K
  PROVE  Says(s \o t, K) <=> Says(s, K) \/ Says(t, K)
<1>1. ASSUME Says(s \o t, K) PROVE Says(s, K) \/ Says(t, K)
  <2>1. PICK i \in 1 .. Len(s \o t) : (s \o t)[i].kind \in K
    BY <1>1 DEF Says
  <2> QED
    BY <2>1, ConcatPlace DEF Says
<1>2. ASSUME Says(s, K) PROVE Says(s \o t, K)
  <2>1. PICK i \in 1 .. Len(s) : s[i].kind \in K
    BY <1>2 DEF Says
  <2>2. i \in 1 .. Len(s \o t) /\ (s \o t)[i] = s[i]
    BY ConcatIs
  <2> QED
    BY <2>1, <2>2 DEF Says
<1>3. ASSUME Says(t, K) PROVE Says(s \o t, K)
  <2>1. PICK i \in 1 .. Len(t) : t[i].kind \in K
    BY <1>3 DEF Says
  <2>2. Len(s) + i \in 1 .. Len(s \o t) /\ (s \o t)[Len(s) + i] = t[i]
    BY ConcatIs
  <2> QED
    BY <2>1, <2>2 DEF Says
<1> QED
  BY <1>1, <1>2, <1>3

LEMMA ConcatOnce ==
  ASSUME NEW s \in Seq(Things), NEW t \in Seq(Things), NEW K
  PROVE  Once(s \o t, K) <=> Once(s, K) /\ Once(t, K) /\ ~(Says(s, K) /\ Says(t, K))
<1> DEFINE a == Len(s)
<1>0. a \in Nat
  BY ConcatIs
<1>1. ASSUME Once(s, K), Once(t, K), ~(Says(s, K) /\ Says(t, K)),
             NEW i \in 1 .. Len(s \o t), NEW j \in 1 .. Len(s \o t), (s \o t)[i].kind \in K, (s \o t)[j].kind \in K
      PROVE  i = j
  <2>1. CASE i \in 1 .. a /\ (s \o t)[i] = s[i]
    <3>1. Says(s, K)
      BY <1>1, <2>1 DEF Says
    <3>2. j \in 1 .. a /\ (s \o t)[j] = s[j]
      BY <1>1, <3>1, ConcatPlace DEF Says
    <3> QED
      BY <1>1, <2>1, <3>2 DEF Once
  <2>2. CASE i - a \in 1 .. Len(t) /\ (s \o t)[i] = t[i - a]
    <3>1. Says(t, K)
      BY <1>1, <2>2 DEF Says
    <3>2. j - a \in 1 .. Len(t) /\ (s \o t)[j] = t[j - a]
      BY <1>1, <3>1, ConcatPlace DEF Says
    <3>3. i - a = j - a
      BY <1>1, <2>2, <3>2 DEF Once
    <3> QED
      BY <1>0, <3>3
  <2> QED
    BY <2>1, <2>2, ConcatPlace
<1>2. ASSUME Once(s \o t, K) PROVE Once(s, K)
  <2>1. \A i \in 1 .. Len(s) : i \in 1 .. Len(s \o t) /\ (s \o t)[i] = s[i]
    BY ConcatIs
  <2> QED
    BY <1>2, <2>1 DEF Once
<1>3. ASSUME Once(s \o t, K) PROVE Once(t, K)
  <2>1. \A i \in 1 .. Len(t) : a + i \in 1 .. Len(s \o t) /\ (s \o t)[a + i] = t[i]
    BY ConcatIs
  <2>2. ASSUME NEW i \in 1 .. Len(t), NEW j \in 1 .. Len(t), t[i].kind \in K, t[j].kind \in K PROVE i = j
    <3>1. a + i = a + j
      BY <1>3, <2>1, <2>2 DEF Once
    <3> QED
      BY <1>0, <3>1
  <2> QED
    BY <2>2 DEF Once
<1>4. ASSUME Once(s \o t, K), Says(s, K), Says(t, K) PROVE FALSE
  <2>1. PICK i \in 1 .. Len(s) : s[i].kind \in K
    BY <1>4 DEF Says
  <2>2. PICK j \in 1 .. Len(t) : t[j].kind \in K
    BY <1>4 DEF Says
  <2>3. /\ i \in 1 .. Len(s \o t) /\ (s \o t)[i] = s[i]
        /\ a + j \in 1 .. Len(s \o t) /\ (s \o t)[a + j] = t[j] /\ i # a + j
    BY <1>0, ConcatIs
  <2> QED
    BY <1>4, <2>1, <2>2, <2>3 DEF Once
<1> QED
  BY <1>1, <1>2, <1>3, <1>4 DEF Once

LEMMA ConcatOpened ==
  ASSUME NEW s \in Seq(Things), NEW t \in Seq(Things), Opened(s), Says(s, Opens) \/ Opened(t)
  PROVE  Opened(s \o t)
<1> DEFINE a == Len(s)
<1>0. /\ a \in Nat /\ Len(t) \in Nat
      /\ \A i \in 1 .. a : i \in 1 .. Len(s \o t) /\ (s \o t)[i] = s[i]
      /\ \A i \in 1 .. Len(t) : a + i \in 1 .. Len(s \o t) /\ (s \o t)[a + i] = t[i]
  BY ConcatIs
<1> SUFFICES ASSUME NEW i \in 1 .. Len(s \o t), (s \o t)[i].ch \in Wires
             PROVE  \E o \in 1 .. Len(s \o t) : o < i /\ (s \o t)[o].kind \in Opens
  BY DEF Opened
<1>1. CASE i \in 1 .. a /\ (s \o t)[i] = s[i]
  <2>1. PICK o \in 1 .. a : o < i /\ s[o].kind \in Opens
    BY <1>1 DEF Opened
  <2> QED
    BY <1>0, <2>1
<1>2. CASE i - a \in 1 .. Len(t) /\ (s \o t)[i] = t[i - a] /\ i > a
  <2>1. CASE Says(s, Opens)
    <3>1. PICK o \in 1 .. a : s[o].kind \in Opens
      BY <2>1 DEF Says
    <3>2. o < i
      BY <1>0, <1>2
    <3> QED
      BY <1>0, <3>1, <3>2
  <2>2. CASE Opened(t)
    <3>1. PICK o \in 1 .. Len(t) : o < i - a /\ t[o].kind \in Opens
      BY <1>2, <2>2 DEF Opened
    <3>2. a + o < i
      BY <1>0, <1>2, <3>1
    <3> QED
      BY <1>0, <3>1, <3>2
  <2> QED
    BY <2>1, <2>2
<1> QED
  BY <1>1, <1>2, ConcatPlace

LEMMA ConcatEnds ==
  ASSUME NEW s \in Seq(Things), NEW t \in Seq(Things), EndsLast(s),
         ~Says(t, Opens) \/ (~Says(s, Ends) /\ ~Says(t, Ends))
  PROVE  EndsLast(s \o t)
<1> DEFINE a == Len(s)
<1>0. a \in Nat
  BY ConcatIs
<1> SUFFICES ASSUME NEW o \in 1 .. Len(s \o t), NEW e \in 1 .. Len(s \o t),
                    (s \o t)[o].kind \in Opens, (s \o t)[e].kind \in Ends
             PROVE  o < e
  BY DEF EndsLast
<1>1. ~Says(t, Opens)
  <2>1. Says(s \o t, Ends)
    BY DEF Says
  <2> QED
    BY <2>1, ConcatSays
<1>2. o \in 1 .. a /\ (s \o t)[o] = s[o]
  BY <1>1, ConcatPlace DEF Says
<1>3. CASE e \in 1 .. a /\ (s \o t)[e] = s[e]
  BY <1>2, <1>3 DEF EndsLast
<1>4. CASE e > a
  BY <1>0, <1>2, <1>4
<1> QED
  BY <1>3, <1>4, ConcatPlace

LEMMA OneSays ==
  ASSUME NEW x \in Things, NEW K
  PROVE  (Says(<<x>>, K) <=> x.kind \in K) /\ Once(<<x>>, K) /\ (Opened(<<x>>) <=> x.ch \notin Wires)
<1>1. Len(<<x>>) = 1 /\ <<x>>[1] = x
  OBVIOUS
<1> QED
  BY <1>1 DEF Says, Once, Opened

\* Frames are no reports of the wire.
LEMMA FramesSay ==
  ASSUME NEW s \in Seq(WireFrames)
  PROVE  /\ ~Says(s, Opens) /\ ~Says(s, Ends) /\ Once(s, Opens) /\ Once(s, Ends)
<1>1. \A i \in 1 .. Len(s) : s[i] \in WireFrames
  OBVIOUS
<1>2. \A x \in WireFrames : x.kind \in FrameKinds
  BY DEF WireFrames
<1> QED
  BY <1>1, <1>2 DEF Says, Once, Opens, Ends, FrameKinds

\* What has been said of the wire: its opening once, and once it is over, its end.
SaidInv ==
  /\ Once(up, Opens) /\ Once(up, Ends) /\ EndsLast(up)
  /\ (alive => ~Says(up, Ends) /\ ~closing /\ Opened(up))
  /\ (closing => ~Says(up, Ends))

\* What is about to be said: the opening is scheduled or said once, and ahead of
\* every frame on the loop and at the gate.
DueInv ==
  /\ Once(ready, Opens) /\ ~(Says(up, Opens) /\ Says(ready, Opens))
  /\ (Says(up, Opens) \/ Says(ready, Opens) => connected \/ stopped)
  /\ alive =>
       /\ Says(up, Opens) \/ Opened(ready)
       /\ (connected => Says(up, Opens) \/ Says(ready, Opens))
       /\ (draining # 0 => Says(up, Opens))

ReportInv == SaidInv /\ DueInv

LEMMA ReportStarts == WireInit => ReportInv
<1>1. \A K : ~Says(<<>>, K) /\ Once(<<>>, K)
  BY DEF Says, Once
<1>2. Opened(<<>>) /\ EndsLast(<<>>)
  BY DEF Opened, EndsLast
<1> QED
  BY <1>1, <1>2 DEF WireInit, ReportInv, SaidInv, DueInv

\* Nothing new said, nothing new due.
LEMMA SaidRests ==
  ASSUME SaidInv, UNCHANGED up, alive' => alive, closing' => closing \/ alive, alive' => ~closing'
  PROVE  SaidInv'
BY DEF SaidInv

LEMMA DueRests ==
  ASSUME DueInv, UNCHANGED <<up, ready>>, alive' => alive, connected => connected' \/ stopped', stopped => stopped',
         alive' => UNCHANGED draining /\ (connected' => connected)
  PROVE  DueInv'
BY DEF DueInv

\* Frames go up behind the opening.
LEMMA FramesSaid ==
  ASSUME SaidInv, WireTypeOK, NEW fs \in Seq(WireFrames), up' = up \o fs,
         alive => Says(up, Opens), UNCHANGED <<alive, closing>>
  PROVE  SaidInv' /\ (Says(up', Opens) <=> Says(up, Opens))
<1>1. up \in Seq(Things) /\ fs \in Seq(Things)
  BY FramesAreThings DEF WireTypeOK
<1>2. ~Says(fs, Opens) /\ ~Says(fs, Ends) /\ Once(fs, Opens) /\ Once(fs, Ends)
  BY FramesSay
<1>3. Once(up', Opens) /\ Once(up', Ends)
  BY <1>1, <1>2, ConcatOnce DEF SaidInv
<1>4. EndsLast(up')
  BY <1>1, <1>2, ConcatEnds DEF SaidInv
<1>5. (Says(up', Ends) <=> Says(up, Ends)) /\ (Says(up', Opens) <=> Says(up, Opens))
  BY <1>1, <1>2, ConcatSays
<1>6. alive => Opened(up')
  BY <1>1, ConcatOpened DEF SaidInv
<1>7. /\ Once(up, Opens)' /\ Once(up, Ends)' /\ EndsLast(up)' /\ (alive => Opened(up)')
      /\ (Says(up, Ends)' <=> Says(up, Ends))
  BY <1>3, <1>4, <1>5, <1>6 DEF Once, EndsLast, Opened, Says
<1> QED
  BY <1>5, <1>7 DEF SaidInv

\* The end is said once, when the connection is over.
LEMMA EndSaid ==
  ASSUME SaidInv, WireTypeOK, NEW what \in Ends, up' = Append(up, Report(what)), alive \/ closing, ~alive', ~closing'
  PROVE  SaidInv' /\ (Says(up', Opens) <=> Says(up, Opens))
<1> DEFINE x == Report(what)
<1>1. x \in Things /\ x.kind \in Ends /\ x.kind \notin Opens /\ up \in Seq(Things)
  <2>1. what \in NoteKinds
    BY DEF Ends, NoteKinds
  <2> QED
    BY <2>1, NoteIs DEF Ends, Opens, WireTypeOK
<1>2. up' = Append(up, x)
  OBVIOUS
<1> HIDE DEF x
<1>3. up' = up \o <<x>> /\ <<x>> \in Seq(Things)
  BY <1>1, <1>2, AppendIs, OneIs
<1>4. Says(<<x>>, Ends) /\ ~Says(<<x>>, Opens) /\ Once(<<x>>, Ends) /\ Once(<<x>>, Opens)
  BY <1>1, OneSays
<1>5. ~Says(up, Ends)
  BY DEF SaidInv
<1>6. Once(up', Opens) /\ Once(up', Ends)
  <2>1. Once(up, Opens) /\ Once(up, Ends)
    BY DEF SaidInv
  <2>2. Once(up \o <<x>>, Opens) /\ Once(up \o <<x>>, Ends)
    BY <1>1, <1>3, <1>4, <1>5, <2>1, ConcatOnce
  <2> QED
    BY <1>3, <2>2
<1>7. EndsLast(up')
  BY <1>1, <1>3, <1>4, ConcatEnds DEF SaidInv
<1>8. Says(up', Opens) <=> Says(up, Opens)
  <2>1. Says(up \o <<x>>, Opens) <=> Says(up, Opens)
    BY <1>1, <1>3, <1>4, ConcatSays
  <2> QED
    BY <1>3, <2>1
<1>9. Once(up, Opens)' /\ Once(up, Ends)' /\ EndsLast(up)'
  BY <1>6, <1>7 DEF Once, EndsLast
<1> QED
  BY <1>8, <1>9 DEF SaidInv

\* With the connection over, nothing is due of it but that it opens once.
LEMMA OverDue ==
  ASSUME DueInv, ~alive', Once(ready', Opens), Says(ready', Opens) => Says(ready, Opens),
         Says(up', Opens) <=> Says(up, Opens),
         connected => connected' \/ stopped', stopped => stopped'
  PROVE  DueInv'
<1>1. /\ Says(up, Opens)' <=> Says(up, Opens)
      /\ Says(ready, Opens)' => Says(ready, Opens)
      /\ Once(ready, Opens)'
  BY DEF Says, Once
<1> QED
  BY <1>1 DEF DueInv

\* The connected callback is scheduled once, ahead of the frames held so far.
LEMMA FireReports ==
  ASSUME WireTypeOK, ReportInv, NEW a, NEW b, FireConnectedIfReady(a, b),
         UNCHANGED <<up, draining, alive, closing, stopped>>
  PROVE  ReportInv'
<1>0. SaidInv /\ DueInv
  BY DEF ReportInv
<1>1. SaidInv'
  BY <1>0, SaidRests DEF SaidInv
<1>2. CASE UNCHANGED <<connected, early, ready>>
  <2>1. DueInv'
    BY <1>0, <1>2, DueRests
  <2> QED
    BY <1>1, <2>1 DEF ReportInv
<1>3. CASE /\ ~stopped /\ ~connected /\ connected' = TRUE
           /\ ready' = (ready \o <<Callback("connected")>>) \o early
  <2> DEFINE x == Callback("connected")
             r == ready \o <<x>>
  <2>1. /\ x \in Things /\ x.kind \in Opens /\ x.ch \notin Wires /\ <<x>> \in Seq(Things) /\ ready \in Seq(Things)
        /\ early \in Seq(Things) /\ early \in Seq(WireFrames)
    BY NoteIs, OneIs, FramesAreThings DEF NoteKinds, Opens, WireTypeOK
  <2>2. ready' = r \o early /\ ~Says(up, Opens) /\ ~Says(ready, Opens) /\ Once(ready, Opens)
    BY <1>0, <1>3 DEF DueInv
  <2> HIDE DEF x
  <2>3. Says(<<x>>, Opens) /\ Once(<<x>>, Opens) /\ Opened(<<x>>)
    BY <2>1, OneSays
  <2>4. r \in Seq(Things) /\ Says(r, Opens) /\ Once(r, Opens)
    BY <2>1, <2>2, <2>3, ConcatIs, ConcatSays, ConcatOnce
  <2>5. alive => Opened(r)
    BY <1>0, <2>1, <2>2, <2>3, ConcatOpened DEF DueInv
  <2> HIDE DEF r
  <2>6. ~Says(early, Opens) /\ Once(early, Opens)
    BY <2>1, FramesSay
  <2>7. Says(ready', Opens) /\ Once(ready', Opens)
    BY <2>1, <2>2, <2>4, <2>6, ConcatSays, ConcatOnce
  <2>8. alive => Opened(ready')
    BY <2>1, <2>2, <2>4, <2>5, ConcatOpened
  <2>9. /\ Says(ready, Opens)' /\ Once(ready, Opens)' /\ (alive => Opened(ready)')
        /\ ~Says(up, Opens)'
    BY <2>2, <2>7, <2>8 DEF Says, Once, Opened
  <2>10. DueInv'
    BY <1>0, <1>3, <2>2, <2>9 DEF DueInv
  <2> QED
    BY <1>1, <2>10 DEF ReportInv
<1> QED
  BY <1>2, <1>3, FireIs

\* More for the loop: a note, or a frame of a wire that has connected.
LEMMA MoreDue ==
  ASSUME WireTypeOK, ReportInv, NEW x \in Things, x.kind \notin Opens, ready' = ready \o <<x>>,
         x.ch \notin Wires \/ connected, UNCHANGED <<up, draining, alive, closing, stopped, connected>>
  PROVE  ReportInv'
<1>0. SaidInv /\ DueInv
  BY DEF ReportInv
<1>1. SaidInv'
  BY <1>0, SaidRests DEF SaidInv
<1>2. ready \in Seq(Things) /\ <<x>> \in Seq(Things)
  BY OneIs DEF WireTypeOK
<1>3. ~Says(<<x>>, Opens) /\ Once(<<x>>, Opens) /\ (x.ch \notin Wires => Opened(<<x>>))
  BY OneSays
<1>4. (Says(ready', Opens) <=> Says(ready, Opens)) /\ Once(ready', Opens)
  BY <1>0, <1>2, <1>3, ConcatSays, ConcatOnce DEF DueInv
<1>5. alive => Says(up, Opens) \/ Opened(ready')
  <2>1. ASSUME alive, ~Says(up, Opens) PROVE Opened(ready')
    <3>1. Opened(ready) /\ (Says(ready, Opens) \/ Opened(<<x>>))
      BY <1>0, <1>3, <2>1 DEF DueInv
    <3> QED
      BY <1>2, <3>1, ConcatOpened
  <2> QED
    BY <2>1
<1>6. /\ Says(ready, Opens)' <=> Says(ready, Opens)
      /\ Once(ready, Opens)' /\ (Opened(ready)' <=> Opened(ready'))
      /\ Says(up, Opens)' <=> Says(up, Opens)
  BY <1>4 DEF Says, Once, Opened
<1>7. DueInv'
  BY <1>0, <1>5, <1>6 DEF DueInv
<1> QED
  BY <1>1, <1>7 DEF ReportInv

LEMMA LossReports ==
  ASSUME WireTypeOK, SaidInv, ReportLoss, UNCHANGED closing
  PROVE  SaidInv' /\ ~alive' /\ (Says(up', Opens) <=> Says(up, Opens))
<1>1. CASE alive
  <2>1. ~alive' /\ ~closing' /\ up' = Append(up, Report("lost")) /\ "lost" \in Ends
    BY <1>1 DEF ReportLoss, SaidInv, Ends
  <2> QED
    BY <1>1, <2>1, EndSaid
<1>2. CASE ~alive
  <2>1. ~alive' /\ up' = up
    BY <1>2 DEF ReportLoss
  <2> QED
    BY <2>1, SaidRests
<1> QED
  BY <1>1, <1>2

LEMMA FirstOpened ==
  ASSUME NEW h \in Things, NEW r \in Seq(Things), Opened(<<h>> \o r), h.kind \notin Opens
  PROVE  h.ch \notin Wires /\ Opened(r)
<1> DEFINE s == <<h>> \o r
<1>1. /\ <<h>> \in Seq(Things) /\ Len(<<h>>) = 1 /\ <<h>>[1] = h /\ Len(r) \in Nat
  OBVIOUS
<1>2. /\ Len(s) = 1 + Len(r) /\ s[1] = h /\ \A i \in 1 .. Len(r) : s[1 + i] = r[i]
  BY <1>1, ConcatIs
<1>3. Opened(s)
  OBVIOUS
<1> HIDE DEF s
<1>4. h.ch \notin Wires
  <2>1. 1 \in 1 .. Len(s) /\ \A o \in 1 .. Len(s) : ~(o < 1)
    BY <1>1, <1>2
  <2> QED
    BY <1>2, <1>3, <2>1 DEF Opened
<1>5. ASSUME NEW i \in 1 .. Len(r), r[i].ch \in Wires PROVE \E o \in 1 .. Len(r) : o < i /\ r[o].kind \in Opens
  <2>1. 1 + i \in 1 .. Len(s) /\ s[1 + i].ch \in Wires
    BY <1>1, <1>2, <1>5
  <2>2. PICK o \in 1 .. Len(s) : o < 1 + i /\ s[o].kind \in Opens
    BY <1>3, <2>1 DEF Opened
  <2>3. o # 1
    BY <1>2, <2>2
  <2> DEFINE k == o - 1
  <2>4. k \in 1 .. Len(r) /\ 1 + k = o /\ k < i
    BY <1>1, <1>2, <2>2, <2>3
  <2> HIDE DEF k
  <2>5. r[k].kind \in Opens
    BY <1>2, <2>2, <2>4
  <2> QED
    BY <2>4, <2>5
<1> QED
  BY <1>4, <1>5 DEF Opened

\* What the loop has left once it took its first callback h.
LEMMA LoopLeaves ==
  ASSUME WireTypeOK, LoopRuns, Once(ready, Opens)
  PROVE  /\ Head(ready) \in Things /\ Once(ready', Opens)
         /\ (Says(ready, Opens) <=> Head(ready).kind \in Opens \/ Says(ready', Opens))
         /\ ~(Head(ready).kind \in Opens /\ Says(ready', Opens))
         /\ (Opened(ready) /\ Head(ready).kind \notin Opens => Head(ready).ch \notin Wires /\ Opened(ready'))
<1> DEFINE h == Head(ready)
           r == Tail(ready)
           x == Callback("disconnect")
<1>0. ready \in Seq(Things) /\ ready # <<>>
  BY DEF LoopRuns, WireTypeOK
<1>1. h \in Things /\ r \in Seq(Things) /\ ready = <<h>> \o r /\ <<h>> \in Seq(Things)
  BY <1>0, HeadTail, OneIs
<1>2. x \in Things /\ x.kind \notin Opens /\ x.ch \notin Wires /\ <<x>> \in Seq(Things)
  BY NoteIs, OneIs DEF NoteKinds, Opens
<1>3. ready' = r \o <<x>> \/ ready' = r \o <<>>
  BY DEF LoopRuns
<1> HIDE DEF h, r, x
<1>4. ready' = r \o <<x>> \/ ready' = r
  BY <1>1, <1>3, ConcatEmpty
<1>5. ~Says(<<x>>, Opens) /\ Once(<<x>>, Opens) /\ Opened(<<x>>)
  BY <1>2, OneSays
<1>6. /\ Says(r \o <<x>>, Opens) <=> Says(r, Opens)
      /\ Once(r \o <<x>>, Opens) <=> Once(r, Opens)
      /\ Opened(r) => Opened(r \o <<x>>)
  BY <1>1, <1>2, <1>5, ConcatSays, ConcatOnce, ConcatOpened
<1>7. /\ Says(ready', Opens) <=> Says(r, Opens)
      /\ Once(ready', Opens) <=> Once(r, Opens)
      /\ Opened(r) => Opened(ready')
  BY <1>4, <1>6
<1>8. Once(<<h>> \o r, Opens)
  BY <1>1
<1>9. Once(r, Opens) /\ ~(Says(<<h>>, Opens) /\ Says(r, Opens))
  BY <1>1, <1>8, ConcatOnce
<1>10. Says(<<h>> \o r, Opens) <=> Says(<<h>>, Opens) \/ Says(r, Opens)
  BY <1>1, ConcatSays
<1>11. Says(<<h>>, Opens) <=> h.kind \in Opens
  BY <1>1, OneSays
<1>12. Opened(ready) /\ h.kind \notin Opens => h.ch \notin Wires /\ Opened(r)
  BY <1>1, FirstOpened
<1> QED
  BY <1>1, <1>7, <1>9, <1>10, <1>11, <1>12 DEF h

LEMMA LoopReports ==
  ASSUME WireTypeOK, TasksHold, ReportInv, LoopRuns
  PROVE  ReportInv'
<1> DEFINE h == Head(ready)
<1>0. SaidInv /\ DueInv /\ Once(ready, Opens) /\ up \in Seq(Things)
  BY DEF ReportInv, DueInv, WireTypeOK
<1>1. /\ h \in Things /\ Once(ready', Opens)
      /\ (Says(ready, Opens) <=> h.kind \in Opens \/ Says(ready', Opens))
      /\ ~(h.kind \in Opens /\ Says(ready', Opens))
      /\ (Opened(ready) /\ h.kind \notin Opens => h.ch \notin Wires /\ Opened(ready'))
  BY <1>0, LoopLeaves
<1> HIDE DEF h
<1>2. /\ Says(ready, Opens)' <=> Says(ready', Opens)
      /\ Once(ready, Opens)' <=> Once(ready', Opens)
      /\ Opened(ready)' <=> Opened(ready')
      /\ Says(up, Opens)' <=> Says(up', Opens)
  BY DEF Says, Once, Opened
<1>3. CASE HandleConnected
  <2>1. h.kind \in Opens /\ UNCHANGED <<connected, stopped, alive, closing, draining>>
    BY <1>3 DEF HandleConnected, Opens, h, peerVars, gateVars
  <2>2. CASE ~alive
    <3>1. up' = up
      BY <1>3, <2>2 DEF HandleConnected
    <3>2. SaidInv'
      BY <1>0, <2>1, <2>2, <3>1, SaidRests
    <3>3. DueInv'
      BY <1>0, <1>1, <2>1, <2>2, <3>1, OverDue
    <3> QED
      BY <3>2, <3>3 DEF ReportInv
  <2>3. CASE alive
    <3> DEFINE x == Report("connected")
    <3>1. up' = Append(up, x) /\ x \in Things /\ x.kind \in Opens /\ x.kind \notin Ends /\ x.ch \notin Wires
      BY <1>3, <2>3, NoteIs DEF HandleConnected, NoteKinds, Opens, Ends
    <3> HIDE DEF x
    <3>2. up' = up \o <<x>> /\ <<x>> \in Seq(Things)
      BY <1>0, <3>1, AppendIs, OneIs
    <3>3. Says(<<x>>, Opens) /\ ~Says(<<x>>, Ends) /\ Once(<<x>>, Opens) /\ Once(<<x>>, Ends) /\ Opened(<<x>>)
      BY <3>1, OneSays
    <3>4. ~Says(up, Opens) /\ ~Says(up, Ends) /\ Once(up, Opens) /\ Once(up, Ends) /\ EndsLast(up) /\ Opened(up) /\ ~closing
      BY <1>0, <1>1, <2>1, <2>3 DEF DueInv, SaidInv
    <3>5. Says(up \o <<x>>, Opens) /\ ~Says(up \o <<x>>, Ends)
      BY <1>0, <3>2, <3>3, <3>4, ConcatSays
    <3>6. Once(up \o <<x>>, Opens) /\ Once(up \o <<x>>, Ends)
      BY <1>0, <3>2, <3>3, <3>4, ConcatOnce
    <3>7. EndsLast(up \o <<x>>) /\ Opened(up \o <<x>>)
      BY <1>0, <3>2, <3>3, <3>4, ConcatEnds, ConcatOpened
    <3>8. /\ Says(up, Opens)' /\ ~Says(up, Ends)' /\ Once(up, Opens)' /\ Once(up, Ends)' /\ EndsLast(up)' /\ Opened(up)'
      BY <3>2, <3>5, <3>6, <3>7 DEF Says, Once, EndsLast, Opened
    <3>9. SaidInv'
      BY <2>1, <3>4, <3>8 DEF SaidInv
    <3>10. DueInv'
      BY <1>0, <1>1, <1>2, <2>1, <3>8 DEF DueInv
    <3> QED
      BY <3>9, <3>10 DEF ReportInv
  <2> QED
    BY <2>2, <2>3
<1>4. CASE HandleMessage
  <2>1. h.ch \in Wires /\ GateSubmit(h) /\ UNCHANGED <<connected, stopped, alive, closing>>
    BY <1>4 DEF HandleMessage, h, peerVars, connVars
  <2>2. h \in WireFrames /\ h.kind \notin Opens
    BY <1>1, <2>1 DEF Things, WireNotes, Wires, WireFrames, FrameKinds, Opens
  <2>3. alive => Says(up, Opens)
    BY <1>0, <1>1, <2>1, <2>2 DEF DueInv
  <2>4. up' = up \/ up' = Append(up, h)
    BY <2>1, <2>2, GateSubmitIs
  <2>5. <<>> \in Seq(WireFrames) /\ <<h>> \in Seq(WireFrames) /\ (up' = up \o <<>> \/ up' = up \o <<h>>)
    BY <1>0, <1>1, <2>2, <2>4, ConcatEmpty, AppendIs, EmptyIs
  <2>6. SaidInv' /\ (Says(up', Opens) <=> Says(up, Opens))
    BY <1>0, <2>1, <2>3, <2>5, FramesSaid
  <2>7. DueInv'
    BY <1>0, <1>1, <1>2, <2>1, <2>2, <2>3, <2>6 DEF DueInv
  <2> QED
    BY <2>6, <2>7 DEF ReportInv
<1>5. CASE PeerReportsLoss
  <2>1. h.kind \notin Opens /\ UNCHANGED <<up, alive, closing, draining>>
    BY <1>5 DEF PeerReportsLoss, h, Opens, connVars, gateVars
  <2>2. (connected => connected' \/ stopped') /\ (stopped => stopped') /\ (connected' => connected)
    BY <1>5 DEF PeerReportsLoss
  <2>3. SaidInv'
    BY <1>0, <2>1, SaidRests DEF SaidInv
  <2>4. DueInv'
    BY <1>0, <1>1, <1>2, <2>1, <2>2 DEF DueInv
  <2> QED
    BY <2>3, <2>4 DEF ReportInv
<1>6. CASE HandleDisconnect
  <2>1. h.kind \notin Opens /\ ReportLoss /\ UNCHANGED <<connected, stopped, closing>>
    BY <1>6 DEF HandleDisconnect, h, Opens, peerVars
  <2>2. SaidInv' /\ ~alive' /\ (Says(up', Opens) <=> Says(up, Opens))
    BY <1>0, <2>1, LossReports
  <2>3. DueInv'
    BY <1>0, <1>1, <2>1, <2>2, OverDue
  <2> QED
    BY <2>2, <2>3 DEF ReportInv
<1> QED
  BY <1>3, <1>4, <1>5, <1>6 DEF LoopRuns

LEMMA DrainReports ==
  ASSUME WireBase, ReportInv, NEW t \in 1 .. Len(tasks),
         DrainBegins(t) \/ DrainUnwinds(t) \/ \E opened, decoded \in BOOLEAN : DecodeReturns(t, opened, decoded)
  PROVE  ReportInv'
<1>0. SaidInv /\ DueInv /\ WireTypeOK /\ TasksHold /\ GateInv /\ t # 0 /\ up \in Seq(Things)
  BY DEF ReportInv, WireBase, WireTypeOK
<1>1. UNCHANGED <<connected, stopped, alive, closing, ready>>
  BY DEF DrainBegins, DrainUnwinds, DecodeReturns, peerVars, connVars
<1>2. ASSUME NEW before \in Seq(WireFrames), NEW has, Drains(t, before, has, backlog), tasks[t].at \in {"due", "decoding"}
      PROVE  ReportInv'
  <2>1. PICK front \in Seq(WireFrames) : up' = (up \o before) \o front
    BY <1>0, <1>2, DrainsIs
  <2>2. draining' = 0 \/ draining' = draining
    BY <1>0, <1>2, DrainsIs
  <2>3. before \in Seq(Things) /\ front \in Seq(Things) /\ before \o front \in Seq(WireFrames)
    BY FramesAreThings
  <2>4. up' = up \o (before \o front)
    BY <1>0, <2>1, <2>3, ConcatAssoc
  <2>5. alive => Says(up, Opens)
    BY <1>0, <1>2 DEF GateInv, DueInv
  <2>6. SaidInv' /\ (Says(up', Opens) <=> Says(up, Opens))
    BY <1>0, <1>1, <2>3, <2>4, <2>5, FramesSaid
  <2>7. /\ Says(up, Opens)' <=> Says(up, Opens)
        /\ Says(ready, Opens)' <=> Says(ready, Opens)
        /\ Once(ready, Opens)' <=> Once(ready, Opens)
        /\ Opened(ready)' <=> Opened(ready)
    BY <1>1, <2>6 DEF Says, Once, Opened
  <2>8. DueInv'
    BY <1>0, <1>1, <2>2, <2>7 DEF DueInv
  <2> QED
    BY <2>6, <2>8 DEF ReportInv
<1>3. CASE DrainBegins(t)
  BY <1>2, <1>3, EmptyIs DEF DrainBegins
<1>4. ASSUME NEW opened, NEW decoded, DecodeReturns(t, opened, decoded) PROVE ReportInv'
  <2>1. PICK f \in WireFrames, g \in WireFrames : Drains(t, <<g>>, decoder \/ opened, backlog)
    BY <1>0, <1>4, DecodeIs
  <2>2. <<g>> \in Seq(WireFrames)
    OBVIOUS
  <2>3. tasks[t].at = "decoding"
    BY <1>4 DEF DecodeReturns
  <2> QED
    BY <1>2, <2>1, <2>2, <2>3
<1>5. CASE DrainUnwinds(t)
  <2>1. up' = up /\ draining' = 0
    BY <1>5 DEF DrainUnwinds
  <2>2. SaidInv'
    BY <1>0, <1>1, <2>1, SaidRests DEF SaidInv
  <2>3. DueInv'
    BY <1>0, <1>1, <2>1 DEF DueInv
  <2> QED
    BY <2>2, <2>3 DEF ReportInv
<1> QED
  BY <1>3, <1>4, <1>5

LEMMA CloseReports ==
  ASSUME WireTypeOK, ReportInv,
         CloseWire \/ CloseReturns \/ WatchdogFires \/ WatchdogReports \/ TeardownStops \/ TeardownReleases
  PROVE  ReportInv'
<1>0. SaidInv /\ DueInv /\ Once(ready, Opens)
  BY DEF ReportInv, DueInv
<1>1. UNCHANGED ready
  BY DEF CloseWire, CloseReturns, WatchdogFires, WatchdogReports, TeardownStops, TeardownReleases
<1>2. CASE CloseWire
  <2>1. alive /\ ~alive' /\ closing' /\ UNCHANGED <<up, connected, stopped>>
    BY <1>2 DEF CloseWire, peerVars
  <2>2. SaidInv'
    BY <1>0, <2>1, SaidRests
  <2>3. DueInv'
    BY <1>0, <1>1, <2>1, OverDue
  <2> QED
    BY <2>2, <2>3 DEF ReportInv
<1>3. CASE CloseReturns
  <2>1. closing /\ ~closing' /\ up' = Append(up, Report("closed")) /\ UNCHANGED <<alive, connected, stopped>>
    BY <1>3 DEF CloseReturns, peerVars
  <2>2. ~alive' /\ "closed" \in Ends
    BY <1>0, <2>1 DEF SaidInv, Ends
  <2>3. SaidInv' /\ (Says(up', Opens) <=> Says(up, Opens))
    BY <1>0, <2>1, <2>2, EndSaid
  <2>4. DueInv'
    BY <1>0, <1>1, <2>1, <2>2, <2>3, OverDue
  <2> QED
    BY <2>3, <2>4 DEF ReportInv
<1>4. CASE WatchdogReports
  <2>1. ReportLoss /\ UNCHANGED <<connected, stopped, closing>>
    BY <1>4 DEF WatchdogReports, peerVars
  <2>2. SaidInv' /\ ~alive' /\ (Says(up', Opens) <=> Says(up, Opens))
    BY <1>0, <2>1, LossReports
  <2>3. DueInv'
    BY <1>0, <1>1, <2>1, <2>2, OverDue
  <2> QED
    BY <2>2, <2>3 DEF ReportInv
<1>5. CASE WatchdogFires \/ TeardownStops \/ TeardownReleases
  <2>1. UNCHANGED <<up, alive, closing, connected, draining>> /\ (stopped => stopped')
    BY <1>5 DEF WatchdogFires, TeardownStops, TeardownReleases, peerVars, gateVars
  <2>2. SaidInv'
    BY <1>0, <2>1, SaidRests DEF SaidInv
  <2>3. DueInv'
    BY <1>0, <1>1, <2>1, DueRests
  <2> QED
    BY <2>2, <2>3 DEF ReportInv
<1> QED
  BY <1>2, <1>3, <1>4, <1>5

LEMMA ReportKeeps ==
  ASSUME WireBase, ReportInv, WireNext
  PROVE  ReportInv'
<1>0. WireTypeOK /\ TasksHold /\ HoldInv /\ SaidInv /\ DueInv /\ DOMAIN tasks = 1 .. Len(tasks)
  BY DEF WireBase, WireTypeOK, ReportInv
<1>1. ASSUME UNCHANGED <<up, ready, alive, closing, connected, stopped, draining>> PROVE ReportInv'
  <2>1. SaidInv'
    BY <1>0, <1>1, SaidRests DEF SaidInv
  <2>2. DueInv'
    BY <1>0, <1>1, DueRests
  <2> QED
    BY <2>1, <2>2 DEF ReportInv
<1>2. CASE PeerConnects
  BY <1>0, <1>2, FireReports DEF PeerConnects, connVars, gateVars
<1>3. CASE PeerIsLost
  <2> DEFINE x == Callback("loss")
  <2>1. x \in Things /\ x.kind \notin Opens /\ x.ch \notin Wires
    BY NoteIs DEF NoteKinds, Opens
  <2>2. ready' = Append(ready, x) /\ UNCHANGED <<up, draining, alive, closing, stopped, connected>>
    BY <1>3 DEF PeerIsLost, peerVars, connVars, gateVars
  <2> HIDE DEF x
  <2>3. ready' = ready \o <<x>>
    BY <1>0, <2>1, <2>2, AppendIs DEF WireTypeOK
  <2> QED
    BY <1>0, <2>1, <2>2, <2>3, MoreDue
<1>4. ASSUME NEW c \in Wires, ChannelMoves(c) PROVE ReportInv'
  BY <1>1, <1>4 DEF ChannelMoves, connVars, gateVars
<1>5. ASSUME NEW c \in Wires, SetChannelOpen(c) PROVE ReportInv'
  BY <1>0, <1>5, FireReports DEF SetChannelOpen, connVars, gateVars
<1>6. ASSUME NEW c \in Wires, FrameLocks(c) PROVE ReportInv'
  <2>1. PICK f \in WireFrames : inSink[c] = <<f>>
    BY <1>0, <1>6 DEF FrameLocks, HoldInv
  <2>2. f \in Things /\ f.kind \notin Opens
    BY DEF Things, WireFrames, FrameKinds, Opens
  <2>3. UNCHANGED <<up, draining, alive, closing, stopped, connected>>
    BY <1>6 DEF FrameLocks, connVars, gateVars
  <2>4. (connected /\ ready' = ready \o <<f>>) \/ ready' = ready
    BY <1>6, <2>1 DEF FrameLocks
  <2> QED
    BY <1>0, <1>1, <2>2, <2>3, <2>4, MoreDue
<1>7. ASSUME NEW c \in Wires, NEW kind \in {"plain", "step", "unpublish"}, FrameArrives(c, kind) PROVE ReportInv'
  BY <1>1, <1>7 DEF FrameArrives, connVars, gateVars
<1>8. CASE LoopRuns
  BY <1>0, <1>8, LoopReports
<1>9. CASE CloseWire \/ CloseReturns \/ WatchdogFires \/ WatchdogReports \/ TeardownStops \/ TeardownReleases
  BY <1>0, <1>9, CloseReports
<1>10. CASE \/ \E t \in DOMAIN tasks : DrainBegins(t) \/ DrainUnwinds(t)
            \/ \E t \in DOMAIN tasks, opened, decoded \in BOOLEAN : DecodeReturns(t, opened, decoded)
  BY <1>0, <1>10, DrainReports
<1> QED
  BY <1>2, <1>3, <1>4, <1>5, <1>6, <1>7, <1>8, <1>9, <1>10 DEF WireNext

LEMMA ReportIsOnce ==
  ASSUME WireTypeOK, ReportInv
  PROVE  ReportsOnce
<1>1. DOMAIN up = 1 .. Len(up)
  BY DEF WireTypeOK
<1>2. Once(up, Opens) /\ Once(up, Ends) /\ EndsLast(up) /\ (alive => Opened(up))
  BY DEF ReportInv, SaidInv
<1> QED
  BY <1>1, <1>2 DEF ReportsOnce, Once, EndsLast, Opened, Opens, Ends

\* What the owner of a connection hears of its wire is the wire's opening, its
\* frames in the order they arrived and one end, whatever order the engine's
\* threads, the event loop, the gate's tasks and the teardown run in.
THEOREM WireSafe == WireSpec => []WireIsOrdered
<1> DEFINE Inv == WireBase /\ LineInv /\ ReportInv
<1>1. WireInit => Inv
  BY BaseInit, LineStarts, ReportStarts
<1>2. Inv /\ [WireNext]_wireVars => Inv'
  <2> SUFFICES ASSUME Inv, [WireNext]_wireVars PROVE Inv'
    OBVIOUS
  <2>1. CASE WireNext
    BY <2>1, BaseKeeps, LineKeeps, ReportKeeps
  <2>2. CASE UNCHANGED wireVars
    <3>0. UNCHANGED <<peerVars, ready, connVars, gateVars, up>>
      BY <2>2 DEF wireVars
    <3>1. UNCHANGED <<engine, notices, open, pcUp, connected, stopped, inSink, early, sunk, overflow, ready, alive,
                      closing, teardown, watchdog, backlog, tasks, draining, decoder, up>>
      BY <3>0 DEF peerVars, connVars, gateVars
    <3>2. WireBase'
      BY <3>1 DEF WireBase, WireTypeOK, TasksHold, GateInv, HoldInv
    <3>3. LineInv'
      <4>1. ASSUME alive', ~stopped', NEW c \in Wires PROVE InLine(c)'
        BY <3>1, <4>1, LineRests DEF LineInv
      <4> QED
        BY <4>1 DEF LineInv
    <3>4. ReportInv'
      BY <3>1 DEF ReportInv, SaidInv, DueInv
    <3> QED
      BY <3>2, <3>3, <3>4
  <2> QED
    BY <2>1, <2>2
<1>3. Inv => WireIsOrdered
  BY LineIsOrdered, ReportIsOnce DEF WireBase, WireIsOrdered
<1> QED
  BY <1>1, <1>2, <1>3, PTL DEF WireSpec

===============================================================================
