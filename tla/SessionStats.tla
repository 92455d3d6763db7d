------------------------------ MODULE SessionStats ------------------------------
(***************************************************************************)
(* What a session's runtime_stats are counted from: the frames the model     *)
(* emits and receives (runner/runtime_stats.py), the stages it timed          *)
(* (runner/stages.py, core/stages.py), and the wire's own totals, folded into *)
(* the process's counters and into stage windows at every sample              *)
(* (transport/webrtc/metrics.py, frame_stages.py).  The model's thread and a  *)
(* transport's thread count while the loop starts the next session.           *)
(*                                                                           *)
(* An emission carries one frame on one track; a connection has one track.    *)
(***************************************************************************)
EXTENDS Naturals, Sequences

CONSTANTS
    StatConns,        \* connections
    MaxStatSessions, MaxStatFrames, MaxTimings, MaxReadings, MaxSamples

ASSUME StatsAssumption ==
    {MaxStatSessions, MaxStatFrames, MaxTimings, MaxReadings, MaxSamples} \subseteq Nat

VARIABLES
    tallied,   \* _sessions_posted
    reporting, \* the reporter runs: the session is in a running state
    output,    \* ModelOutput: its session, frames and window
    emission,  \* the model's thread in _emit_media: the session of its frame, 0 for none
    input,     \* ModelInput: frames received
    arrival,   \* a transport's thread in media_received: the session it pushed for
    timings,   \* stage reports on their way to the loop
    stages,    \* RunnerStages: what is held, per connection
    readable,  \* the connections whose reading carries the track
    told,      \* what the session's readings said so far
    frames,    \* frames emitted and received so far
    wire       \* the peer's total, the last sample, the counter and the stage window

statVars == <<tallied, reporting, output, emission, input, arrival, timings, stages, readable, told,
    frames, wire>>

NoneTold == [frames |-> 0, total |-> 0, readings |-> 0, stages |-> [c \in StatConns |-> 0]]
Nothing == [c \in StatConns |-> 0]

StatInit ==
    /\ tallied = 0 /\ reporting = FALSE
    /\ output = [session |-> 0, frames |-> 0, window |-> 0, mine |-> 0]
    /\ emission = 0 /\ input = [received |-> 0, mine |-> 0] /\ arrival = 0
    /\ timings = <<>> /\ stages = [held |-> Nothing, mine |-> Nothing]
    /\ readable = {} /\ told = NoneTold
    /\ frames = [out |-> 0, in |-> 0, timed |-> 0]
    /\ wire = [total |-> 0, true |-> 0, restarts |-> 0, samples |-> 0, seen |-> FALSE, last |-> 0,
               first |-> 0, counter |-> 0, window |-> 0, taken |-> 0]

-------------------------------------------------------------------------------
(* The loop *)

\* _dispatch_reactor_events at a session's start: the counts start from zero.
StatsStart ==
    /\ ~reporting /\ tallied < MaxStatSessions
    /\ tallied' = tallied + 1 /\ reporting' = TRUE
    /\ output' = [session |-> tallied + 1, frames |-> 0, window |-> 0, mine |-> 0]
    /\ stages' = [held |-> Nothing, mine |-> Nothing]
    /\ input' = [received |-> 0, mine |-> 0]
    /\ readable' = {} /\ told' = NoneTold
    /\ UNCHANGED <<emission, arrival, timings, frames, wire>>

\* _sync_runtime_stats: the session left its running states.
StatsEnd ==
    /\ reporting /\ reporting' = FALSE
    /\ UNCHANGED <<tallied, output, emission, input, arrival, timings, stages, readable, told, frames, wire>>

\* A connection's transport took its first reading.
ReadingTaken(c) ==
    /\ reporting /\ c \notin readable
    /\ readable' = readable \cup {c}
    /\ UNCHANGED <<tallied, reporting, output, emission, input, arrival, timings, stages, told, frames, wire>>

\* Faulty: a take empties every connection's stages.
MergeAll(held) == Nothing

\* RunnerStages.merge: the stages of a connection that has a reading are taken.
Merge(held) == [c \in StatConns |-> IF c \in readable THEN 0 ELSE held[c]]

\* Faulty: the window goes on.
TakeKeeps(counts) == counts

\* ModelOutput.take: the next window starts.
Take(counts) == [counts EXCEPT !.window = 0]

\* _journal_runtime_stats.
JournalStats ==
    /\ reporting /\ told.readings < MaxReadings
    /\ told' = [frames |-> told.frames + output.window, total |-> output.frames,
                readings |-> told.readings + 1,
                stages |-> [c \in StatConns |-> told.stages[c] + IF c \in readable THEN stages.held[c] ELSE 0]]
    /\ output' = Take(output)
    /\ stages' = [stages EXCEPT !.held = Merge(@)]
    /\ UNCHANGED <<tallied, reporting, emission, input, arrival, timings, readable, frames, wire>>

-------------------------------------------------------------------------------
(* The model's thread *)

\* A frame of the session the model is in: the one posted last, or, from the end
\* hook of the one before it, an earlier one.
EmitFrame(s) ==
    /\ emission = 0 /\ frames.out < MaxStatFrames
    /\ s > 0 /\ s \in {tallied, tallied - 1}
    /\ emission' = s /\ frames' = [frames EXCEPT !.out = @ + 1]
    /\ UNCHANGED <<tallied, reporting, output, input, arrival, timings, stages, readable, told, wire>>

\* Faulty: a frame of another session is counted.
CountsAny(s) == TRUE

\* emitted's check, under the reset's lock.
Counts(s) == s = output.session

\* emitted.  mine is the count of frames that really were of the session.
Emitted ==
    /\ emission # 0 /\ emission' = 0
    /\ output' = IF Counts(emission)
                 THEN [output EXCEPT !.frames = @ + 1, !.window = @ + 1,
                                     !.mine = @ + IF emission = tallied THEN 1 ELSE 0]
                 ELSE output
    /\ UNCHANGED <<tallied, reporting, input, arrival, timings, stages, readable, told, frames, wire>>

\* _on_command_timing and _on_frame_timing: a report for the loop.
TimeStage(c, s) ==
    /\ frames.timed < MaxTimings /\ s > 0 /\ s \in {tallied, tallied - 1}
    /\ timings' = Append(timings, [conn |-> c, session |-> s])
    /\ frames' = [frames EXCEPT !.timed = @ + 1]
    /\ UNCHANGED <<tallied, reporting, output, emission, input, arrival, stages, readable, told, wire>>

\* add, on the loop: a report of an earlier session is dropped.
AddStage ==
    LET r == Head(timings) IN
    /\ timings # <<>> /\ timings' = Tail(timings)
    /\ stages' = IF r.session = tallied
                 THEN [stages EXCEPT !.held[r.conn] = @ + 1, !.mine[r.conn] = @ + 1] ELSE stages
    /\ UNCHANGED <<tallied, reporting, output, emission, input, arrival, readable, told, frames, wire>>

-------------------------------------------------------------------------------
(* A transport's thread: media_received *)

TakeFrame ==
    /\ arrival = 0 /\ reporting /\ frames.in < MaxStatFrames
    /\ arrival' = tallied /\ frames' = [frames EXCEPT !.in = @ + 1]
    /\ UNCHANGED <<tallied, reporting, output, emission, input, timings, stages, readable, told, wire>>

Received ==
    /\ arrival # 0 /\ arrival' = 0
    /\ input' = [received |-> input.received + 1, mine |-> input.mine + IF arrival = tallied THEN 1 ELSE 0]
    /\ UNCHANGED <<tallied, reporting, output, emission, timings, stages, readable, told, frames, wire>>

-------------------------------------------------------------------------------
(* The wire's totals: _stats_loop *)

WireCounts ==
    /\ wire.true < MaxStatFrames
    /\ wire' = [wire EXCEPT !.total = @ + 1, !.true = @ + 1]
    /\ UNCHANGED <<tallied, reporting, output, emission, input, arrival, timings, stages, readable, told, frames>>

WireRestarts ==
    /\ wire.total > 0 /\ wire.restarts = 0
    /\ wire' = [wire EXCEPT !.total = 0, !.restarts = 1]
    /\ UNCHANGED <<tallied, reporting, output, emission, input, arrival, timings, stages, readable, told, frames>>

\* Faulty: the whole total counts at every sample.
AdvanceWhole(total, previous) == total

\* _advance: a total below the last one is a counter that started over.
Advance(total, previous) == IF total >= previous THEN total - previous ELSE total

\* _add_delta: nothing without an earlier sample, nor for a total that went back.
AddDelta(total) == IF wire.seen /\ total > wire.last THEN total - wire.last ELSE 0

SampleWire ==
    /\ wire.samples < MaxSamples
    /\ wire' = [wire EXCEPT !.samples = @ + 1, !.seen = TRUE, !.last = wire.total,
                            !.first = IF wire.seen THEN @ ELSE wire.total,
                            !.counter = @ + Advance(wire.total, wire.last),
                            !.window = @ + AddDelta(wire.total)]
    /\ UNCHANGED <<tallied, reporting, output, emission, input, arrival, timings, stages, readable, told, frames>>

\* take_frame_stages, for a reading.
TakeWindow ==
    /\ wire.window > 0
    /\ wire' = [wire EXCEPT !.taken = @ + wire.window, !.window = 0]
    /\ UNCHANGED <<tallied, reporting, output, emission, input, arrival, timings, stages, readable, told, frames>>

SampleNext == WireCounts \/ WireRestarts \/ SampleWire \/ TakeWindow

CountNext ==
    \/ StatsStart \/ StatsEnd \/ JournalStats \/ Emitted \/ AddStage \/ TakeFrame \/ Received
    \/ \E s \in 1 .. MaxStatSessions : EmitFrame(s) \/ \E c \in StatConns : TimeStage(c, s)
    \/ \E c \in StatConns : ReadingTaken(c)

StatNext == CountNext \/ SampleNext

StatSpec == StatInit /\ [][StatNext]_statVars

-------------------------------------------------------------------------------
(* Properties *)

\* A session's readings tell each of its frames and stage reports once: what the
\* windows said and what the open window holds make up the total, which holds no
\* frame of another session, and a stage is held back until its connection has a
\* reading, then told, never dropped and never told twice (take, emitted, merge).
ReadingsAddUp ==
    /\ told.frames + output.window = output.frames /\ output.frames = output.mine
    /\ \A c \in StatConns : told.stages[c] + stages.held[c] = stages.mine[c]

\* The process's counters follow the wire's totals: they never run ahead of it, and
\* while it does not restart they and the stage windows miss nothing between two
\* samples (_advance, _add_delta).
CountersFollowTheWire ==
    /\ wire.counter <= wire.true
    /\ wire.restarts = 0 =>
          /\ wire.counter + (wire.total - wire.last) = wire.true
          /\ wire.taken + wire.window = wire.last - wire.first

\* A frame counts as received in the session it was pushed for (ModelInput's counts
\* "run for the whole session", runtime_stats.py).  The count is a second step after
\* the push, with no session to check.
ReceivedInItsSession == input.received = input.mine

=============================================================================
