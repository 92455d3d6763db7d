----------------------------- MODULE PipelineLoop -----------------------------
(***************************************************************************)
(* A ReactorPipeline model (interface/pipeline/reactor_pipeline.py): run()  *)
(* drives one generator while the live gate is open, the generator reads an *)
(* input track (interface/internal/input_buffer.py), and the engine         *)
(* dispatches the session's events in order (reactor_app.py).  Advancing    *)
(* the generator and a session's start and end hold the step lock.          *)
(*                                                                         *)
(* The runtime posts events and pushes frames from its own thread.  A frame *)
(* is [session, n]; a read asks for one frame and has no timeout.           *)
(***************************************************************************)
EXTENDS Naturals, Sequences

CONSTANTS
    MaxPipeSessions, \* sessions
    MaxJoins,        \* clients that join, over all sessions
    MaxPushes,       \* frames the clients send
    FrameBound       \* InputBuffer maxlen

ASSUME PipeAssumption ==
    FrameBound \in Nat \ {0} /\ {MaxPipeSessions, MaxJoins, MaxPushes} \subseteq Nat

VARIABLES
    opened,     \* the session the runtime is in, or was last in
    sessionOn,  \* whether it is still on
    clientOn,   \* whether a client is connected, as the runtime knows
    joins, pushes,
    inbound,    \* the model's inbound queue
    hooking,    \* the event whose hook waits for the step lock, or "none"
    seenStart,  \* _sessions_started
    active, connected,   \* _session_active, connected
    woken,      \* whether _live.wait() has been resolved since run() called it
    driver,     \* run(): "gate", "advance", "reading", "emit", "asleep", "closing"
    gen,        \* the session the generator was made in
    served,     \* served
    buffer,     \* _buffer
    taken       \* frames the generators read: [gen, session, n]

pipeVars == <<opened, sessionOn, clientOn, joins, pushes, inbound, hooking, seenStart, active, connected,
              woken, driver, gen, served, buffer, taken>>
runtimeSide == <<opened, sessionOn, clientOn, joins, pushes>>

Live == active /\ connected
LockFree == driver \notin {"advance", "reading"}

PipeInit ==
    /\ opened = 0 /\ sessionOn = FALSE /\ clientOn = FALSE /\ joins = 0 /\ pushes = 0
    /\ inbound = <<>> /\ hooking = "none" /\ seenStart = 0 /\ active = FALSE /\ connected = FALSE
    /\ woken = FALSE /\ driver = "gate" /\ gen = 0 /\ served = 0 /\ buffer = <<>> /\ taken = <<>>

-------------------------------------------------------------------------------
(* The runtime *)

PostStart ==
    /\ ~sessionOn /\ opened < MaxPipeSessions
    /\ opened' = opened + 1 /\ sessionOn' = TRUE /\ inbound' = Append(inbound, "started")
    /\ UNCHANGED <<clientOn, joins, pushes, hooking, seenStart, active, connected, woken, driver, gen,
                   served, buffer, taken>>

PostJoin ==
    /\ sessionOn /\ ~clientOn /\ joins < MaxJoins
    /\ clientOn' = TRUE /\ joins' = joins + 1 /\ inbound' = Append(inbound, "joined")
    /\ UNCHANGED <<opened, sessionOn, pushes, hooking, seenStart, active, connected, woken, driver, gen,
                   served, buffer, taken>>

PostLeave ==
    /\ sessionOn /\ clientOn
    /\ clientOn' = FALSE /\ inbound' = Append(inbound, "left")
    /\ UNCHANGED <<opened, sessionOn, joins, pushes, hooking, seenStart, active, connected, woken, driver,
                   gen, served, buffer, taken>>

PostEnd ==
    /\ sessionOn
    /\ sessionOn' = FALSE /\ clientOn' = FALSE /\ inbound' = Append(inbound, "ended")
    /\ UNCHANGED <<opened, joins, pushes, hooking, seenStart, active, connected, woken, driver, gen, served,
                   buffer, taken>>

\* push_media: a full buffer loses its oldest frame.
PushInput ==
    /\ clientOn /\ pushes < MaxPushes
    /\ pushes' = pushes + 1
    /\ LET all == Append(buffer, [session |-> opened, n |-> pushes']) IN
       buffer' = IF Len(all) > FrameBound THEN Tail(all) ELSE all
    /\ UNCHANGED <<opened, sessionOn, clientOn, joins, inbound, hooking, seenStart, active, connected, woken,
                   driver, gen, served, taken>>

-------------------------------------------------------------------------------
(* The engine's dispatcher: _dispatch_reactor_event *)

\* What the event changes before its hook; a gate that opens wakes run().
Dispatch ==
    /\ hooking = "none" /\ inbound # <<>>
    /\ inbound' = Tail(inbound)
    /\ LET e == Head(inbound) IN
       /\ seenStart' = IF e = "started" THEN seenStart + 1 ELSE seenStart
       /\ active' = IF e = "started" THEN TRUE ELSE IF e = "ended" THEN FALSE ELSE active
       /\ connected' = IF e = "joined" THEN TRUE ELSE IF e \in {"left", "ended"} THEN FALSE ELSE connected
       /\ hooking' = IF e \in {"started", "ended"} THEN e ELSE "none"
    /\ woken' = (woken \/ (active' /\ connected'))
    /\ UNCHANGED <<runtimeSide, driver, gen, served, buffer, taken>>

\* session_started, session_ended: under the step lock.
RunHook ==
    /\ hooking # "none" /\ LockFree
    /\ hooking' = "none"
    /\ UNCHANGED <<runtimeSide, inbound, seenStart, active, connected, woken, driver, gen, served, buffer,
                   taken>>

-------------------------------------------------------------------------------
(* run() *)

\* The gate was seen open, though it may have closed again since: between the
\* wait and the check of the gate nothing else runs.
EnterCycle ==
    /\ driver = "gate" /\ (Live \/ woken)
    /\ driver' = IF Live THEN "advance" ELSE "closing"
    /\ served' = seenStart /\ gen' = seenStart
    /\ UNCHANGED <<runtimeSide, inbound, hooking, seenStart, active, connected, woken, buffer, taken>>

\* Back from emit, or from a turn's sleep: the gate as it is now.
CheckGate ==
    /\ driver \in {"emit", "asleep"}
    /\ driver' = IF Live THEN "advance" ELSE "closing"
    /\ UNCHANGED <<runtimeSide, inbound, hooking, seenStart, active, connected, woken, gen, served, buffer,
                   taken>>

\* _advance: the generator ends and a new one is made, skips its turn, yields an
\* output, or reads its input.
GeneratorEnds ==
    /\ driver = "advance" /\ driver' = "asleep" /\ gen' = seenStart
    /\ UNCHANGED <<runtimeSide, inbound, hooking, seenStart, active, connected, woken, served, buffer, taken>>

GeneratorSkips ==
    /\ driver = "advance" /\ driver' = "asleep"
    /\ UNCHANGED <<runtimeSide, inbound, hooking, seenStart, active, connected, woken, gen, served, buffer,
                   taken>>

GeneratorYields ==
    /\ driver = "advance" /\ driver' = "emit"
    /\ UNCHANGED <<runtimeSide, inbound, hooking, seenStart, active, connected, woken, gen, served, buffer,
                   taken>>

GeneratorReads ==
    /\ driver = "advance" /\ driver' = "reading"
    /\ UNCHANGED <<runtimeSide, inbound, hooking, seenStart, active, connected, woken, gen, served, buffer,
                   taken>>

\* Faulty: the frame that was read stays in the buffer.
ReadPeeks ==
    /\ driver = "reading" /\ buffer # <<>>
    /\ taken' = Append(taken, [gen |-> gen, session |-> Head(buffer).session, n |-> Head(buffer).n])
    /\ driver' = "emit"
    /\ UNCHANGED <<runtimeSide, inbound, hooking, seenStart, active, connected, woken, gen, served, buffer>>

\* InputBuffer._read returns: the newest frame, dropping the others, or the
\* oldest.  Nothing in the runtime closes the buffer.
ReadReturns ==
    /\ driver = "reading" /\ buffer # <<>>
    /\ \E latest \in BOOLEAN :
          LET f == IF latest THEN buffer[Len(buffer)] ELSE Head(buffer) IN
          /\ taken' = Append(taken, [gen |-> gen, session |-> f.session, n |-> f.n])
          /\ buffer' = IF latest THEN <<>> ELSE Tail(buffer)
    /\ driver' = "emit"
    /\ UNCHANGED <<runtimeSide, inbound, hooking, seenStart, active, connected, woken, gen, served>>

\* The generator is closed, the buffers reset through the session served, and
\* run() waits at the gate again.
EndCycle ==
    /\ driver = "closing" /\ driver' = "gate"
    /\ buffer' = SelectSeq(buffer, LAMBDA f : f.session > served)
    /\ woken' = Live
    /\ UNCHANGED <<runtimeSide, inbound, hooking, seenStart, active, connected, gen, served, taken>>

Engine == Dispatch \/ RunHook
Driver ==
    \/ EnterCycle \/ CheckGate \/ GeneratorEnds \/ GeneratorSkips \/ GeneratorYields \/ GeneratorReads
    \/ ReadReturns \/ EndCycle

PipeNext == PostStart \/ PostJoin \/ PostLeave \/ PostEnd \/ PushInput \/ Engine \/ Driver

\* The model's loop runs its tasks.
PipeFairness == WF_pipeVars(Dispatch) /\ SF_pipeVars(RunHook) /\ WF_pipeVars(Driver)
PipeSpec == PipeInit /\ [][PipeNext]_pipeVars /\ PipeFairness

-------------------------------------------------------------------------------
(* Properties *)

\* Reads return frames in the order they came, and none twice, whatever mix of
\* newest and oldest reads, evictions and resets (InputBuffer).
ReadsInOrder == \A i, j \in 1 .. Len(taken) : i < j => taken[i].n < taken[j].n

\* "the next session or client starts from empty tracks" (reactor_app.py:308):
\* no generator of a later session reads a frame of an earlier one.
OldFramesAreGone == \A i \in 1 .. Len(taken) : taken[i].session >= taken[i].gen

\* "Each cycle gets a new generator" (reactor_pipeline.py:94): a generator
\* produces only in the session it was made in.
GeneratorServesOneSession == driver = "advance" => gen = seenStart

\* "The runtime closes a track on teardown and disconnect, which wakes a parked
\* read" (input_buffer.py:121): a read does not outlive its session.
ParkedReadReleased == \A s \in 1 .. MaxPipeSessions :
    (driver = "reading" /\ gen = s /\ (opened > s \/ ~sessionOn)) ~> (driver # "reading")

=============================================================================
