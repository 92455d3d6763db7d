------------------------------- MODULE StepStore -------------------------------
(***************************************************************************)
(* The step results of sessions with a step count: the model's thread       *)
(* reports steps and failures, each report hops to the loop, the loop       *)
(* numbers and admits it (runner.py), and one worker thread saves what was  *)
(* admitted, in order, until the store closes (step_results/store.py).      *)
(*                                                                         *)
(* A message is [of |-> the session the model served when it sent it,       *)
(* id |-> its number].  A folder is identified by session and step.         *)
(***************************************************************************)
EXTENDS Naturals, Sequences, FiniteSets

CONSTANTS
    MaxStoreSessions, \* sessions, each with an id of its own
    StepCount,        \* a session's "steps"
    SaveQueue,        \* StepResultsConfig.queue
    MaxReports,       \* steps and failures the model reports
    MaxSent,          \* messages the model broadcasts
    MaxSaveFaults     \* saves whose result.json cannot be written

ASSUME StoreAssumption ==
    /\ {MaxStoreSessions, StepCount, SaveQueue} \subseteq Nat \ {0}
    /\ {MaxReports, MaxSent, MaxSaveFaults} \subseteq Nat

VARIABLES
    runs,          \* _sessions_posted
    running,       \* whether that session is in a running state
    numbered,      \* _steps_completed
    failedSteps,   \* _steps_failed
    modelAt,       \* the session the model's thread serves
    held,          \* _step_messages
    hops,          \* call_soon_threadsafe: reports on their way to the loop
    saveQueue,     \* _queue
    ranges,        \* _failed
    writer,        \* the worker thread
    storeClosed,   \* _closed and _closing
    abandonedSaves, \* _abandon
    admitted,      \* entries admit and admit_failed said yes to, in order
    saves,         \* folders published, in order
    reports, sentMessages, saveFaults

storeVars == <<runs, running, numbered, failedSteps, modelAt, held, hops, saveQueue, ranges, writer,
    storeClosed, abandonedSaves, admitted, saves, reports, sentMessages, saveFaults>>
runnerSide == <<runs, running, numbered, failedSteps, modelAt, held, hops, reports, sentMessages>>

Entry(s, n, msgs) == [run |-> s, step |-> n, messages |-> msgs]
RangeSteps(r) == [i \in 1 .. r.last - r.step + 1 |->
                    Entry(r.run, r.step + i - 1, IF i = 1 THEN r.messages ELSE <<>>)]

StoreInit ==
    /\ runs = 0 /\ running = FALSE /\ numbered = 0 /\ failedSteps = FALSE /\ modelAt = 0
    /\ held = <<>> /\ hops = <<>> /\ saveQueue = <<>> /\ ranges = <<>>
    /\ writer = [at |-> "none", left |-> 0, todo |-> <<>>]
    /\ storeClosed = FALSE /\ abandonedSaves = FALSE /\ admitted = <<>> /\ saves = <<>>
    /\ reports = 0 /\ sentMessages = 0 /\ saveFaults = 0

-------------------------------------------------------------------------------
(* The session, on the loop *)

\* _dispatch_transition at a session start, and _begin_session_inputs.
BeginRun ==
    /\ ~running /\ ~storeClosed /\ runs < MaxStoreSessions
    /\ runs' = runs + 1 /\ running' = TRUE
    /\ numbered' = 0 /\ failedSteps' = FALSE /\ held' = <<>>
    /\ UNCHANGED <<modelAt, hops, saveQueue, ranges, writer, storeClosed, abandonedSaves, admitted, saves,
                   reports, sentMessages, saveFaults>>

StopRun ==
    /\ running /\ running' = FALSE
    /\ UNCHANGED <<runs, numbered, failedSteps, modelAt, held, hops, saveQueue, ranges, writer,
                   storeClosed, abandonedSaves, admitted, saves, reports, sentMessages, saveFaults>>

-------------------------------------------------------------------------------
(* The model's thread *)

\* The model dispatches SessionStarted, some time after the runner posted it.
ModelReachesRun ==
    /\ modelAt < runs /\ modelAt' = modelAt + 1
    /\ UNCHANGED <<runs, running, numbered, failedSteps, held, hops, saveQueue, ranges, writer,
                   storeClosed, abandonedSaves, admitted, saves, reports, sentMessages, saveFaults>>

\* _broadcast_message keeps the message for the next saved step.
BroadcastMessage ==
    /\ modelAt > 0 /\ sentMessages < MaxSent
    /\ sentMessages' = sentMessages + 1
    /\ held' = Append(held, [of |-> modelAt, id |-> sentMessages'])
    /\ UNCHANGED <<runs, running, numbered, failedSteps, modelAt, hops, saveQueue, ranges, writer,
                   storeClosed, abandonedSaves, admitted, saves, reports, saveFaults>>

\* _on_step_completed: a report of the current session takes the messages.
OnStepCompleted ==
    /\ modelAt > 0 /\ reports < MaxReports
    /\ reports' = reports + 1
    /\ LET mine == modelAt = runs IN
       /\ hops' = Append(hops, [kind |-> "step", run |-> modelAt,
                                messages |-> IF mine THEN held ELSE <<>>])
       /\ held' = IF mine THEN <<>> ELSE held
    /\ UNCHANGED <<runs, running, numbered, failedSteps, modelAt, saveQueue, ranges, writer,
                   storeClosed, abandonedSaves, admitted, saves, sentMessages, saveFaults>>

\* _on_handler_failure for a starting command: only one of the live session's
\* own takes the messages.
OnHandlerFailure ==
    /\ modelAt > 0 /\ modelAt = runs /\ reports < MaxReports
    /\ reports' = reports + 1
    /\ hops' = Append(hops, [kind |-> "failure", run |-> modelAt, messages |-> held])
    /\ held' = <<>>
    /\ UNCHANGED <<runs, running, numbered, failedSteps, modelAt, saveQueue, ranges, writer,
                   storeClosed, abandonedSaves, admitted, saves, sentMessages, saveFaults>>

-------------------------------------------------------------------------------
(* The loop runs a hop *)

\* Faulty: nobody starts the worker.
StartsNoWriter == writer' = writer

\* _ensure_started.
StartsWriter == writer' = IF writer.at = "none" THEN [writer EXCEPT !.at = "poll"] ELSE writer

\* StepStore.admit.
Admit(s, n, msgs) ==
    IF storeClosed THEN UNCHANGED <<writer, saveQueue, admitted>>
    ELSE /\ StartsWriter
         /\ IF Len(saveQueue) >= SaveQueue THEN UNCHANGED <<saveQueue, admitted>>
            ELSE /\ saveQueue' = Append(saveQueue, Entry(s, n, msgs))
                 /\ admitted' = Append(admitted, Entry(s, n, msgs))

\* StepStore.admit_failed.
AdmitFailed(s, first, last, msgs) ==
    IF last < first \/ storeClosed THEN UNCHANGED <<writer, ranges, admitted>>
    ELSE LET r == [run |-> s, step |-> first, last |-> last, messages |-> msgs] IN
         /\ StartsWriter
         /\ ranges' = Append(ranges, r)
         /\ admitted' = admitted \o RangeSteps(r)

\* _record_step and _save_step: a late report is dropped; the step that reaches
\* the count stops the session.
RecordStep ==
    /\ hops # <<>> /\ Head(hops).kind = "step" /\ hops' = Tail(hops)
    /\ IF Head(hops).run # runs \/ failedSteps
       THEN UNCHANGED <<numbered, running, writer, saveQueue, admitted>>
       ELSE /\ numbered' = numbered + 1
            /\ Admit(runs, numbered', Head(hops).messages)
            /\ running' = (running /\ numbered' # StepCount)
    /\ UNCHANGED <<runs, failedSteps, modelAt, held, ranges, storeClosed, abandonedSaves, saves, reports,
                   sentMessages, saveFaults>>

\* _emit_handler_failure and _fail_remaining_steps.
FailRemainingSteps ==
    /\ hops # <<>> /\ Head(hops).kind = "failure" /\ hops' = Tail(hops)
    /\ IF Head(hops).run # runs \/ ~running
       THEN UNCHANGED <<numbered, running, failedSteps, held, writer, ranges, admitted>>
       ELSE /\ failedSteps' = TRUE /\ held' = <<>>
            /\ AdmitFailed(runs, numbered + 1, StepCount, Head(hops).messages \o held)
            /\ numbered' = IF StepCount > numbered THEN StepCount ELSE numbered
            /\ running' = FALSE
    /\ UNCHANGED <<runs, modelAt, saveQueue, storeClosed, abandonedSaves, saves, reports, sentMessages,
                   saveFaults>>

-------------------------------------------------------------------------------
(* The worker: _work and _save_range *)

\* One step's folder is published and announced, or could not be written.
SaveStep(e) ==
    \/ saves' = Append(saves, e) /\ UNCHANGED saveFaults
    \/ saveFaults < MaxSaveFaults /\ saveFaults' = saveFaults + 1 /\ UNCHANGED saves

\* Faulty: a failed range is saved before the steps queued ahead of it.
WriterPollsRangeFirst ==
    /\ writer.at = "poll"
    /\ IF abandonedSaves THEN writer' = [writer EXCEPT !.at = "done"] /\ UNCHANGED ranges
       ELSE IF ranges # <<>>
       THEN /\ ranges' = Tail(ranges)
            /\ writer' = [at |-> "range", left |-> 0, todo |-> RangeSteps(Head(ranges))]
       ELSE writer' = [writer EXCEPT !.at = "wait"] /\ UNCHANGED ranges
    /\ UNCHANGED <<runnerSide, saveQueue, storeClosed, abandonedSaves, admitted, saves, saveFaults>>

\* The top of the loop: a failed range first, after the entries queued now.
WriterPolls ==
    /\ writer.at = "poll"
    /\ IF abandonedSaves THEN writer' = [writer EXCEPT !.at = "done"] /\ UNCHANGED ranges
       ELSE IF ranges # <<>>
       THEN /\ ranges' = Tail(ranges)
            /\ writer' = [at |-> "range", left |-> Len(saveQueue), todo |-> RangeSteps(Head(ranges))]
       ELSE writer' = [writer EXCEPT !.at = "wait"] /\ UNCHANGED ranges
    /\ UNCHANGED <<runnerSide, saveQueue, storeClosed, abandonedSaves, admitted, saves, saveFaults>>

WriterTakes ==
    /\ writer.at = "wait" /\ saveQueue # <<>>
    /\ writer' = [writer EXCEPT !.at = "holding", !.todo = <<Head(saveQueue)>>]
    /\ saveQueue' = Tail(saveQueue)
    /\ UNCHANGED <<runnerSide, ranges, storeClosed, abandonedSaves, admitted, saves, saveFaults>>

\* get raises Empty: what was admitted from here on is not seen before the
\* check of _closing.
WriterTimesOut ==
    /\ writer.at = "wait" /\ saveQueue = <<>>
    /\ writer' = [writer EXCEPT !.at = "empty"]
    /\ UNCHANGED <<runnerSide, saveQueue, ranges, storeClosed, abandonedSaves, admitted, saves, saveFaults>>

\* Faulty: an empty queue ends the worker.
WriterEndsIdle ==
    /\ writer.at = "empty"
    /\ writer' = [writer EXCEPT !.at = "done"]
    /\ UNCHANGED <<runnerSide, saveQueue, ranges, storeClosed, abandonedSaves, admitted, saves, saveFaults>>

WriterChecksClosing ==
    /\ writer.at = "empty"
    /\ writer' = [writer EXCEPT !.at = IF storeClosed /\ ranges = <<>> THEN "done" ELSE "poll"]
    /\ UNCHANGED <<runnerSide, saveQueue, ranges, storeClosed, abandonedSaves, admitted, saves, saveFaults>>

WriterSaves ==
    /\ writer.at = "holding"
    /\ IF abandonedSaves
       THEN writer' = [writer EXCEPT !.at = "done"] /\ UNCHANGED <<saves, saveFaults>>
       ELSE SaveStep(Head(writer.todo)) /\ writer' = [writer EXCEPT !.at = "poll", !.todo = <<>>]
    /\ UNCHANGED <<runnerSide, saveQueue, ranges, storeClosed, abandonedSaves, admitted>>

\* _save_range: the queued entries counted before, then the range's own.
WriterSavesQueued ==
    /\ writer.at = "range" /\ writer.left > 0
    /\ IF saveQueue = <<>>
       THEN writer' = [writer EXCEPT !.left = 0] /\ UNCHANGED <<saveQueue, saves, saveFaults>>
       ELSE /\ saveQueue' = Tail(saveQueue)
            /\ IF abandonedSaves
               THEN writer' = [writer EXCEPT !.at = "done"] /\ UNCHANGED <<saves, saveFaults>>
               ELSE SaveStep(Head(saveQueue)) /\ writer' = [writer EXCEPT !.left = @ - 1]
    /\ UNCHANGED <<runnerSide, ranges, storeClosed, abandonedSaves, admitted>>

WriterSavesFailed ==
    /\ writer.at = "range" /\ writer.left = 0
    /\ IF writer.todo = <<>>
       THEN writer' = [writer EXCEPT !.at = "poll"] /\ UNCHANGED <<saves, saveFaults>>
       ELSE IF abandonedSaves
       THEN writer' = [writer EXCEPT !.at = "done"] /\ UNCHANGED <<saves, saveFaults>>
       ELSE SaveStep(Head(writer.todo)) /\ writer' = [writer EXCEPT !.todo = Tail(@)]
    /\ UNCHANGED <<runnerSide, saveQueue, ranges, storeClosed, abandonedSaves, admitted>>

\* close, and the end of its drain time.
CloseStore ==
    /\ ~storeClosed /\ storeClosed' = TRUE
    /\ UNCHANGED <<runnerSide, saveQueue, ranges, writer, abandonedSaves, admitted, saves, saveFaults>>

AbandonSaves ==
    /\ storeClosed /\ ~abandonedSaves /\ writer.at \notin {"none", "done"}
    /\ abandonedSaves' = TRUE
    /\ UNCHANGED <<runnerSide, saveQueue, ranges, writer, storeClosed, admitted, saves, saveFaults>>

WriterStep ==
    \/ WriterPolls \/ WriterTakes \/ WriterTimesOut \/ WriterChecksClosing \/ WriterSaves
    \/ WriterSavesQueued \/ WriterSavesFailed
LoopStep == RecordStep \/ FailRemainingSteps

StoreNext ==
    \/ BeginRun \/ StopRun \/ ModelReachesRun \/ BroadcastMessage \/ OnStepCompleted
    \/ OnHandlerFailure \/ LoopStep \/ WriterStep \/ CloseStore \/ AbandonSaves

\* The worker and the loop run whenever they can.
StoreFairness == WF_storeVars(WriterStep) /\ WF_storeVars(LoopStep)
StoreSpec == StoreInit /\ [][StoreNext]_storeVars /\ StoreFairness

-------------------------------------------------------------------------------
(* Properties *)

InOrder(log) == \A i, j \in 1 .. Len(log) : i < j /\ log[i].run = log[j].run => log[i].step < log[j].step

\* "One worker thread saves steps in the order they were admitted", a failed
\* range included, and no step twice (_work, _save_range).
SavedInOrder == InOrder(saves) /\ \A i \in 1 .. Len(saves) : saves[i] \in {admitted[k] : k \in 1 .. Len(admitted)}

\* A message is in the result of at most one step, whichever of a step report,
\* a failure and a late report takes it first (_step_messages).
MessagesLandOnce ==
    \A i, j \in 1 .. Len(admitted) : \A a \in 1 .. Len(admitted[i].messages), b \in 1 .. Len(admitted[j].messages) :
        admitted[i].messages[a] = admitted[j].messages[b] => i = j /\ a = b

\* close lets pending saves finish: a worker that ended by itself left no failed
\* range behind.
FailedRangesAreSaved ==
    writer.at = "done" /\ ~abandonedSaves => ranges = <<>> /\ writer.todo = <<>>

\* "True means a folder with a result.json follows" (store.py:180).
AdmittedIsSaved ==
    writer.at = "done" /\ ~abandonedSaves /\ saveFaults = 0 => Len(saves) = Len(admitted)

\* A message lands with a step of the session it was sent in.
MessagesStayInTheirSession ==
    \A i \in 1 .. Len(admitted) : \A a \in 1 .. Len(admitted[i].messages) :
        admitted[i].messages[a].of = admitted[i].run

\* What the store keeps: steps in order, messages once, and failed ranges whole.
StepsAreKept == SavedInOrder /\ MessagesLandOnce /\ FailedRangesAreSaved

\* Until the store closes, what was admitted is saved, and a closed store's
\* worker ends.
SavesHappen ==
    /\ \A n \in 1 .. MaxReports : Len(admitted) >= n ~> Len(saves) + saveFaults >= n \/ storeClosed
    /\ storeClosed ~> (writer.at \in {"none", "done"})

=============================================================================
