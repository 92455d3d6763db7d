------------------------------ MODULE StepLoop ------------------------------
(***************************************************************************)
(* The application on its own thread, and the runner that feeds it.        *)
(*                                                                         *)
(* The runner's event loop posts commands, step requests and session       *)
(* facts to one queue (ModelBridge, ReactorCore._enqueue), pushes media    *)
(* frames straight into the input buffer, and takes back step reports as   *)
(* callbacks (runner.py, _record_step).  The model thread runs two asyncio *)
(* tasks that share a lock: the inbound loop, which dispatches one queued  *)
(* item at a time, and run(), which steps the model while the gate is open *)
(* or when a client asked for a step.                                      *)
(*                                                                         *)
(* A task is one action from one await to the next.  The lock is asyncio's *)
(* fair one: a release hands it to the task that waits.  Left out: what a  *)
(* command, a frame or an output holds, timing reports, and the session    *)
(* machine's own states (module SessionLifecycle), of which this module    *)
(* keeps the four that the runner's step code asks about.                  *)
(***************************************************************************)
EXTENDS Integers, Sequences, FiniteSets, SequencesExt

CONSTANTS
  StepRequests,  \* the step requests a client may send
  Commands,      \* the plain commands a client may send
  SteppedKinds,  \* subset of BOOLEAN: the generations a start may ask for
  Limits,        \* the step counts a start may ask for; 0 for none
  Seeds,         \* subset of BOOLEAN: whether a start has a starting input
  Hooked,        \* the application declares hooks for clients that come and go
  Capacity,      \* InputBuffer maxlen; 0 for a model that declares no input track
  MaxSessions,   \* bound: the sessions started
  MaxJoins,      \* bound: the times a client connects
  MaxSteps,      \* bound: the steps one session reports
  MaxHops,       \* bound: the reports on their way to the runner
  MaxBacklog     \* bound: the items queued for the model when something new happens

Requests == StepRequests \union Commands
NoRequest == "no request"
System == "starting command"
Sessions == 0..MaxSessions

ASSUME StepAssumption ==
  /\ StepRequests \intersect Commands = {} /\ {NoRequest, System} \intersect Requests = {}
  /\ SteppedKinds \subseteq BOOLEAN /\ Seeds \subseteq BOOLEAN
  /\ Limits \subseteq Nat
  /\ Capacity \in Nat /\ Hooked \in BOOLEAN
  /\ MaxSessions \in Nat /\ MaxJoins \in Nat /\ MaxSteps \in Nat /\ MaxHops \in Nat
  /\ MaxBacklog \in Nat

VARIABLES
  \* the runner's loop
  state,        \* the session: READY, RUNNING, CLOSING or TERMINATED
  posted,       \* _sessions_posted
  start,        \* _session_start
  client,       \* a client of its own has a wire: connected, or still closing
  joins,        \* how often one connected
  system,       \* the system client is registered
  seeding,      \* where _apply_starting_input stands
  startingDone, \* the current _starting_input_done is set
  request,      \* where each client message stands, and the session that admitted it
  order,        \* the connection's _step_order: its messages in turn
  answers,      \* the answers sent to each message
  hops,         \* the callbacks the model thread scheduled on the runner's loop
  completed,    \* _steps_completed
  stepsFailed,  \* _steps_failed
  \* between the two threads
  queue,        \* ReactorCore._inbound_q
  buffer,       \* InputBuffer._buffer: the session each frame was pushed for
  \* the model thread
  up,           \* its loop runs
  started,      \* _sessions_started
  active,       \* _session_active
  seedPending,  \* _starting_input_pending
  stepped,      \* _stepped
  accepted,     \* _steps_accepted
  limit,        \* _step_limit
  connected,    \* the connected event
  live,         \* the _live gate
  gateDrops,    \* _gate_drops
  appState,     \* the session self.state was built for, 0 for None
  failedCalls,  \* _failed_step_calls
  pending,      \* _pending_step
  lock,         \* who holds _step_lock
  inbound,      \* the inbound loop: where it waits, and the item in hand
  run           \* run(): where it waits, and its locals

session == <<state, posted, start, client, joins, system>>
seeds   == <<seeding, startingDone>>
asks    == <<request, order>>
records == <<completed, stepsFailed>>
gate    == <<active, seedPending, connected, live, gateDrops>>
steps   == <<stepped, accepted, limit, failedCalls>>
runner  == <<session, seeds, asks, records>>
model   == <<started, gate, steps, appState, pending, lock, inbound, run>>
vars    == <<runner, answers, hops, queue, buffer, up, model>>

Idle == [at |-> "idle", item |-> [tag |-> "none"]]

\* run() at a point where it has no step in hand: its locals are not read before
\* they are assigned again.
RunAt(p) == [at |-> p, woken |-> FALSE, drops |-> 0, served |-> 0,
             session |-> 0, req |-> NoRequest]

-------------------------------------------------------------------------------
Init ==
  /\ state = "READY" /\ posted = 0 /\ client = FALSE /\ joins = 0 /\ system = FALSE
  /\ start = [stepped |-> FALSE, limit |-> 0, seeded |-> FALSE]
  /\ seeding = "none" /\ startingDone = TRUE
  /\ request = [r \in Requests |-> [at |-> "new", session |-> 0]] /\ order = <<>>
  /\ answers = [r \in Requests |-> <<>>]
  /\ hops = <<>> /\ completed = 0 /\ stepsFailed = FALSE
  /\ queue = <<>> /\ buffer = <<>> /\ up = TRUE
  /\ started = 0 /\ active = FALSE /\ seedPending = FALSE
  /\ stepped = FALSE /\ accepted = 0 /\ limit = 0 /\ failedCalls = {}
  /\ connected = FALSE /\ live = FALSE /\ gateDrops = 0
  /\ appState = 0 /\ pending = NoRequest /\ lock = "free" /\ inbound = Idle
  /\ run = RunAt("turn")

\* _enqueue: an item posted once the loop has closed is dropped.
Post(items) == queue' = IF up THEN queue \o items ELSE queue

\* Faulty: the bound is not enforced.
PushedUnbounded(b, s) == Append(b, s)

\* InputBuffer.push: the oldest frame goes when the bound is passed.
Pushed(b, s) == LET c == Append(b, s) IN IF Len(c) > Capacity THEN Tail(c) ELSE c

\* InputBuffer.reset(through_session): the frames of later sessions stay.
Reset(b, s) ==
  LET later  == {i \in DOMAIN b : b[i] > s}
      nth(k) == CHOOSE i \in later : Cardinality({j \in later : j <= i}) = k
  IN  [k \in 1 .. Cardinality(later) |-> b[nth(k)]]

Answer(r, code) == answers' = [answers EXCEPT ![r] = Append(@, code)]

-------------------------------------------------------------------------------
(* The runner: sessions, clients, media and the starting input.            *)

\* A streamed session with a step count runs with the system client alone.
Unattended(s) == s.limit > 0 /\ ~s.stepped

\* The fact the model gets, with whether any connection is left.
Connection(tag, own, sys) == [tag |-> tag, some |-> own \/ sys]

\* Setting the starting input's event wakes the messages held for it.  When the
\* upload store is cleared too, a message that waits for bytes wakes to find
\* its slot gone.
Wake(cleared) ==
  request' = [r \in Requests |->
    CASE request[r].at = "held"                 -> [request[r] EXCEPT !.at = "released"]
      [] request[r].at = "fetching" /\ cleared  -> [request[r] EXCEPT !.at = "cleared"]
      [] OTHER                                  -> request[r]]

\* Faulty: the uploads of an ended session are kept.
EndKeepingUploads(to) ==
  /\ state' = to /\ system' = FALSE /\ UNCHANGED client
  /\ seeding' = "none" /\ startingDone' = TRUE
  /\ Wake(FALSE)

\* Entering CLOSING or TERMINATED: the uploads are cleared, the starting input
\* stops and the registry empties; a wire lives on until its close returns.
End(to) ==
  /\ state' = to /\ system' = FALSE /\ UNCHANGED client
  /\ seeding' = "none" /\ startingDone' = TRUE
  /\ Wake(TRUE)

\* The fact that opens a session in the model.
SessionStarted(s) == [tag |-> "started", start |-> s]

StartSession ==
  /\ state = "READY" /\ posted < MaxSessions
  /\ \E st \in SteppedKinds, l \in Limits, sd \in Seeds :
       start' = [stepped |-> st, limit |-> l, seeded |-> sd]
  /\ state' = "RUNNING" /\ posted' = posted + 1
  /\ completed' = 0 /\ stepsFailed' = FALSE
  /\ system' = (start'.seeded \/ Unattended(start'))
  /\ startingDone' = ~start'.seeded
  /\ seeding' = IF start'.seeded THEN "command" ELSE "none"
  /\ Post(<<SessionStarted(start')>>
          \o IF system' THEN <<Connection("connected", FALSE, TRUE)>> ELSE <<>>)
  /\ UNCHANGED <<client, joins, asks, answers, hops, buffer, up, model>>

StopSession ==
  /\ state = "RUNNING"
  /\ End("CLOSING") /\ Post(<<[tag |-> "ended"]>>)
  /\ UNCHANGED <<posted, start, joins, order, records, answers, hops, buffer, up, model>>

\* The wire is closed.  The teardown task runs behind the messages its session's
\* end has woken.
CleanupComplete ==
  /\ state = "CLOSING"
  /\ \A r \in Requests : request[r].at \notin {"released", "cleared"}
  /\ state' = "READY" /\ client' = FALSE
  /\ UNCHANGED <<posted, start, joins, system, seeds, asks, records>>
  /\ UNCHANGED <<answers, hops, queue, buffer, up, model>>

ClientConnects ==
  /\ state = "RUNNING" /\ ~client /\ joins < MaxJoins
  /\ client' = TRUE /\ joins' = joins + 1
  /\ Post(<<Connection("connected", TRUE, system)>>)
  /\ UNCHANGED <<state, posted, start, system, seeds, asks, records>>
  /\ UNCHANGED <<answers, hops, buffer, up, model>>

ClientLeaves ==
  /\ state = "RUNNING" /\ client /\ client' = FALSE
  /\ Post(<<Connection("disconnected", FALSE, system)>>)
  /\ UNCHANGED <<state, posted, start, joins, system, seeds, asks, records>>
  /\ UNCHANGED <<answers, hops, buffer, up, model>>

\* A stepped session drops the frames of a live input track.
MediaReceived ==
  /\ client /\ ~start.stepped /\ up
  /\ buffer' = Pushed(buffer, posted)
  /\ UNCHANGED <<runner, answers, hops, queue, up, model>>

\* The one starting command, with its upload, if any, resolved.
StartingCommandSubmitted ==
  /\ seeding = "command" /\ seeding' = "finish"
  /\ Post(<<[tag |-> "command", req |-> System, session |-> posted]>>)
  /\ UNCHANGED <<session, startingDone, asks, records, answers, hops, buffer, up, model>>

\* Its upload never came: a session that runs unattended ends, another goes on.
StartingCommandRefused ==
  /\ seeding = "command"
  /\ IF Unattended(start)
     THEN End("CLOSING") /\ Post(<<[tag |-> "ended"]>>)
     ELSE /\ seeding' = "finish"
          /\ UNCHANGED <<state, client, system, startingDone, request, queue>>
  /\ UNCHANGED <<posted, start, joins, order, records, answers, hops, buffer, up, model>>

\* The list is done: the system client leaves a session that waits for another.
StartingInputApplied ==
  /\ seeding = "finish" /\ seeding' = "none" /\ startingDone' = TRUE /\ Wake(FALSE)
  /\ system' = (system /\ Unattended(start))
  /\ Post((IF system' = system THEN <<>> ELSE <<Connection("disconnected", client, FALSE)>>)
          \o <<[tag |-> "applied"]>>)
  /\ UNCHANGED <<state, posted, start, client, joins, order, records>>
  /\ UNCHANGED <<answers, hops, buffer, up, model>>

-------------------------------------------------------------------------------
(* The runner: a client's commands and step requests.                      *)

Ordered(r) == \E i \in DOMAIN order : order[i] = r
InTurn(r) == Ordered(r) => Head(order) = r

\* A message takes its place in the step order if it is a step request, or if
\* the session is stepped.
RequestArrives(r) ==
  /\ client /\ request[r].at = "new"
  /\ request' = [request EXCEPT ![r].at = "queued"]
  /\ order' = IF r \in StepRequests \/ start.stepped THEN Append(order, r) ELSE order
  /\ UNCHANGED <<session, seeds, records, answers, hops, queue, buffer, up, model>>

\* The message leaves the runner, and the step order moves on.
Leaves(r, to) ==
  /\ request' = [request EXCEPT ![r].at = to]
  /\ order' = IF Ordered(r) THEN Tail(order) ELSE order

Rejected(r, code) == Leaves(r, "over") /\ Answer(r, code) /\ UNCHANGED queue

\* bridge.submit_command, and bridge.submit_step: a step's calls and the step
\* itself are posted together.
Submitted(r) ==
  /\ \E calls \in IF r \in StepRequests THEN {0, 1} ELSE {1} :
       Post([i \in 1..calls |-> [tag |-> "command", req |-> r, session |-> posted]]
            \o IF r \in StepRequests THEN <<[tag |-> "step", req |-> r]>> ELSE <<>>)
  /\ UNCHANGED answers

\* _submit_command and _submit_step: what they check before the uploads, and,
\* when no upload is awaited, all of them.
Admit(r) ==
  CASE r \in StepRequests /\ state # "RUNNING" -> Rejected(r, "NOT_READY")
    [] r \in StepRequests /\ state = "RUNNING" /\ ~start.stepped -> Rejected(r, "REFUSED")
    [] OTHER ->
         \/ Rejected(r, "REFUSED")
         \/ /\ request' = [request EXCEPT ![r] = [at |-> "over", session |-> posted]]
            /\ order' = IF Ordered(r) THEN Tail(order) ELSE order
            /\ Submitted(r)
         \/ /\ request' = [request EXCEPT ![r] = [at |-> "fetching", session |-> posted]]
            /\ UNCHANGED <<order, answers, queue>>

\* The message waits for the starting input, unless that is already in.
RequestEnters(r) ==
  /\ request[r].at = "queued" /\ InTurn(r)
  /\ IF startingDone THEN Admit(r)
     ELSE /\ request' = [request EXCEPT ![r].at = "held"]
          /\ UNCHANGED <<order, answers, queue>>
  /\ UNCHANGED <<session, seeds, records, hops, buffer, up, model>>

RequestReleased(r) ==
  /\ request[r].at = "released" /\ Admit(r)
  /\ UNCHANGED <<session, seeds, records, hops, buffer, up, model>>

\* Its upload's bytes arrive; nothing awaits from here to the post.
UploadArrives(r) ==
  /\ request[r].at = "fetching" /\ Leaves(r, "over") /\ Submitted(r)
  /\ UNCHANGED <<session, seeds, records, hops, buffer, up, model>>

\* They did not in time, or the session's end cleared the store.
UploadMissing(r) ==
  /\ request[r].at \in {"fetching", "cleared"} /\ Rejected(r, "REFUSED")
  /\ UNCHANGED <<session, seeds, records, hops, buffer, up, model>>

-------------------------------------------------------------------------------
(* The runner: what the model thread scheduled on its loop.                *)

\* Faulty: a report after the remaining steps were failed is recorded too.
LateOfSession(h) == h.session # posted

\* A report of an earlier session, or after the remaining steps were failed.
Late(h) == h.session # posted \/ stepsFailed

\* The step that brings a running session to its steps stops it.
Reached(n) == start.limit > 0 /\ n = start.limit /\ state = "RUNNING"

StopAt(reached) ==
  IF reached THEN End("CLOSING") /\ Post(<<[tag |-> "ended"]>>)
  ELSE UNCHANGED <<state, client, system, seeds, request, queue>>

\* A report is numbered, journalled and answered, or dropped.
RecordStep ==
  /\ hops # <<>> /\ Head(hops).tag = "report" /\ hops' = Tail(hops)
  /\ LET h == Head(hops) IN
     /\ completed' = IF Late(h) THEN completed
                     ELSE IF h.req # NoRequest THEN h.index ELSE completed + 1
     /\ IF h.req = NoRequest THEN UNCHANGED answers
        ELSE Answer(h.req, IF Late(h) THEN "SESSION_ENDED" ELSE "RESULT")
     /\ StopAt(~Late(h) /\ Reached(completed'))
  /\ UNCHANGED <<posted, start, joins, order, stepsFailed, buffer, up, model>>

\* A starting command's handler failed: an unattended session's remaining steps
\* are recorded as errors and the session ends.
EmitHandlerFailure ==
  /\ hops # <<>> /\ Head(hops).tag = "failure" /\ hops' = Tail(hops)
  /\ LET fails == Unattended(start) /\ Head(hops).session = posted /\ state = "RUNNING" IN
     /\ stepsFailed' = (stepsFailed \/ fails)
     /\ completed' = IF fails THEN start.limit ELSE completed
     /\ StopAt(fails)
  /\ UNCHANGED <<posted, start, joins, order, answers, buffer, up, model>>

EvictOnFailure ==
  /\ hops # <<>> /\ Head(hops).tag = "crash" /\ hops' = Tail(hops)
  /\ End("TERMINATED")
  /\ UNCHANGED <<posted, start, joins, order, records, answers, queue, buffer, up, model>>

-------------------------------------------------------------------------------
(* The model thread: the inbound loop.                                     *)

\* A release hands the lock to the task that waits for it.
ReleasedByInbound == IF run.at = "lock" THEN "run" ELSE "free"
ReleasedByRun == IF inbound.at = "lock" THEN "inbound" ELSE "free"

\* Faulty: the dispatch does not wait for the step lock.
WantsNoLock ==
  /\ inbound' = [at |-> "lock", item |-> Head(queue)]
  /\ lock' = "inbound"

\* The next item is in hand and its dispatch has come to the step lock.
WantsLock ==
  /\ inbound' = [at |-> "lock", item |-> Head(queue)]
  /\ lock' = IF lock = "free" THEN "inbound" ELSE lock

\* Its dispatch needs no lock, and is over.
Done == UNCHANGED <<inbound, lock>>

NextIs(tag) ==
  /\ up /\ inbound.at = "idle" /\ queue # <<>>
  /\ Head(queue).tag = tag /\ queue' = Tail(queue)

\* Faulty: the gate does not wait for the starting input.
UpdateLiveWithoutSeed ==
  LET open == connected' /\ active' /\ ~stepped' IN
  /\ live' = open
  /\ gateDrops' = gateDrops + (IF live /\ ~open THEN 1 ELSE 0)
  /\ run' = [run EXCEPT !.woken = @ \/ (run.at = "turn" /\ open)]

\* _update_live: the gate, the count of its drops, and run() woken by it.
UpdateLive ==
  LET open == connected' /\ active' /\ ~seedPending' /\ ~stepped' IN
  /\ live' = open
  /\ gateDrops' = gateDrops + (IF live /\ ~open THEN 1 ELSE 0)
  /\ run' = [run EXCEPT !.woken = @ \/ (run.at = "turn" /\ open)]

\* ClientConnected and ClientDisconnected: a missing hook takes no lock.
DispatchConnection ==
  /\ \E tag \in {"connected", "disconnected"} : NextIs(tag)
  /\ connected' = Head(queue).some
  /\ UNCHANGED <<active, seedPending, stepped>> /\ UpdateLive
  /\ IF Hooked THEN WantsLock ELSE Done
  /\ UNCHANGED <<started, accepted, limit, failedCalls, appState, pending>>
  /\ UNCHANGED <<runner, answers, hops, buffer, up>>

DispatchSessionStarted ==
  /\ NextIs("started")
  /\ LET s == Head(queue).start IN
     /\ seedPending' = s.seeded /\ stepped' = s.stepped /\ limit' = s.limit
  /\ started' = started + 1 /\ active' = TRUE /\ accepted' = 0
  /\ UNCHANGED connected /\ UpdateLive /\ WantsLock
  /\ UNCHANGED <<failedCalls, appState, pending, runner, answers, hops, buffer, up>>

DispatchStartingInputApplied ==
  /\ NextIs("applied")
  /\ seedPending' = FALSE
  /\ UNCHANGED <<active, connected, stepped>> /\ UpdateLive /\ Done
  /\ UNCHANGED <<started, accepted, limit, failedCalls, appState, pending>>
  /\ UNCHANGED <<runner, answers, hops, buffer, up>>

\* The gate drops before the hook waits for the lock.
DispatchSessionEnded ==
  /\ NextIs("ended")
  /\ active' = FALSE /\ seedPending' = FALSE /\ connected' = FALSE /\ failedCalls' = {}
  /\ UNCHANGED stepped /\ UpdateLive /\ WantsLock
  /\ UNCHANGED <<started, accepted, limit, appState, pending>>
  /\ UNCHANGED <<runner, answers, hops, buffer, up>>

\* _step_closed: the session takes no step now.
StepClosed == ~active \/ ~stepped \/ (limit > 0 /\ accepted >= limit)

\* A step's call is skipped after an earlier one failed, or when no step is taken.
DispatchCommand ==
  /\ NextIs("command")
  /\ LET r == Head(queue).req IN
     IF r \in StepRequests /\ (r \in failedCalls \/ StepClosed) THEN Done ELSE WantsLock
  /\ UNCHANGED <<started, gate, steps, appState, pending, run>>
  /\ UNCHANGED <<runner, answers, hops, buffer, up>>

\* _on_step_refusal, on the model thread: one of an earlier session is told so.
Refusal(r, s, code) == Answer(r, IF s = posted THEN code ELSE "SESSION_ENDED")

\* Faulty: a request whose call failed is run after all.
DispatchStepAnyway ==
  /\ NextIs("step")
  /\ LET r == Head(queue).req IN
     /\ failedCalls' = failedCalls \ {r}
     /\ IF r \in failedCalls
        THEN Refusal(r, started, "COMMAND_FAILED") ELSE UNCHANGED answers
     /\ IF StepClosed
        THEN Done /\ UNCHANGED <<pending, run>>
        ELSE /\ pending' = r /\ inbound' = [at |-> "await", item |-> Head(queue)]
             /\ run' = [run EXCEPT !.woken = @ \/ run.at = "turn"] /\ UNCHANGED lock
  /\ UNCHANGED <<started, gate, stepped, accepted, limit, appState>>
  /\ UNCHANGED <<runner, hops, buffer, up>>

\* The request goes to run(), and the queue waits until its step is over.
DispatchStep ==
  /\ NextIs("step")
  /\ LET r == Head(queue).req IN
     /\ failedCalls' = failedCalls \ {r}
     /\ IF r \in failedCalls
        THEN Refusal(r, started, "COMMAND_FAILED") /\ Done /\ UNCHANGED <<pending, run>>
        ELSE IF StepClosed
        THEN /\ Refusal(r, started, IF active THEN "REFUSED" ELSE "NOT_READY") /\ Done
             /\ UNCHANGED <<pending, run>>
        ELSE /\ pending' = r /\ inbound' = [at |-> "await", item |-> Head(queue)]
             /\ run' = [run EXCEPT !.woken = @ \/ run.at = "turn"]
             /\ UNCHANGED <<lock, answers>>
  /\ UNCHANGED <<started, gate, stepped, accepted, limit, appState>>
  /\ UNCHANGED <<runner, hops, buffer, up>>

\* The dispatch in hand holds the lock, does its work and lets go.
Locked(tags) ==
  /\ up /\ lock = "inbound" /\ inbound.item.tag \in tags
  /\ inbound' = Idle /\ lock' = ReleasedByInbound

ConnectionHookRuns ==
  /\ Locked({"connected", "disconnected"})
  /\ UNCHANGED <<started, gate, steps, appState, pending, run>>
  /\ UNCHANGED <<runner, answers, hops, queue, buffer, up>>

SessionStartedRuns ==
  /\ Locked({"started"})
  /\ appState' = started
  /\ UNCHANGED <<started, gate, steps, pending, run>>
  /\ UNCHANGED <<runner, answers, hops, queue, buffer, up>>

\* A stepped session's end empties the input buffers.
SessionEndedRuns ==
  /\ Locked({"ended"})
  /\ appState' = 0 /\ stepped' = FALSE
  /\ buffer' = IF stepped THEN <<>> ELSE buffer
  /\ UNCHANGED <<started, gate, accepted, limit, failedCalls, pending, run>>
  /\ UNCHANGED <<runner, answers, hops, queue, up>>

\* _fail: the failure of a step's call is kept for its step.
FailedCall(r) == IF r \in StepRequests THEN failedCalls \union {r} ELSE failedCalls

\* A handler returns or raises.  A plain command is answered either way; a
\* step's call that failed is kept for its step; a starting command's failure
\* hops to the runner.
CommandRuns ==
  /\ Locked({"command"})
  /\ LET r == inbound.item.req IN
     \E failed \in BOOLEAN :
       /\ failedCalls' = IF failed THEN FailedCall(r) ELSE failedCalls
       /\ IF r \in Commands THEN Answer(r, IF failed THEN "FAILED" ELSE "ACK")
          ELSE UNCHANGED answers
       /\ hops' = IF failed /\ r = System
                  THEN Append(hops, [tag |-> "failure", session |-> inbound.item.session])
                  ELSE hops
  /\ UNCHANGED <<started, gate, stepped, accepted, limit, appState, pending, run>>
  /\ UNCHANGED <<runner, queue, buffer, up>>

-------------------------------------------------------------------------------
(* The model thread: run().                                                *)

\* run() asks for the lock: it steps at once, or waits its turn.
AsksLock(r, lk) ==
  IF lk = "free" THEN /\ run' = [r EXCEPT !.at = "input", !.session = started]
                      /\ lock' = "run"
                 ELSE /\ run' = [r EXCEPT !.at = "lock"]
                      /\ lock' = lk

\* The top of run()'s loop, with lk the lock and b the buffer so far: a pending
\* request is taken and its frames are written, an open gate is entered, or
\* run() waits for either.
Turn(lk, b) ==
  LET r == RunAt("turn") IN
  IF pending # NoRequest
  THEN /\ run' = [r EXCEPT !.at = "request input", !.session = started, !.req = pending]
       /\ lock' = "run" /\ pending' = NoRequest
       /\ buffer' \in {b, Pushed(b, started)}
  ELSE /\ IF live THEN AsksLock([r EXCEPT !.drops = gateDrops, !.served = started], lk)
                  ELSE run' = r /\ lock' = lk
       /\ buffer' = b /\ UNCHANGED pending

\* _next_turn returns.  A gate that closed again meanwhile is not entered, and
\* the buffers are reset all the same.
TurnTaken ==
  /\ up /\ run.at = "turn" /\ run.woken
  /\ Turn(lock, IF live \/ pending # NoRequest THEN buffer ELSE Reset(buffer, started))
  /\ UNCHANGED <<started, gate, steps, appState, inbound>>
  /\ UNCHANGED <<runner, answers, hops, queue, up>>

StepBegins ==
  /\ up /\ run.at = "lock" /\ lock = "run"
  /\ run' = [run EXCEPT !.at = "input", !.session = started]
  /\ UNCHANGED <<started, gate, steps, appState, pending, lock, inbound>>
  /\ UNCHANGED <<runner, answers, hops, queue, buffer, up>>

InputRefused ==
  /\ up /\ run.at = "input"
  /\ run' = [run EXCEPT !.at = "sleep"] /\ lock' = ReleasedByRun
  /\ UNCHANGED <<started, gate, steps, appState, pending, inbound>>
  /\ UNCHANGED <<runner, answers, hops, queue, buffer, up>>

\* process_input() takes the frames it wants and generate() runs.
InputAccepted ==
  /\ up /\ run.at = "input"
  /\ Len(hops) < MaxHops /\ completed + Len(hops) < MaxSteps
  /\ run' = [run EXCEPT !.at = "output"]
  /\ buffer' \in {buffer, <<>>}
  /\ UNCHANGED <<started, gate, steps, appState, pending, lock, inbound>>
  /\ UNCHANGED <<runner, answers, hops, queue, up>>

Report(r, i) == [tag |-> "report", session |-> run.session, req |-> r, index |-> i]

\* process_output() returns media to emit, or none.
OutputReturns ==
  /\ up /\ run.at = "output"
  /\ lock' = ReleasedByRun
  /\ \/ run' = [run EXCEPT !.at = "emit"] /\ UNCHANGED hops
     \/ run' = [run EXCEPT !.at = "sleep"] /\ hops' = Append(hops, Report(NoRequest, 0))
  /\ UNCHANGED <<started, gate, steps, appState, pending, inbound>>
  /\ UNCHANGED <<runner, answers, queue, buffer, up>>

EmitReturns ==
  /\ up /\ run.at = "emit"
  /\ run' = [run EXCEPT !.at = "sleep"] /\ hops' = Append(hops, Report(NoRequest, 0))
  /\ UNCHANGED <<started, gate, steps, appState, pending, lock, inbound>>
  /\ UNCHANGED <<runner, answers, queue, buffer, up>>

\* Faulty: a gate that dropped and reopened while the step emitted is missed.
StillOpenNow == live

\* The gate has not dropped since run() entered it.
StillOpen == live /\ gateDrops = run.drops

SleepEnds ==
  /\ up /\ run.at = "sleep"
  /\ IF StillOpen THEN AsksLock(run, lock) /\ UNCHANGED <<pending, buffer>>
                  ELSE Turn(lock, Reset(buffer, run.served))
  /\ UNCHANGED <<started, gate, steps, appState, inbound>>
  /\ UNCHANGED <<runner, answers, hops, queue, up>>

\* Faulty: the dispatch that waits for the step is not told.
RequestOverUntold == UNCHANGED inbound /\ Turn("free", buffer)

\* The requested step is over: its dispatch ends, and run() turns.
RequestOver == inbound' = Idle /\ Turn("free", buffer)

RequestedInputRefused ==
  /\ up /\ run.at = "request input"
  /\ Refusal(run.req, run.session, "REFUSED")
  /\ RequestOver
  /\ UNCHANGED <<started, gate, steps, appState, runner, hops, queue, up>>

RequestedInputAccepted ==
  /\ up /\ run.at = "request input"
  /\ accepted' = accepted + 1
  /\ run' = [run EXCEPT !.at = "request output"]
  /\ buffer' \in {buffer, <<>>}
  /\ UNCHANGED <<started, gate, stepped, limit, failedCalls, appState, pending, lock, inbound>>
  /\ UNCHANGED <<runner, answers, hops, queue, up>>

RequestedOutputReturns ==
  /\ up /\ run.at = "request output"
  /\ hops' = Append(hops, Report(run.req, accepted))
  /\ RequestOver
  /\ UNCHANGED <<started, gate, steps, appState, runner, answers, queue, up>>

\* process_output() raises, or crash() is called: the loop is over, what it had
\* in hand is dropped, and the failure hops to the runner.
Crashes ==
  /\ up /\ up' = FALSE
  /\ hops' = Append(hops, [tag |-> "crash"])
  /\ queue' = <<>> /\ inbound' = Idle /\ lock' = "free" /\ pending' = NoRequest
  /\ run' = RunAt("over")
  /\ UNCHANGED <<started, gate, steps, appState, runner, answers, buffer>>

-------------------------------------------------------------------------------
StartingInput == StartingCommandSubmitted \/ StartingCommandRefused \/ StartingInputApplied

Reports == RecordStep \/ EmitHandlerFailure \/ EvictOnFailure

ClientMessage(r) ==
  RequestEnters(r) \/ RequestReleased(r) \/ UploadArrives(r) \/ UploadMissing(r)

\* What starts outside: the API's caller and the client.
Environment ==
  /\ Len(queue) < MaxBacklog
  /\ \/ StartSession \/ StopSession \/ ClientConnects \/ ClientLeaves \/ MediaReceived
     \/ \E r \in Requests : RequestArrives(r)

InboundLoop ==
  \/ DispatchConnection \/ DispatchSessionStarted \/ DispatchStartingInputApplied
  \/ DispatchSessionEnded \/ DispatchCommand \/ DispatchStep
  \/ ConnectionHookRuns \/ SessionStartedRuns \/ SessionEndedRuns \/ CommandRuns

RunLoop ==
  \/ TurnTaken \/ StepBegins \/ InputRefused \/ InputAccepted \/ OutputReturns
  \/ EmitReturns \/ SleepEnds
  \/ RequestedInputRefused \/ RequestedInputAccepted \/ RequestedOutputReturns

Next ==
  \/ StartingInput \/ Reports \/ CleanupComplete \/ Environment \/ InboundLoop \/ RunLoop \/ Crashes
  \/ \E r \in Requests : ClientMessage(r)

Spec == Init /\ [][Next]_vars

\* Every task of either loop that can go on does; hooks, handlers, emits and
\* upload waits come back.
FairSpec ==
  /\ Spec
  /\ WF_vars(StartingInput) /\ WF_vars(Reports) /\ WF_vars(CleanupComplete)
  /\ WF_vars(InboundLoop) /\ WF_vars(RunLoop)
  /\ \A r \in Requests : WF_vars(ClientMessage(r))

-------------------------------------------------------------------------------
Messages == {"new", "queued", "held", "released", "fetching", "cleared", "over"}
Points == {"turn", "lock", "input", "output", "emit", "sleep",
           "request input", "request output", "over"}

\* Where run() holds the step lock, from process_input() to process_output().
StepPoints == {"input", "output", "request input", "request output"}

\* The shape of the state the runner and the model thread share.
StepTypeOK ==
  /\ state \in {"READY", "RUNNING", "CLOSING", "TERMINATED"}
  /\ posted \in Sessions /\ started \in Sessions /\ started <= posted
  /\ joins \in 0..MaxJoins
  /\ seeding \in {"none", "command", "finish"}
  /\ \A r \in Requests : request[r].at \in Messages /\ request[r].session \in Sessions
  /\ Len(buffer) <= Capacity
  /\ accepted \in Nat /\ completed \in Nat
  /\ appState \in Sessions
  /\ failedCalls \subseteq StepRequests
  /\ pending \in StepRequests \union {NoRequest}
  /\ lock \in {"free", "run", "inbound"}
  /\ inbound.at \in {"idle", "lock", "await"}
  /\ run.at \in Points

\* A step runs, from process_input() to the return of process_output(), on the
\* state that was built for the session it is reported to: no session boundary
\* writes self.state under it, and no step runs on a state already cleared or
\* not yet built (reactor_app.py, run and _dispatch_reactor_event).
StepSeesItsSession ==
  run.at \in StepPoints => run.session # 0 /\ appState = run.session

\* A pass of run() through the open gate steps for one session only: a gate
\* that drops and opens again while a step emits ends the pass, so the buffers
\* are reset before the next session's first step.
PassServesOneSession ==
  run.at \in {"input", "output"} => run.session = run.served

\* No step of a session runs before the session's starting command has been
\* handled: not a streamed step, and not one a client asked for.
StartingInputFirst ==
  run.at \in StepPoints =>
    /\ seeding = "command" => run.session # posted
    /\ \A i \in DOMAIN queue :
         ~ (queue[i].tag = "command" /\ queue[i].req = System
            /\ queue[i].session = run.session)

\* A step request runs in the session that admitted it, however long its
\* uploads and the queue held it back (_submit_step checks the session once,
\* before it waits for the uploads).
RequestStaysInItsSession ==
  run.at \in {"request input", "request output"} => run.session = request[run.req].session

\* No command and no step request is answered twice, whichever of the runner,
\* the model thread and the report's callback answers it.
AtMostOneAnswer == \A r \in Requests : Len(answers[r]) <= 1

\* A session that has taken its steps does not go on: it stops when the last
\* one is recorded, a stepped one never records more, and once the remaining
\* steps were recorded as failed no report adds to them.
StopsAtItsSteps ==
  /\ state = "RUNNING" /\ start.limit > 0 => completed < start.limit
  /\ start.stepped /\ start.limit > 0 => completed <= start.limit
  /\ stepsFailed => completed = start.limit

\* Every command and every step request a client sent is answered in the end,
\* or the model's loop is over: nothing is left waiting for the starting input,
\* for its turn, for a step that never runs or for a report that is dropped.
EveryMessageAnswered ==
  \A r \in Requests : request[r].at = "queued" ~> answers[r] # <<>> \/ ~up

\* "When the gate drops, the input buffers reset, so the next session or client
\* starts from empty tracks" (reactor_app.py, run): a step that reads its input
\* finds no frame that was pushed for an earlier session.
StartsFromEmptyTracks ==
  run.at \in {"input", "request input"} =>
    \A i \in DOMAIN buffer : buffer[i] >= run.session

\* A step belongs to one session: it runs on that session's state, in a pass of
\* run() that serves it alone, after its starting command, and a step somebody
\* asked for runs in the session that admitted it.
StepStaysInItsSession ==
  /\ StepTypeOK
  /\ StepSeesItsSession /\ PassServesOneSession
  /\ StartingInputFirst /\ RequestStaysInItsSession

=============================================================================
