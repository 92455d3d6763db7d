------------------------------ MODULE ModelServer ------------------------------
(***************************************************************************)
(* The model server: model_server/server_core.py with the batching policy  *)
(* (batching.py), the connections it keeps (connection.py) and the clients *)
(* that call it (client.py).                                               *)
(*                                                                         *)
(* Its threads are the step thread, the only one that calls into the       *)
(* model; a reader and a writer per connection; whatever thread completes  *)
(* a request's future; and the event loop, which drains and stops it.      *)
(* What runs under the server's condition is one action.  An answer posted *)
(* just after the condition is released belongs to the action that decides *)
(* it.  A call into the model is two actions when other threads can act    *)
(* between its start and its end to some effect (session_opened, step).    *)
(*                                                                         *)
(* Links are FIFO both ways, and a client's message and its handling by    *)
(* the connection's reader are one action: a message that waits in the     *)
(* link is a client that is slow to send it.  Time is abstract: a timeout  *)
(* may pass at any moment, and a batch window may end at any moment.       *)
(***************************************************************************)
EXTENDS Naturals, Sequences, FiniteSets, SequencesExt

CONSTANTS Conns,       \* the links accepted in one behaviour
          NoConn,      \* a slot nobody holds
          Slots,       \* 0 .. max_sessions - 1
          NoSlot,      \* a connection that has not said hello
          MaxBatch,    \* settings.max_batch
          OutboxSize,  \* the connection's outbox
          MaxCalls     \* bound: the calls of one client

ASSUME ConnsAssumption == IsFiniteSet(Conns) /\ NoConn \notin Conns
ASSUME SlotsAssumption == IsFiniteSet(Slots) /\ NoSlot \notin Slots
ASSUME SizesAssumption == /\ MaxBatch \in Nat \ {0}
                          /\ OutboxSize \in Nat \ {0}
                          /\ MaxCalls \in Nat

VARIABLES
  server,        \* ModelServerCore._state
  drain, stop,   \* the drain() and stop() coroutines: idle, joining, done
  drainLate,     \* _drain_deadline has passed
  cstate,        \* Connection._state, or "none" before the link is accepted
  slot, gen,     \* Connection.slot, Connection.generation
  reading,       \* the connection's reader thread runs
  up,            \* the link is open
  outbox,        \* Connection._outbox
  opening,       \* _opening
  connections,   \* _connections
  bySlot,        \* _by_slot
  resetPending,  \* _reset_pending
  generations,   \* _generations
  events,        \* _events
  waiting, busy, \* BatchPolicy._waiting, BatchPolicy._busy
  pending,       \* _pending
  at,            \* where the step thread is
  todo,          \* the events it took and has not finished
  refusing,      \* it took them while draining
  modelOpen,     \* the generations the model was told are open, by slot
  call,          \* what each client waits for
  ready,         \* not ModelClient._reset_required
  clientGen,     \* ModelClient._generation, 0 before the welcome
  calls,         \* the calls each client has made: the last request id
  answers        \* history: how often each request was answered

life     == <<server, drain, stop, drainLate>>
conn     == <<cstate, slot, gen, reading>>
wires    == <<up, outbox, call, answers>>
holders  == <<opening, connections, bySlot, resetPending, generations>>
policy   == <<waiting, busy>>
thread   == <<at, todo, refusing>>
client   == <<ready, clientGen, calls>>
svars    == <<life, conn, wires, holders, events, policy, pending, thread, modelOpen, client>>

-------------------------------------------------------------------------------
RequestIds == 1 .. MaxCalls
NoCall == [kind |-> "none", id |-> 0]
Answer(kind, id, g) == [kind |-> kind, id |-> id, gen |-> g]
Failed(id) == Answer("reply", id, 0)
Flush == Answer("flush", 0, 0)
Nothing == [c \in Conns |-> <<>>]
To(c, messages) == [Nothing EXCEPT ![c] = messages]

Init ==
  /\ server = "serving" /\ drain = "idle" /\ stop = "idle" /\ drainLate = FALSE
  /\ cstate = [c \in Conns |-> "none"]
  /\ slot = [c \in Conns |-> NoSlot] /\ gen = [c \in Conns |-> 0]
  /\ reading = [c \in Conns |-> FALSE]
  /\ up = [c \in Conns |-> FALSE] /\ outbox = Nothing
  /\ opening = {} /\ connections = {} /\ resetPending = {}
  /\ bySlot = [s \in Slots |-> NoConn]
  /\ generations = [s \in Slots |-> 0]
  /\ events = <<>> /\ waiting = <<>> /\ busy = {} /\ pending = {}
  /\ at = "loop" /\ todo = <<>> /\ refusing = FALSE
  /\ modelOpen = [s \in Slots |-> {}]
  /\ call = [c \in Conns |-> NoCall]
  /\ ready = [c \in Conns |-> FALSE] /\ clientGen = [c \in Conns |-> 0]
  /\ calls = [c \in Conns |-> 0]
  /\ answers = [c \in Conns |-> [i \in RequestIds |-> 0]]

-------------------------------------------------------------------------------
(* Links and outboxes.                                                     *)

\* What a closed connection still takes of what is posted to it: nothing.
Posted(c, messages) == IF cstate[c] = "CLOSED" THEN <<>> ELSE messages

\* Faulty: an outbox takes any number of answers.
HasRoomAlways(c, messages) == TRUE

\* put_nowait() finds room in the outbox.
HasRoom(c, messages) == Len(outbox[c] \o messages) <= OutboxSize

\* post() and close() for each connection's messages, given what the clients
\* wait for.  A full outbox closes the link, and a client whose link closed
\* hears it on the call it makes.  (_answer, post, close; _lose on the client.)
PostTo(messages, waits) ==
  LET sent == [c \in Conns |-> Posted(c, messages[c])] IN
  /\ up' = [c \in Conns |-> up[c] /\ HasRoom(c, sent[c])]
  /\ outbox' = [c \in Conns |-> IF up'[c] THEN outbox[c] \o sent[c] ELSE <<>>]
  /\ call' = [c \in Conns |-> IF up'[c] THEN waits[c] ELSE NoCall]
  /\ answers' = [c \in Conns |-> [i \in RequestIds |->
       answers[c][i] + Cardinality({k \in DOMAIN sent[c] : sent[c][k].id = i})]]

Post(messages) == PostTo(messages, call)

\* link.close(), by either side.
Cut(c) ==
  /\ up' = [up EXCEPT ![c] = FALSE]
  /\ outbox' = [outbox EXCEPT ![c] = <<>>]
  /\ call' = [call EXCEPT ![c] = NoCall]
  /\ UNCHANGED answers

Queue(kind, c, id) == events' = Append(events, [kind |-> kind, conn |-> c, id |-> id])

-------------------------------------------------------------------------------
(* Requests.                                                               *)

\* Faulty: a request already answered is answered again by its result.
AwaitedUnlessDetached(p) == ~p.detached

\* Whether a session still waits for this request's answer.
Awaited(p) == ~p.answered /\ ~p.detached

\* The queue s once the requests of R left it: the others, in their order.
Without(s, R) ==
  LET kept   == {i \in DOMAIN s : s[i] \notin R}
      nth(k) == CHOOSE i \in kept : Cardinality({j \in kept : j <= i}) = k
  IN  [k \in 1 .. Cardinality(kept) |-> s[nth(k)]]

WaitingOf(C) == {w \in Range(waiting) : w.conn \in C}
Failures(c, requests) ==
  SetToSeq({Failed(r.id) : r \in {r \in requests : r.conn = c}})

\* _complete for each of S: the result goes out when its session still waits
\* for it in the generation it was made for, and the session is free again.
Complete(S) ==
  LET due == {p \in S : /\ Awaited(p)
                        /\ cstate[p.conn] = "OPEN"
                        /\ gen[p.conn] = p.gen
                        /\ p.conn \in connections}
  IN  /\ Post([c \in Conns |-> Failures(c, due)])
      /\ busy' = busy \ {p.conn : p \in {p \in S : ~p.detached}}

\* Faulty: a request its session gave up on is not detached with the others.
DropPendingAwaited(C) ==
  {IF p.conn \in C /\ ~p.answered THEN [p EXCEPT !.detached = TRUE] ELSE p : p \in pending}

\* The running requests once those of C are detached.
DropPending(C) ==
  {IF p.conn \in C THEN [p EXCEPT !.detached = TRUE] ELSE p : p \in pending}

\* BatchPolicy.drop for every connection of C.
Drop(C) ==
  /\ waiting' = Without(waiting, WaitingOf(C))
  /\ busy' = busy \ C

-------------------------------------------------------------------------------
(* Connections that leave.                                                 *)

Forget(C) ==
  /\ Drop(C)
  /\ pending' = DropPending(C)
  /\ resetPending' = resetPending \ C
  /\ connections' = connections \ C
  /\ bySlot' = [s \in Slots |-> IF bySlot[s] \in C THEN NoConn ELSE bySlot[s]]

\* The model after session_closed for the sessions C hold.
ClosedFor(C) == [s \in Slots |-> modelOpen[s] \ {gen[c] : c \in {c \in C : slot[c] = s}}]

\* _leave for every connection of L: one that is closing already is only
\* flushed, one that was open has its session closed in the model.
Leave(L) ==
  LET left == {c \in L : cstate[c] \notin {"CLOSING", "CLOSED"}} IN
  /\ opening' = opening \ L
  /\ Forget(left)
  /\ modelOpen' = ClosedFor({c \in left : cstate[c] = "OPEN"})
  /\ cstate' = [c \in Conns |-> IF c \in left THEN "CLOSED" ELSE cstate[c]]
  /\ Post([c \in Conns |-> IF c \in L THEN <<Flush>> ELSE <<>>])

\* Faulty: what still waits in the queue is forgotten, not failed.
UnansweredNone(leaving) == {}

\* The waiting requests _answer_in_flight fails: those of the connections it
\* knows, except that a connection its own leave just closed takes no answer.
Unanswered(leaving) == WaitingOf(connections \ leaving)

\* Faulty: the connections still opening are left to themselves.
UnopenedNone(leaving) == {}

\* The connections it closes before they opened: closed, not refused, so their
\* clients wait for the next server.
Unopened(leaving) == {c \in opening : cstate[c] \in {"CONNECTING", "OPENING"}} \ leaving

\* _answer_in_flight, then (in stop()) the leaving of the connections X: fail
\* the running and the waiting requests, finish the events nobody took, close
\* the connections still opening.
AnswerInFlight(X) ==
  LET of(kind)  == {e \in Range(events) : e.kind = kind}
      leaving   == {e.conn : e \in of("leave")}
      failed    == {p \in pending : Awaited(p)} \union of("reset") \union Unanswered(leaving)
      unopened  == Unopened(leaving)
      left      == {c \in leaving \union X : cstate[c] \notin {"CLOSING", "CLOSED"}}
  IN  /\ events' = <<>> /\ pending' = {} /\ opening' = {}
      /\ waiting' = Without(waiting, WaitingOf(connections))
      /\ busy' = busy \ (connections \union {p.conn : p \in {p \in pending : ~p.detached}})
      /\ resetPending' = resetPending \ (left \union {e.conn : e \in of("reset")})
      /\ connections' = connections \ left
      /\ bySlot' = [s \in Slots |-> IF bySlot[s] \in left THEN NoConn ELSE bySlot[s]]
      /\ modelOpen' = ClosedFor({c \in left : cstate[c] = "OPEN"})
      /\ cstate' = [c \in Conns |-> IF c \in left THEN "CLOSED"
                                    ELSE IF c \in unopened THEN "CLOSING" ELSE cstate[c]]
      /\ Post([c \in Conns |-> Failures(c, failed)
                 \o IF c \in leaving \union X \union unopened THEN <<Flush>> ELSE <<>>])
      /\ UNCHANGED generations

-------------------------------------------------------------------------------
(* The accept loop, the readers and the hello timer.                       *)

\* A link accepted while the server serves and fewer than max_sessions open.
\* (One it cannot take is closed at once, and its client tries again.)
Accept(c) ==
  /\ cstate[c] = "none" /\ server = "serving"
  /\ Cardinality(opening) < Cardinality(Slots)
  /\ cstate' = [cstate EXCEPT ![c] = "CONNECTING"]
  /\ opening' = opening \union {c}
  /\ reading' = [reading EXCEPT ![c] = TRUE]
  /\ up' = [up EXCEPT ![c] = TRUE]
  /\ call' = [call EXCEPT ![c] = [kind |-> "hello", id |-> 0]]
  /\ UNCHANGED <<life, slot, gen, outbox, answers, connections, bySlot, resetPending,
                 generations, events, policy, pending, thread, modelOpen, client>>

Hello(c, s) ==
  /\ reading[c] /\ up[c] /\ cstate[c] = "CONNECTING" /\ server = "serving"
  /\ slot' = [slot EXCEPT ![c] = s]
  /\ cstate' = [cstate EXCEPT ![c] = "OPENING"]
  /\ Queue("open", c, 0)
  /\ UNCHANGED <<life, gen, reading, wires, holders, policy, pending, thread, modelOpen, client>>

\* The reader returns after a hello it does not serve, and queues the leave.
\* A hello of the wrong version or slot is refused; one that comes while the
\* server stops has its link closed, so its client waits for the next server.
HelloTurnedAway(c) ==
  /\ reading[c] /\ up[c] /\ cstate[c] = "CONNECTING"
  /\ reading' = [reading EXCEPT ![c] = FALSE]
  /\ \/ Post(To(c, <<Answer("refused", 0, 0)>>))
     \/ server # "serving" /\ Post(To(c, <<Flush>>))
  /\ Queue("leave", c, 0)
  /\ UNCHANGED <<life, cstate, slot, gen, holders, policy, pending, thread, modelOpen, client>>

HelloExpires(c) ==
  /\ reading[c] /\ up[c] /\ cstate[c] = "CONNECTING"
  /\ Cut(c)
  /\ UNCHANGED <<life, conn, holders, events, policy, pending, thread, modelOpen, client>>

\* The reader ends: its link closed, or (ReaderFails) the session broke the protocol.
ReaderLeaves(c) ==
  /\ reading[c]
  /\ reading' = [reading EXCEPT ![c] = FALSE]
  /\ Queue("leave", c, 0)
  /\ UNCHANGED <<life, cstate, slot, gen, wires, holders, policy, pending, thread,
                 modelOpen, client>>
ReaderEnds(c) == ~up[c] /\ ReaderLeaves(c)
ReaderFails(c) == up[c] /\ ReaderLeaves(c)

-------------------------------------------------------------------------------
(* The clients' calls, and what the reader does with each.                 *)

Idle(c) == up[c] /\ reading[c] /\ call[c] = NoCall /\ calls[c] < MaxCalls

\* BatchPolicy.add takes the request of a session that has none.
Add(c) == c \notin busy

\* step(): the client sends the request and _take queues it or refuses it.
ClientStep(c) ==
  LET id    == calls[c] + 1
      waits == [call EXCEPT ![c] = [kind |-> "step", id |-> id]]
      taken == /\ server = "serving" /\ cstate[c] = "OPEN"
               /\ c \notin resetPending /\ Add(c)
  IN  /\ Idle(c) /\ ready[c]
      /\ calls' = [calls EXCEPT ![c] = id]
      /\ \/ /\ taken
            /\ waiting' = Append(waiting, [conn |-> c, id |-> id])
            /\ busy' = busy \union {c}
            /\ PostTo(Nothing, waits)
         \/ /\ ~taken
            /\ PostTo(To(c, <<Failed(id)>>), waits)
            /\ UNCHANGED policy
      /\ UNCHANGED <<life, conn, holders, events, pending, thread, modelOpen, ready, clientGen>>

\* reset(): no step until it is done; _take_reset queues it or refuses it.
ClientReset(c) ==
  LET id    == calls[c] + 1
      waits == [call EXCEPT ![c] = [kind |-> "reset", id |-> id]]
  IN  /\ Idle(c) /\ clientGen[c] > 0
      /\ calls' = [calls EXCEPT ![c] = id]
      /\ ready' = [ready EXCEPT ![c] = FALSE]
      /\ \/ /\ server = "serving"
            /\ resetPending' = resetPending \union {c}
            /\ Queue("reset", c, id)
            /\ PostTo(Nothing, waits)
         \/ /\ server # "serving"
            /\ PostTo(To(c, <<Failed(id)>>), waits)
            /\ UNCHANGED <<resetPending, events>>
      /\ UNCHANGED <<life, conn, opening, connections, bySlot, generations, policy, pending,
                     thread, modelOpen, clientGen>>

\* _cancel_request: withdraw a waiting request, or give up on a running one
\* once its future is known.
CancelRequest(c, id) ==
  LET request == [conn |-> c, id |-> id] IN
  IF request \in Range(waiting)
  THEN /\ waiting' = Without(waiting, {request})
       /\ busy' = busy \ {c}
       /\ UNCHANGED pending
  ELSE /\ pending' = {IF p.conn = c /\ p.id = id /\ p.future /\ Awaited(p)
                      THEN [p EXCEPT !.answered = TRUE] ELSE p : p \in pending}
       /\ UNCHANGED policy

\* The call's own timeout passes.  A step is cancelled; a reset is not.
ClientGivesUp(c) ==
  /\ up[c] /\ call[c].kind \in {"step", "reset"}
  /\ call' = [call EXCEPT ![c] = NoCall]
  /\ IF call[c].kind = "step" /\ reading[c]
     THEN CancelRequest(c, call[c].id)
     ELSE UNCHANGED <<policy, pending>>
  /\ UNCHANGED <<life, conn, up, outbox, answers, holders, events, thread, modelOpen, client>>

\* close(), or the session's process ends.
ClientLeaves(c) ==
  /\ up[c]
  /\ Cut(c)
  /\ UNCHANGED <<life, conn, holders, events, policy, pending, thread, modelOpen, client>>

\* Faulty: the client takes whatever answer comes first.
ExpectedWhenWaiting(c, m) == call[c].kind # "none"

\* _read keeps an answer only for the call that waits for it.
Expected(c, m) == call[c].kind # "none" /\ m.id = call[c].id

\* The writer sends the head of the outbox and the client's reader takes it.
ClientReads(c) ==
  LET m == Head(outbox[c]) IN
  /\ up[c] /\ outbox[c] # <<>> /\ m.kind \in {"welcome", "reply", "done"}
  /\ outbox' = [outbox EXCEPT ![c] = Tail(@)]
  /\ call' = IF Expected(c, m) THEN [call EXCEPT ![c] = NoCall] ELSE call
  /\ ready' = [ready EXCEPT ![c] = @ \/ (Expected(c, m) /\ m.kind = "done")]
  /\ clientGen' = IF Expected(c, m) /\ m.kind \in {"welcome", "done"}
                  THEN [clientGen EXCEPT ![c] = m.gen] ELSE clientGen
  /\ UNCHANGED <<life, conn, up, answers, holders, events, policy, pending, thread,
                 modelOpen, calls>>

\* The writer reaches the flush marker, or the client hears it is refused: the
\* link closes.
LinkEnds(c) ==
  /\ up[c] /\ outbox[c] # <<>> /\ Head(outbox[c]).kind \in {"flush", "refused"}
  /\ Cut(c)
  /\ UNCHANGED <<life, conn, holders, events, policy, pending, thread, modelOpen, client>>

-------------------------------------------------------------------------------
(* The step thread.                                                        *)

\* Faulty: a drain waits for work no session waits for any more.
DrainedWhenIdle == server = "draining" /\ pending = {}

\* A draining step loop returns once no session waits for a running request, or
\* at the drain's deadline.
Drained == server = "draining" /\ (drainLate \/ \A p \in pending : ~Awaited(p))

Turn == at = "loop" /\ server # "stopped" /\ ~Drained

\* _expire_running: a running request's timeout passes, and its session is told.
StepExpires(p) ==
  /\ Turn /\ p.future /\ Awaited(p)
  /\ pending' = (pending \ {p}) \union {[p EXCEPT !.answered = TRUE]}
  /\ Post(To(p.conn, <<Failed(p.id)>>))
  /\ UNCHANGED <<life, conn, holders, events, policy, thread, modelOpen, client>>

EventsTaken ==
  /\ Turn /\ events # <<>>
  /\ at' = "events" /\ todo' = events /\ events' = <<>>
  /\ refusing' = (server = "draining")
  /\ UNCHANGED <<life, conn, wires, holders, policy, pending, modelOpen, client>>

\* A request's timeout passes while it waits.
WaitingExpires(w) ==
  /\ Turn /\ server = "serving" /\ events = <<>>
  /\ waiting' = Without(waiting, {w})
  /\ busy' = busy \ {w.conn}
  /\ Post(IF w.conn \in connections THEN To(w.conn, <<Failed(w.id)>>) ELSE Nothing)
  /\ UNCHANGED <<life, conn, holders, events, pending, thread, modelOpen, client>>

\* BatchPolicy.take and the start of _run: the oldest requests, up to MaxBatch,
\* go to the model's step() with their sessions' generations.
BatchTaken ==
  LET size  == IF Len(waiting) < MaxBatch THEN Len(waiting) ELSE MaxBatch
      batch == Range(SubSeq(waiting, 1, size))
      live  == {w \in batch : w.conn \in connections}
  IN  /\ Turn /\ server = "serving" /\ events = <<>> /\ waiting # <<>>
      /\ waiting' = SubSeq(waiting, size + 1, Len(waiting))
      /\ pending' = pending \union
           {[conn |-> w.conn, id |-> w.id, gen |-> gen[w.conn],
             future |-> FALSE, answered |-> FALSE, detached |-> FALSE] : w \in live}
      /\ busy' = IF live = {} THEN busy \ {w.conn : w \in batch} ELSE busy
      /\ at' = IF live = {} THEN "loop" ELSE "running"
      /\ UNCHANGED <<life, conn, wires, holders, events, todo, refusing, modelOpen, client>>

\* step() raises and fails its batch, or returns: some outputs are results,
\* those of F are futures.
StepReturns(F) ==
  LET batch == {p \in pending : ~p.future}
      later == {p \in batch : p.conn \in F}
  IN  /\ at = "running" /\ at' = "loop"
      /\ F \subseteq {p.conn : p \in batch}
      /\ pending' = (pending \ batch) \union {[p EXCEPT !.future = TRUE] : p \in later}
      /\ Complete(batch \ later)
      /\ UNCHANGED <<life, conn, holders, events, waiting, todo, refusing, modelOpen, client>>

\* _resolve: a future is done, or was cancelled before its work started.
FutureDone(p) ==
  /\ p.future
  /\ pending' = pending \ {p}
  /\ Complete({p})
  /\ UNCHANGED <<life, conn, holders, events, waiting, thread, modelOpen, client>>

\* The step thread ends: it drained, or the server stopped.
StepLoopEnds ==
  /\ at = "loop" /\ (server = "stopped" \/ Drained)
  /\ at' = "ended"
  /\ UNCHANGED <<life, conn, wires, holders, events, policy, pending, todo, refusing,
                 modelOpen, client>>

\* A fault ends the step loop: nothing more is taken, and all of it is answered.
StepLoopFails ==
  /\ Turn /\ at' = "ended" /\ server' = "draining"
  /\ AnswerInFlight({})
  /\ UNCHANGED <<drain, stop, drainLate, slot, gen, reading, todo, refusing, client>>

-------------------------------------------------------------------------------
(* The lifecycle events the step thread took, one after the other.         *)

Event == Head(todo)
Applies(kind) == at = "events" /\ Event.kind = kind
EventDone == todo' = Tail(todo) /\ at' = (IF Len(todo) = 1 THEN "loop" ELSE "events")

\* Faulty: a slot's new session does not close the one it replaces.
HeldNone(c) == {}

\* The connection that holds the slot c opens, which c replaces.
Held(c) == {h \in Conns : bySlot[slot[c]] = h} \ {c}

NextGeneration(c) ==
  /\ generations' = [generations EXCEPT ![slot[c]] = @ + 1]
  /\ gen' = [gen EXCEPT ![c] = generations[slot[c]] + 1]

\* _open, up to the call of session_opened().
OpenBegins ==
  LET c == Event.conn IN
  /\ Applies("open") /\ ~refusing /\ cstate[c] = "OPENING"
  /\ Leave(Held(c))
  /\ NextGeneration(c)
  /\ at' = "opening"
  /\ UNCHANGED <<life, slot, reading, events, todo, refusing, client>>

\* session_opened() returned while the server serves: the session is open.
OpenSucceeds ==
  LET c == Event.conn IN
  /\ at = "opening" /\ server = "serving"
  /\ opening' = opening \ {c}
  /\ connections' = connections \union {c}
  /\ cstate' = [cstate EXCEPT ![c] = "OPEN"]
  /\ bySlot' = [bySlot EXCEPT ![slot[c]] = c]
  /\ modelOpen' = [modelOpen EXCEPT ![slot[c]] = @ \union {gen[c]}]
  /\ Post(To(c, <<Answer("welcome", 0, gen[c])>>))
  /\ EventDone
  /\ UNCHANGED <<life, slot, gen, reading, resetPending, generations, events, policy, pending,
                 refusing, client>>

\* Faulty: the session opened too late is left open in the model.
OpenedTooLateLeftOpen(c) == [modelOpen EXCEPT ![slot[c]] = @ \union {gen[c]}]

\* The model once session_opened() returned too late and session_closed() ran.
OpenedTooLate(c) == [modelOpen EXCEPT ![slot[c]] = (@ \union {gen[c]}) \ {gen[c]}]

\* session_opened() raised, or returned once the server was stopping: the
\* connection is closed, and told why only if the server still serves.
OpenFails ==
  LET c == Event.conn IN
  /\ at = "opening"
  /\ opening' = opening \ {c}
  /\ cstate' = [cstate EXCEPT ![c] = "CLOSING"]
  /\ \/ /\ server = "serving"
        /\ Post(To(c, <<Answer("refused", 0, 0), Flush>>))
        /\ UNCHANGED modelOpen
     \/ /\ server # "serving"
        /\ Post(To(c, <<Flush>>))
        /\ modelOpen' \in {modelOpen, OpenedTooLate(c)}
  /\ EventDone
  /\ UNCHANGED <<life, slot, gen, reading, connections, bySlot, resetPending, generations,
                 events, policy, pending, refusing, client>>

\* An open whose connection is gone, or that a draining server does not begin:
\* it stays among the opening ones, to be closed with them.
OpenSkipped ==
  /\ Applies("open") /\ (refusing \/ cstate[Event.conn] # "OPENING")
  /\ opening' = IF refusing THEN opening ELSE opening \ {Event.conn}
  /\ EventDone
  /\ UNCHANGED <<life, conn, wires, connections, bySlot, resetPending, generations, events,
                 policy, pending, refusing, modelOpen, client>>

LeaveApplied ==
  /\ Applies("leave")
  /\ Leave({Event.conn})
  /\ EventDone
  /\ UNCHANGED <<life, slot, gen, reading, generations, events, refusing, client>>

\* _reset, up to the call of session_opened(): the old generation's requests
\* are dropped and its session closed in the model.
ResetBegins ==
  LET c       == Event.conn
      dropped == WaitingOf({c}) \union
                 {p \in pending : p.conn = c /\ p.future /\ Awaited(p)}
  IN  /\ Applies("reset") /\ ~refusing /\ cstate[c] = "OPEN"
      /\ Drop({c}) /\ pending' = DropPending({c})
      /\ Post([d \in Conns |-> Failures(d, dropped)])
      /\ modelOpen' = ClosedFor({c})
      /\ NextGeneration(c)
      /\ at' = "resetting"
      /\ UNCHANGED <<life, cstate, slot, reading, opening, connections, bySlot, resetPending,
                     events, todo, refusing, client>>

ResetSucceeds ==
  LET c == Event.conn IN
  /\ at = "resetting"
  /\ modelOpen' = [modelOpen EXCEPT ![slot[c]] = @ \union {gen[c]}]
  /\ resetPending' = resetPending \ {c}
  /\ Post(To(c, <<Answer("done", Event.id, gen[c])>>))
  /\ EventDone
  /\ UNCHANGED <<life, conn, opening, connections, bySlot, generations, events, policy, pending,
                 refusing, client>>

\* session_opened() refused the reset: the session is closed in the model
\* already, and its connection goes.
ResetFails ==
  LET c == Event.conn IN
  /\ at = "resetting"
  /\ Forget({c})
  /\ cstate' = [cstate EXCEPT ![c] = "CLOSED"]
  /\ Post(To(c, <<Failed(Event.id), Flush>>))
  /\ EventDone
  /\ UNCHANGED <<life, slot, gen, reading, opening, generations, events, refusing, modelOpen,
                 client>>

\* A reset whose connection is gone gets no answer; one that a draining server
\* meets is refused.
ResetSkipped ==
  LET c == Event.conn IN
  /\ Applies("reset") /\ (refusing \/ cstate[c] # "OPEN")
  /\ resetPending' = resetPending \ {c}
  /\ Post(IF refusing THEN To(c, <<Failed(Event.id)>>) ELSE Nothing)
  /\ EventDone
  /\ UNCHANGED <<life, conn, opening, connections, bySlot, generations, events, policy, pending,
                 refusing, modelOpen, client>>

-------------------------------------------------------------------------------
(* drain() and stop(), on the event loop.                                  *)

\* drain(): serving stops at once; the coroutine joins the step thread.
DrainStarts ==
  /\ drain = "idle" /\ stop = "idle"
  /\ drain' = "joining" /\ server' = "draining"
  /\ UNCHANGED <<stop, drainLate, conn, wires, holders, events, policy, pending, thread,
                 modelOpen, client>>

DrainDeadline ==
  /\ drain = "joining" /\ ~drainLate /\ at # "ended"
  /\ drainLate' = TRUE
  /\ UNCHANGED <<server, drain, stop, conn, wires, holders, events, policy, pending, thread,
                 modelOpen, client>>

DrainEnds ==
  /\ drain = "joining" /\ at = "ended"
  /\ drain' = "done"
  /\ AnswerInFlight({})
  /\ UNCHANGED <<server, stop, drainLate, slot, gen, reading, thread, client>>

\* stop(): after a drain, or without one when the drain failed to run.
StopStarts ==
  /\ stop = "idle" /\ drain # "joining"
  /\ stop' = "joining" /\ server' = "stopped"
  /\ UNCHANGED <<drain, drainLate, conn, wires, holders, events, policy, pending, thread,
                 modelOpen, client>>

StopEnds ==
  /\ stop = "joining" /\ at = "ended"
  /\ stop' = "done"
  /\ AnswerInFlight(connections)
  /\ UNCHANGED <<server, drain, drainLate, slot, gen, reading, thread, client>>

-------------------------------------------------------------------------------
Reader(c) ==
  \/ \E s \in Slots : Hello(c, s)
  \/ HelloTurnedAway(c) \/ HelloExpires(c) \/ ReaderEnds(c) \/ ReaderFails(c)

Client(c) ==
  \/ Accept(c) \/ ClientStep(c) \/ ClientReset(c) \/ ClientGivesUp(c) \/ ClientLeaves(c)
  \/ ClientReads(c) \/ LinkEnds(c)

ModelCallEnds ==
  \/ \E F \in SUBSET Conns : StepReturns(F)
  \/ OpenSucceeds \/ OpenFails \/ ResetSucceeds \/ ResetFails

StepThread ==
  \/ EventsTaken \/ BatchTaken \/ StepLoopEnds
  \/ OpenBegins \/ OpenSkipped \/ LeaveApplied \/ ResetBegins \/ ResetSkipped

Timeouts ==
  \/ \E p \in pending : StepExpires(p)
  \/ \E w \in Range(waiting) : WaitingExpires(w)

Lifecycle == DrainStarts \/ DrainEnds \/ StopStarts \/ StopEnds \/ DrainDeadline

Next ==
  \/ \E c \in Conns : Reader(c) \/ Client(c)
  \/ ModelCallEnds \/ StepThread \/ StepLoopFails \/ Timeouts \/ Lifecycle
  \/ \E p \in pending : FutureDone(p)

Spec == Init /\ [][Next]_svars

\* The threads run; a call into the model returns; a client's reader and the
\* connection's writer run; and the timers that bound a wait fire: the hello
\* timer, a request's timeout once the model has returned a future for it, the
\* drain's deadline.  Nothing makes a future done, a client act or a fault happen.
Fairness ==
  /\ WF_svars(StepThread) /\ WF_svars(ModelCallEnds)
  /\ WF_svars(DrainEnds) /\ WF_svars(StopEnds) /\ WF_svars(DrainDeadline)
  /\ WF_svars(\E p \in pending : StepExpires(p))
  /\ \A c \in Conns : /\ WF_svars(ClientReads(c)) /\ WF_svars(LinkEnds(c))
                      /\ WF_svars(HelloExpires(c)) /\ WF_svars(ReaderEnds(c))

FairSpec == Spec /\ Fairness

-------------------------------------------------------------------------------
(* Properties.                                                             *)

ConnectionStates == {"none", "CONNECTING", "OPENING", "OPEN", "CLOSING", "CLOSED"}
Requests == [conn : Conns, id : RequestIds]
Pendings == [conn : Conns, id : RequestIds, gen : Nat,
             future : BOOLEAN, answered : BOOLEAN, detached : BOOLEAN]
Events == [kind : {"open", "leave", "reset"}, conn : Conns, id : Nat]

\* Every variable holds what the code keeps in it.
ServerTypeOK ==
  /\ server \in {"serving", "draining", "stopped"}
  /\ {drain, stop} \subseteq {"idle", "joining", "done"} /\ drainLate \in BOOLEAN
  /\ cstate \in [Conns -> ConnectionStates]
  /\ slot \in [Conns -> Slots \union {NoSlot}] /\ gen \in [Conns -> Nat]
  /\ reading \in [Conns -> BOOLEAN] /\ up \in [Conns -> BOOLEAN]
  /\ \A c \in Conns : Len(outbox[c]) \in 0 .. OutboxSize
  /\ opening \subseteq Conns /\ connections \subseteq Conns /\ resetPending \subseteq Conns
  /\ bySlot \in [Slots -> Conns \union {NoConn}]
  /\ generations \in [Slots -> Nat]
  /\ events \in Seq(Events) /\ waiting \in Seq(Requests)
  /\ busy \subseteq Conns /\ pending \subseteq Pendings
  /\ at \in {"loop", "events", "opening", "resetting", "running", "ended"}
  /\ todo \in Seq(Events) /\ refusing \in BOOLEAN
  /\ modelOpen \in [Slots -> SUBSET Nat]
  /\ call \in [Conns -> [kind : {"none", "hello", "step", "reset"}, id : Nat]]
  /\ ready \in [Conns -> BOOLEAN] /\ clientGen \in [Conns -> Nat]
  /\ calls \in [Conns -> 0 .. MaxCalls]
  /\ answers \in [Conns -> [RequestIds -> Nat]]

\* A request is answered at most once, whichever of its result, its timeout,
\* its cancel, a reset, a drain and a stop come, in whatever order.
AnsweredOnce == \A c \in Conns : \A i \in RequestIds : answers[c][i] <= 1

\* The model closed c's session and was not yet asked, or refused, to open the next.
Resetting(c) == at = "resetting" /\ Event.conn = c

\* The model has exactly the sessions the server holds open, in the generation
\* it holds: session_closed runs once for every session opened, before the next
\* session_opened of its slot, whatever replaced, reset or stopped it.
ModelMirrors ==
  \A s \in Slots :
    modelOpen[s] = {gen[c] : c \in {c \in connections : slot[c] = s /\ ~Resetting(c)}}

\* One open connection a slot, found by its slot and by its number alike.
OneHolderPerSlot ==
  /\ connections = {c \in Conns : cstate[c] = "OPEN"}
  /\ \A c \in connections : bySlot[slot[c]] = c
  /\ \A s \in Slots : bySlot[s] # NoConn => bySlot[s] \in connections /\ slot[bySlot[s]] = s

\* A session is busy exactly while it has a request waiting or running that it
\* did not leave behind, and it has one of them at most; so it is never stuck
\* busy, and the model never runs two requests of one session's generation.
BusyIsHeld ==
  LET held == {p \in pending : ~p.detached} IN
  /\ busy = {w.conn : w \in Range(waiting)} \union {p.conn : p \in held}
  /\ \A i, j \in DOMAIN waiting : waiting[i].conn = waiting[j].conn => i = j
  /\ \A p, q \in held : p.conn = q.conn => p = q
  /\ \A p \in held, w \in Range(waiting) : p.conn # w.conn

\* A client that may step is in the generation its connection is in: no late
\* answer of a reset it gave up on lets it step into an older one.
ClientKnowsGeneration ==
  \A c \in connections : up[c] /\ ready[c] => clientGen[c] = gen[c]

\* A stopped server has left nothing open in the model, holds no request and no
\* connection, and has closed, or is about to, every link it accepted.
StopReleasesAll ==
  stop = "done" =>
    /\ \A s \in Slots : modelOpen[s] = {}
    /\ connections = {} /\ opening = {} /\ pending = {} /\ waiting = <<>> /\ busy = {}
    /\ \A c \in Conns : up[c] => \E m \in Range(outbox[c]) : m.kind \in {"flush", "refused"}

\* A client's call ends: with an answer, a timeout or the loss of the link.
CallEnds == \A c \in Conns : call[c].kind # "none" ~> call[c].kind = "none"

\* A drain ends, though a future is never done.
DrainCompletes == drain = "joining" ~> drain = "done"

\* Whatever replaces, resets, drains or stops a session: a slot has one holder,
\* the model has exactly the sessions the server holds, a session is busy exactly
\* while a request of its own waits or runs, and a stopped server left nothing.
SlotsHold ==
  /\ ServerTypeOK
  /\ OneHolderPerSlot /\ ModelMirrors
  /\ BusyIsHeld /\ StopReleasesAll
===============================================================================
