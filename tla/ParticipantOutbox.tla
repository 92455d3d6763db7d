--------------------------- MODULE ParticipantOutbox ---------------------------
(***************************************************************************)
(* What the session sends a room participant: the outbound half of         *)
(* ParticipantConnection (transport/livekit/participant.py).  Messages and *)
(* RPC calls are made on any thread and cross to the loop as callbacks, in *)
(* the order they were scheduled; _send_all and _call_all take them from   *)
(* there.  Answers to the participant's own RPC calls cross the same way.  *)
(* A thread's check of _closed and its call_soon_threadsafe are two steps, *)
(* between which the loop may close the connection.                        *)
(***************************************************************************)
EXTENDS Naturals, Sequences, FiniteSets

CONSTANTS Payloads,      \* the messages and calls the model's thread makes
          Sends,         \* those that are messages; the rest are RPC calls
          MaxOutbox,     \* MAX_OUTBOX_BYTES, with every message one byte
          MaxPending,    \* MAX_PENDING_CALLS
          Attempts,      \* _RPC_ATTEMPTS
          Requests       \* the RPC calls the participant makes

\* The callback that ends both queues, among those that carry a message or an
\* answer.
End == "end"

ASSUME OutboxAssumption ==
  /\ Sends \subseteq Payloads /\ MaxOutbox \in Nat /\ MaxPending \in Nat /\ Attempts \in Nat \ {0}
  /\ Payloads \cap Requests = {} /\ {End, "none"} \cap (Payloads \cup Requests) = {}

VARIABLES
  making,      \* what each payload's thread is at
  soon,        \* the loop's scheduled callbacks, in order
  outClosed,   \* _closed
  ending,      \* the close that waits for the pumps
  outbox,      \* _outbox
  waiting,     \* _outbox_bytes: queued, or being sent
  pump,        \* _send_all
  calls,       \* _calls
  caller,      \* _call_all: the call it makes and which attempt, or "idle"
  unsupported, \* the participant answered that it has no such method
  sent,        \* what was handed to the SDK, in order
  ran,         \* how often the participant's handler ran for each call
  reply,       \* _rpc_commands and _replies of each of its own calls
  answers      \* how often each of them was answered

outVars == <<making, soon, outClosed, ending, outbox, waiting, pump, calls, caller,
             unsupported, sent, ran, reply, answers>>

OutboxInit ==
  /\ making = [m \in Payloads |-> "ready"] /\ soon = <<>> /\ outClosed = FALSE
  /\ ending = "none" /\ outbox = <<>> /\ waiting = 0 /\ pump = "idle" /\ calls = <<>>
  /\ caller = [call |-> "none", try |-> 0] /\ unsupported = FALSE /\ sent = <<>>
  /\ ran = [m \in Payloads \ Sends |-> 0]
  /\ reply = [q \in Requests |-> "none"] /\ answers = [q \in Requests |-> 0]

Idle == [call |-> "none", try |-> 0]

\* _enqueue and _call_soon read _closed ...
ThreadChecks(m) ==
  /\ making[m] = "ready"
  /\ making' = [making EXCEPT ![m] = IF outClosed THEN "refused" ELSE "checked"]
  /\ UNCHANGED <<soon, outClosed, ending, outbox, waiting, pump, calls, caller, unsupported,
                 sent, ran, reply, answers>>

\* ... and schedule the callback.
ThreadSchedules(m) ==
  /\ making[m] = "checked"
  /\ making' = [making EXCEPT ![m] = IF outClosed THEN "late" ELSE "scheduled"]
  /\ soon' = Append(soon, m)
  /\ UNCHANGED <<outClosed, ending, outbox, waiting, pump, calls, caller, unsupported, sent,
                 ran, reply, answers>>

DropPayload(m) == making' = [making EXCEPT ![m] = "dropped"]

\* The loop runs the next callback: _admit, _admit_call, an end of both queues,
\* or _settle.
RunCallback ==
  /\ soon # <<>> /\ soon' = Tail(soon)
  /\ LET m == Head(soon) IN
     IF m = End
       THEN /\ outbox' = Append(outbox, End) /\ calls' = Append(calls, End)
            /\ UNCHANGED <<making, waiting, reply, answers>>
     ELSE IF m \in Requests
       THEN /\ reply' = [reply EXCEPT ![m] = "done"]
            /\ answers' = [answers EXCEPT ![m] = IF reply[m] = "done" THEN @ ELSE @ + 1]
            /\ UNCHANGED <<making, outbox, calls, waiting>>
     ELSE IF m \in Sends
       THEN /\ IF waiting + 1 > MaxOutbox THEN DropPayload(m) /\ UNCHANGED <<outbox, waiting>>
               ELSE outbox' = Append(outbox, m) /\ waiting' = waiting + 1 /\ UNCHANGED making
            /\ UNCHANGED <<calls, reply, answers>>
       ELSE /\ IF unsupported \/ Len(calls) >= MaxPending
               THEN DropPayload(m) /\ UNCHANGED calls
               ELSE calls' = Append(calls, m) /\ UNCHANGED making
            /\ UNCHANGED <<outbox, waiting, reply, answers>>
  /\ UNCHANGED <<outClosed, ending, pump, caller, unsupported, sent, ran>>

\* _send_all: a send that fails is logged, and its bytes wait no more.
SendNext ==
  /\ pump = "idle" /\ outbox # <<>>
  /\ outbox' = Tail(outbox)
  /\ IF Head(outbox) = End THEN pump' = "ended" /\ UNCHANGED <<waiting, sent>>
     ELSE /\ sent' = Append(sent, Head(outbox)) /\ waiting' = waiting - 1
          /\ UNCHANGED pump
  /\ UNCHANGED <<making, soon, outClosed, ending, calls, caller, unsupported, ran, reply, answers>>

\* _call_all takes the next call, skipping one whose method is unsupported now.
TakeCall ==
  /\ caller = Idle /\ calls # <<>>
  /\ calls' = Tail(calls)
  /\ LET m == Head(calls) IN
     IF m = End THEN caller' = [call |-> End, try |-> 0] /\ UNCHANGED making
     ELSE IF unsupported THEN DropPayload(m) /\ UNCHANGED caller
     ELSE caller' = [call |-> m, try |-> 1] /\ UNCHANGED making
  /\ UNCHANGED <<soon, outClosed, ending, outbox, waiting, pump, unsupported, sent, ran, reply, answers>>

\* What perform_rpc may come to.  A response timeout follows an
\* acknowledgement, so the handler ran; a transient failure never reached it.
Outcomes  == {"answered", "response timeout", "not reached", "unsupported"}
Reaches(o) == o \in {"answered", "response timeout"}

\* Faulty: a call that timed out waiting for its response is tried again.
TransientTimeout(o) == o \in {"not reached", "response timeout"}

\* _TRANSIENT_RPC_ERRORS
Transient(o) == o = "not reached"

\* _call: a transient failure is tried again, any other ends the call.
CallEnds(o) ==
  /\ caller.call \in Payloads
  /\ ran' = [ran EXCEPT ![caller.call] = IF Reaches(o) THEN @ + 1 ELSE @]
  /\ unsupported' = (unsupported \/ o = "unsupported")
  /\ caller' = IF Transient(o) /\ caller.try < Attempts
               THEN [caller EXCEPT !.try = @ + 1] ELSE Idle
  /\ UNCHANGED <<making, soon, outClosed, ending, outbox, waiting, pump, calls, sent, reply, answers>>

\* UNSUPPORTED_RETRY_SECONDS passed.
SupportRetried ==
  /\ unsupported /\ unsupported' = FALSE
  /\ UNCHANGED <<making, soon, outClosed, ending, outbox, waiting, pump, calls, caller, sent,
                 ran, reply, answers>>

\* _fail_replies, on the loop: every call that still waits fails.
FailedReplies ==
  /\ reply' = [q \in Requests |-> IF reply[q] = "none" THEN "none" ELSE "done"]
  /\ answers' = [q \in Requests |->
                   answers[q] + IF reply[q] \in {"waiting", "answered"} THEN 1 ELSE 0]

\* close: the ends follow everything scheduled before them.
CloseOutbox ==
  /\ ~outClosed /\ outClosed' = TRUE /\ ending' = "draining"
  /\ FailedReplies
  /\ soon' = Append(soon, End)
  /\ UNCHANGED <<making, outbox, waiting, pump, calls, caller, unsupported, sent, ran>>

\* Both pumps ended, or _CLOSE_DRAIN_SECONDS passed and they are cancelled.
OutboxCloses ==
  /\ ending = "draining"
  /\ ending' = IF pump = "ended" /\ caller.call = End THEN "drained" ELSE "cut"
  /\ pump' = "ended" /\ caller' = [call |-> End, try |-> 0]
  /\ UNCHANGED <<making, soon, outClosed, outbox, waiting, calls, unsupported, sent, ran, reply, answers>>

\* drop: the participant has left, so the pumps are cancelled at once.
DropOutbox ==
  /\ ending # "dropped" /\ outClosed' = TRUE /\ ending' = "dropped"
  /\ pump' = "ended" /\ caller' = [call |-> End, try |-> 0]
  /\ FailedReplies
  /\ UNCHANGED <<making, soon, outbox, waiting, calls, unsupported, sent, ran>>

\* expect_reply, for an RPC call the participant makes.
ExpectReply(q) ==
  /\ ~outClosed /\ reply[q] = "none"
  /\ reply' = [reply EXCEPT ![q] = "waiting"]
  /\ UNCHANGED <<making, soon, outClosed, ending, outbox, waiting, pump, calls, caller,
                 unsupported, sent, ran, answers>>

\* message_sent, command_acknowledged or command_failed: _answered takes the
\* request once, and the future is settled on the loop.
CommandAnswered(q) ==
  /\ reply[q] = "waiting"
  /\ reply' = [reply EXCEPT ![q] = "answered"]
  /\ soon' = Append(soon, q)
  /\ UNCHANGED <<making, outClosed, ending, outbox, waiting, pump, calls, caller, unsupported,
                 sent, ran, answers>>

OutboxNext ==
  \/ \E m \in Payloads : ThreadChecks(m) \/ ThreadSchedules(m)
  \/ RunCallback \/ SendNext \/ TakeCall \/ SupportRetried
  \/ \E o \in Outcomes : CallEnds(o)
  \/ CloseOutbox \/ OutboxCloses \/ DropOutbox
  \/ \E q \in Requests : ExpectReply(q) \/ CommandAnswered(q)

OutboxSpec == OutboxInit /\ [][OutboxNext]_outVars
-----------------------------------------------------------------------------
\* A call's handler runs at most once, whatever is retried; an RPC call of the
\* participant is answered at most once, by its command or by the close, and
\* by one of them once the connection is closed; and a close that drained sent
\* every message scheduled before it, but for those the outbox had no room for.
OutboxDelivers ==
  /\ \A m \in Payloads \ Sends : ran[m] <= 1
  /\ \A q \in Requests : /\ answers[q] <= 1
                         /\ outClosed /\ reply[q] # "none" => answers[q] = 1
  /\ ending = "drained" =>
       \A m \in Sends : making[m] = "scheduled" => \E k \in DOMAIN sent : sent[k] = m

=============================================================================
