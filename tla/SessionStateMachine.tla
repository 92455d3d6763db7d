------------------------- MODULE SessionStateMachine -------------------------
(***************************************************************************)
(* The session machine of runner/state_machine.py as pure operators: the   *)
(* static edges of _TRANSITIONS, the occupancy edges resolved from the     *)
(* live-connection count, and the count itself.  A machine state is a pair *)
(* (s, n) of the session state and the count _live; an event with no edge  *)
(* resolves to Rejected and leaves the pair alone.                         *)
(***************************************************************************)
EXTENDS Integers

SessionStates == {"CREATED", "READY", "WAITING", "STREAMING",
                  "ORPHANED", "CLOSING", "TERMINATED"}

\* _CONNECTABLE, and the runner's _RUNNING_STATES: the same three states.
Connectable == {"WAITING", "ORPHANED", "STREAMING"}

JournalEvents == {"CHUNK_READY", "CLIP_READY", "COMMAND", "ERROR", "METRIC",
                  "STEP_COMPLETED", "STEP_RESULT_READY"}

StaticEvents == {"INITIALIZATION_SUCCESS", "INITIALIZATION_FAIL", "INITIALIZING",
                 "START_SESSION", "STOP_SESSION", "TIMEOUT", "CLEANUP_COMPLETE",
                 "EVICTION", "CONNECTION_ANSWERED"} \union JournalEvents

SessionEvents == StaticEvents \union {"CONNECTION_OPENED", "CONNECTION_CLOSED"}

Rejected == "rejected"

\* The events that self-loop in every state.
SelfLoops == JournalEvents \union {"CONNECTION_ANSWERED"}

\* The rest of the static table: the states an event is legal from, and the one
\* it leads to.
Transitions ==
  [INITIALIZATION_SUCCESS |-> [from |-> {"CREATED"}, to |-> "READY"],
   INITIALIZATION_FAIL    |-> [from |-> {"CREATED"}, to |-> "TERMINATED"],
   INITIALIZING           |-> [from |-> {"CREATED"}, to |-> "CREATED"],
   START_SESSION          |-> [from |-> {"READY"}, to |-> "WAITING"],
   STOP_SESSION           |-> [from |-> Connectable, to |-> "CLOSING"],
   TIMEOUT                |-> [from |-> {"WAITING", "ORPHANED"}, to |-> "CLOSING"],
   CLEANUP_COMPLETE       |-> [from |-> {"CLOSING"}, to |-> "READY"],
   EVICTION               |-> [from |-> SessionStates \ {"TERMINATED"}, to |-> "TERMINATED"]]

\* Where a connection event leads: an open from the state alone, a close from
\* the state and the count.
ResolveOpen(s) == IF s \in Connectable THEN "STREAMING" ELSE Rejected

\* Faulty: orphaned one close too late.
ResolveCloseLate(s, n) ==
  IF s # "STREAMING" THEN Rejected ELSE IF n <= 0 THEN "ORPHANED" ELSE "STREAMING"

ResolveClose(s, n) ==
  IF s # "STREAMING" THEN Rejected ELSE IF n <= 1 THEN "ORPHANED" ELSE "STREAMING"

\* Faulty: the teardown that ends after an eviction makes the session ready again.
ResolveCleanupRevives(e, s, n) ==
  IF e = "CONNECTION_OPENED" THEN ResolveOpen(s)
  ELSE IF e = "CONNECTION_CLOSED" THEN ResolveClose(s, n)
  ELSE IF e \in SelfLoops THEN s
  ELSE IF s \in Transitions[e].from \/ e = "CLEANUP_COMPLETE" THEN Transitions[e].to
  ELSE Rejected

\* _resolve: any other event is a lookup in the table.
Resolve(e, s, n) ==
  IF e = "CONNECTION_OPENED" THEN ResolveOpen(s)
  ELSE IF e = "CONNECTION_CLOSED" THEN ResolveClose(s, n)
  ELSE IF e \in SelfLoops THEN s
  ELSE IF s \in Transitions[e].from THEN Transitions[e].to ELSE Rejected

\* Faulty: a session's count outlives it.
UpdateCountKept(e, n) ==
  IF e = "CONNECTION_OPENED" THEN n + 1
  ELSE IF e = "CONNECTION_CLOSED" THEN (IF n > 0 THEN n - 1 ELSE 0)
  ELSE n

\* _update_count: up on an open, down on a close and never below zero, kept by
\* the self-loops, cleared by every other move.
UpdateCount(e, n) ==
  IF e = "CONNECTION_OPENED" THEN n + 1
  ELSE IF e = "CONNECTION_CLOSED" THEN (IF n > 0 THEN n - 1 ELSE 0)
  ELSE IF e \in SelfLoops THEN n ELSE 0

\* Faulty: an event is applied whether or not it has an edge.
LegalUnchecked(e, s, n) == TRUE

Legal(e, s, n) == Resolve(e, s, n) # Rejected
==============================================================================
