---------------------------- MODULE SessionJournal ----------------------------
(***************************************************************************)
(* What a session says of itself: the journal of its moves with the series  *)
(* that follow them, and the statistics of what it sent and received.  The  *)
(* two share no state; a reader of one may be held against the other.       *)
(***************************************************************************)
EXTENDS EventStream, SessionStats

\* What the runtime says of itself adds up: a subscriber's mirror is the
\* journal's, the series follow the moves, readings add up over their session
\* and counters follow the wire (event_stream.py, metrics/session.py,
\* runtime_stats.py, webrtc/metrics.py).
JournalIsExact == MirrorIsExact /\ SeriesAreTrue /\ ReadingsAddUp /\ CountersFollowTheWire
===============================================================================
