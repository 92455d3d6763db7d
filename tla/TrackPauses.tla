------------------------------ MODULE TrackPauses ------------------------------
(***************************************************************************)
(* Pausing and resuming a peer's outbound tracks (transport/webrtc/peer.py, *)
(* resume_track to _restate_out_tracks).  A request changes the pause set   *)
(* and makes sure the peer's one applier task runs; the applier             *)
(* renegotiates, which takes several awaits and may fail in any of them.    *)
(* External: the media engine, which keeps each transceiver's direction.    *)
(***************************************************************************)
EXTENDS Naturals, FiniteSets

CONSTANTS OutTracks,     \* the outbound tracks
          Requesters,    \* threads that ask for a pause or a resume
          MaxRequests,   \* bound: requests made
          MaxFailures    \* bound: renegotiations that fail

ASSUME PausesAssumption == {MaxRequests, MaxFailures} \subseteq Nat

VARIABLES
  paused,      \* _paused_tracks
  changed,     \* _pauses_changed
  running,     \* _pauses_applier_running
  request,     \* per thread: "idle", "marking" once the set changed, "starting"
  applier,     \* the applier tasks: how many are due, and where the running one is
  pass,        \* what the running pass applies, and the tracks it has not restated yet
  applied,     \* _applied_pauses
  inactive,    \* the tracks whose transceiver the engine holds inactive
  halfway,     \* a renegotiation failed since the last that succeeded
  wireStopped, \* _stop_event
  requests, failures

pauseVars == <<paused, changed, running, request, applier, pass, applied, inactive, halfway,
               wireStopped, requests, failures>>

PausesInit ==
  /\ paused = {} /\ changed = FALSE /\ running = FALSE
  /\ request = [r \in Requesters |-> "idle"] /\ applier = "none" /\ pass = [of |-> {}, left |-> {}]
  /\ applied = {} /\ inactive = {} /\ halfway = FALSE /\ wireStopped = FALSE
  /\ requests = 0 /\ failures = 0

\* resume_track and pause_track up to the lock; the last step of negotiation
\* pauses every outbound track through the same call.
Request(r, t) ==
  /\ request[r] = "idle" /\ requests < MaxRequests
  /\ requests' = requests + 1
  /\ \/ paused' = paused \cup {t}
     \/ paused' = paused \ {t}
  /\ request' = [request EXCEPT ![r] = "marking"]
  /\ UNCHANGED <<changed, running, applier, pass, applied, inactive, halfway, wireStopped, failures>>

\* Faulty: a request that finds the applier running leaves it to it.
ScheduleLeavesItToTheApplier(r) ==
  /\ request[r] = "marking"
  /\ \/ /\ wireStopped /\ request' = [request EXCEPT ![r] = "idle"] /\ UNCHANGED <<changed, running>>
     \/ /\ ~wireStopped /\ running' = TRUE /\ changed' = (changed \/ ~running)
        /\ request' = [request EXCEPT ![r] = IF running THEN "idle" ELSE "starting"]
  /\ UNCHANGED <<paused, applier, pass, applied, inactive, halfway, wireStopped, requests, failures>>

\* _schedule_direction under _pauses_lock
ScheduleDirection(r) ==
  /\ request[r] = "marking"
  /\ \/ /\ wireStopped /\ request' = [request EXCEPT ![r] = "idle"] /\ UNCHANGED <<changed, running>>
     \/ /\ ~wireStopped /\ changed' = TRUE /\ running' = TRUE
        /\ request' = [request EXCEPT ![r] = IF running THEN "idle" ELSE "starting"]
  /\ UNCHANGED <<paused, applier, pass, applied, inactive, halfway, wireStopped, requests, failures>>

\* the applier task the loop creates for it
ApplierStarts(r) ==
  /\ request[r] = "starting" /\ applier = "none"
  /\ request' = [request EXCEPT ![r] = "idle"] /\ applier' = "looking"
  /\ UNCHANGED <<paused, changed, running, pass, applied, inactive, halfway, wireStopped, requests,
                 failures>>

\* _apply_changed_pauses: the top of its loop, under _pauses_lock
ApplierLooks ==
  /\ applier = "looking"
  /\ IF changed THEN changed' = FALSE /\ applier' = "reading" /\ UNCHANGED running
     ELSE running' = FALSE /\ applier' = "none" /\ UNCHANGED changed
  /\ UNCHANGED <<paused, request, pass, applied, inactive, halfway, wireStopped, requests, failures>>

\* _apply_pauses: nothing to do on a stopped peer or for a set already applied
PassReads ==
  /\ applier = "reading"
  /\ IF wireStopped \/ paused = applied
     THEN applier' = "looking" /\ UNCHANGED pass
     ELSE applier' = "remote" /\ pass' = [of |-> paused, left |-> OutTracks]
  /\ UNCHANGED <<paused, changed, running, request, applied, inactive, halfway, wireStopped, requests,
                 failures>>

\* The remote description, then each transceiver, then the local description.
SetRemote ==
  /\ applier = "remote" /\ applier' = "restating"
  /\ UNCHANGED <<paused, changed, running, request, pass, applied, inactive, halfway, wireStopped,
                 requests, failures>>

Restate(t) ==
  /\ applier = "restating" /\ t \in pass.left
  /\ pass' = [pass EXCEPT !.left = @ \ {t}]
  /\ inactive' = IF t \in pass.of THEN inactive \cup {t} ELSE inactive \ {t}
  /\ UNCHANGED <<paused, changed, running, request, applier, applied, halfway, wireStopped, requests,
                 failures>>

SetLocal ==
  /\ applier = "restating" /\ pass.left = {}
  /\ applied' = pass.of /\ halfway' = FALSE /\ applier' = "looking"
  /\ UNCHANGED <<paused, changed, running, request, pass, inactive, wireStopped, requests, failures>>

\* Any of them raises: the pass is given up with a warning.
PassFails ==
  /\ applier \in {"remote", "restating"} /\ failures < MaxFailures
  /\ failures' = failures + 1 /\ halfway' = TRUE /\ applier' = "looking"
  /\ UNCHANGED <<paused, changed, running, request, pass, applied, inactive, wireStopped, requests>>

WireStops ==
  /\ ~wireStopped /\ wireStopped' = TRUE
  /\ UNCHANGED <<paused, changed, running, request, applier, pass, applied, inactive, halfway, requests,
                 failures>>

PausesNext ==
  \/ \E r \in Requesters, t \in OutTracks : Request(r, t)
  \/ \E r \in Requesters : ScheduleDirection(r) \/ ApplierStarts(r)
  \/ ApplierLooks \/ PassReads \/ SetRemote \/ SetLocal \/ PassFails \/ WireStops
  \/ \E t \in OutTracks : Restate(t)

PausesSpec == PausesInit /\ [][PausesNext]_pauseVars

-------------------------------------------------------------------------------
\* No request is lost: with no request being made, no applier running and no
\* renegotiation failed, the engine holds exactly the paused tracks inactive,
\* however requests met the applier's last look (peer.py:1465).
PausesSettle ==
  /\ (\A r \in Requesters : request[r] = "idle") /\ ~running /\ ~wireStopped /\ ~halfway
       => inactive = paused /\ applied = paused
  /\ applier # "none" => running

\* "then tracks what was actually accepted so a request that changes nothing
\* does nothing" (peer.py:506): between passes, the set recorded as applied is
\* what the engine holds.
AppliedIsHeld == applier \in {"none", "looking"} => applied = inactive
===============================================================================
