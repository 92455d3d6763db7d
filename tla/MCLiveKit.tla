------------------------------- MODULE MCLiveKit -------------------------------
(***************************************************************************)
(* The parts of the LiveKit transport side by side.  They share no state   *)
(* here, so each behaviour runs one of them, its focus, and the others     *)
(* stay where they start.                                                  *)
(***************************************************************************)
EXTENDS LiveKitRoom, LiveKitInputs, ParticipantInbox, ParticipantOutbox

VARIABLE focus

kitVars == <<roomVars, inputVars, inboxVars, outVars, focus>>

KitInit ==
  /\ focus \in {"room", "inputs", "inbox", "outbox"}
  /\ RoomInit /\ InputInit /\ InboxInit /\ OutboxInit

KitNext ==
  /\ UNCHANGED focus
  /\ \/ focus = "room"   /\ RoomNext   /\ UNCHANGED <<inputVars, inboxVars, outVars>>
     \/ focus = "inputs" /\ InputNext  /\ UNCHANGED <<roomVars, inboxVars, outVars>>
     \/ focus = "inbox"  /\ InboxNext  /\ UNCHANGED <<roomVars, inputVars, outVars>>
     \/ focus = "outbox" /\ OutboxNext /\ UNCHANGED <<roomVars, inputVars, inboxVars>>

KitSpec == KitInit /\ [][KitNext]_kitVars /\ RoomFairness

\* What comes in from the participants is sorted out: an input is fed by its
\* holder and waited for only while it is held, and messages pass in order within
\* a topic and a byte budget that is given back (media_in.py, participant.py).
InboundHolds == InputsHold /\ InboxIsExact

\* Ann publishes two microphones, Bob one and a camera.
TrackOwner  == [k \in Tracks |-> IF k \in {"ann1", "ann2"} THEN "ann" ELSE "bob"]
TrackTarget == [k \in Tracks |-> IF k = "bobcam" THEN "cam" ELSE "mic"]
===============================================================================
