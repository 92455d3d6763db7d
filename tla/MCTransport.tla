------------------------------ MODULE MCTransport ------------------------------
(***************************************************************************)
(* The parts of a WebRTC connection, and a room's media, side by side.     *)
(* They share no state here, so each behaviour runs one of them, its       *)
(* focus, and the others stay where they start.                            *)
(***************************************************************************)
EXTENDS WirePeer, MediaPath, TrackPauses, RoomMedia, Sdp, TLC

VARIABLE focus

transportVars == <<wireVars, mediaVars, pauseVars, roomMediaVars, sdpVars, focus>>

\* An offer's section: its payload types, each with the apt of an RTX codec.
Section(mid, bundled, codecs) ==
  [mid |-> mid, bundled |-> bundled, codecs |-> codecs, dir |-> "none", cands |-> <<>>,
   ended |-> FALSE]

Codecs == {96 :> 0, (96 :> 0) @@ (97 :> 96), (98 :> 0) @@ (97 :> 98), (97 :> 0)}

ClientOffers ==
  {<<Section("in", TRUE, a), Section("v", b, c), Section("w", TRUE, d)>> :
     a \in Codecs, b \in BOOLEAN, c \in Codecs, d \in Codecs}

\* Only a behaviour about negotiation has an offer to choose.
TransportInit ==
  /\ focus \in {"wire", "media", "pauses", "room", "sdp"}
  /\ WireInit /\ MediaInit /\ PausesInit /\ RoomMediaInit /\ SdpInit
  /\ focus # "sdp" => clientOffer = CHOOSE o \in Offers : TRUE

TransportNext ==
  /\ UNCHANGED focus
  /\ \/ focus = "wire"   /\ WireNext      /\ UNCHANGED <<mediaVars, pauseVars, roomMediaVars, sdpVars>>
     \/ focus = "media"  /\ MediaNext     /\ UNCHANGED <<wireVars, pauseVars, roomMediaVars, sdpVars>>
     \/ focus = "pauses" /\ PausesNext    /\ UNCHANGED <<wireVars, mediaVars, roomMediaVars, sdpVars>>
     \/ focus = "room"   /\ RoomMediaNext /\ UNCHANGED <<wireVars, mediaVars, pauseVars, sdpVars>>
     \/ focus = "sdp"    /\ SdpNext       /\ UNCHANGED <<wireVars, mediaVars, pauseVars, roomMediaVars>>

TransportSpec == TransportInit /\ [][TransportNext]_transportVars /\ MediaFairness
===============================================================================
