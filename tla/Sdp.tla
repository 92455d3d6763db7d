-------------------------------- MODULE Sdp --------------------------------
(***************************************************************************)
(* The negotiation of one WebRTC peer (transport/webrtc/peer.py) and the   *)
(* rewriting of descriptions it rests on (transport/webrtc/sdp.py): the    *)
(* offer is cleared of payload-type collisions, the answer carries the     *)
(* candidates gathered so far, and a pause re-applies the negotiated       *)
(* descriptions with one section's direction changed.                      *)
(*                                                                         *)
(* A description is its version and its m-sections.  A section keeps its   *)
(* mid, whether the BUNDLE group names it, its payload types (each with    *)
(* the apt of an RTX codec, 0 for any other codec), its direction ("none"  *)
(* when it has no direction line), its candidate lines and whether they    *)
(* end with end-of-candidates.                                             *)
(***************************************************************************)
EXTENDS Naturals, Sequences, FiniteSets

CONSTANTS
    Offers,         \* the sections of the offers a client may send
    OutMids,        \* the mids of the tracks the model sends on
    MaxCandidates,  \* bound: candidates gathered
    MaxPauses       \* bound: pauses and resumes

VARIABLES
    clientOffer,    \* the offer, as the client sent it
    offerSdp,       \* _offer_sdp, once deduplicated
    answerSdp,      \* _answer_sdp, as the engine created it
    nego,           \* where negotiation is
    gathering,      \* the engine's candidates: [done, found]
    replied,        \* the answer returned to the client
    pausedMids,     \* _paused_tracks
    appliedMids,    \* _applied_pauses
    renegotiations, \* _renegotiations
    local,          \* the local description the engine has
    asked           \* pauses and resumes so far

sdpVars == <<clientOffer, offerSdp, answerSdp, nego, gathering, replied, pausedMids,
             appliedMids, renegotiations, local, asked>>

Described(version, sections) == [version |-> version, sections |-> sections]
Nowhere == Described(0, <<>>)
Sections(d) == DOMAIN d.sections

-----------------------------------------------------------------------------
(* sdp.py *)

RtxApts(s) == {pt \in DOMAIN s.codecs : s.codecs[pt] # 0}

\* The first bundled section that claims an RTX payload type.
FirstClaim(sections, pt) ==
    LET Claims == {i \in DOMAIN sections : sections[i].bundled /\ pt \in RtxApts(sections[i])}
    IN  sections[CHOOSE i \in Claims : \A j \in Claims : i <= j].codecs[pt]

StripPayloadTypes(s, bad) ==
    [s EXCEPT !.codecs = [pt \in DOMAIN @ \ bad |-> @[pt]]]

\* Faulty: a section is compared with the last claim, not the first.
DeduplicateLastWins(sections) ==
    LET LastClaim(pt) ==
            LET Claims == {i \in DOMAIN sections :
                             sections[i].bundled /\ pt \in RtxApts(sections[i])}
            IN  sections[CHOOSE i \in Claims : \A j \in Claims : i >= j].codecs[pt]
    IN  [i \in DOMAIN sections |->
            LET s == sections[i]
            IN  IF ~s.bundled THEN s
                ELSE StripPayloadTypes(s, {pt \in RtxApts(s) : LastClaim(pt) # s.codecs[pt]})]

DeduplicateBundlePts(sections) ==
    [i \in DOMAIN sections |->
        LET s == sections[i]
            conflicting == {pt \in RtxApts(s) : FirstClaim(sections, pt) # s.codecs[pt]}
        IN  IF s.bundled THEN StripPayloadTypes(s, conflicting) ELSE s]

\* Candidates are <<m-line, candidate>>; m-line 0 is one the engine did not tag.
EmbedIceCandidates(d, candidates) ==
    [d EXCEPT !.sections = [i \in DOMAIN @ |->
        LET mine == SelectSeq(candidates, LAMBDA c : c[1] = i)
        IN  [@[i] EXCEPT !.cands = [k \in DOMAIN mine |-> mine[k][2]], !.ended = mine # <<>>]]]

\* Faulty: every section with a direction of its own is rewritten.
SetEveryDirection(d, mid, direction) ==
    [d EXCEPT !.sections = [i \in DOMAIN @ |->
        IF @[i].mid = mid \/ @[i].dir = "sendonly"
          THEN [@[i] EXCEPT !.dir = direction] ELSE @[i]]]

SetMediaDirection(d, mid, direction) ==
    LET Carries == {i \in Sections(d) : d.sections[i].mid = mid}
        first == CHOOSE i \in Carries : \A j \in Carries : i <= j
    IN  IF Carries = {} THEN d ELSE [d EXCEPT !.sections[first].dir = direction]

BumpSessionVersion(d, by) == [d EXCEPT !.version = @ + by]

-----------------------------------------------------------------------------
(* Negotiation *)

\* The answer the engine creates for an accepted offer (external): a section
\* for each of the offer's, sending on the transceivers _attach_out_tracks set
\* send-only.
EngineAnswer(d) ==
    Described(1, [i \in Sections(d) |->
        [d.sections[i] EXCEPT !.dir = IF d.sections[i].mid \in OutMids
                                        THEN "sendonly" ELSE "recvonly"]])

NegotiateOffer ==
    /\ nego = "offered"
    /\ offerSdp' = Described(1, DeduplicateBundlePts(clientOffer))
    /\ nego' = "attaching"
    /\ UNCHANGED <<clientOffer, answerSdp, gathering, replied, pausedMids, appliedMids,
                   renegotiations, local, asked>>

\* Setting the local description starts gathering; every outbound track is
\* described as sending.
AttachAndAnswer ==
    /\ nego = "attaching"
    /\ answerSdp' = EngineAnswer(offerSdp)
    /\ local' = answerSdp'
    /\ appliedMids' = {}
    /\ nego' = "gathering"
    /\ UNCHANGED <<clientOffer, offerSdp, gathering, replied, pausedMids, renegotiations, asked>>

OnIceCandidate(mline) ==
    /\ nego \in {"gathering", "open"} /\ ~gathering.done
    /\ Len(gathering.found) < MaxCandidates
    /\ gathering' = [gathering EXCEPT !.found = Append(@, <<mline, Len(@) + 1>>)]
    /\ UNCHANGED <<clientOffer, offerSdp, answerSdp, nego, replied, pausedMids, appliedMids,
                   renegotiations, local, asked>>

OnIceGatheringChange ==
    /\ nego \in {"gathering", "open"} /\ ~gathering.done
    /\ gathering' = [gathering EXCEPT !.done = TRUE]
    /\ UNCHANGED <<clientOffer, offerSdp, answerSdp, nego, replied, pausedMids, appliedMids,
                   renegotiations, local, asked>>

\* Gathering is done, or its timeout passed: the answer goes out with what was
\* found, and every outbound track starts paused.
Negotiated ==
    /\ nego = "gathering"
    /\ replied' = EmbedIceCandidates(answerSdp, gathering.found)
    /\ pausedMids' = OutMids
    /\ nego' = "open"
    /\ UNCHANGED <<clientOffer, offerSdp, answerSdp, gathering, appliedMids, renegotiations,
                   local, asked>>

\* _raise_if_stopped and the checks of _apply_pauses: nothing more is applied.
StopPeer ==
    /\ nego # "stopped"
    /\ nego' = "stopped"
    /\ UNCHANGED <<clientOffer, offerSdp, answerSdp, gathering, replied, pausedMids, appliedMids,
                   renegotiations, local, asked>>

PauseTrack(mid) ==
    /\ nego = "open" /\ asked < MaxPauses
    /\ asked' = asked + 1
    /\ pausedMids' = IF mid \in pausedMids THEN pausedMids \ {mid} ELSE pausedMids \cup {mid}
    /\ UNCHANGED <<clientOffer, offerSdp, answerSdp, nego, gathering, replied, appliedMids,
                   renegotiations, local>>

\* Every outbound section is written on every pass, from the negotiated
\* description.
RECURSIVE Rewrite(_, _)
Rewrite(d, mids) ==
    IF mids = {} THEN d
    ELSE LET mid == CHOOSE x \in mids : TRUE
         IN  Rewrite(SetMediaDirection(d, mid, IF mid \in pausedMids THEN "inactive" ELSE "sendonly"),
                     mids \ {mid})

\* A pass that the engine takes, or one that raises: the count of passes
\* moves either way.
ApplyPauses(taken) ==
    /\ nego = "open"
    /\ pausedMids # appliedMids
    /\ taken \/ renegotiations < MaxPauses
    /\ renegotiations' = renegotiations + 1
    /\ local' = IF taken THEN Rewrite(BumpSessionVersion(answerSdp, renegotiations'), OutMids)
                ELSE local
    /\ appliedMids' = IF taken THEN pausedMids ELSE appliedMids
    /\ UNCHANGED <<clientOffer, offerSdp, answerSdp, nego, gathering, replied, pausedMids, asked>>

-----------------------------------------------------------------------------
SdpInit ==
    /\ clientOffer \in Offers
    /\ offerSdp = Nowhere /\ answerSdp = Nowhere /\ replied = Nowhere /\ local = Nowhere
    /\ nego = "offered"
    /\ gathering = [done |-> FALSE, found |-> <<>>]
    /\ pausedMids = {} /\ appliedMids = {} /\ renegotiations = 0 /\ asked = 0

SdpNext ==
    \/ NegotiateOffer
    \/ AttachAndAnswer
    \/ \E mline \in 0 .. Len(clientOffer) : OnIceCandidate(mline)
    \/ OnIceGatheringChange
    \/ Negotiated
    \/ StopPeer
    \/ \E mid \in OutMids : PauseTrack(mid)
    \/ \E taken \in BOOLEAN : ApplyPauses(taken)

SdpSpec == SdpInit /\ [][SdpNext]_sdpVars

-----------------------------------------------------------------------------
(* Properties *)

\* The description handed to the media engine has no RTX collision inside the
\* BUNDLE group, keeps every payload type that collides with none sent before
\* it, and leaves the sections outside the group alone
\* (deduplicate_bundle_pts).
OfferIsCleared ==
    offerSdp # Nowhere =>
        \A i \in Sections(offerSdp) :
            LET asSent == clientOffer[i]
                kept == offerSdp.sections[i]
                Contested(pt) == \E j \in 1 .. i - 1 :
                    /\ clientOffer[j].bundled /\ pt \in RtxApts(clientOffer[j])
                    /\ clientOffer[j].codecs[pt] # asSent.codecs[pt]
            IN  /\ ~asSent.bundled => kept = asSent
                /\ \A pt \in DOMAIN asSent.codecs \ DOMAIN kept.codecs :
                        pt \in RtxApts(asSent) /\ Contested(pt)
                /\ \A j \in Sections(offerSdp), pt \in RtxApts(kept) :
                        /\ kept.bundled /\ offerSdp.sections[j].bundled
                        /\ pt \in RtxApts(offerSdp.sections[j])
                        => offerSdp.sections[j].codecs[pt] = kept.codecs[pt]

\* Whatever sequence of pauses, resumes and failed passes came before, the
\* engine's description says inactive for exactly the tracks the applied
\* pauses name, every other section is as negotiated, and nothing else moved
\* (_apply_pauses).
DirectionsFollowPauses ==
    nego = "open" =>
        \A i \in Sections(local) :
            local.sections[i] =
                IF local.sections[i].mid \in appliedMids
                  THEN [answerSdp.sections[i] EXCEPT !.dir = "inactive"]
                  ELSE answerSdp.sections[i]

\* All of it, and a description the engine is given again is never an older
\* one or a duplicate: its version is above the last one's
\* (bump_session_version).
NegotiationIsSound ==
    [][/\ OfferIsCleared' /\ DirectionsFollowPauses'
       /\ local' # local => local'.version > local.version]_sdpVars

=============================================================================
