-------------------------------- MODULE ShmLink --------------------------------
(***************************************************************************)
(* One slot's links between its session runtime and the model server       *)
(* (model_server/shm_link.py), with the blocks both ends keep in the       *)
(* slot's shared-memory directory (ipc/blocks.py, slot.py, payload.py) and *)
(* the client that uses them (model_server/client.py).                     *)
(*                                                                         *)
(* A link is a number.  Its session end and its server end run on their    *)
(* own threads in two processes, and either process may be killed: its     *)
(* sockets close and its files stay.  A block's name is never reused, so   *)
(* its pages outlive its file for whoever maps it.                         *)
(***************************************************************************)
EXTENDS Naturals, Sequences, SequencesExt, FiniteSets, FiniteSetsExt

CONSTANTS InputPages,    \* pages of a request block
          OutputPages,   \* pages of an output block
          MaxLinks,      \* bound: links opened
          MaxShmSteps,      \* bound: steps sent
          MaxFaults       \* bound: processes killed and cancels without room

ASSUME ShmAssumption ==
  {InputPages, OutputPages} \subseteq Nat \ {0} /\ {MaxLinks, MaxShmSteps, MaxFaults} \subseteq Nat

LinkIds == 1..MaxLinks

VARIABLES
  files,      \* the blocks in the slot's directory
  pages,      \* the step whose arrays each block holds, by block
  sess,       \* the session's end of each link
  block,      \* _writer of the session's end
  retired,    \* _retired of the session's end, as a set
  rotations,  \* _rotations
  srv,        \* the model server's end of each link
  probeSet,   \* the server's end knows its probe (_probe)
  letGo,   \* the server's end let its blocks go (_released)
  mapped,     \* the request block the server's reader maps, as a set
  slotLock,   \* the link whose set-up holds the slot's lock, or 0
  slotHeld,   \* UnixShmTransport._held, or 0
  previous,   \* the link a set-up is about to release, or 0
  toServer,   \* frames to the server
  toSession,  \* frames to the session
  running,    \* the steps the model server runs for each link
  replies,    \* answers the connection's writer has not sent
  awaited,    \* the request the client waits for, 0 for none
  sentSteps,  \* steps sent
  faults,     \* kills and failed allocations
  taken,      \* [of, read]: the arrays the model received for a step
  kept,       \* [of, read]: the arrays the client accepted for a step
  unsent,     \* steps whose cancel could not be sent: its new block had no room
  robbed      \* links whose blocks a set-up released while their session was up

sessVars == <<sess, block, retired, rotations, awaited, unsent>>
srvVars  == <<srv, probeSet, letGo, mapped, slotLock, slotHeld, previous, running, replies, robbed>>
shmVars  == <<files, pages, sessVars, srvVars, toServer, toSession, sentSteps, faults, taken, kept>>

Request(l, r) == [kind |-> "request", link |-> l, turn |-> r]
Output(l)     == [kind |-> "output", link |-> l, turn |-> 0]
Probe(l)      == [kind |-> "probe", link |-> l, turn |-> 0]
OfSession(f)  == f.kind = "request"
Up(l)         == sess[l] \in {"hello", "probed", "open"}

\* A new block's pages are zero.
Zeroed(f) == [g \in DOMAIN pages \cup {f} |-> IF g \in DOMAIN pages THEN pages[g] ELSE 0]

ShmInit ==
  /\ files = {} /\ pages = << >>
  /\ sess = [l \in LinkIds |-> "none"] /\ block = [l \in LinkIds |-> Request(l, 0)]
  /\ retired = [l \in LinkIds |-> {}] /\ rotations = [l \in LinkIds |-> 0]
  /\ srv = [l \in LinkIds |-> "none"] /\ probeSet = {} /\ letGo = {}
  /\ mapped = [l \in LinkIds |-> {}] /\ slotLock = 0 /\ slotHeld = 0 /\ previous = 0
  /\ toServer = [l \in LinkIds |-> <<>>] /\ toSession = [l \in LinkIds |-> <<>>]
  /\ running = [l \in LinkIds |-> <<>>] /\ replies = [l \in LinkIds |-> <<>>]
  /\ awaited = 0 /\ sentSteps = 0 /\ faults = 0 /\ taken = {} /\ kept = {} /\ robbed = {} /\ unsent = {}

-------------------------------------------------------------------------------
\* The session's end.

\* connect up to the handshake: the request blocks of a previous run go first.
OpenLink(l) ==
  /\ \A k \in LinkIds : ~Up(k) /\ (k < l => sess[k] # "none") /\ (k >= l => sess[k] = "none")
  /\ sess' = [sess EXCEPT ![l] = "hello"]
  /\ files' = {f \in files : ~OfSession(f)}
  /\ UNCHANGED <<pages, block, retired, rotations, awaited, unsent, srvVars, toServer, toSession, sentSteps, faults,
                 taken, kept>>

\* _handshake: the probe is read and removed.  A probe that is not there fails
\* the connect for good.
ReadProbe(l) ==
  /\ sess[l] = "hello" /\ toSession[l] # <<>>
  /\ toSession' = [toSession EXCEPT ![l] = Tail(@)]
  /\ sess' = [sess EXCEPT ![l] = IF Probe(l) \in files THEN "probed" ELSE "closed"]
  /\ files' = files \ {Probe(l)}
  /\ UNCHANGED <<pages, block, retired, rotations, awaited, unsent, srvVars, toServer, sentSteps, faults, taken, kept>>

\* connect again: the request block, of the size the server announced.  With
\* no room for it the connect fails for good.
AllocateRequest(l) ==
  /\ sess[l] = "probed"
  /\ \/ /\ sess' = [sess EXCEPT ![l] = "open"]
        /\ files' = files \cup {block[l]} /\ pages' = Zeroed(block[l])
     \/ sess' = [sess EXCEPT ![l] = "closed"] /\ UNCHANGED <<files, pages>>
  /\ UNCHANGED <<block, retired, rotations, awaited, unsent, srvVars, toServer, toSession, sentSteps, faults, taken,
                 kept>>

\* The connect's time ran out, or the session closes its link: close and
\* release_blocks.
SessionCloses(l) ==
  /\ Up(l)
  /\ sess' = [sess EXCEPT ![l] = "closed"] /\ awaited' = 0
  /\ files' = files \ ({block[l]} \cup retired[l])
  /\ UNCHANGED <<pages, block, retired, rotations, unsent, srvVars, toServer, toSession, sentSteps, faults, taken, kept>>

SessionKilled(l) ==
  /\ Up(l) /\ faults < MaxFaults /\ faults' = faults + 1
  /\ sess' = [sess EXCEPT ![l] = "closed"] /\ awaited' = 0
  /\ UNCHANGED <<files, pages, block, retired, rotations, unsent, srvVars, toServer, toSession, sentSteps, taken, kept>>

\* ModelClient.step and ShmLink.send: the arrays go into the block, the header
\* onto the socket.
SendArrays(l) ==
  /\ sess[l] = "open" /\ awaited = 0 /\ sentSteps < MaxShmSteps
  /\ sentSteps' = sentSteps + 1 /\ awaited' = sentSteps + 1
  /\ pages' = [pages EXCEPT ![block[l]] = sentSteps + 1]
  /\ toServer' = [toServer EXCEPT ![l] = Append(@, [is |-> "step", of |-> sentSteps + 1, in |-> block[l]])]
  /\ UNCHANGED <<files, sess, block, retired, rotations, unsent, srvVars, toSession, faults, taken, kept>>

\* Faulty: the block of the step given up is used for the next one.
SendCancelInPlace(l) ==
  /\ sess[l] = "open" /\ awaited # 0
  /\ toServer' = [toServer EXCEPT ![l] = Append(@, [is |-> "cancel", of |-> awaited, in |-> block[l]])]
  /\ awaited' = 0
  /\ UNCHANGED <<files, pages, sess, block, retired, rotations, unsent, srvVars, toSession, sentSteps,
                 faults, taken, kept>>

\* Faulty: the block retired by an earlier cancel is not let go.
SendCancelKeepsRetired(l) ==
  /\ sess[l] = "open" /\ awaited # 0
  /\ LET fresh == Request(l, rotations[l] + 1)
     IN  /\ rotations' = [rotations EXCEPT ![l] = @ + 1]
         /\ files' = files \cup {fresh} /\ pages' = Zeroed(fresh)
         /\ block' = [block EXCEPT ![l] = fresh] /\ retired' = [retired EXCEPT ![l] = {block[l]}]
  /\ toServer' = [toServer EXCEPT ![l] = Append(@, [is |-> "cancel", of |-> awaited, in |-> block[l]])]
  /\ awaited' = 0
  /\ UNCHANGED <<sess, unsent, srvVars, toSession, sentSteps, faults, taken, kept>>

\* A step timed out: _send_cancel lets the retired block go, moves to a fresh
\* one and keeps the one in use as retired.
SendCancel(l) ==
  /\ sess[l] = "open" /\ awaited # 0
  /\ LET fresh == Request(l, rotations[l] + 1)
     IN  /\ rotations' = [rotations EXCEPT ![l] = @ + 1]
         /\ files' = (files \ retired[l]) \cup {fresh}
         /\ pages' = Zeroed(fresh)
         /\ block' = [block EXCEPT ![l] = fresh] /\ retired' = [retired EXCEPT ![l] = {block[l]}]
  /\ toServer' = [toServer EXCEPT ![l] = Append(@, [is |-> "cancel", of |-> awaited, in |-> block[l]])]
  /\ awaited' = 0
  /\ UNCHANGED <<sess, unsent, srvVars, toSession, sentSteps, faults, taken, kept>>

\* The same with no room for the fresh block: the retired one is gone, and the
\* cancel is not sent.
CancelFails(l) ==
  /\ sess[l] = "open" /\ awaited # 0 /\ faults < MaxFaults
  /\ faults' = faults + 1 /\ unsent' = unsent \cup {awaited} /\ awaited' = 0
  /\ rotations' = [rotations EXCEPT ![l] = @ + 1]
  /\ files' = files \ retired[l] /\ retired' = [retired EXCEPT ![l] = {}]
  /\ UNCHANGED <<pages, sess, block, srvVars, toServer, toSession, sentSteps, taken, kept>>

\* ModelClient._read: an answer to any request but the one waited for is
\* dropped.
ReadResult(l) ==
  /\ sess[l] = "open" /\ toSession[l] # <<>>
  /\ toSession' = [toSession EXCEPT ![l] = Tail(@)]
  /\ IF Head(toSession[l]) = awaited
     THEN kept' = kept \cup {[of |-> awaited, read |-> pages[Output(l)]]} /\ awaited' = 0
     ELSE UNCHANGED <<kept, awaited>>
  /\ UNCHANGED <<files, pages, sess, block, retired, rotations, unsent, srvVars, toServer, sentSteps, faults, taken>>

\* _lose: the server's end closed
LinkLost(l) ==
  /\ Up(l) /\ srv[l] = "over" /\ toSession[l] = <<>>
  /\ sess' = [sess EXCEPT ![l] = "closed"] /\ awaited' = 0
  /\ files' = files \ ({block[l]} \cup retired[l])
  /\ UNCHANGED <<pages, block, retired, rotations, unsent, srvVars, toServer, toSession, sentSteps, faults, taken, kept>>

-------------------------------------------------------------------------------
\* The model server's end, one reader thread per link.

\* What release_blocks removes for a link: its output block, its probe once it
\* is known, and every request block its session named.
Owned(l) ==
  {f \in files : f.link = l /\ (f.kind # "probe" \/ l \in probeSet)}

\* _set_up: the slot's lock, and the claim under it
ClaimSlot(l) ==
  /\ srv[l] = "none" /\ sess[l] # "none" /\ slotLock = 0
  /\ srv' = [srv EXCEPT ![l] = "claimed"] /\ slotLock' = l
  /\ previous' = slotHeld /\ slotHeld' = l
  /\ UNCHANGED <<files, pages, sessVars, probeSet, letGo, mapped, running, replies, robbed, toServer,
                 toSession, sentSteps, faults, taken, kept>>

\* _set_up: the previous link's release_blocks, then this link's output block
\* and probe, or a refusal where there is no room for them
ReleasePrevious(l) ==
  /\ srv[l] = "claimed" /\ previous # 0
  /\ files' = files \ Owned(previous)
  /\ letGo' = letGo \cup {previous} /\ probeSet' = probeSet \ {previous}
  /\ robbed' = IF Up(previous) THEN robbed \cup {previous} ELSE robbed
  /\ mapped' = [mapped EXCEPT ![previous] = {}] /\ previous' = 0
  /\ UNCHANGED <<pages, sessVars, srv, slotLock, slotHeld, running, replies, toServer, toSession, sentSteps, faults,
                 taken, kept>>

AllocateOutput(l) ==
  /\ srv[l] = "claimed" /\ previous = 0 /\ slotLock' = 0
  /\ \/ /\ srv' = [srv EXCEPT ![l] = "allocated"]
        /\ files' = files \cup {Output(l), Probe(l)}
        /\ pages' = Zeroed(Output(l))
     \/ srv' = [srv EXCEPT ![l] = "refused"] /\ UNCHANGED <<files, pages>>
  /\ UNCHANGED <<sessVars, probeSet, letGo, mapped, slotHeld, previous, running, replies, robbed, toServer,
                 toSession, sentSteps, faults, taken, kept>>

\* _set_up, past the lock: the probe is noted and the answer sent.
AnnounceProbe(l) ==
  /\ srv[l] = "allocated" /\ srv' = [srv EXCEPT ![l] = "serving"]
  /\ probeSet' = probeSet \cup {l}
  /\ toSession' = [toSession EXCEPT ![l] = Append(@, 0)]
  /\ UNCHANGED <<files, pages, sessVars, letGo, mapped, slotLock, slotHeld, previous, running, replies,
                 robbed, toServer, sentSteps, faults, taken, kept>>

\* The reader, once its link is closed or released: release_blocks, and the
\* connection leaves.
LeaveSlot(l) ==
  /\ srv' = [srv EXCEPT ![l] = "over"] /\ files' = files \ Owned(l)
  /\ letGo' = letGo \cup {l} /\ probeSet' = probeSet \ {l}
  /\ slotHeld' = IF slotHeld = l THEN 0 ELSE slotHeld
  /\ running' = [running EXCEPT ![l] = <<>>] /\ replies' = [replies EXCEPT ![l] = <<>>]
  /\ mapped' = [mapped EXCEPT ![l] = {}]
  /\ UNCHANGED <<pages, sessVars, slotLock, previous, robbed, toServer, toSession, sentSteps, faults, taken,
                 kept>>

ServerSeesEnd(l) ==
  /\ \/ srv[l] = "refused"
     \/ srv[l] = "serving" /\ toServer[l] = <<>> /\ sess[l] = "closed"
     \/ srv[l] = "serving" /\ toServer[l] # <<>> /\ l \in letGo
  /\ LeaveSlot(l)

\* The server's step n is given up: it is taken out of the steps s, if it is there.
Cancelled(s, n) ==
  IF \A k \in DOMAIN s : s[k] # n THEN s
  ELSE LET k == CHOOSE k \in DOMAIN s : s[k] = n
       IN  [i \in 1 .. Len(s) - 1 |-> IF i < k THEN s[i] ELSE s[i + 1]]

\* receive: the first frame removes the probe; a step's arrays are copied out
\* of its block, and a step whose block is gone is skipped.
ReceiveStep(l) ==
  LET m == Head(toServer[l])
      here == m.in \in files \/ m.in \in mapped[l]
  IN  /\ srv[l] = "serving" /\ toServer[l] # <<>> /\ l \notin letGo
      /\ toServer' = [toServer EXCEPT ![l] = Tail(@)]
      /\ files' = IF l \in probeSet THEN files \ {Probe(l)} ELSE files
      /\ probeSet' = probeSet \ {l}
      /\ \/ /\ m.is = "cancel"
            /\ running' = [running EXCEPT ![l] = Cancelled(@, m.of)]
            /\ UNCHANGED <<mapped, taken>>
         \/ /\ m.is = "step" /\ here
            /\ mapped' = [mapped EXCEPT ![l] = {m.in}]
            /\ taken' = taken \cup {[of |-> m.of, read |-> pages[m.in]]}
            /\ running' = [running EXCEPT ![l] = Append(@, m.of)]
         \/ /\ m.is = "step" /\ ~here
            /\ mapped' = [mapped EXCEPT ![l] = {}] /\ UNCHANGED <<running, taken>>
      /\ UNCHANGED <<pages, sessVars, srv, letGo, slotLock, slotHeld, previous, replies, robbed, toSession,
                     sentSteps, faults, kept>>

\* The model replies a step; the connection's writer packs and sends it.
AnswerStep(l) ==
  /\ srv[l] = "serving" /\ running[l] # <<>>
  /\ running' = [running EXCEPT ![l] = Tail(@)] /\ replies' = [replies EXCEPT ![l] = Append(@, Head(running[l]))]
  /\ UNCHANGED <<files, pages, sessVars, srv, probeSet, letGo, mapped, slotLock, slotHeld, previous, robbed,
                 toServer, toSession, sentSteps, faults, taken, kept>>

SendResult(l) ==
  /\ srv[l] = "serving" /\ replies[l] # <<>> /\ l \notin letGo
  /\ replies' = [replies EXCEPT ![l] = Tail(@)]
  /\ pages' = [pages EXCEPT ![Output(l)] = Head(replies[l])]
  /\ toSession' = [toSession EXCEPT ![l] = Append(@, Head(replies[l]))]
  /\ UNCHANGED <<files, sessVars, srv, probeSet, letGo, mapped, slotLock, slotHeld, previous, running, robbed,
                 toServer, sentSteps, faults, taken, kept>>

\* The model server is killed; its next run reclaims the output blocks before
\* it listens.
ServerKilled ==
  /\ faults < MaxFaults /\ faults' = faults + 1
  /\ \E l \in LinkIds : srv[l] \notin {"none", "over"}
  /\ srv' = [l \in LinkIds |-> IF sess[l] = "none" THEN "none" ELSE "over"]
  /\ files' = {f \in files : OfSession(f)}
  /\ slotLock' = 0 /\ slotHeld' = 0 /\ previous' = 0
  /\ running' = [l \in LinkIds |-> <<>>] /\ replies' = [l \in LinkIds |-> <<>>]
  /\ mapped' = [l \in LinkIds |-> {}] /\ probeSet' = {}
  /\ UNCHANGED <<pages, sessVars, letGo, robbed, toServer, toSession, sentSteps, taken, kept>>

ShmNext ==
  \/ \E l \in LinkIds :
       \/ OpenLink(l) \/ ReadProbe(l) \/ AllocateRequest(l) \/ SessionCloses(l) \/ SessionKilled(l)
       \/ SendArrays(l) \/ SendCancel(l) \/ CancelFails(l) \/ ReadResult(l) \/ LinkLost(l)
       \/ ClaimSlot(l) \/ ReleasePrevious(l) \/ AllocateOutput(l) \/ AnnounceProbe(l) \/ ServerSeesEnd(l)
       \/ ReceiveStep(l) \/ AnswerStep(l) \/ SendResult(l)
  \/ ServerKilled

ShmSpec == ShmInit /\ [][ShmNext]_shmVars

-------------------------------------------------------------------------------
\* The pages the slot's volume holds: a block's stay while a process maps it,
\* whether or not its file is still there.
SlotHeld == files \cup UNION {mapped[l] : l \in LinkIds}
Size(f) == CASE f.kind = "request" -> InputPages [] f.kind = "output" -> OutputPages [] OTHER -> 1

\* "A slot's directory therefore holds at most two request blocks and one
\* output block" (shm_link.py:58): across cancels, reconnects and the death of
\* either process, with what the dead one left.
SlotHoldsItsBlocks ==
  /\ Cardinality({f \in files : f.kind = "request"}) <= 2
  /\ Cardinality({f \in files : f.kind = "output"}) <= 1

\* Every step runs on the arrays its session wrote for it, though both ends
\* reuse one block per direction without an acknowledgement, unless its own
\* cancel found no room; and the client accepts a result only with the arrays
\* the model returned for that step (shm_link.py:18).
ArraysIntact ==
  /\ \A got \in taken : got.read = got.of \/ got.of \in unsent
  /\ \A got \in kept : got.read = got.of

\* A session and the model server share a slot: it holds no more blocks than it
\* may, and every step runs on its own arrays (shm_link.py).
LinkHolds == SlotHoldsItsBlocks /\ ArraysIntact

\* The pages of two request blocks and one output block are "the size a
\* deployment gives each slot's volume" (shm_link.py:60): they are enough for
\* every block the two ends hold.
SlotFits == MapThenSumSet(Size, SlotHeld) <= 2 * InputPages + OutputPages

\* "A slot belongs to one session: a new link for it means the previous one's
\* session is gone" (shm_link.py:425).
PreviousIsGone == robbed = {}
===============================================================================
