-------------------------------- MODULE Uploads --------------------------------
(***************************************************************************)
(* The upload store (upload_store.py), the two requests that fill a slot     *)
(* (http/routes.py create_upload, put_upload) and the commands that read one *)
(* (runner.py _resolve_command_uploads, upload_resolution.py).  A PUT looks   *)
(* the slot up, reads its body and looks it up again; a command waits for     *)
(* the bytes of each id it names, in turn; a session's end clears the store.  *)
(*                                                                           *)
(* A body is the session its client meant it for and its length.  A minted id *)
(* is reserved once; one the client chose can be reserved in every session.   *)
(***************************************************************************)
EXTENDS Naturals, Sequences

CONSTANTS
    MintedIds, ChosenIds,
    Sizes,           \* declared sizes, and lengths of bodies
    Puts, Commands,  \* PUT requests and commands, each run once
    MaxUploadSessions

ASSUME UploadAssumption ==
    Sizes \subseteq Nat \ {0} /\ MaxUploadSessions \in Nat /\ MintedIds \cap ChosenIds = {}

UploadIds == MintedIds \cup ChosenIds

VARIABLES
    current,   \* the session, 0 before the first
    serving,   \* whether it runs
    slots,     \* _slots
    minted,    \* the minted ids handed out
    filled,    \* _filled: the commands that wait on each id's event
    puts,      \* the PUTs under way
    orders     \* the commands: the ids to resolve, and the files so far

uploadVars == <<current, serving, slots, minted, filled, puts, orders>>

NoSlot == [there |-> FALSE, session |-> 0, size |-> 0, data |-> [session |-> 0, length |-> 0]]
NoData == NoSlot.data

UploadInit ==
    /\ current = 0 /\ serving = FALSE
    /\ slots = [u \in UploadIds |-> NoSlot] /\ minted = {}
    /\ filled = [u \in UploadIds |-> {}]
    /\ puts = [p \in Puts |-> [at |-> "none"]]
    /\ orders = [k \in Commands |-> [at |-> "none", session |-> 0, refs |-> <<>>, files |-> <<>>]]

-------------------------------------------------------------------------------
(* The session *)

SessionOpens ==
    /\ ~serving /\ current < MaxUploadSessions
    /\ serving' = TRUE /\ current' = current + 1
    /\ UNCHANGED <<slots, minted, filled, puts, orders>>

\* Every waiting command is woken.
Woken(waiting) ==
    [k \in Commands |-> IF k \in waiting THEN [orders[k] EXCEPT !.at = "woken"] ELSE orders[k]]

\* Faulty: the events are dropped, and nobody hears of it.
ClearsSilently ==
    /\ slots' = [u \in UploadIds |-> NoSlot]
    /\ orders' = orders
    /\ filled' = [u \in UploadIds |-> {}]

\* clear.
Clears ==
    /\ slots' = [u \in UploadIds |-> NoSlot]
    /\ orders' = Woken(UNION {filled[u] : u \in UploadIds})
    /\ filled' = [u \in UploadIds |-> {}]

\* The move to CLOSING, or an eviction's to TERMINATED.
SessionCloses ==
    /\ serving /\ serving' = FALSE
    /\ Clears
    /\ UNCHANGED <<current, minted, puts>>

-------------------------------------------------------------------------------
(* The two requests *)

\* create_upload: against the running session, under an id that is free.
CreateSlot(u, n) ==
    /\ serving /\ ~slots[u].there /\ u \notin minted
    /\ slots' = [slots EXCEPT ![u] = [there |-> TRUE, session |-> current, size |-> n, data |-> NoData]]
    /\ minted' = minted \cup ({u} \cap MintedIds)
    /\ UNCHANGED <<current, serving, filled, puts, orders>>

\* put_upload: expected_size, then the body is read, up to that many bytes.
BeginPut(p, u, n) ==
    /\ puts[p].at = "none" /\ slots[u].there /\ slots[u].data = NoData
    /\ puts' = [puts EXCEPT ![p] =
          IF n > slots[u].size THEN [at |-> "refused"]
          ELSE [at |-> "reading", id |-> u, body |-> [session |-> current, length |-> n]]]
    /\ UNCHANGED <<current, serving, slots, minted, filled, orders>>

\* Faulty: the body's length is not compared with the slot's.
TakesShort(slot, body) == slot.there /\ slot.data = NoData

\* put's checks: the slot is there, is empty and declared this length.
Takes(slot, body) == slot.there /\ slot.data = NoData /\ body.length = slot.size

\* Faulty: bytes are stored without waking who waits for them.
EndPutSilent(p) ==
    LET u == puts[p].id IN
    /\ puts[p].at = "reading"
    /\ puts' = [puts EXCEPT ![p] = [at |-> IF Takes(slots[u], puts[p].body) THEN "stored" ELSE "refused"]]
    /\ slots' = IF Takes(slots[u], puts[p].body) THEN [slots EXCEPT ![u].data = puts[p].body] ELSE slots
    /\ UNCHANGED <<current, serving, minted, filled, orders>>

\* put: the slot is looked up again, filled, and its event set.
EndPut(p) ==
    LET u == puts[p].id
        body == puts[p].body IN
    /\ puts[p].at = "reading"
    /\ IF Takes(slots[u], body)
       THEN /\ slots' = [slots EXCEPT ![u].data = body]
            /\ orders' = Woken(filled[u])
            /\ filled' = [filled EXCEPT ![u] = {}]
            /\ puts' = [puts EXCEPT ![p] = [at |-> "stored"]]
       ELSE puts' = [puts EXCEPT ![p] = [at |-> "refused"]] /\ UNCHANGED <<slots, orders, filled>>
    /\ UNCHANGED <<current, serving, minted>>

-------------------------------------------------------------------------------
(* A command *)

Ready(u) == slots[u].there /\ slots[u].data # NoData

\* fetch returns: the file joins the command's arguments, and a command with all
\* of them goes to the model.
Resolved(order, u) ==
    [order EXCEPT !.files = Append(@, [id |-> u, data |-> slots[u].data, whole |-> slots[u].size]),
                  !.refs = Tail(@),
                  !.at = IF Len(order.refs) = 1 THEN "submitted" ELSE "resolving"]

\* A client names the ids it was given, or chose.
BeginCommand(k, refs) ==
    /\ serving /\ orders[k].at = "none"
    /\ \A i \in 1 .. Len(refs) : refs[i] \in ChosenIds \cup minted
    /\ orders' = [orders EXCEPT ![k] = [at |-> "resolving", session |-> current, refs |-> refs, files |-> <<>>]]
    /\ UNCHANGED <<current, serving, slots, minted, filled, puts>>

\* fetch: the bytes are there, or the command waits on the id's event.
Fetch(k) ==
    LET u == Head(orders[k].refs) IN
    /\ orders[k].at = "resolving"
    /\ IF Ready(u)
       THEN orders' = [orders EXCEPT ![k] = Resolved(@, u)] /\ UNCHANGED filled
       ELSE /\ orders' = [orders EXCEPT ![k].at = "waiting"]
            /\ filled' = [filled EXCEPT ![u] = @ \cup {k}]
    /\ UNCHANGED <<current, serving, slots, minted, puts>>

\* The event was set: the slot is looked at once more.
FetchWakes(k) ==
    LET u == Head(orders[k].refs) IN
    /\ orders[k].at = "woken"
    /\ orders' = [orders EXCEPT ![k] = IF Ready(u) THEN Resolved(@, u) ELSE [@ EXCEPT !.at = "refused"]]
    /\ UNCHANGED <<current, serving, slots, minted, filled, puts>>

\* The wait is over without the bytes: the command is journalled and rejected.
FetchTimesOut(k) ==
    /\ orders[k].at = "waiting"
    /\ orders' = [orders EXCEPT ![k].at = "refused"]
    /\ filled' = [u \in UploadIds |-> filled[u] \ {k}]
    /\ UNCHANGED <<current, serving, slots, minted, puts>>

UploadNext ==
    \/ SessionOpens \/ SessionCloses
    \/ \E u \in UploadIds, n \in Sizes : CreateSlot(u, n) \/ \E p \in Puts : BeginPut(p, u, n)
    \/ \E p \in Puts : EndPut(p)
    \/ \E k \in Commands :
          \/ \E refs \in {<<u>> : u \in UploadIds} \cup (UploadIds \X UploadIds) : BeginCommand(k, refs)
          \/ Fetch(k) \/ FetchWakes(k) \/ FetchTimesOut(k)

UploadSpec == UploadInit /\ [][UploadNext]_uploadVars

-------------------------------------------------------------------------------
(* Properties *)

\* No command waits for bytes that are already here: put and clear wake whoever
\* waits, and one that starts to wait after them finds the bytes or none at all.
NoWaitForHeldBytes ==
    \A k \in Commands : orders[k].at = "waiting" =>
        ~Ready(Head(orders[k].refs)) /\ slots[Head(orders[k].refs)].session \in {0, current}

\* A file a command was given is whole, and one under a minted id is of the session
\* the command was sent in: a body read while its session ended lands nowhere.
FilesAreWhole ==
    \A k \in Commands : \A i \in 1 .. Len(orders[k].files) :
        LET f == orders[k].files[i] IN
        /\ f.data # NoData /\ f.data.length = f.whole
        /\ f.id \in MintedIds => f.data.session = orders[k].session

\* A command waits for its file only while the file may come, and what it then
\* reads is whole (upload_store.py).
UploadsArrive == NoWaitForHeldBytes /\ FilesAreWhole

\* The store is "the in-memory, session-scoped home for those bytes"
\* (upload_store.py:4): the bytes under an id were sent in the session that
\* reserved it.  A PUT that is still reading when its session ends fills the slot
\* the next session reserved under the same chosen id.
BytesStayInTheirSession ==
    \A u \in UploadIds : Ready(u) => slots[u].data.session = slots[u].session

=============================================================================
