--------------------------- MODULE SessionOccupancy ---------------------------
(***************************************************************************)
(* What a session promises whoever watches it: a status, and the set of    *)
(* clients that occupy it.  The status follows the set - a session streams *)
(* while it has a client, is orphaned once the last has left - with no     *)
(* count, no registry and no teardown in sight.  core/session.py names the *)
(* states and events; the machine of runner/state_machine.py, fed by       *)
(* runner/connection_manager.py, implements it.                            *)
(***************************************************************************)
CONSTANT Clients

VARIABLES status, clients

occupancy == <<status, clients>>

Open == status \in {"WAITING", "STREAMING", "ORPHANED"}

Init == status = "CREATED" /\ clients = {}

\* The model is up, or will never be.
Load ==
  /\ status = "CREATED"
  /\ status' \in {"READY", "TERMINATED"}
  /\ clients' = {}

\* A session opens empty, or with a client of its own that keeps it streaming.
Start ==
  /\ status = "READY"
  /\ \/ status' = "WAITING" /\ clients' = {}
     \/ status' = "STREAMING" /\ \E c \in Clients : clients' = {c}

Join(c) ==
  /\ Open
  /\ clients' = clients \union {c}
  /\ status' = "STREAMING"

Leave(c) ==
  /\ Open /\ c \in clients
  /\ clients' = clients \ {c}
  /\ status' = IF clients' = {} THEN "ORPHANED" ELSE "STREAMING"

End ==
  /\ Open
  /\ status' = "CLOSING" /\ clients' = {}

Unwind ==
  /\ status = "CLOSING"
  /\ status' = "READY" /\ clients' = {}

\* The model is gone and the process with it.
Evict ==
  /\ status \notin {"CREATED", "TERMINATED"}
  /\ status' = "TERMINATED" /\ clients' = {}

Next ==
  \/ Load \/ Start \/ End \/ Unwind \/ Evict
  \/ \E c \in Clients : Join(c) \/ Leave(c)

Spec == Init /\ [][Next]_occupancy
===============================================================================
