--------------------------- MODULE MCSessionProgress ---------------------------
(***************************************************************************)
(* What a session promises to get done, under the fairness of its loop and *)
(* its threads: its own end, and the saving of its steps.  The two share   *)
(* no state here, so each behaviour runs one of them, its focus, and the   *)
(* other stays where it starts, where nothing of it is enabled that is     *)
(* fair.                                                                   *)
(***************************************************************************)
EXTENDS SessionLifecycle, StepStore

VARIABLE focus

progressVars == <<vars, storeVars, focus>>

ProgressInit == focus \in {"session", "store"} /\ Init /\ StoreInit

ProgressNext ==
  /\ UNCHANGED focus
  /\ \/ focus = "session" /\ Next      /\ UNCHANGED storeVars
     \/ focus = "store"   /\ StoreNext /\ UNCHANGED vars

ProgressSpec == ProgressInit /\ [][ProgressNext]_progressVars /\ Fairness /\ StoreFairness

\* A session that is closing ends, one nobody is in ends by its timer, and its
\* starting commands are let go (runner.py).
SessionEnds == ClosingEnds /\ OrphanEnds /\ CommandsReleased
===============================================================================
