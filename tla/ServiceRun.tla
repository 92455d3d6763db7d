------------------------------ MODULE ServiceRun ------------------------------
(***************************************************************************)
(* One process of the runtime as its Service supervises it (service.py):    *)
(* the components come up edge first, the main loop waits for a shutdown    *)
(* request, and drain and stop run in the order of the starts while the     *)
(* exit deadline runs beside them.  The same service runs the session       *)
(* runtime (serve.py) and the model server (model_server/__main__.py); they *)
(* differ in their components and in where they arm the second deadline.    *)
(*                                                                         *)
(* A component's start, drain and stop are awaits that may return, raise or *)
(* never come back: none of them is fair.                                   *)
(***************************************************************************)
EXTENDS Naturals, FiniteSets

CONSTANTS
    Parts,        \* the components hooked on with add
    DependsOn,    \* a component's depends_on
    Model,        \* the component that loads the model and can end the process
    Edge,         \* the component that serves HTTP
    BoundsInLoop, \* serve() arms the second deadline before the loop ends,
                  \* model_server/__main__ after it
    MaxRequests,  \* shutdown requests observed
    MayRaise      \* whether a start may raise

ASSUME PartsAssumption ==
    /\ IsFiniteSet(Parts) /\ Model \in Parts /\ Edge \in Parts /\ Model # Edge
    /\ DependsOn \in [Parts -> SUBSET Parts]
    /\ BoundsInLoop \in BOOLEAN /\ MayRaise \in BOOLEAN
    /\ MaxRequests \in Nat

VARIABLES
    place,     \* how far the process is
    turn,      \* the component the current loop is at
    begun, \* how many components of the order have started
    part,      \* a component's life
    loaded,    \* the model: "no", "up", "failed" to load or "crashed"
    shutdown,  \* the shutdown event
    failure,   \* _failure
    deadline,  \* an exit deadline is running
    asked,     \* shutdown requests so far
    status     \* the exit status, or Running

serviceVars == <<place, turn, begun, part, loaded, shutdown, failure, deadline, asked, status>>

Running == 99

Count == Cardinality(Parts)

\* Each component once, and before all it depends on.
EdgeFirst(order) ==
    \A i, j \in 1 .. Count :
        /\ order[i] = order[j] => i = j
        /\ order[j] \in DependsOn[order[i]] => i < j

\* A cycle of dependencies raises before anything starts.
ASSUME AcyclicAssumption == \E order \in [1 .. Count -> Parts] : EdgeFirst(order)

\* _topological_order reversed.
StartOrder == CHOOSE order \in [1 .. Count -> Parts] : EdgeFirst(order)

Current == StartOrder[turn]
ExitCode == IF failure THEN 1 ELSE 0

-------------------------------------------------------------------------------
ServiceInit ==
    /\ place = "starting" /\ turn = 1 /\ begun = 0
    /\ part = [p \in Parts |-> "off"]
    /\ loaded = "no" /\ asked = 0 /\ status = Running
    /\ shutdown = FALSE /\ failure = FALSE /\ deadline = FALSE

\* Faulty: a shutdown already under way keeps the status it began with.
RequestShutdownOnce(broken) ==
    /\ asked < MaxRequests /\ asked' = asked + 1
    /\ shutdown' = TRUE /\ deadline' = TRUE
    /\ failure' = IF shutdown THEN failure ELSE broken

\* Faulty: a request leaves the deadline to the end of the loop.
RequestShutdownUnarmed(broken) ==
    /\ asked < MaxRequests /\ asked' = asked + 1
    /\ shutdown' = TRUE /\ UNCHANGED deadline
    /\ failure' = (failure \/ broken)

\* request_shutdown: the first request arms the deadline, any may raise the status.
RequestShutdown(broken) ==
    /\ asked < MaxRequests /\ asked' = asked + 1
    /\ shutdown' = TRUE /\ deadline' = TRUE
    /\ failure' = (failure \/ broken)

InRun == place \in {"starting", "serving", "draining", "stopping"}

\* SIGTERM or SIGINT: the handlers are in place before the first start.
Signal ==
    /\ InRun
    /\ RequestShutdown(FALSE)
    /\ UNCHANGED <<place, turn, begun, part, loaded, status>>

\* The model's loop dies while the process is up: a failure.
ModelCrashes ==
    /\ InRun /\ loaded = "up" /\ part[Model] # "stopped"
    /\ RequestShutdown(TRUE)
    /\ loaded' = "crashed"
    /\ UNCHANGED <<place, turn, begun, part, status>>

\* start returned: the next component's turn, unless a shutdown was asked for.
NextStart ==
    IF shutdown' \/ turn = Count
    THEN place' = "serving" /\ turn' = 1
    ELSE turn' = turn + 1 /\ UNCHANGED place

StartReturns ==
    /\ place = "starting"
    /\ part' = [part EXCEPT ![Current] = "up"] /\ begun' = turn
    /\ loaded' = IF Current = Model THEN "up" ELSE loaded
    /\ UNCHANGED shutdown
    /\ NextStart
    /\ UNCHANGED <<failure, deadline, asked, status>>

\* A model that refuses to load asks for a clean shutdown and its start returns.
LoadFails ==
    /\ place = "starting" /\ Current = Model
    /\ part' = [part EXCEPT ![Model] = "up"] /\ begun' = turn
    /\ loaded' = "failed"
    /\ RequestShutdown(FALSE)
    /\ NextStart
    /\ UNCHANGED status

\* A start raises: what had started is wound down, and the error leaves run.
StartRaises ==
    /\ MayRaise /\ place = "starting"
    /\ part' = [part EXCEPT ![Current] = "raised"]
    /\ place' = "draining" /\ turn' = 1
    /\ UNCHANGED <<begun, loaded, shutdown, failure, deadline, asked, status>>

WakeUp ==
    /\ place = "serving" /\ shutdown
    /\ place' = "draining" /\ turn' = 1
    /\ UNCHANGED <<begun, part, loaded, shutdown, failure, deadline, asked, status>>

\* One component's drain returned or raised: a failure is logged and passed over.
DrainReturns ==
    /\ place = "draining" /\ turn <= begun
    /\ \E end \in {"drained", "drain failed"} :
          part' = [part EXCEPT ![Current] = end]
    /\ turn' = turn + 1
    /\ UNCHANGED <<place, begun, loaded, shutdown, failure, deadline, asked, status>>

BeginStops ==
    /\ place = "draining" /\ turn > begun
    /\ place' = "stopping" /\ turn' = 1
    /\ UNCHANGED <<begun, part, loaded, shutdown, failure, deadline, asked, status>>

StopReturns ==
    /\ place = "stopping" /\ turn <= begun
    /\ \E end \in {"stopped", "stop failed"} :
          part' = [part EXCEPT ![Current] = end]
    /\ turn' = turn + 1
    /\ UNCHANGED <<place, begun, loaded, shutdown, failure, deadline, asked, status>>

Raised == \E p \in Parts : part[p] = "raised"

\* run ends: the deadline is disarmed; serve() arms the next before it returns,
\* unless run raised.
RunReturns ==
    /\ place = "stopping" /\ turn > begun
    /\ deadline' = (BoundsInLoop /\ ~Raised)
    /\ place' = "closing"
    /\ UNCHANGED <<turn, begun, part, loaded, shutdown, failure, asked, status>>

\* asyncio.run joins the loop's workers, for a bounded time; the model server's
\* main arms its deadline after it, unless run raised.
LoopCloses ==
    /\ place = "closing"
    /\ deadline' = (deadline \/ ~Raised)
    /\ place' = "leaving"
    /\ UNCHANGED <<turn, begun, part, loaded, shutdown, failure, asked, status>>

\* The interpreter joins every thread still alive, with no bound of its own.
InterpreterEnds ==
    /\ place = "leaving"
    /\ status' = (IF Raised THEN 1 ELSE ExitCode)
    /\ place' = "exited" /\ deadline' = FALSE
    /\ UNCHANGED <<turn, begun, part, loaded, shutdown, failure, asked>>

\* _force_exit, from the timer's own thread: unconditional.
ForceExit ==
    /\ deadline /\ place # "exited"
    /\ status' = ExitCode
    /\ place' = "exited" /\ deadline' = FALSE
    /\ UNCHANGED <<turn, begun, part, loaded, shutdown, failure, asked>>

ServiceNext ==
    \/ Signal \/ ModelCrashes \/ StartReturns \/ LoadFails \/ StartRaises
    \/ WakeUp \/ DrainReturns \/ BeginStops \/ StopReturns \/ RunReturns
    \/ LoopCloses \/ InterpreterEnds \/ ForceExit

\* The event loop and the timer's thread run; the joins of the loop's workers
\* are bounded.  Nothing is assumed of a component or of the interpreter's joins.
ServiceFairness ==
    /\ WF_serviceVars(ForceExit)
    /\ WF_serviceVars(WakeUp \/ BeginStops \/ RunReturns)
    /\ WF_serviceVars(LoopCloses)

ServiceSpec == ServiceInit /\ [][ServiceNext]_serviceVars /\ ServiceFairness

-------------------------------------------------------------------------------
(* Properties *)

Ended == {"stopped", "stop failed"}
WasDrained == {"drained", "drain failed"}

\* The wind-down closes intake first and forgets nobody: the edge is never up
\* while what it fronts is being released, nothing is stopped before everything
\* that started was drained, and a process that was not forced out stopped every
\* component that started (service.py run's finally).
WindDownIsOrdered ==
    /\ \A p, q \in Parts :
          (q \in DependsOn[p] /\ part[q] \in Ended) => part[p] \notin {"up"} \cup WasDrained
    /\ (\E p \in Parts : part[p] \in Ended) => \A p \in Parts : part[p] # "up"
    /\ place \in {"closing", "leaving"} =>
          \A p \in Parts : part[p] \in Ended \cup {"off", "raised"}

\* A model loop that crashed is never reported as a clean exit, not even when the
\* crash lands in the middle of a wind-down a signal began (service.py exit_code).
CrashIsReported == (status # Running /\ loaded = "crashed") => status = 1

\* The process winds down in order and says why.
ServiceWindsDown == WindDownIsOrdered /\ CrashIsReported

\* A requested shutdown ends the process, whatever a component or a thread it
\* left behind is stuck on; only a start that raises gets out of the deadline.
ShutdownEnds == shutdown ~> (place = "exited" \/ Raised)

\* "The service also guarantees that a requested shutdown ends the process"
\* (service.py:12).  It does not after a start that raised: run's finally disarms
\* the deadline the request armed and nobody arms another.
RequestedShutdownEnds == shutdown ~> place = "exited"

=============================================================================
