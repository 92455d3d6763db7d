------------------------------ MODULE MCProcesses ------------------------------
(***************************************************************************)
(* What the runtime's processes are made of, side by side: the calls of one *)
(* session into the model server, the shared-memory link under them, the    *)
(* service each process runs under, and a model spread over several ranks.  *)
(* They share no state here, so each behaviour runs one of them, its focus, *)
(* and the others stay where they start.                                    *)
(***************************************************************************)
EXTENDS ModelServer, ShmLink, ServiceRun, DistributedRunner

VARIABLE focus

processVars == <<svars, shmVars, serviceVars, runnerVars, focus>>

\* serve.py _assemble: http depends on the runner, the runner on the transports.
RuntimeDependsOn == [http |-> {"runner"}, runner |-> {"transports"}, transports |-> {}]

ProcessInit ==
    /\ focus \in {"calls", "shm", "service", "ranks"}
    /\ Init /\ ShmInit /\ ServiceInit /\ RunnerInit

ProcessNext ==
    /\ UNCHANGED focus
    /\ \/ focus = "calls"   /\ Next        /\ UNCHANGED <<shmVars, serviceVars, runnerVars>>
       \/ focus = "shm"     /\ ShmNext     /\ UNCHANGED <<svars, serviceVars, runnerVars>>
       \/ focus = "service" /\ ServiceNext /\ UNCHANGED <<svars, shmVars, runnerVars>>
       \/ focus = "ranks"   /\ RunnerNext  /\ UNCHANGED <<svars, shmVars, serviceVars>>

ProcessSpec ==
    /\ ProcessInit /\ [][ProcessNext]_processVars
    /\ Fairness /\ ServiceFairness /\ RunnerFairness

\* Every call into the model ends, on a server that drains, one that stops and
\* one whose ranks die (client.py, server_core.py, distributed/runner.py).
CallsComplete == CallEnds /\ DrainCompletes /\ CallsEnd
================================================================================
