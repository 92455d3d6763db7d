--------------------------- MODULE DistributedRunner ---------------------------
(***************************************************************************)
(* One model spread over several processes: DistributedRunner in the        *)
(* caller's process (distributed/runner.py) and rank_main in each rank      *)
(* (distributed/rank.py).  A call broadcasts one request to every rank's    *)
(* inbox and takes one answer per rank off the one outbox they share; the   *)
(* answers carry no call number, so nothing but the runner's bookkeeping    *)
(* keeps an old answer from being taken for a new one.  The model tags them *)
(* (field "round") to say so.                                                *)
(***************************************************************************)
EXTENDS Naturals, Sequences

CONSTANTS
    World,       \* world_size
    FormsGroup,  \* whether the ranks form a process group first
    MaxRounds,   \* generate and reset calls
    MaxDeaths,   \* ranks that die on their own, or the caller's process
    Errors       \* the types of error a worker raises

ASSUME WorldAssumption ==
    /\ World \in Nat \ {0} /\ FormsGroup \in BOOLEAN
    /\ MaxRounds \in Nat /\ MaxDeaths \in Nat /\ "none" \notin Errors

VARIABLES
    runner,    \* where the caller is
    healthy,   \* _healthy
    round,     \* the call outstanding, or the last one; 0 is start
    got,       \* the messages _collect has so far
    inbox,     \* each rank's request queue
    outward,   \* the answer queue
    rank,      \* each rank's process
    reached,   \* the last call each rank received
    blocks,    \* the shared blocks that exist
    deaths     \* deaths so far

runnerVars == <<runner, healthy, round, got, inbox, outward, rank, reached, blocks, deaths>>

Ranks == 0 .. World - 1
Alive(r) == rank[r] \notin {"unborn", "dead", "left"}

RankMessage(r, kind, error) == [rank |-> r, kind |-> kind, error |-> error, round |-> reached[r]]
RankLoaded(r) == RankMessage(r, "loaded", "none")
RankAnswer(r, error) == RankMessage(r, "answer", error)
Port == [rank |-> World, kind |-> "port", error |-> "none", round |-> 0]

RankErrors == {i \in 1 .. Len(got) : got[i].error # "none"}
Wanted == IF runner = "rendezvous" THEN 1 ELSE World
Collecting == runner \in {"rendezvous", "starting", "calling"} /\ Len(got) < Wanted
Collected == runner \in {"rendezvous", "starting", "calling"} /\ Len(got) >= Wanted

-------------------------------------------------------------------------------
RunnerInit ==
    /\ runner = "new" /\ healthy = TRUE /\ round = 0 /\ got = <<>>
    /\ inbox = [r \in Ranks |-> <<>>] /\ outward = <<>>
    /\ rank = [r \in Ranks |-> "unborn"] /\ reached = [r \in Ranks |-> 0]
    /\ blocks = {} /\ deaths = 0

(* The caller *)

\* start: every rank is spawned, and start waits for the port or for the loads.
StartRunner ==
    /\ runner = "new"
    /\ rank' = [r \in Ranks |-> IF FormsGroup THEN "forming" ELSE "loading"]
    /\ runner' = IF FormsGroup THEN "rendezvous" ELSE "starting"
    /\ UNCHANGED <<healthy, round, got, inbox, outward, reached, blocks, deaths>>

\* _rendezvous: rank 0's port goes to the others; an error is raised instead.
Rendezvous ==
    /\ Collected /\ runner = "rendezvous"
    /\ got' = <<>>
    /\ IF RankErrors = {} /\ got[1] = Port
       THEN /\ inbox' = [r \in Ranks |-> IF r = 0 THEN inbox[r] ELSE Append(inbox[r], 0)]
            /\ runner' = "starting" /\ UNCHANGED healthy
       ELSE runner' = "failed" /\ healthy' = FALSE /\ UNCHANGED inbox
    /\ UNCHANGED <<round, outward, rank, reached, blocks, deaths>>

\* start's end: a rank's error is raised, and the runner shuts itself down.
StartEnds ==
    /\ Collected /\ runner = "starting"
    /\ got' = <<>>
    /\ IF \A i \in 1 .. Len(got) : got[i].kind = "loaded"
       THEN runner' = "idle" /\ UNCHANGED healthy
       ELSE runner' = "failed" /\ healthy' = FALSE
    /\ UNCHANGED <<round, inbox, outward, rank, reached, blocks, deaths>>

\* generate or reset, up to _collect: the input goes into the shared slot and
\* the request into every inbox.
BeginCall ==
    /\ runner = "idle" /\ healthy /\ round < MaxRounds
    /\ round' = round + 1
    /\ inbox' = [r \in Ranks |-> Append(inbox[r], round + 1)]
    /\ blocks' = blocks \cup {"input"}
    /\ runner' = "calling" /\ got' = <<>>
    /\ UNCHANGED <<healthy, outward, rank, reached, deaths>>

\* _collect takes one message.
TakeMessage ==
    /\ Collecting /\ outward # <<>>
    /\ got' = Append(got, Head(outward)) /\ outward' = Tail(outward)
    /\ UNCHANGED <<runner, healthy, round, inbox, rank, reached, blocks, deaths>>

\* _check_alive, between two polls: what dead ranks left behind is drained, and a
\* dead rank that answered nothing is a crash.
CheckAlive ==
    LET dead == {r \in Ranks : ~Alive(r)}
        all  == got \o outward
        answered == {all[i].rank : i \in 1 .. Len(all)} IN
    /\ Collecting /\ dead # {}
    /\ got' = all /\ outward' = <<>>
    /\ IF dead \subseteq answered THEN UNCHANGED <<runner, healthy>>
       ELSE runner' = "failed" /\ healthy' = FALSE
    /\ UNCHANGED <<round, inbox, rank, reached, blocks, deaths>>

\* Faulty: a call that timed out leaves the group in use.
WaitFailsLightly ==
    /\ Collecting
    /\ runner' = IF runner = "calling" THEN "idle" ELSE "failed"
    /\ healthy' = (runner = "calling" /\ healthy)
    /\ UNCHANGED <<round, got, inbox, outward, rank, reached, blocks, deaths>>

\* The wait times out, or the caller is interrupted in it.
WaitFails ==
    /\ Collecting
    /\ runner' = "failed" /\ healthy' = FALSE
    /\ UNCHANGED <<round, got, inbox, outward, rank, reached, blocks, deaths>>

\* _decide: rank 0's result; one error that every rank raised, with the group
\* intact; or a desync.
Decide ==
    /\ Collected /\ runner = "calling"
    /\ IF \/ RankErrors = {}
          \/ RankErrors = 1 .. Len(got) /\ \A i, j \in RankErrors : got[i].error = got[j].error
       THEN runner' = "idle" /\ UNCHANGED healthy
       ELSE runner' = "failed" /\ healthy' = FALSE
    /\ UNCHANGED <<round, got, inbox, outward, rank, reached, blocks, deaths>>

\* shutdown: a healthy group is told and joined, any other is not told.
BeginShutdown ==
    /\ runner \in {"idle", "failed"}
    /\ IF healthy
       THEN /\ inbox' = [r \in Ranks |-> Append(inbox[r], MaxRounds + 1)]
            /\ runner' = "joining"
       ELSE runner' = "ending" /\ UNCHANGED inbox
    /\ UNCHANGED <<healthy, round, got, outward, rank, reached, blocks, deaths>>

\* The joins end: every rank left, or the grace period is over.
JoinsEnd ==
    /\ runner = "joining" /\ runner' = "ending"
    /\ UNCHANGED <<healthy, round, got, inbox, outward, rank, reached, blocks, deaths>>

\* Whatever is alive is terminated, then killed, with what it started.
KillRanks ==
    /\ runner = "ending" /\ runner' = "unlinking"
    /\ rank' = [r \in Ranks |-> IF Alive(r) THEN "dead" ELSE rank[r]]
    /\ UNCHANGED <<healthy, round, got, inbox, outward, reached, blocks, deaths>>

\* The shared blocks go, a killed rank's results included.
UnlinkAll ==
    /\ runner = "unlinking" /\ runner' = "down"
    /\ blocks' = {}
    /\ UNCHANGED <<healthy, round, got, inbox, outward, rank, reached, deaths>>

\* The caller's process is killed: what its queues had not flushed is lost.
RunnerKilled ==
    /\ runner \notin {"new", "down", "killed"} /\ deaths < MaxDeaths
    /\ deaths' = deaths + 1 /\ runner' = "killed"
    /\ \E lost \in SUBSET Ranks :
          inbox' = [r \in Ranks |-> IF r \in lost THEN <<>> ELSE inbox[r]]
    /\ UNCHANGED <<healthy, round, got, outward, rank, reached, blocks>>

(* The ranks *)

\* _form_group, rank 0: the store's port is reported.
ReportPort ==
    /\ rank[0] = "forming"
    /\ rank' = [rank EXCEPT ![0] = "grouping"]
    /\ outward' = Append(outward, Port)
    /\ UNCHANGED <<runner, healthy, round, got, inbox, reached, blocks, deaths>>

\* _form_group, the others: the port is the first thing a rank is sent.
JoinGroup(r) ==
    /\ r # 0 /\ rank[r] = "forming" /\ inbox[r] # <<>>
    /\ rank' = [rank EXCEPT ![r] = "grouping"]
    /\ inbox' = [inbox EXCEPT ![r] = Tail(@)]
    /\ UNCHANGED <<runner, healthy, round, got, outward, reached, blocks, deaths>>

\* init_process_group returns once every rank is there.
GroupForms(r) ==
    /\ rank[r] = "grouping" /\ \A q \in Ranks : rank[q] # "forming"
    /\ rank' = [rank EXCEPT ![r] = "loading"]
    /\ UNCHANGED <<runner, healthy, round, got, inbox, outward, reached, blocks, deaths>>

LoadReturns(r) ==
    /\ rank[r] = "loading"
    /\ rank' = [rank EXCEPT ![r] = "ready"]
    /\ outward' = Append(outward, RankLoaded(r))
    /\ UNCHANGED <<runner, healthy, round, got, inbox, reached, blocks, deaths>>

\* A failure before Loaded is answered and ends the rank.
LoadRaises(r) ==
    /\ rank[r] \in {"forming", "grouping", "loading"}
    /\ rank' = [rank EXCEPT ![r] = "dead"]
    /\ \E e \in Errors : outward' = Append(outward, RankAnswer(r, e))
    /\ UNCHANGED <<runner, healthy, round, got, inbox, reached, blocks, deaths>>

\* _receive, then the call, or the way out; a clean exit meets the others.
Receive(r) ==
    /\ rank[r] = "ready" /\ inbox[r] # <<>>
    /\ inbox' = [inbox EXCEPT ![r] = Tail(@)]
    /\ IF Head(inbox[r]) > MaxRounds
       THEN rank' = [rank EXCEPT ![r] = "barrier"] /\ UNCHANGED reached
       ELSE /\ rank' = [rank EXCEPT ![r] = "working"]
            /\ reached' = [reached EXCEPT ![r] = Head(inbox[r])]
    /\ UNCHANGED <<runner, healthy, round, got, outward, blocks, deaths>>

\* The worker returns, once its collectives met those of every other rank, or
\* raises.  Rank 0's result goes into a shared block.
WorkEnds(r) ==
    /\ rank[r] = "working"
    /\ rank' = [rank EXCEPT ![r] = "ready"]
    /\ \/ /\ FormsGroup => \A q \in Ranks : reached[q] >= reached[r]
          /\ outward' = Append(outward, RankAnswer(r, "none"))
          /\ blocks' = IF r = 0 THEN blocks \cup {"result"} ELSE blocks
       \/ /\ \E e \in Errors : outward' = Append(outward, RankAnswer(r, e))
          /\ UNCHANGED blocks
    /\ UNCHANGED <<runner, healthy, round, got, inbox, reached, deaths>>

\* The exit barrier, the group's end, and rank 0's blocks closed.
LeaveGroup(r) ==
    /\ rank[r] = "barrier"
    /\ FormsGroup => \A q \in Ranks : rank[q] \in {"barrier", "left"}
    /\ rank' = [rank EXCEPT ![r] = "left"]
    /\ blocks' = IF r = 0 THEN blocks \ {"result"} ELSE blocks
    /\ UNCHANGED <<runner, healthy, round, got, inbox, outward, reached, deaths>>

\* A rank that waits on its queue sees that the caller's process is gone.
SeeRunnerGone(r) ==
    /\ runner = "killed" /\ inbox[r] = <<>>
    /\ rank[r] = "ready" \/ (rank[r] = "forming" /\ r # 0)
    /\ rank' = [rank EXCEPT ![r] = "left"]
    /\ blocks' = IF r = 0 THEN blocks \ {"result"} ELSE blocks
    /\ UNCHANGED <<runner, healthy, round, got, inbox, outward, reached, deaths>>

RankDies(r) ==
    /\ Alive(r) /\ deaths < MaxDeaths
    /\ deaths' = deaths + 1
    /\ rank' = [rank EXCEPT ![r] = "dead"]
    /\ UNCHANGED <<runner, healthy, round, got, inbox, outward, reached, blocks>>

RunnerNext ==
    \/ StartRunner \/ Rendezvous \/ StartEnds \/ BeginCall \/ TakeMessage \/ CheckAlive
    \/ WaitFails \/ Decide \/ BeginShutdown \/ JoinsEnd \/ KillRanks \/ UnlinkAll
    \/ RunnerKilled \/ ReportPort
    \/ \E r \in Ranks :
          \/ JoinGroup(r) \/ GroupForms(r) \/ LoadReturns(r) \/ LoadRaises(r) \/ Receive(r)
          \/ WorkEnds(r) \/ LeaveGroup(r) \/ SeeRunnerGone(r) \/ RankDies(r)

\* The caller's own steps, its timeout among them.  A worker's call need not end.
RunnerFairness ==
    WF_runnerVars(Rendezvous \/ StartEnds \/ WaitFails \/ Decide \/ JoinsEnd \/ KillRanks \/ UnlinkAll)

RunnerSpec == RunnerInit /\ [][RunnerNext]_runnerVars /\ RunnerFairness

-------------------------------------------------------------------------------
(* Properties *)

\* The answers a call decides on are the answers to that call, one per rank: an
\* interrupted, timed-out or crashed call leaves no answer that a later call
\* takes for its own (_round_trip, _collect, _check_alive).
AnswersBelong ==
    runner = "calling" => \A i, j \in 1 .. Len(got) :
        /\ got[i].round = round
        /\ got[i].rank = got[j].rank => i = j

\* The ranks stay in lockstep: between two calls of a healthy group nothing is
\* in flight, and every rank that lives has done the same calls (the class's
\* promise that the collectives line up).
LockStep ==
    (runner = "idle" /\ healthy) =>
        /\ outward = <<>>
        /\ \A r \in Ranks : reached[r] = round /\ (rank[r] \in {"ready", "dead"}) /\ inbox[r] = <<>>

\* Shutdown ends with dead processes and every shared block unlinked.
ShutdownLeavesNothing ==
    runner = "down" => (\A r \in Ranks : ~Alive(r)) /\ blocks = {}

\* The ranks agree on the call they serve, and none outlives the runner.
RanksAgree == AnswersBelong /\ LockStep /\ ShutdownLeavesNothing

\* Every wait has a way out: a call that began is over, one way or the other,
\* whatever the ranks do (module docstring of runner.py).
CallsEnd == runner \in {"rendezvous", "starting", "calling"} ~>
            runner \in {"idle", "failed", "joining", "ending", "killed"}

=============================================================================
