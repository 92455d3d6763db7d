----------------------------- MODULE ProcessProofs -----------------------------
(***************************************************************************)
(* Proofs about what a process runs: the service it runs under, for every  *)
(* set of components and every acyclic dependency among them; a model      *)
(* spread over several ranks, for every number of ranks, of calls and of   *)
(* deaths; and the shared-memory links of one slot, for every number of    *)
(* links, steps and failures.                                              *)
(***************************************************************************)
EXTENDS ServiceRun, DistributedRunner, ShmLink, FiniteSetTheorems, SequenceTheorems, TLAPS

-------------------------------------------------------------------------------
(* The order of the starts.                                                *)

\* There is something to start, and the order has each component once, the
\* ones it depends on after it.
LEMMA OrderFacts ==
  /\ Count \in Nat \ {0}
  /\ StartOrder \in [1 .. Count -> Parts]
  /\ \A i, j \in 1 .. Count :
        /\ StartOrder[i] = StartOrder[j] => i = j
        /\ StartOrder[j] \in DependsOn[StartOrder[i]] => i < j
<1>1. Count \in Nat
  BY PartsAssumption, FS_CardinalityType DEF Count
<1>2. Count # 0
  BY PartsAssumption, FS_EmptySet DEF Count
<1>3. StartOrder \in [1 .. Count -> Parts] /\ EdgeFirst(StartOrder)
  BY AcyclicAssumption DEF StartOrder
<1> QED BY <1>1, <1>2, <1>3 DEF EdgeFirst

-------------------------------------------------------------------------------
(* The service: the inductive invariant.                                   *)

\* What the loops of run have done so far: a component before the current turn
\* has had its turn in this loop, one after it has only had the loop before,
\* and one past the last that started is off, or is the one whose start raised.
Between(a, b, lives) == \A k \in a .. b : part[StartOrder[k]] \in lives
Others(lives) == \A p \in Parts : (\A k \in 1 .. begun : p # StartOrder[k]) => part[p] \in lives

Untouched == {"off", "raised"}

Progress ==
  /\ begun \in 0 .. Count /\ turn \in 1 .. Count + 1
  /\ place = "starting" =>
        turn <= Count /\ begun = turn - 1 /\ Between(1, begun, {"up"}) /\ Others({"off"})
  /\ place = "serving" => Between(1, begun, {"up"}) /\ Others({"off"})
  /\ place = "draining" =>
        /\ turn <= begun + 1 /\ Others(Untouched)
        /\ Between(1, turn - 1, WasDrained) /\ Between(turn, begun, {"up"})
  /\ place = "stopping" =>
        /\ turn <= begun + 1 /\ Others(Untouched)
        /\ Between(1, turn - 1, Ended) /\ Between(turn, begun, WasDrained)
  /\ place \in {"closing", "leaving"} => Between(1, begun, Ended) /\ Others(Untouched)

\* The exit status is settled once, from what was known then.
Reported ==
  /\ place # "exited" => status = Running
  /\ loaded = "crashed" => failure
  /\ status # Running /\ failure => status = 1

ServiceTypeOK ==
  /\ place \in {"starting", "serving", "draining", "stopping", "closing", "leaving", "exited"}
  /\ part \in [Parts -> {"off", "up", "raised"} \cup WasDrained \cup Ended]
  /\ failure \in BOOLEAN

ServiceInv == ServiceTypeOK /\ Progress /\ Reported /\ WindDownIsOrdered


\* The order of the wind-down is the order of the loops.
LEMMA ProgressOrders ==
  (ServiceTypeOK /\ Progress) => (place = "exited" \/ WindDownIsOrdered)
<1> SUFFICES ASSUME ServiceTypeOK, Progress, place # "exited" PROVE WindDownIsOrdered
  OBVIOUS
<1> USE OrderFacts, PartsAssumption
<1> DEFINE Begun == {StartOrder[k] : k \in 1 .. begun}
<1>1. \A p \in Parts : p \notin Begun => part[p] \in Untouched
  BY DEF Progress, Others, ServiceTypeOK, Untouched
<1>2. \A p \in Begun : \E k \in 1 .. begun : p = StartOrder[k]
  OBVIOUS
<1>3. begun \in 0 .. Count /\ turn \in Nat
  BY DEF Progress
<1>4. ASSUME NEW k \in 1 .. begun, part[StartOrder[k]] \in Ended
      PROVE  \/ place = "stopping" /\ k < turn
             \/ place \in {"closing", "leaving"}
  <2>1. CASE place \in {"starting", "serving"}
    BY <1>4, <2>1 DEF Progress, Between, Ended
  <2>2. CASE place = "draining"
    <3>1. k \in 1 .. turn - 1 \/ k \in turn .. begun
      BY <1>3
    <3> QED BY <1>4, <2>2, <3>1 DEF Progress, Between, Ended, WasDrained
  <2>3. CASE place = "stopping"
    <3>1. k < turn \/ k \in turn .. begun
      BY <1>3
    <3> QED BY <1>4, <2>3, <3>1 DEF Progress, Between, Ended, WasDrained
  <2> QED BY <2>1, <2>2, <2>3 DEF ServiceTypeOK
<1>5. ASSUME NEW p \in Parts, NEW q \in Parts, q \in DependsOn[p], part[q] \in Ended
      PROVE  part[p] \notin {"up"} \cup WasDrained
  <2>1. PICK j \in 1 .. begun : q = StartOrder[j]
    BY <1>1, <1>2, <1>5 DEF Untouched, Ended
  <2>2. CASE p \notin Begun
    BY <1>1, <2>2 DEF Untouched, WasDrained
  <2>3. CASE p \in Begun
    <3>1. PICK i \in 1 .. begun : p = StartOrder[i]
      BY <2>3
    <3>2. i < j
      BY <1>3, <1>5, <2>1, <3>1
    <3>3. part[StartOrder[i]] \in Ended
      BY <1>3, <1>4, <1>5, <2>1, <3>2 DEF Progress, Between
    <3> QED BY <3>1, <3>3 DEF Ended, WasDrained
  <2> QED BY <2>2, <2>3
<1>6. ASSUME NEW q \in Parts, part[q] \in Ended, NEW p \in Parts
      PROVE  part[p] # "up"
  <2>1. PICK j \in 1 .. begun : q = StartOrder[j]
    BY <1>1, <1>2, <1>6 DEF Untouched, Ended
  <2>2. place \in {"stopping", "closing", "leaving"}
    BY <1>4, <1>6, <2>1
  <2>3. \A k \in 1 .. begun : part[StartOrder[k]] \in Ended \cup WasDrained
    BY <1>3, <2>2 DEF Progress, Between
  <2>4. CASE p \notin Begun
    BY <1>1, <2>4 DEF Untouched
  <2>5. CASE p \in Begun
    <3>1. PICK k \in 1 .. begun : p = StartOrder[k]
      BY <2>5
    <3> QED BY <2>3, <3>1 DEF Ended, WasDrained
  <2> QED BY <2>4, <2>5
<1>7. ASSUME place \in {"closing", "leaving"}, NEW p \in Parts
      PROVE  part[p] \in Ended \cup {"off", "raised"}
  BY <1>1, <1>2, <1>7 DEF Progress, Between, Untouched
<1> QED BY <1>5, <1>6, <1>7 DEF WindDownIsOrdered

\* The process comes up in the invariant.
LEMMA ServiceInitInv == ServiceInit => ServiceInv
<1> SUFFICES ASSUME ServiceInit PROVE ServiceInv
  OBVIOUS
<1> USE OrderFacts, PartsAssumption
<1>1. ServiceTypeOK
  BY DEF ServiceInit, ServiceTypeOK
<1>2. Progress
  BY DEF ServiceInit, Progress, Between, Others
<1>3. Reported
  BY DEF ServiceInit, Reported
<1>4. WindDownIsOrdered
  BY <1>1, <1>2, ProgressOrders DEF ServiceInit
<1> QED BY <1>1, <1>2, <1>3, <1>4 DEF ServiceInv

\* Every step keeps it: one component's life moves when its turn has come.
LEMMA ServiceStep == ServiceInv /\ [ServiceNext]_serviceVars => ServiceInv'
<1> SUFFICES ASSUME ServiceInv, [ServiceNext]_serviceVars PROVE ServiceInv'
  OBVIOUS
<1> USE OrderFacts, PartsAssumption
<1>t. ServiceTypeOK /\ Progress /\ Reported /\ WindDownIsOrdered
  BY DEF ServiceInv
<1>c. place = "starting" \/ (place \in {"draining", "stopping"} /\ turn <= begun)
      => turn \in 1 .. Count /\ Current \in Parts
  BY <1>t DEF Progress, Current
<1>1. ServiceTypeOK' /\ Progress' /\ Reported'
  <2>1. CASE Signal \/ ModelCrashes
    BY <1>t, <2>1 DEF Signal, ModelCrashes, RequestShutdown, InRun, ServiceTypeOK, Progress,
                      Between, Others, Reported
  <2>2. CASE StartReturns
    <3>1. ServiceTypeOK' /\ Reported'
      BY <1>t, <1>c, <2>2 DEF StartReturns, NextStart, ServiceTypeOK, Reported
    <3>2. Progress'
      BY <1>t, <1>c, <2>2 DEF StartReturns, NextStart, ServiceTypeOK, Progress, Between, Others, Current
    <3> QED BY <3>1, <3>2
  <2>3. CASE LoadFails
    <3>1. ServiceTypeOK' /\ Reported'
      BY <1>t, <1>c, <2>3 DEF LoadFails, RequestShutdown, NextStart, ServiceTypeOK, Reported
    <3>2. Progress'
      BY <1>t, <1>c, <2>3 DEF LoadFails, RequestShutdown, NextStart, ServiceTypeOK, Progress, Between, Others, Current
    <3> QED BY <3>1, <3>2
  <2>4. CASE StartRaises
    BY <1>t, <1>c, <2>4 DEF StartRaises, ServiceTypeOK, Progress, Between, Others, Reported,
                            Current, Untouched
  <2>5. CASE WakeUp
    BY <1>t, <2>5 DEF WakeUp, ServiceTypeOK, Progress, Between, Others, Reported, Untouched
  <2>6. CASE DrainReturns
    <3>1. PICK end \in WasDrained : part' = [part EXCEPT ![Current] = end]
      BY <2>6 DEF DrainReturns, WasDrained
    <3>2. /\ place = "draining" /\ place' = place /\ begun' = begun /\ turn' = turn + 1
          /\ turn \in 1 .. begun /\ begun \in 1 .. Count /\ Current = StartOrder[turn]
          /\ UNCHANGED <<loaded, failure, status>>
      <4>1. /\ place = "draining" /\ place' = place /\ begun' = begun /\ turn' = turn + 1
            /\ turn <= begun /\ UNCHANGED <<loaded, failure, status>>
        BY <2>6 DEF DrainReturns
      <4>2. begun \in 0 .. Count /\ turn \in 1 .. Count + 1
        BY <1>t DEF Progress
      <4> QED BY <4>1, <4>2 DEF Current
    <3>3. ServiceTypeOK' /\ Reported'
      BY <1>t, <1>c, <3>1, <3>2 DEF ServiceTypeOK, Reported, WasDrained
    <3>4. \A p \in Parts : part'[p] = IF p = Current THEN end ELSE part[p]
      BY <1>t, <3>1 DEF ServiceTypeOK
    <3>5. \A k \in 1 .. begun :
             part'[StartOrder[k]] = IF k = turn THEN end ELSE part[StartOrder[k]]
      BY <3>2, <3>4
    <3>6. /\ \A k \in 1 .. turn - 1 : part[StartOrder[k]] \in WasDrained
          /\ \A k \in turn .. begun : part[StartOrder[k]] \in {"up"}
      BY <1>t, <3>2 DEF Progress, Between
    <3>7. Between(1, turn - 1, WasDrained)' /\ Between(turn, begun, {"up"})'
      BY <3>2, <3>5, <3>6 DEF Between
    <3>8. Others(Untouched)'
      <4>1. Others(Untouched)
        BY <1>t, <3>2 DEF Progress
      <4> QED BY <3>2, <3>4, <4>1 DEF Others
    <3> QED BY <1>t, <3>2, <3>3, <3>7, <3>8 DEF Progress
  <2>7. CASE BeginStops
    BY <1>t, <2>7 DEF BeginStops, ServiceTypeOK, Progress, Between, Others, Reported
  <2>8. CASE StopReturns
    <3>1. PICK end \in Ended : part' = [part EXCEPT ![Current] = end]
      BY <2>8 DEF StopReturns, Ended
    <3>2. /\ place = "stopping" /\ place' = place /\ begun' = begun /\ turn' = turn + 1
          /\ turn \in 1 .. begun /\ begun \in 1 .. Count /\ Current = StartOrder[turn]
          /\ UNCHANGED <<loaded, failure, status>>
      <4>1. /\ place = "stopping" /\ place' = place /\ begun' = begun /\ turn' = turn + 1
            /\ turn <= begun /\ UNCHANGED <<loaded, failure, status>>
        BY <2>8 DEF StopReturns
      <4>2. begun \in 0 .. Count /\ turn \in 1 .. Count + 1
        BY <1>t DEF Progress
      <4> QED BY <4>1, <4>2 DEF Current
    <3>3. ServiceTypeOK' /\ Reported'
      BY <1>t, <1>c, <3>1, <3>2 DEF ServiceTypeOK, Reported, Ended
    <3>4. \A p \in Parts : part'[p] = IF p = Current THEN end ELSE part[p]
      BY <1>t, <3>1 DEF ServiceTypeOK
    <3>5. \A k \in 1 .. begun :
             part'[StartOrder[k]] = IF k = turn THEN end ELSE part[StartOrder[k]]
      BY <3>2, <3>4
    <3>6. /\ \A k \in 1 .. turn - 1 : part[StartOrder[k]] \in Ended
          /\ \A k \in turn .. begun : part[StartOrder[k]] \in WasDrained
      BY <1>t, <3>2 DEF Progress, Between
    <3>7. Between(1, turn - 1, Ended)' /\ Between(turn, begun, WasDrained)'
      BY <3>2, <3>5, <3>6 DEF Between
    <3>8. Others(Untouched)'
      <4>1. Others(Untouched)
        BY <1>t, <3>2 DEF Progress
      <4> QED BY <3>2, <3>4, <4>1 DEF Others
    <3> QED BY <1>t, <3>2, <3>3, <3>7, <3>8 DEF Progress
  <2>9. CASE RunReturns
    BY <1>t, <2>9 DEF RunReturns, ServiceTypeOK, Progress, Between, Others, Reported
  <2>10. CASE LoopCloses
    BY <1>t, <2>10 DEF LoopCloses, ServiceTypeOK, Progress, Between, Others, Reported
  <2>11. CASE InterpreterEnds \/ ForceExit
    BY <1>t, <2>11 DEF InterpreterEnds, ForceExit, ServiceTypeOK, Progress, Reported, ExitCode, Running
  <2>12. CASE UNCHANGED serviceVars
    BY <1>t, <2>12 DEF serviceVars, ServiceTypeOK, Progress, Between, Others, Reported
  <2> QED
    BY <2>1, <2>2, <2>3, <2>4, <2>5, <2>6, <2>7, <2>8, <2>9, <2>10, <2>11, <2>12 DEF ServiceNext
<1>2. WindDownIsOrdered'
  <2>0. ((ServiceTypeOK /\ Progress) => (place = "exited" \/ WindDownIsOrdered))'
    BY ProgressOrders, PTL
  <2>1. CASE place' # "exited"
    BY <1>1, <2>0, <2>1
  <2>2. CASE place' = "exited"
    <3>1. UNCHANGED part
      BY <1>t, <2>2 DEF ServiceNext, serviceVars, Signal, ModelCrashes, InRun, StartReturns, LoadFails,
           NextStart, StartRaises, WakeUp, DrainReturns, BeginStops, StopReturns, RunReturns,
           LoopCloses, InterpreterEnds, ForceExit
    <3> QED BY <1>t, <2>2, <3>1 DEF WindDownIsOrdered
  <2> QED BY <2>1, <2>2
<1> QED BY <1>1, <1>2 DEF ServiceInv

\* The wind-down of service.py's run is ordered and reports a crash, for any
\* components and dependencies: intake closes first, nothing is stopped before
\* everything that started was drained, nobody is forgotten, and a model loop
\* that crashed never ends in a clean exit status.
THEOREM WindDownSafe == ServiceSpec => []ServiceWindsDown
<1>1. ServiceInv => ServiceWindsDown
  BY DEF ServiceInv, ServiceWindsDown, Reported, CrashIsReported
<1> QED BY <1>1, ServiceInitInv, ServiceStep, PTL DEF ServiceSpec

-------------------------------------------------------------------------------
(* The ranks: the inductive invariant.                                     *)

Message == [rank : 0 .. World, kind : {"port", "loaded", "answer"},
            error : Errors \cup {"none"}, round : Nat]

RunnerTypeOK ==
  /\ runner \in {"new", "rendezvous", "starting", "idle", "calling", "failed", "joining",
                 "ending", "unlinking", "down", "killed"}
  /\ healthy \in BOOLEAN /\ round \in Nat
  /\ got \in Seq(Message) /\ outward \in Seq(Message)
  /\ inbox \in [Ranks -> Seq(Nat)] /\ reached \in [Ranks -> Nat]
  /\ rank \in [Ranks -> {"unborn", "forming", "grouping", "loading", "ready", "working",
                         "barrier", "left", "dead"}]

\* What the ranks have put on the queue and no call is over with: taken first,
\* then still queued.
Messages == got \o outward
Sent(r) == \E i \in 1 .. Len(Messages) : Messages[i].rank = r
OnePerRank ==
  \A i, j \in 1 .. Len(Messages) : Messages[i].rank = Messages[j].rank => i = j

\* Until start is over a rank says one thing, that it loaded or why it did not;
\* rank 0's port comes before that, and is taken before start waits for the loads.
Forming == {"forming", "grouping", "loading"}
StartMessages ==
  /\ healthy /\ round = 0 /\ OnePerRank
  /\ \A i \in 1 .. Len(Messages) :
        /\ Messages[i].rank = World => Messages[i] = Port
        /\ Messages[i] = Port => runner = "rendezvous" /\ rank[0] # "forming"
  /\ runner = "starting" => rank[0] # "forming"
StartRank(r) ==
  /\ reached[r] = 0 /\ rank[r] \in Forming \cup {"ready", "dead"}
  /\ rank[r] \in Forming => ~Sent(r)
  /\ rank[r] \in {"grouping", "loading", "ready"} => inbox[r] = <<>>
  /\ inbox[r] # <<>> => inbox[r] = <<0>> /\ runner = "starting" /\ r # 0
  /\ \A i \in 1 .. Len(Messages) :
        Messages[i].rank = r /\ Messages[i].kind = "loaded" =>
          /\ inbox[r] = <<>> /\ rank[r] \in {"ready", "dead"}
          /\ runner = "starting" \/ r = 0
  /\ runner = "rendezvous" /\ r # 0 => rank[r] \in {"forming", "dead"}
StartTalk ==
  runner \in {"rendezvous", "starting"} => StartMessages /\ \A r \in Ranks : StartRank(r)

\* In a call a rank still has the request, or works on it, or answered it once.
CallMessages ==
  /\ healthy /\ round \in 1 .. MaxRounds /\ OnePerRank
  /\ \A i \in 1 .. Len(Messages) : Messages[i].rank \in Ranks /\ Messages[i].round = round
CallRank(r) ==
  \/ inbox[r] = <<round>> /\ rank[r] \in {"ready", "dead"} /\ ~Sent(r)
  \/ inbox[r] = <<>> /\ reached[r] = round /\ rank[r] \in {"working", "dead"} /\ ~Sent(r)
  \/ inbox[r] = <<>> /\ reached[r] = round /\ rank[r] \in {"ready", "dead"} /\ Sent(r)
CallTalk == runner = "calling" => CallMessages /\ \A r \in Ranks : CallRank(r)

\* Before start nothing exists, and after the kill nothing lives.
Outside ==
  /\ runner = "new" =>
        /\ healthy /\ round = 0 /\ got = <<>> /\ outward = <<>>
        /\ \A r \in Ranks : rank[r] = "unborn" /\ inbox[r] = <<>> /\ reached[r] = 0
  /\ runner = "idle" => healthy
  /\ runner \in {"unlinking", "down"} => \A r \in Ranks : ~Alive(r)
  /\ runner = "down" => blocks = {}

RunnerInv == RunnerTypeOK /\ StartTalk /\ CallTalk /\ LockStep /\ Outside

-------------------------------------------------------------------------------
(* Queues.                                                                 *)

\* Taking the head of the queue, or draining it, loses no message.
LEMMA TakenIsKept ==
  ASSUME NEW S, NEW took \in Seq(S), NEW queue \in Seq(S), queue # <<>>
  PROVE  Append(took, Head(queue)) \o Tail(queue) = took \o queue
<1> DEFINE left == Append(took, Head(queue)) \o Tail(queue)
           right == took \o queue
<1>1. /\ Head(queue) \in S /\ Tail(queue) \in Seq(S) /\ Len(Tail(queue)) = Len(queue) - 1
      /\ \A i \in 1 .. Len(Tail(queue)) : Tail(queue)[i] = queue[i + 1]
  BY HeadTailProperties
<1>2. /\ Append(took, Head(queue)) \in Seq(S) /\ Len(Append(took, Head(queue))) = Len(took) + 1
      /\ \A i \in 1 .. Len(took) + 1 :
            Append(took, Head(queue))[i] = IF i <= Len(took) THEN took[i] ELSE Head(queue)
  BY <1>1, AppendProperties
<1>3. /\ left \in Seq(S) /\ Len(left) = Len(took) + 1 + Len(Tail(queue))
      /\ \A i \in 1 .. Len(took) + 1 + Len(Tail(queue)) :
            left[i] = IF i <= Len(took) + 1 THEN Append(took, Head(queue))[i]
                      ELSE Tail(queue)[i - (Len(took) + 1)]
  BY <1>1, <1>2, ConcatProperties
<1>4. /\ right \in Seq(S) /\ Len(right) = Len(took) + Len(queue)
      /\ \A i \in 1 .. Len(took) + Len(queue) :
            right[i] = IF i <= Len(took) THEN took[i] ELSE queue[i - Len(took)]
  BY ConcatProperties
<1>5. Len(took) \in Nat /\ Len(queue) \in Nat \ {0} /\ Head(queue) = queue[1]
  BY EmptySeq, LenProperties
<1>6. Len(left) = Len(right)
  BY <1>1, <1>3, <1>4, <1>5
<1>7. ASSUME NEW i \in 1 .. Len(left) PROVE left[i] = right[i]
  <2>1. CASE i <= Len(took)
    BY <1>1, <1>2, <1>3, <1>4, <1>5, <2>1
  <2>2. CASE i = Len(took) + 1
    BY <1>1, <1>2, <1>3, <1>4, <1>5, <2>2
  <2>3. CASE i > Len(took) + 1
    <3>1. left[i] = Tail(queue)[i - (Len(took) + 1)]
      BY <1>1, <1>3, <1>5, <2>3
    <3>2. i - (Len(took) + 1) \in 1 .. Len(Tail(queue))
      BY <1>1, <1>3, <1>5, <2>3
    <3>3. left[i] = queue[i - Len(took)]
      BY <1>1, <1>5, <3>1, <3>2
    <3> QED BY <1>1, <1>3, <1>4, <1>5, <2>3, <3>3
  <2> QED BY <1>3, <1>5, <2>1, <2>2, <2>3
<1> HIDE DEF left, right
<1>8. left = right
  BY <1>3, <1>4, <1>6, <1>7, SeqEqual
<1> QED BY <1>8 DEF left, right

\* What a rank sends goes after all that is there.
LEMMA SentGoesLast ==
  ASSUME NEW S, NEW took \in Seq(S), NEW queue \in Seq(S), NEW m \in S
  PROVE  took \o Append(queue, m) = Append(took \o queue, m)
<1>1. Append(queue, m) = queue \o <<m>> /\ <<m>> \in Seq(S)
  BY AppendIsConcat
<1>2. took \o queue \in Seq(S)
  BY ConcatProperties
<1>3. Append(took \o queue, m) = (took \o queue) \o <<m>>
  BY <1>2, AppendIsConcat
<1> QED BY <1>1, <1>3, ConcatAssociative

\* A send is seen, and so is what was sent.
LEMMA SendShows ==
  ASSUME NEW S, NEW queue \in Seq(S), NEW m \in S, NEW n \in S
  PROVE  /\ Append(queue, m) # queue
         /\ Append(queue, m) = Append(queue, n) => m = n
<1>1. Len(queue) \in Nat
  BY LenProperties
<1>2. /\ Len(Append(queue, m)) = Len(queue) + 1
      /\ Append(queue, m)[Len(queue) + 1] = m /\ Append(queue, n)[Len(queue) + 1] = n
  BY AppendProperties
<1> QED BY <1>1, <1>2

\* The caller's bookkeeping keeps every message in its place.
LEMMA MessagesFacts ==
  ASSUME RunnerTypeOK
  PROVE  /\ Messages \in Seq(Message) /\ Len(Messages) = Len(got) + Len(outward)
         /\ Len(got) \in Nat /\ Len(outward) \in Nat /\ Len(Messages) \in Nat
         /\ \A i \in 1 .. Len(got) : Messages[i] = got[i]
         /\ \A i \in 1 .. Len(outward) : Messages[Len(got) + i] = outward[i]
         /\ \A i \in 1 .. Len(Messages) : Messages[i] \in Message
<1>1. got \in Seq(Message) /\ outward \in Seq(Message)
  BY DEF RunnerTypeOK
<1>2. Len(got) \in Nat /\ Len(outward) \in Nat
  BY <1>1, LenProperties
<1>3. /\ Messages \in Seq(Message) /\ Len(Messages) = Len(got) + Len(outward)
      /\ \A i \in 1 .. Len(got) + Len(outward) :
            Messages[i] = IF i <= Len(got) THEN got[i] ELSE outward[i - Len(got)]
  BY <1>1, ConcatProperties DEF Messages
<1>4. \A i \in 1 .. Len(Messages) : Messages[i] \in Message
  BY <1>3, ElementOfSeq
<1>5. ASSUME NEW i \in 1 .. Len(outward) PROVE Messages[Len(got) + i] = outward[i]
  <2>1. Len(got) + i \in 1 .. Len(got) + Len(outward) /\ ~(Len(got) + i <= Len(got))
    BY <1>2
  <2>2. (Len(got) + i) - Len(got) = i
    BY <1>2
  <2> QED BY <1>3, <2>1, <2>2
<1> QED BY <1>2, <1>3, <1>4, <1>5

\* One answer from each rank of as many messages as there are ranks: nobody is
\* missing and nothing is left on the queue.
LEMMA EveryRankSpoke ==
  ASSUME RunnerTypeOK, OnePerRank, Len(got) >= World,
         \A i \in 1 .. Len(Messages) : Messages[i].rank \in Ranks
  PROVE  outward = <<>> /\ \A r \in Ranks : \E i \in 1 .. Len(got) : got[i].rank = r
<1> DEFINE f == [i \in 1 .. Len(Messages) |-> Messages[i].rank]
<1> USE WorldAssumption, MessagesFacts
<1>1. f \in Injection(1 .. Len(Messages), Ranks)
  BY DEF OnePerRank, Injection, IsInjective
<1>2. IsFiniteSet(Ranks) /\ Cardinality(Ranks) = World
  <2>1. 0 \in Int /\ World - 1 \in Int /\ ~(0 > World - 1) /\ (World - 1) - 0 + 1 = World
    OBVIOUS
  <2>2. IsFiniteSet(0 .. World - 1) /\ Cardinality(0 .. World - 1) =
          IF 0 > World - 1 THEN 0 ELSE (World - 1) - 0 + 1
    BY <2>1, FS_Interval, Zenon
  <2> QED BY <2>1, <2>2, Zenon DEF Ranks
<1>3. Cardinality(1 .. Len(Messages)) = Len(Messages)
  <2>1. Cardinality(1 .. Len(Messages)) =
          IF 1 > Len(Messages) THEN 0 ELSE Len(Messages) - 1 + 1
    <3>1. 1 \in Int /\ Len(Messages) \in Int
      OBVIOUS
    <3> QED BY <3>1, FS_Interval, Zenon
  <2> QED BY <2>1, SMT
<1>4. Len(Messages) <= World
  BY <1>1, <1>2, <1>3, FS_Injection
<1>5. Len(outward) = 0 /\ Len(got) = World /\ Len(Messages) = World
  BY <1>4
<1>6. outward = <<>>
  BY <1>5, EmptySeq DEF RunnerTypeOK
<1>7. f \in Surjection(1 .. Len(Messages), Ranks)
  BY <1>1, <1>2, <1>3, <1>5, FS_Injection
<1>8. \A r \in Ranks : \E i \in 1 .. Len(Messages) : f[i] = r
  BY <1>7 DEF Surjection
<1> QED BY <1>5, <1>6, <1>8

-------------------------------------------------------------------------------
(* The invariant holds.                                                    *)

\* Every step keeps the types.
LEMMA RunnerTypeStep == RunnerTypeOK /\ [RunnerNext]_runnerVars => RunnerTypeOK'
<1> SUFFICES ASSUME RunnerTypeOK, [RunnerNext]_runnerVars PROVE RunnerTypeOK'
  OBVIOUS
<1> USE WorldAssumption
<1>0. \A r \in Ranks, kind \in {"loaded", "answer"}, e \in Errors \cup {"none"} :
         RankMessage(r, kind, e) \in Message
  BY DEF RankMessage, Message, RunnerTypeOK, Ranks
<1>p. Port \in Message /\ 0 \in Ranks
  BY DEF Port, Message, Ranks
<1>1. CASE StartRunner
  BY <1>1 DEF StartRunner, RunnerTypeOK
<1>2. CASE Rendezvous \/ StartEnds
  <2>1. got' = <<>> /\ <<>> \in Seq(Message) /\ UNCHANGED <<round, outward, rank, reached>>
    BY <1>2, EmptySeq DEF Rendezvous, StartEnds
  <2>2. runner' \in {"starting", "idle", "failed"} /\ healthy' \in {healthy, FALSE}
    BY <1>2 DEF Rendezvous, StartEnds
  <2>3. inbox' \in [Ranks -> Seq(Nat)]
    <3>1. \A r \in Ranks : inbox[r] \in Seq(Nat) /\ Append(inbox[r], 0) \in Seq(Nat)
      BY DEF RunnerTypeOK
    <3> QED BY <1>2, <3>1 DEF Rendezvous, StartEnds, RunnerTypeOK
  <2> QED BY <2>1, <2>2, <2>3 DEF RunnerTypeOK
<1>3. CASE BeginCall \/ BeginShutdown \/ JoinsEnd \/ TakeMessage \/ CheckAlive
  <2>1. \A r \in Ranks, n \in Nat : Append(inbox[r], n) \in Seq(Nat)
    BY DEF RunnerTypeOK
  <2>2. CASE BeginCall
    <3>1. inbox' = [r \in Ranks |-> Append(inbox[r], round + 1)] /\ round + 1 \in Nat
      BY <2>2 DEF BeginCall, RunnerTypeOK
    <3>2. inbox' \in [Ranks -> Seq(Nat)]
      BY <2>1, <3>1
    <3>3. <<>> \in Seq(Message)
      BY EmptySeq
    <3> QED BY <2>2, <3>1, <3>2, <3>3 DEF BeginCall, RunnerTypeOK
  <2>3. CASE BeginShutdown
    <3>0. \A r \in Ranks : Append(inbox[r], MaxRounds + 1) \in Seq(Nat)
      BY <2>1
    <3>1. inbox' \in [Ranks -> Seq(Nat)]
      BY <2>3, <3>0 DEF BeginShutdown, RunnerTypeOK
    <3> QED BY <2>3, <3>1 DEF BeginShutdown, RunnerTypeOK
  <2>4. CASE JoinsEnd
    BY <2>4 DEF JoinsEnd, RunnerTypeOK
  <2>5. CASE TakeMessage
    BY <2>5 DEF TakeMessage, RunnerTypeOK
  <2>6. CASE CheckAlive
    <3>1. got \o outward \in Seq(Message) /\ <<>> \in Seq(Message)
      BY ConcatProperties, EmptySeq DEF RunnerTypeOK
    <3>2. /\ got' = got \o outward /\ outward' = <<>>
          /\ runner' \in {runner, "failed"} /\ healthy' \in {healthy, FALSE}
          /\ UNCHANGED <<round, inbox, rank, reached>>
      BY <2>6 DEF CheckAlive
    <3> QED BY <3>1, <3>2 DEF RunnerTypeOK
  <2> QED BY <1>3, <2>2, <2>3, <2>4, <2>5, <2>6
<1>5. CASE WaitFails \/ Decide \/ UnlinkAll
  BY <1>5 DEF WaitFails, Decide, UnlinkAll, RunnerTypeOK
<1>6. CASE KillRanks
  BY <1>6 DEF KillRanks, RunnerTypeOK
<1>7. CASE RunnerKilled
  BY <1>7 DEF RunnerKilled, RunnerTypeOK
<1>8. CASE ReportPort
  BY <1>8, <1>p DEF ReportPort, RunnerTypeOK
<1>9. ASSUME NEW r \in Ranks, JoinGroup(r) PROVE RunnerTypeOK'
  BY <1>9 DEF JoinGroup, RunnerTypeOK
<1>10. ASSUME NEW r \in Ranks, GroupForms(r) \/ RankDies(r) \/ LeaveGroup(r) \/ SeeRunnerGone(r)
       PROVE  RunnerTypeOK'
  BY <1>10 DEF GroupForms, RankDies, LeaveGroup, SeeRunnerGone, RunnerTypeOK
<1>11. ASSUME NEW r \in Ranks, LoadReturns(r) \/ LoadRaises(r) \/ WorkEnds(r) PROVE RunnerTypeOK'
  <2>1. PICK m \in Message : outward' = Append(outward, m)
    BY <1>0, <1>11 DEF LoadReturns, LoadRaises, WorkEnds, RankLoaded, RankAnswer
  <2>2. outward' \in Seq(Message)
    BY <2>1 DEF RunnerTypeOK
  <2>3. PICK life \in {"ready", "dead"} : rank' = [rank EXCEPT ![r] = life]
    BY <1>11 DEF LoadReturns, LoadRaises, WorkEnds
  <2>4. UNCHANGED <<runner, healthy, round, got, inbox, reached>>
    BY <1>11 DEF LoadReturns, LoadRaises, WorkEnds
  <2> QED BY <2>2, <2>3, <2>4 DEF RunnerTypeOK
<1>13. ASSUME NEW r \in Ranks, Receive(r) PROVE RunnerTypeOK'
  <2>1. /\ inbox[r] \in Seq(Nat) /\ Head(inbox[r]) \in Nat /\ Tail(inbox[r]) \in Seq(Nat)
    BY <1>13, HeadTailProperties DEF Receive, RunnerTypeOK
  <2> QED BY <1>13, <2>1 DEF Receive, RunnerTypeOK
<1>12. CASE UNCHANGED runnerVars
  BY <1>12 DEF runnerVars, RunnerTypeOK
<1> QED BY <1>1, <1>2, <1>3, <1>5, <1>6, <1>7, <1>8, <1>9, <1>10, <1>11, <1>12, <1>13 DEF RunnerNext

\* Taking, draining and waiting move no message.
LEMMA MessagesStay ==
  ASSUME RunnerTypeOK, UNCHANGED <<got, outward>> \/ TakeMessage \/ CheckAlive
  PROVE  Messages' = Messages
<1>1. got \in Seq(Message) /\ outward \in Seq(Message)
  BY DEF RunnerTypeOK
<1>2. CASE UNCHANGED <<got, outward>>
  BY <1>2 DEF Messages
<1>3. CASE TakeMessage
  BY <1>1, <1>3, TakenIsKept DEF TakeMessage, Messages
<1>4. CASE CheckAlive
  <2>1. got' = got \o outward /\ outward' = <<>> /\ got \o outward \in Seq(Message)
    BY <1>1, <1>4, ConcatProperties DEF CheckAlive
  <2> QED BY <2>1, ConcatEmptySeq DEF Messages
<1> QED BY <1>2, <1>3, <1>4

\* A rank's send adds its message last.
LEMMA MessageAdded ==
  ASSUME RunnerTypeOK, NEW m \in Message, outward' = Append(outward, m), UNCHANGED got
  PROVE  /\ Len(Messages') = Len(Messages) + 1 /\ Len(Messages) \in Nat
         /\ \A i \in 1 .. Len(Messages) : Messages'[i] = Messages[i]
         /\ Messages'[Len(Messages) + 1] = m
<1>1. Messages \in Seq(Message) /\ Len(Messages) \in Nat
  BY MessagesFacts
<1>2. Messages' = Append(Messages, m)
  BY SentGoesLast DEF Messages, RunnerTypeOK
<1> QED BY <1>1, <1>2, AppendProperties

\* What one rank does leaves the others as they were.
LEMMA OthersStay ==
  ASSUME RunnerTypeOK, NEW q \in Ranks, UNCHANGED <<runner, round, got>>,
         rank'[q] = rank[q], inbox'[q] = inbox[q], reached'[q] = reached[q],
         UNCHANGED outward \/ \E m \in Message : outward' = Append(outward, m) /\ m.rank # q
  PROVE  (StartRank(q) => StartRank(q)') /\ (CallRank(q) => CallRank(q)')
<1>1. CASE UNCHANGED outward
  <2>1. Messages' = Messages
    BY <1>1, MessagesStay
  <2> QED BY <2>1 DEF StartRank, CallRank, Sent
<1>2. CASE \E m \in Message : outward' = Append(outward, m) /\ m.rank # q
  <2>1. PICK m \in Message : outward' = Append(outward, m) /\ m.rank # q
    BY <1>2
  <2>2. /\ Len(Messages') = Len(Messages) + 1 /\ Len(Messages) \in Nat
        /\ \A i \in 1 .. Len(Messages) : Messages'[i] = Messages[i]
        /\ Messages'[Len(Messages) + 1] = m
    BY <2>1, MessageAdded
  <2>3. \A i \in 1 .. Len(Messages') : Messages'[i].rank = q =>
           i \in 1 .. Len(Messages) /\ Messages'[i] = Messages[i]
    BY <2>1, <2>2
  <2>4. Sent(q)' <=> Sent(q)
    BY <2>2, <2>3 DEF Sent
  <2> QED BY <2>3, <2>4 DEF StartRank, CallRank
<1> QED BY <1>1, <1>2

\* A rank that has not spoken may speak: nobody is heard twice.
LEMMA FirstWord ==
  ASSUME RunnerTypeOK, OnePerRank, UNCHANGED got,
         NEW m \in Message, outward' = Append(outward, m), ~Sent(m.rank)
  PROVE  /\ OnePerRank' /\ Sent(m.rank)'
         /\ \A i \in 1 .. Len(Messages') :
               \/ i \in 1 .. Len(Messages) /\ Messages'[i] = Messages[i]
               \/ Messages'[i] = m
<1>1. /\ Len(Messages') = Len(Messages) + 1 /\ Len(Messages) \in Nat
      /\ \A i \in 1 .. Len(Messages) : Messages'[i] = Messages[i]
      /\ Messages'[Len(Messages) + 1] = m
  BY MessageAdded
<1>2. \A i \in 1 .. Len(Messages') :
         \/ i \in 1 .. Len(Messages) /\ Messages'[i] = Messages[i]
         \/ i = Len(Messages) + 1 /\ Messages'[i] = m
  BY <1>1
<1>3. \A i \in 1 .. Len(Messages) : Messages[i].rank # m.rank
  BY DEF Sent
<1>4. OnePerRank'
  BY <1>1, <1>2, <1>3 DEF OnePerRank
<1>5. Sent(m.rank)'
  BY <1>1 DEF Sent
<1> QED BY <1>2, <1>4, <1>5

\* A rank's own step keeps what the talks say of it and of the others.
LEMMA RankStep ==
  ASSUME RunnerInv, NEW r \in Ranks,
         \/ JoinGroup(r) \/ GroupForms(r) \/ LoadReturns(r) \/ LoadRaises(r) \/ Receive(r)
         \/ WorkEnds(r) \/ LeaveGroup(r) \/ SeeRunnerGone(r) \/ RankDies(r)
  PROVE  StartTalk' /\ CallTalk' /\ LockStep' /\ Outside'
<1> USE WorldAssumption
<1>0. RunnerTypeOK /\ StartTalk /\ CallTalk /\ LockStep /\ Outside
  BY DEF RunnerInv
<1>1. /\ Alive(r) /\ UNCHANGED <<runner, healthy, round, got>>
      /\ \A q \in Ranks : q # r => rank'[q] = rank[q] /\ inbox'[q] = inbox[q] /\ reached'[q] = reached[q]
  BY <1>0 DEF JoinGroup, GroupForms, LoadReturns, LoadRaises, Receive, WorkEnds, LeaveGroup, SeeRunnerGone,
              RankDies, Alive, RunnerTypeOK
<1>2. runner \notin {"new", "unlinking", "down"}
  BY <1>0, <1>1 DEF Outside, Alive
<1>3. Outside'
  BY <1>0, <1>1, <1>2 DEF Outside
<1>4. \/ UNCHANGED outward
      \/ \E kind \in {"loaded", "answer"}, e \in Errors \cup {"none"} :
            outward' = Append(outward, RankMessage(r, kind, e))
  BY DEF JoinGroup, GroupForms, LoadReturns, LoadRaises, Receive, WorkEnds, LeaveGroup, SeeRunnerGone,
         RankDies, RankLoaded, RankAnswer
<1>5. \A kind \in {"loaded", "answer"}, e \in Errors \cup {"none"} :
         /\ RankMessage(r, kind, e) \in Message /\ RankMessage(r, kind, e).rank = r
         /\ RankMessage(r, kind, e).kind = kind /\ RankMessage(r, kind, e).round = reached[r]
         /\ RankMessage(r, kind, e) # Port /\ r # World
  BY <1>0 DEF RankMessage, Message, RunnerTypeOK, Ranks, Port
<1>6. ASSUME NEW q \in Ranks, q # r
      PROVE  (StartRank(q) => StartRank(q)') /\ (CallRank(q) => CallRank(q)')
  <2>1. UNCHANGED outward \/ \E m \in Message : outward' = Append(outward, m) /\ m.rank # q
    BY <1>4, <1>5, <1>6
  <2> QED BY <1>0, <1>1, <1>6, <2>1, OthersStay
<1>7. LockStep'
  <2> SUFFICES ASSUME runner = "idle", healthy PROVE LockStep'
    BY <1>1 DEF LockStep
  <2>1. outward = <<>> /\ rank[r] = "ready" /\ inbox[r] = <<>>
    BY <1>0, <1>1 DEF LockStep, Alive
  <2>2. RankDies(r)
    BY <2>1 DEF JoinGroup, GroupForms, LoadReturns, LoadRaises, Receive, WorkEnds, LeaveGroup, SeeRunnerGone
  <2> QED BY <1>0, <1>1, <2>2 DEF RankDies, LockStep, RunnerTypeOK
<1>8. StartTalk'
  <2> SUFFICES ASSUME runner \in {"rendezvous", "starting"} PROVE StartMessages' /\ StartRank(r)'
    BY <1>0, <1>1, <1>6 DEF StartTalk
  <2>1. StartMessages /\ StartRank(r)
    BY <1>0 DEF StartTalk
  <2>2. CASE UNCHANGED outward
    <3>1. Messages' = Messages
      BY <1>0, <1>1, <2>2, MessagesStay
    <3>2. JoinGroup(r) \/ GroupForms(r) \/ RankDies(r)
      <4>1. outward' # Append(outward, RankLoaded(r)) /\ \A e \in Errors : outward' # Append(outward, RankAnswer(r, e))
        BY <1>0, <1>5, <2>2, SendShows DEF RunnerTypeOK, RankLoaded, RankAnswer
      <4> QED BY <2>1, <4>1 DEF StartRank, Forming, LoadReturns, LoadRaises, Receive, WorkEnds,
                                LeaveGroup, SeeRunnerGone
    <3>3. rank'[0] = "forming" => rank[0] = "forming"
      BY <1>0, <1>1, <3>2 DEF JoinGroup, GroupForms, RankDies, RunnerTypeOK, Ranks
    <3>4. StartMessages'
      BY <1>1, <2>1, <3>1, <3>3 DEF StartMessages, OnePerRank
    <3>5. CASE JoinGroup(r)
      <4>1. rank[r] = "forming" /\ rank'[r] = "grouping" /\ inbox'[r] = Tail(inbox[r]) /\ inbox[r] # <<>>
            /\ reached'[r] = reached[r]
        BY <1>0, <3>5 DEF JoinGroup, RunnerTypeOK
      <4>2. inbox'[r] = <<>>
        <5>1. inbox[r] = <<0>> /\ Tail(<<0>>) = <<>>
          BY <2>1, <4>1 DEF StartRank
        <5> QED BY <4>1, <5>1
      <4>3. ~Sent(r)'
        BY <2>1, <3>1, <4>1 DEF StartRank, Sent, Forming
      <4>4. runner = "starting"
        BY <2>1, <4>1 DEF StartRank
      <4>5. \A i \in 1 .. Len(Messages') : Messages'[i].rank # r
        BY <4>3 DEF Sent
      <4> QED BY <1>1, <2>1, <4>1, <4>2, <4>4, <4>5, <3>4 DEF StartRank, Forming, Sent
    <3>6. CASE GroupForms(r) \/ RankDies(r)
      <4>1. /\ inbox'[r] = inbox[r] /\ reached'[r] = reached[r]
            /\ \/ rank'[r] = "dead"
               \/ rank[r] = "grouping" /\ rank'[r] = "loading"
        BY <1>0, <3>6 DEF GroupForms, RankDies, RunnerTypeOK
      <4> QED BY <1>1, <2>1, <3>1, <3>4, <4>1 DEF StartRank, Forming, Sent
    <3> QED BY <3>2, <3>5, <3>6
  <2>3. ASSUME NEW kind \in {"loaded", "answer"}, NEW e \in Errors \cup {"none"},
               outward' = Append(outward, RankMessage(r, kind, e))
        PROVE  StartMessages' /\ StartRank(r)'
    <3> DEFINE m == RankMessage(r, kind, e)
    <3>1. /\ rank[r] \in Forming /\ inbox'[r] = inbox[r] /\ reached'[r] = reached[r]
          /\ \/ rank[r] = "loading" /\ rank'[r] = "ready"
             \/ kind = "answer" /\ rank'[r] = "dead"
      <4>1. outward' # outward
        BY <1>0, <1>5, <2>3, SendShows DEF RunnerTypeOK
      <4>2. LoadReturns(r) \/ LoadRaises(r)
        BY <2>1, <4>1 DEF StartRank, Forming, JoinGroup, GroupForms, Receive, WorkEnds, LeaveGroup,
                          SeeRunnerGone, RankDies
      <4>3. CASE LoadReturns(r)
        BY <1>0, <4>3 DEF LoadReturns, Forming, RunnerTypeOK
      <4>4. CASE LoadRaises(r)
        <5>1. PICK f \in Errors : outward' = Append(outward, RankAnswer(r, f))
          BY <4>4 DEF LoadRaises
        <5>2. RankAnswer(r, f) = m
          <6>1. RankAnswer(r, f) \in Message /\ m \in Message /\ outward \in Seq(Message)
            BY <1>0, <1>5 DEF RankAnswer, RunnerTypeOK
          <6>2. Append(outward, RankAnswer(r, f)) = Append(outward, m)
            BY <2>3, <5>1
          <6> HIDE DEF m
          <6> QED BY <6>1, <6>2, SendShows
        <5>3. kind = "answer"
          BY <1>5, <5>2 DEF RankAnswer
        <5> QED BY <1>0, <4>4, <5>3 DEF LoadRaises, Forming, RunnerTypeOK
      <4> QED BY <4>2, <4>3, <4>4
    <3>2. m \in Message /\ m.rank = r /\ m.kind = kind /\ m # Port /\ r # World
      BY <1>5
    <3> HIDE DEF m
    <3>3. /\ OnePerRank' /\ Sent(r)'
          /\ \A i \in 1 .. Len(Messages') :
                \/ i \in 1 .. Len(Messages) /\ Messages'[i] = Messages[i]
                \/ Messages'[i] = m
      <4>1. ~Sent(m.rank) /\ OnePerRank /\ outward' = Append(outward, m)
        BY <2>1, <2>3, <3>1, <3>2 DEF StartRank, StartMessages, m
      <4> QED BY <1>0, <1>1, <3>2, <4>1, FirstWord
    <3>4. \A i \in 1 .. Len(Messages) : Messages[i].rank # r
      BY <2>1, <3>1 DEF StartRank, Sent
    <3>5. rank'[0] = "forming" => rank[0] = "forming"
      BY <1>1, <3>1 DEF Ranks
    <3>6. StartMessages'
      BY <1>1, <2>1, <3>2, <3>3, <3>5 DEF StartMessages
    <3>7. StartRank(r)'
      BY <1>1, <2>1, <3>1, <3>2, <3>3, <3>4 DEF StartRank, Forming
    <3> QED BY <3>6, <3>7
  <2> QED BY <1>4, <2>2, <2>3
<1>9. CallTalk'
  <2> SUFFICES ASSUME runner = "calling" PROVE CallMessages' /\ CallRank(r)'
    BY <1>0, <1>1, <1>6 DEF CallTalk
  <2>1. CallMessages /\ CallRank(r)
    BY <1>0 DEF CallTalk
  <2>2. Receive(r) \/ WorkEnds(r) \/ RankDies(r)
    BY <2>1 DEF CallRank, JoinGroup, GroupForms, LoadReturns, LoadRaises, LeaveGroup, SeeRunnerGone
  <2>3. CASE Receive(r) \/ RankDies(r)
    <3>1. Messages' = Messages
      BY <1>0, <1>1, <2>3, MessagesStay DEF Receive, RankDies
    <3>2. CallMessages'
      BY <1>1, <2>1, <3>1 DEF CallMessages, OnePerRank
    <3>3. CASE Receive(r)
      <4>1. inbox[r] = <<round>> /\ rank[r] = "ready" /\ ~Sent(r)
        BY <2>1, <3>3 DEF Receive, CallRank
      <4>2. Head(inbox[r]) = round /\ Tail(inbox[r]) = <<>> /\ ~(round > MaxRounds)
        BY <2>1, <4>1 DEF CallMessages
      <4>3. rank'[r] = "working" /\ reached'[r] = round /\ inbox'[r] = <<>>
        BY <1>0, <3>3, <4>2 DEF Receive, RunnerTypeOK
      <4> QED BY <1>1, <3>1, <3>2, <4>1, <4>3 DEF CallRank, Sent
    <3>4. CASE RankDies(r)
      <4>1. rank'[r] = "dead" /\ reached'[r] = reached[r] /\ inbox'[r] = inbox[r]
        BY <1>0, <3>4 DEF RankDies, RunnerTypeOK
      <4> QED BY <1>1, <2>1, <3>1, <3>2, <4>1 DEF CallRank, Sent
    <3> QED BY <2>3, <3>3, <3>4
  <2>4. CASE WorkEnds(r)
    <3>1. PICK e \in Errors \cup {"none"} : outward' = Append(outward, RankMessage(r, "answer", e))
      BY <2>4 DEF WorkEnds, RankAnswer
    <3> DEFINE m == RankMessage(r, "answer", e)
    <3>2. m \in Message /\ m.rank = r /\ m.round = reached[r]
      BY <1>5
    <3>3. inbox[r] = <<>> /\ reached[r] = round /\ ~Sent(r)
      BY <2>1, <2>4 DEF WorkEnds, CallRank
    <3> HIDE DEF m
    <3>4. /\ OnePerRank' /\ Sent(r)'
          /\ \A i \in 1 .. Len(Messages') :
                \/ i \in 1 .. Len(Messages) /\ Messages'[i] = Messages[i]
                \/ Messages'[i] = m
      <4>1. ~Sent(m.rank) /\ OnePerRank /\ outward' = Append(outward, m)
        BY <2>1, <3>1, <3>2, <3>3 DEF CallMessages, m
      <4> QED BY <1>0, <1>1, <3>2, <4>1, FirstWord
    <3>5. rank'[r] = "ready" /\ reached'[r] = reached[r] /\ inbox'[r] = inbox[r]
      BY <1>0, <2>4 DEF WorkEnds, RunnerTypeOK
    <3>6. CallMessages'
      BY <1>1, <2>1, <3>2, <3>3, <3>4 DEF CallMessages
    <3> QED BY <1>1, <3>3, <3>4, <3>5, <3>6 DEF CallRank
  <2> QED BY <2>2, <2>3, <2>4
<1> QED BY <1>3, <1>7, <1>8, <1>9

\* The port is the first thing rank 0 says.
LEMMA PortStep == RunnerInv /\ ReportPort => StartTalk' /\ CallTalk' /\ LockStep' /\ Outside'
<1> SUFFICES ASSUME RunnerInv, ReportPort PROVE StartTalk' /\ CallTalk' /\ LockStep' /\ Outside'
  OBVIOUS
<1> USE WorldAssumption
<1>0. RunnerTypeOK /\ StartTalk /\ CallTalk /\ LockStep /\ Outside
  BY DEF RunnerInv
<1>1. /\ 0 \in Ranks /\ World \notin Ranks /\ Port \in Message /\ Port.rank = World /\ Port.kind = "port"
  BY DEF Ranks, Port, Message
<1>2. /\ rank[0] = "forming" /\ rank'[0] = "grouping" /\ outward' = Append(outward, Port)
      /\ UNCHANGED <<runner, healthy, round, got, inbox, reached, blocks>>
      /\ \A q \in Ranks : q # 0 => rank'[q] = rank[q]
  BY <1>0, <1>1 DEF ReportPort, RunnerTypeOK
<1>3. runner \notin {"new", "idle", "calling", "starting", "unlinking", "down"}
  <2>1. runner # "calling" /\ runner # "starting"
    BY <1>0, <1>1, <1>2 DEF CallTalk, CallRank, StartTalk, StartMessages
  <2>2. runner # "idle"
    BY <1>0, <1>1, <1>2 DEF LockStep, Outside
  <2> QED BY <1>0, <1>1, <1>2, <2>1, <2>2 DEF Outside, Alive
<1>4. CallTalk' /\ LockStep' /\ Outside'
  BY <1>0, <1>2, <1>3 DEF CallTalk, LockStep, Outside
<1>5. StartTalk'
  <2> SUFFICES ASSUME runner = "rendezvous" PROVE StartMessages' /\ \A q \in Ranks : StartRank(q)'
    BY <1>2, <1>3 DEF StartTalk
  <2>1. StartMessages /\ \A q \in Ranks : StartRank(q)
    BY <1>0 DEF StartTalk
  <2>2. ~Sent(World)
    BY <1>2, <2>1 DEF Sent, StartMessages
  <2>3. /\ OnePerRank'
        /\ \A i \in 1 .. Len(Messages') :
              \/ i \in 1 .. Len(Messages) /\ Messages'[i] = Messages[i]
              \/ Messages'[i] = Port
    BY <1>0, <1>1, <1>2, <2>1, <2>2, FirstWord DEF StartMessages
  <2>4. StartMessages'
    BY <1>1, <1>2, <2>1, <2>3 DEF StartMessages
  <2>5. ASSUME NEW q \in Ranks, q # 0 PROVE StartRank(q)'
    BY <1>0, <1>1, <1>2, <2>1, <2>5, OthersStay
  <2>6. StartRank(0)'
    <3>1. \A i \in 1 .. Len(Messages') : Messages'[i].rank # 0
      BY <1>1, <1>2, <2>1, <2>3 DEF StartRank, Forming, Sent, Ranks
    <3>2. inbox[0] = <<>>
      BY <1>1, <2>1 DEF StartRank
    <3> QED BY <1>1, <1>2, <2>1, <3>1, <3>2 DEF StartRank, Forming, Sent
  <2> QED BY <2>4, <2>5, <2>6
<1> QED BY <1>4, <1>5

\* The caller's own steps.
LEMMA CallerStep ==
  ASSUME RunnerInv,
         \/ StartRunner \/ Rendezvous \/ StartEnds \/ BeginCall \/ TakeMessage \/ CheckAlive
         \/ WaitFails \/ Decide \/ BeginShutdown \/ JoinsEnd \/ KillRanks \/ UnlinkAll
         \/ RunnerKilled
  PROVE  StartTalk' /\ CallTalk' /\ LockStep' /\ Outside'
<1> USE WorldAssumption
<1>0. RunnerTypeOK /\ StartTalk /\ CallTalk /\ LockStep /\ Outside
  BY DEF RunnerInv
<1>1. /\ Len(Messages) = Len(got) + Len(outward)
      /\ Len(got) \in Nat /\ Len(outward) \in Nat /\ Len(Messages) \in Nat
      /\ \A i \in 1 .. Len(got) : Messages[i] = got[i]
      /\ \A i \in 1 .. Len(outward) : Messages[Len(got) + i] = outward[i]
      /\ \A i \in 1 .. Len(Messages) : Messages[i] \in Message
      /\ outward \in Seq(Message)
  BY <1>0, MessagesFacts DEF RunnerTypeOK
<1>2. CASE StartRunner
  <2>1. runner' \in {"rendezvous", "starting"}
    BY <1>2 DEF StartRunner
  <2>2. Messages' = <<>>
    BY <1>0, <1>2 DEF StartRunner, Outside, Messages
  <2>3. \A r \in Ranks : rank'[r] \in {"forming", "loading"} /\ inbox'[r] = <<>> /\ reached'[r] = 0
    BY <1>0, <1>2 DEF StartRunner, Outside
  <2>4. /\ runner' = "starting" => rank'[0] # "forming"
        /\ runner' = "rendezvous" => \A r \in Ranks : rank'[r] = "forming"
    BY <1>2 DEF StartRunner, Ranks
  <2>5. StartMessages' /\ \A r \in Ranks : StartRank(r)'
    BY <1>0, <1>2, <2>2, <2>3, <2>4 DEF StartMessages, StartRank, Forming, Sent, OnePerRank, Outside, StartRunner
  <2> QED BY <2>1, <2>5 DEF StartTalk, CallTalk, LockStep, Outside
<1>3. CASE Rendezvous
  <2>1. CASE runner' = "failed"
    BY <2>1 DEF StartTalk, CallTalk, LockStep, Outside
  <2>2. CASE runner' = "starting"
    <3>1. /\ runner = "rendezvous" /\ Len(got) >= 1 /\ got[1] = Port /\ got' = <<>>
          /\ inbox' = [r \in Ranks |-> IF r = 0 THEN inbox[r] ELSE Append(inbox[r], 0)]
          /\ UNCHANGED <<healthy, round, outward, rank, reached>>
      BY <1>3, <2>2 DEF Rendezvous, Collected, Wanted
    <3>2. StartMessages /\ \A r \in Ranks : StartRank(r)
      BY <1>0, <3>1 DEF StartTalk
    <3>3. Messages' = outward
      BY <1>1, <3>1, ConcatEmptySeq DEF Messages
    <3>4. \A i \in 1 .. Len(Messages') : Len(got) + i \in 1 .. Len(Messages) /\ Messages'[i] = Messages[Len(got) + i]
      BY <1>1, <3>3
    <3>5. OnePerRank'
      <4> SUFFICES ASSUME NEW i \in 1 .. Len(Messages'), NEW j \in 1 .. Len(Messages'),
                          Messages'[i].rank = Messages'[j].rank
                   PROVE  i = j
        BY DEF OnePerRank
      <4>1. Len(got) + i = Len(got) + j
        BY <3>2, <3>4 DEF StartMessages, OnePerRank
      <4> QED BY <1>1, <3>3, <4>1
    <3>6. 1 \in 1 .. Len(Messages) /\ Messages[1] = Port /\ Port.rank = World
      BY <1>1, <3>1 DEF Port
    <3>7. \A i \in 1 .. Len(Messages') : Messages'[i].rank # World
      <4> SUFFICES ASSUME NEW i \in 1 .. Len(Messages'), Messages'[i].rank = World PROVE FALSE
        OBVIOUS
      <4>1. Len(got) + i = 1
        BY <3>2, <3>4, <3>6 DEF StartMessages, OnePerRank
      <4> QED BY <1>1, <3>1, <3>3, <4>1
    <3>8. rank[0] # "forming"
      BY <3>2, <3>6 DEF StartMessages
    <3>9. StartMessages'
      BY <2>2, <3>1, <3>2, <3>5, <3>6, <3>7, <3>8 DEF StartMessages
    <3>10. ASSUME NEW r \in Ranks PROVE StartRank(r)'
      <4>1. inbox[r] = <<>> /\ Append(<<>>, 0) = <<0>>
        BY <3>1, <3>2 DEF StartRank
      <4>2. \A i \in 1 .. Len(Messages') : Messages'[i].rank = r => Sent(r)
        BY <3>4 DEF Sent
      <4>3. CASE r = 0
        <5>1. inbox'[r] = <<>>
          BY <3>1, <4>1, <4>3
        <5> QED BY <2>2, <3>1, <3>2, <3>4, <4>2, <5>1 DEF StartRank, Sent
      <4>4. CASE r # 0
        <5>1. inbox'[r] = <<0>>
          BY <3>1, <4>1, <4>4
        <5>2. rank[r] \in {"forming", "dead"}
          BY <3>1, <3>2, <4>4 DEF StartRank
        <5>3. \A i \in 1 .. Len(Messages') : ~(Messages'[i].rank = r /\ Messages'[i].kind = "loaded")
          BY <3>1, <3>2, <3>4, <4>4 DEF StartRank
        <5> QED BY <2>2, <3>1, <3>2, <3>4, <4>2, <4>4, <5>1, <5>2, <5>3 DEF StartRank, Sent, Forming
      <4> QED BY <4>3, <4>4
    <3> QED BY <2>2, <3>9, <3>10 DEF StartTalk, CallTalk, LockStep, Outside
  <2> QED BY <1>3, <2>1, <2>2 DEF Rendezvous
<1>4. CASE StartEnds
  <2>1. CASE runner' = "failed"
    BY <2>1 DEF StartTalk, CallTalk, LockStep, Outside
  <2>2. CASE runner' = "idle"
    <3>1. /\ runner = "starting" /\ Len(got) >= World /\ \A i \in 1 .. Len(got) : got[i].kind = "loaded"
          /\ UNCHANGED <<healthy, round, inbox, outward, rank, reached>>
      BY <1>4, <2>2 DEF StartEnds, Collected, Wanted
    <3>2. StartMessages /\ \A r \in Ranks : StartRank(r)
      BY <1>0, <3>1 DEF StartTalk
    <3>3. \A i \in 1 .. Len(Messages) : Messages[i].rank \in Ranks
      <4>1. \A i \in 1 .. Len(Messages) : Messages[i].rank \in 0 .. World /\ Messages[i].rank # World
        BY <1>1, <3>1, <3>2 DEF Message, StartMessages
      <4> QED BY <4>1 DEF Ranks
    <3>4. outward = <<>> /\ \A r \in Ranks : \E i \in 1 .. Len(got) : got[i].rank = r
      BY <1>0, <3>1, <3>2, <3>3, EveryRankSpoke DEF StartMessages
    <3>5. ASSUME NEW r \in Ranks
          PROVE  reached[r] = round /\ rank[r] \in {"ready", "dead"} /\ inbox[r] = <<>>
      <4>1. PICK i \in 1 .. Len(got) : got[i].rank = r
        BY <3>4
      <4>2. i \in 1 .. Len(Messages) /\ Messages[i].rank = r /\ Messages[i].kind = "loaded"
        BY <1>1, <3>1, <4>1
      <4> QED BY <3>2, <4>2 DEF StartRank, StartMessages
    <3>6. LockStep'
      BY <3>1, <3>4, <3>5 DEF LockStep
    <3>7. healthy'
      BY <3>1, <3>2 DEF StartMessages
    <3> QED BY <2>2, <3>6, <3>7 DEF StartTalk, CallTalk, Outside
  <2> QED BY <1>4, <2>1, <2>2 DEF StartEnds
<1>5. CASE BeginCall
  <2>1. /\ runner' = "calling" /\ healthy /\ healthy' = healthy /\ round' = round + 1 /\ round < MaxRounds
        /\ got' = <<>> /\ UNCHANGED <<outward, rank, reached>>
        /\ \A r \in Ranks : inbox'[r] = Append(inbox[r], round + 1)
    BY <1>5 DEF BeginCall
  <2>2. outward = <<>> /\ \A r \in Ranks : rank[r] \in {"ready", "dead"} /\ inbox[r] = <<>>
    BY <1>0, <1>5, <2>1 DEF BeginCall, LockStep
  <2>3. Messages' = <<>>
    BY <2>1, <2>2 DEF Messages
  <2>4. Append(<<>>, round + 1) = <<round + 1>>
    OBVIOUS
  <2>5. CallMessages'
    BY <1>0, <2>1, <2>3 DEF CallMessages, OnePerRank, RunnerTypeOK
  <2>6. \A r \in Ranks : CallRank(r)'
    BY <2>1, <2>2, <2>3, <2>4 DEF CallRank, Sent
  <2> QED BY <2>1, <2>5, <2>6 DEF StartTalk, CallTalk, LockStep, Outside
<1>6. CASE TakeMessage \/ CheckAlive
  <2>1. /\ runner \in {"rendezvous", "starting", "calling"} /\ runner' \in {runner, "failed"}
        /\ runner' = runner => healthy' = healthy
        /\ UNCHANGED <<round, inbox, rank, reached>>
    BY <1>6 DEF TakeMessage, CheckAlive, Collecting
  <2>2. Messages' = Messages
    BY <1>0, <1>6, MessagesStay
  <2>3. CASE runner' = runner
    <3>1. StartTalk'
      BY <1>0, <2>1, <2>2, <2>3 DEF StartTalk, StartMessages, StartRank, OnePerRank, Sent
    <3>2. CallTalk'
      BY <1>0, <2>1, <2>2, <2>3 DEF CallTalk, CallMessages, CallRank, OnePerRank, Sent
    <3> QED BY <2>1, <2>3, <3>1, <3>2 DEF LockStep, Outside
  <2>4. CASE runner' = "failed"
    BY <2>4 DEF StartTalk, CallTalk, LockStep, Outside
  <2> QED BY <2>1, <2>3, <2>4
<1>7. CASE Decide
  <2>1. CASE runner' = "failed"
    BY <2>1 DEF StartTalk, CallTalk, LockStep, Outside
  <2>2. CASE runner' = "idle"
    <3>1. /\ runner = "calling" /\ Len(got) >= World
          /\ UNCHANGED <<healthy, round, inbox, outward, rank, reached>>
      BY <1>7, <2>2 DEF Decide, Collected, Wanted
    <3>2. CallMessages /\ \A r \in Ranks : CallRank(r)
      BY <1>0, <3>1 DEF CallTalk
    <3>3. outward = <<>> /\ \A r \in Ranks : \E i \in 1 .. Len(got) : got[i].rank = r
      BY <1>0, <3>1, <3>2, EveryRankSpoke DEF CallMessages
    <3>4. ASSUME NEW r \in Ranks PROVE Sent(r)
      <4>1. PICK i \in 1 .. Len(got) : got[i].rank = r
        BY <3>3
      <4>2. i \in 1 .. Len(Messages) /\ Messages[i].rank = r
        BY <1>1, <4>1
      <4> QED BY <4>2 DEF Sent
    <3>5. LockStep'
      BY <3>1, <3>2, <3>3, <3>4 DEF LockStep, CallRank
    <3> QED BY <2>2, <3>1, <3>2, <3>5 DEF StartTalk, CallTalk, Outside, CallMessages
  <2> QED BY <1>7, <2>1, <2>2 DEF Decide
<1>8. CASE WaitFails \/ BeginShutdown \/ JoinsEnd \/ RunnerKilled
  <2>1. runner' \in {"failed", "joining", "ending", "killed"}
    BY <1>8 DEF WaitFails, BeginShutdown, JoinsEnd, RunnerKilled
  <2> QED BY <2>1 DEF StartTalk, CallTalk, LockStep, Outside
<1>9. CASE KillRanks
  <2>1. runner' = "unlinking" /\ \A r \in Ranks : ~Alive(r)'
    BY <1>9 DEF KillRanks, Alive
  <2> QED BY <2>1 DEF StartTalk, CallTalk, LockStep, Outside
<1>10. CASE UnlinkAll
  <2>1. runner' = "down" /\ blocks' = {} /\ \A r \in Ranks : ~Alive(r)'
    BY <1>0, <1>10 DEF UnlinkAll, Outside, Alive
  <2> QED BY <2>1 DEF StartTalk, CallTalk, LockStep, Outside
<1> QED BY <1>2, <1>3, <1>4, <1>5, <1>6, <1>7, <1>8, <1>9, <1>10

\* Every step keeps the invariant.
LEMMA RunnerStep == RunnerInv /\ [RunnerNext]_runnerVars => RunnerInv'
<1> SUFFICES ASSUME RunnerInv, [RunnerNext]_runnerVars PROVE RunnerInv'
  OBVIOUS
<1>0. RunnerTypeOK /\ StartTalk /\ CallTalk /\ LockStep /\ Outside
  BY DEF RunnerInv
<1>1. RunnerTypeOK'
  BY <1>0, RunnerTypeStep
<1>2. StartTalk' /\ CallTalk' /\ LockStep' /\ Outside'
  <2>1. CASE UNCHANGED runnerVars
    <3>1. Messages' = Messages
      BY <1>0, <2>1, MessagesStay DEF runnerVars
    <3> QED BY <1>0, <2>1, <3>1 DEF runnerVars, StartTalk, StartMessages, StartRank, CallTalk, CallMessages,
                                    CallRank, Sent, OnePerRank, LockStep, Outside, Alive
  <2>2. CASE ReportPort
    BY <2>2, PortStep
  <2>3. ASSUME NEW r \in Ranks,
               \/ JoinGroup(r) \/ GroupForms(r) \/ LoadReturns(r) \/ LoadRaises(r) \/ Receive(r)
               \/ WorkEnds(r) \/ LeaveGroup(r) \/ SeeRunnerGone(r) \/ RankDies(r)
        PROVE  StartTalk' /\ CallTalk' /\ LockStep' /\ Outside'
    BY <2>3, RankStep
  <2>4. CASE \/ StartRunner \/ Rendezvous \/ StartEnds \/ BeginCall \/ TakeMessage \/ CheckAlive
             \/ WaitFails \/ Decide \/ BeginShutdown \/ JoinsEnd \/ KillRanks \/ UnlinkAll
             \/ RunnerKilled
    BY <2>4, CallerStep
  <2> QED BY <2>1, <2>2, <2>3, <2>4 DEF RunnerNext
<1> QED BY <1>1, <1>2 DEF RunnerInv

\* A call of DistributedRunner decides on one answer of that very call from each
\* rank, between two calls of a healthy group nothing is in flight and the ranks
\* have done the same calls, and shutdown leaves neither process nor block: for
\* any number of ranks, with any of them dying at any point and any call timing
\* out or interrupted.
THEOREM RanksSafe == RunnerSpec => []RanksAgree
<1>1. RunnerInit => RunnerInv
  <2> SUFFICES ASSUME RunnerInit PROVE RunnerInv
    OBVIOUS
  <2>1. RunnerTypeOK
    BY EmptySeq DEF RunnerInit, RunnerTypeOK
  <2> QED BY <2>1 DEF RunnerInit, RunnerInv, StartTalk, CallTalk, LockStep, Outside
<1>2. RunnerInv => RanksAgree
  <2> SUFFICES ASSUME RunnerInv PROVE RanksAgree
    OBVIOUS
  <2>1. RunnerTypeOK /\ CallTalk /\ LockStep /\ Outside
    BY DEF RunnerInv
  <2>2. \A i \in 1 .. Len(got) : i \in 1 .. Len(Messages) /\ Messages[i] = got[i]
    BY <2>1, MessagesFacts
  <2>3. AnswersBelong
    BY <2>1, <2>2 DEF AnswersBelong, CallTalk, CallMessages, OnePerRank
  <2> QED BY <2>1, <2>3 DEF RanksAgree, Outside, ShutdownLeavesNothing
<1> QED BY <1>1, <1>2, RunnerStep, PTL DEF RunnerSpec

-------------------------------------------------------------------------------
(* A slot's links: the blocks in its directory, and the arrays in them.    *)

Blocks == [kind : {"request", "output", "probe"}, link : LinkIds, turn : Nat]
Frames == [is : {"step", "cancel"}, of : Nat, in : Blocks]

ShmTypeOK ==
  /\ sess \in [LinkIds -> {"none", "hello", "probed", "open", "closed"}]
  /\ srv \in [LinkIds -> {"none", "claimed", "allocated", "refused", "serving", "over"}]
  /\ block \in [LinkIds -> Blocks] /\ retired \in [LinkIds -> SUBSET Blocks]
  /\ rotations \in [LinkIds -> Nat] /\ files \in SUBSET Blocks
  /\ {slotLock, slotHeld, previous} \subseteq LinkIds \cup {0}
  /\ toServer \in [LinkIds -> Seq(Frames)] /\ toSession \in [LinkIds -> Seq(Nat)]
  /\ running \in [LinkIds -> Seq(Nat)] /\ replies \in [LinkIds -> Seq(Nat)]
  /\ awaited \in Nat /\ sentSteps \in Nat

\* A session opens its links one after another, and a session's blocks are the
\* link's own.
LinksInTurn ==
  \A l \in LinkIds :
    /\ sess[l] # "none" => \A k \in LinkIds : k < l => sess[k] = "closed"
    /\ block[l].kind = "request" /\ block[l].link = l /\ block[l].turn <= rotations[l]
    /\ \A f, g \in retired[l] : f = g

\* The request blocks that are there are those the last link keeps.
RequestsKept ==
  \A f \in files : f.kind = "request" =>
    /\ f = block[f.link] \/ f \in retired[f.link]
    /\ sess[f.link] # "none" /\ \A k \in LinkIds : k > f.link => sess[k] = "none"

\* The slot's lock is its holder's, and the output block that is there is the
\* holder's, or the one a set-up is about to remove.
OutputsKept ==
  /\ \A l \in LinkIds : srv[l] = "claimed" <=> slotLock = l
  /\ slotLock # 0 => slotHeld = slotLock
  /\ \A f \in files : f.kind = "output" =>
       /\ f = Output(f.link)
       /\ \/ slotHeld = f.link /\ slotLock # f.link
          \/ previous = f.link /\ slotLock # 0

BlocksInv == ShmTypeOK /\ LinksInTurn /\ RequestsKept /\ OutputsKept

\* Numbers that grow, and numbers that are under those of another line.
Climbs(s)        == \A i, j \in DOMAIN s : i < j => s[i] < s[j]
Under(s, t)      == \A i \in DOMAIN s, j \in DOMAIN t : s[i] < t[j]
Within(s, n)     == \A i \in DOMAIN s : 1 <= s[i] /\ s[i] <= n
StepsClimb(t)    == \A i, j \in DOMAIN t : i < j /\ t[j].is = "step" => t[i].of < t[j].of
UnderSteps(s, t) == \A i \in DOMAIN s, j \in DOMAIN t : t[j].is = "step" => s[i] < t[j].of

\* The steps of a link pass through it in order: a, on their way back, are behind
\* b, the replies, these are behind c, which run, and these behind t, on their way.
InOrder(a, b, c, t) ==
  /\ Climbs(a) /\ Climbs(b) /\ Climbs(c) /\ StepsClimb(t)
  /\ Under(a, b) /\ Under(a, c) /\ Under(b, c)
  /\ UnderSteps(a, t) /\ UnderSteps(b, t) /\ UnderSteps(c, t)

\* How far the two ends of a link can be, and what is on its way then.
EndsMeet(l) ==
  /\ sess[l] = "none" => srv[l] = "none"
  /\ srv[l] \notin {"serving", "over"} => toSession[l] = <<>>
  /\ sess[l] = "hello" => Len(toSession[l]) <= 1
  /\ sess[l] \in {"none", "hello", "probed"} => toServer[l] = <<>> /\ running[l] = <<>> /\ replies[l] = <<>>
  /\ sess[l] \in {"probed", "open"} => srv[l] \in {"serving", "over"} /\ Within(toSession[l], sentSteps)

StepsInLine(l) ==
  /\ InOrder(toSession[l], replies[l], running[l], toServer[l])
  /\ Within(replies[l], sentSteps) /\ Within(running[l], sentSteps)

\* A step's arrays are in the block its frame names, and in the block in use are
\* those of the step waited for, or of one whose cancel was not sent.
FrameOK(l, m) ==
  /\ m.in.kind = "request" /\ m.in.link = l /\ m.in.turn <= rotations[l] /\ m.in \in DOMAIN pages
  /\ 1 <= m.of /\ m.of <= sentSteps
  /\ m.is = "step" =>
       /\ pages[m.in] = m.of \/ m.of \in unsent
       /\ sess[l] = "open" /\ m.in = block[l] => m.of = awaited \/ m.of \in unsent

ArraysInPlace(l) ==
  /\ sess[l] = "open" => block[l] \in DOMAIN pages
  /\ srv[l] \in {"allocated", "serving"} \/ toSession[l] # <<>> => Output(l) \in DOMAIN pages
  /\ \A i \in DOMAIN toServer[l] : FrameOK(l, toServer[l][i])
  /\ sess[l] \in {"probed", "open"} /\ toSession[l] # <<>> =>
       toSession[l][Len(toSession[l])] = pages[Output(l)]

LinkOK(l) == EndsMeet(l) /\ StepsInLine(l) /\ ArraysInPlace(l)

ArraysInv ==
  /\ \A l \in LinkIds : LinkOK(l)
  /\ awaited # 0 => awaited = sentSteps
  /\ ArraysIntact

LEMMA LinkIdsFacts ==
  ASSUME NEW l \in LinkIds
  PROVE  /\ l \in Nat /\ l # 0
         /\ \A r \in Nat : Request(l, r) \in Blocks
         /\ Output(l) \in Blocks /\ Probe(l) \in Blocks
<1>1. l \in Nat /\ l # 0 BY ShmAssumption DEF LinkIds
<1>2. \A r \in Nat : Request(l, r) \in Blocks BY DEF Request, Blocks
<1>3. Output(l) \in Blocks /\ Probe(l) \in Blocks BY DEF Output, Probe, Blocks
<1> QED BY <1>1, <1>2, <1>3

\* What is left of the steps after one is given up are steps that were there.
LEMMA CancelledSteps ==
  ASSUME NEW s \in Seq(Nat), NEW n
  PROVE  /\ Cancelled(s, n) \in Seq(Nat)
         /\ \A i \in DOMAIN Cancelled(s, n) : \E j \in DOMAIN s : Cancelled(s, n)[i] = s[j]
         /\ Climbs(s) => Climbs(Cancelled(s, n))
<1>1. CASE \A k \in DOMAIN s : s[k] # n
  BY <1>1 DEF Cancelled
<1>2. CASE ~ \A k \in DOMAIN s : s[k] # n
  <2> DEFINE k == CHOOSE k \in DOMAIN s : s[k] = n
             c == [i \in 1 .. Len(s) - 1 |-> IF i < k THEN s[i] ELSE s[i + 1]]
  <2>1. k \in DOMAIN s BY <1>2
  <2>2. Cancelled(s, n) = c BY <1>2 DEF Cancelled
  <2> HIDE DEF k
  <2>3. Len(s) \in Nat /\ DOMAIN s = 1 .. Len(s) /\ k \in 1 .. Len(s)
    BY <2>1
  <2>4. \A i \in 1 .. Len(s) - 1 : i \in DOMAIN s /\ i + 1 \in DOMAIN s
    BY <2>3
  <2>5. c \in Seq(Nat) /\ Len(c) = Len(s) - 1
    <3>1. Len(s) - 1 \in Nat BY <2>3
    <3>2. \A i \in 1 .. Len(s) - 1 : c[i] \in Nat BY <2>3, <2>4
    <3>3. c \in [1 .. Len(s) - 1 -> Nat] BY <3>2
    <3> QED BY <3>1, <3>3
  <2>6. DOMAIN c = 1 .. Len(s) - 1 OBVIOUS
  <2>7. \A i \in DOMAIN c : \E j \in DOMAIN s : c[i] = s[j] BY <2>4, <2>6
  <2>8. ASSUME Climbs(s) PROVE Climbs(c)
    <3>1. SUFFICES ASSUME NEW i \in 1 .. Len(s) - 1, NEW j \in 1 .. Len(s) - 1, i < j
                   PROVE  c[i] < c[j]
      BY <2>6 DEF Climbs
    <3>2. c[i] = (IF i < k THEN s[i] ELSE s[i + 1]) /\ c[j] = (IF j < k THEN s[j] ELSE s[j + 1])
      OBVIOUS
    <3>3. i < j + 1 /\ i + 1 < j + 1 /\ i \in DOMAIN s /\ j \in DOMAIN s
          /\ i + 1 \in DOMAIN s /\ j + 1 \in DOMAIN s
      BY <2>3, <2>4, <3>1
    <3> HIDE DEF c
    <3>4. s[i] < s[j] /\ s[i] < s[j + 1] /\ s[i + 1] < s[j + 1]
      BY <2>8, <3>1, <3>3 DEF Climbs
    <3>5. i < k \/ ~(j < k) BY <3>1, <2>3
    <3> QED BY <3>2, <3>4, <3>5
  <2> QED BY <2>2, <2>5, <2>7, <2>8
<1> QED BY <1>1, <1>2

LEMMA ShmTypes ==
  ASSUME ShmTypeOK, ShmNext
  PROVE  ShmTypeOK'
<1> USE DEF ShmTypeOK
<1>0. \A l \in LinkIds : block[l] \in Blocks /\ rotations[l] \in Nat /\ rotations[l] + 1 \in Nat
  OBVIOUS
<1>1. ASSUME NEW l \in LinkIds, OpenLink(l) PROVE ShmTypeOK'
  BY <1>1 DEF OpenLink, srvVars
<1>2. ASSUME NEW l \in LinkIds, ReadProbe(l) PROVE ShmTypeOK'
  <2>1. Tail(toSession[l]) \in Seq(Nat) BY <1>2 DEF ReadProbe
  <2> QED BY <1>2, <2>1 DEF ReadProbe, srvVars
<1>3. ASSUME NEW l \in LinkIds, AllocateRequest(l) PROVE ShmTypeOK'
  BY <1>3 DEF AllocateRequest, srvVars
<1>4. ASSUME NEW l \in LinkIds, SessionCloses(l) \/ SessionKilled(l) \/ LinkLost(l) PROVE ShmTypeOK'
  <2>1. files' \in SUBSET Blocks BY <1>4 DEF SessionCloses, SessionKilled, LinkLost
  <2>2. sess' \in [LinkIds -> {"none", "hello", "probed", "open", "closed"}] /\ awaited' \in Nat
    <3>1. sess' = [sess EXCEPT ![l] = "closed"] /\ awaited' = 0
      BY <1>4 DEF SessionCloses, SessionKilled, LinkLost
    <3> QED BY <3>1
  <2> QED BY <1>4, <2>1, <2>2 DEF SessionCloses, SessionKilled, LinkLost, srvVars
<1>5. ASSUME NEW l \in LinkIds, SendArrays(l) PROVE ShmTypeOK'
  <2>1. [is |-> "step", of |-> sentSteps + 1, in |-> block[l]] \in Frames BY DEF Frames
  <2>2. Append(toServer[l], [is |-> "step", of |-> sentSteps + 1, in |-> block[l]]) \in Seq(Frames) BY <2>1
  <2>3. toServer' \in [LinkIds -> Seq(Frames)] BY <1>5, <2>2 DEF SendArrays
  <2>4. awaited' \in Nat /\ sentSteps' \in Nat BY <1>5 DEF SendArrays
  <2> QED BY <1>5, <2>3, <2>4 DEF SendArrays, srvVars
<1>6. ASSUME NEW l \in LinkIds, SendCancel(l) PROVE ShmTypeOK'
  <2>1. [is |-> "cancel", of |-> awaited, in |-> block[l]] \in Frames BY DEF Frames
  <2>2. Append(toServer[l], [is |-> "cancel", of |-> awaited, in |-> block[l]]) \in Seq(Frames) BY <2>1
  <2>3. toServer' \in [LinkIds -> Seq(Frames)] BY <1>6, <2>2 DEF SendCancel
  <2>4. Request(l, rotations[l] + 1) \in Blocks BY <1>0, LinkIdsFacts
  <2>5. block' \in [LinkIds -> Blocks] BY <1>6, <2>4 DEF SendCancel
  <2>6. retired' \in [LinkIds -> SUBSET Blocks] BY <1>6, <1>0 DEF SendCancel
  <2>7. files' \in SUBSET Blocks BY <1>6, <2>4 DEF SendCancel
  <2>8. rotations' \in [LinkIds -> Nat] /\ awaited' \in Nat BY <1>6, <1>0 DEF SendCancel
  <2> QED BY <1>6, <2>3, <2>5, <2>6, <2>7, <2>8 DEF SendCancel, srvVars
<1>7. ASSUME NEW l \in LinkIds, CancelFails(l) PROVE ShmTypeOK'
  BY <1>7, <1>0 DEF CancelFails, srvVars
<1>8. ASSUME NEW l \in LinkIds, ReadResult(l) PROVE ShmTypeOK'
  <2>1. Tail(toSession[l]) \in Seq(Nat) BY <1>8 DEF ReadResult
  <2>2. toSession' \in [LinkIds -> Seq(Nat)] BY <1>8, <2>1 DEF ReadResult
  <2>3. awaited' \in Nat BY <1>8 DEF ReadResult
  <2> QED BY <1>8, <2>2, <2>3 DEF ReadResult, srvVars
<1>9. ASSUME NEW l \in LinkIds, ClaimSlot(l) PROVE ShmTypeOK'
  BY <1>9 DEF ClaimSlot, sessVars
<1>10. ASSUME NEW l \in LinkIds, ReleasePrevious(l) PROVE ShmTypeOK'
  BY <1>10 DEF ReleasePrevious, sessVars
<1>11. ASSUME NEW l \in LinkIds, AllocateOutput(l) PROVE ShmTypeOK'
  BY <1>11, LinkIdsFacts DEF AllocateOutput, sessVars
<1>12. ASSUME NEW l \in LinkIds, AnnounceProbe(l) PROVE ShmTypeOK'
  <2>1. Append(toSession[l], 0) \in Seq(Nat) OBVIOUS
  <2> QED BY <1>12, <2>1 DEF AnnounceProbe, sessVars
<1>13. ASSUME NEW l \in LinkIds, ServerSeesEnd(l) PROVE ShmTypeOK'
  <2>1. /\ srv' = [srv EXCEPT ![l] = "over"] /\ files' \subseteq files
        /\ slotHeld' \in {0, slotHeld} /\ UNCHANGED <<slotLock, previous>>
        /\ running' = [running EXCEPT ![l] = <<>>] /\ replies' = [replies EXCEPT ![l] = <<>>]
    BY <1>13 DEF ServerSeesEnd, LeaveSlot
  <2>2. <<>> \in Seq(Nat) OBVIOUS
  <2>3. running' \in [LinkIds -> Seq(Nat)] /\ replies' \in [LinkIds -> Seq(Nat)] BY <2>1, <2>2
  <2>4. srv' \in [LinkIds -> {"none", "claimed", "allocated", "refused", "serving", "over"}] BY <2>1
  <2>5. files' \in SUBSET Blocks /\ {slotLock', slotHeld', previous'} \subseteq LinkIds \cup {0} BY <2>1
  <2> QED BY <1>13, <2>3, <2>4, <2>5 DEF ServerSeesEnd, LeaveSlot, sessVars
<1>14. ASSUME NEW l \in LinkIds, ReceiveStep(l) PROVE ShmTypeOK'
  <2>1. toServer[l] # <<>> /\ Tail(toServer[l]) \in Seq(Frames) /\ Head(toServer[l]) \in Frames
    BY <1>14 DEF ReceiveStep
  <2>2. Head(toServer[l]).of \in Nat BY <2>1 DEF Frames
  <2>3. Append(running[l], Head(toServer[l]).of) \in Seq(Nat) BY <2>2
  <2>4. Cancelled(running[l], Head(toServer[l]).of) \in Seq(Nat) BY CancelledSteps
  <2>5. running' \in [LinkIds -> Seq(Nat)] BY <1>14, <2>3, <2>4 DEF ReceiveStep
  <2>6. toServer' \in [LinkIds -> Seq(Frames)] BY <1>14, <2>1 DEF ReceiveStep
  <2>7. files' \in SUBSET Blocks BY <1>14 DEF ReceiveStep
  <2> QED BY <1>14, <2>5, <2>6, <2>7 DEF ReceiveStep, sessVars
<1>15. ASSUME NEW l \in LinkIds, AnswerStep(l) PROVE ShmTypeOK'
  <2>0. running[l] \in Seq(Nat) /\ running[l] # <<>> BY <1>15 DEF AnswerStep
  <2>1. Tail(running[l]) \in Seq(Nat) /\ Head(running[l]) \in Nat BY <2>0, HeadTailProperties
  <2>2. Append(replies[l], Head(running[l])) \in Seq(Nat) BY <2>1
  <2> QED BY <1>15, <2>1, <2>2 DEF AnswerStep, sessVars
<1>16. ASSUME NEW l \in LinkIds, SendResult(l) PROVE ShmTypeOK'
  <2>0. replies[l] \in Seq(Nat) /\ replies[l] # <<>> BY <1>16 DEF SendResult
  <2>1. Tail(replies[l]) \in Seq(Nat) /\ Head(replies[l]) \in Nat BY <2>0, HeadTailProperties
  <2>2. Append(toSession[l], Head(replies[l])) \in Seq(Nat) BY <2>1
  <2> QED BY <1>16, <2>1, <2>2 DEF SendResult, sessVars
<1>17. CASE ServerKilled
  <2>1. srv' \in [LinkIds -> {"none", "claimed", "allocated", "refused", "serving", "over"}]
    BY <1>17 DEF ServerKilled
  <2>2. <<>> \in Seq(Nat) OBVIOUS
  <2>3. running' \in [LinkIds -> Seq(Nat)] /\ replies' \in [LinkIds -> Seq(Nat)]
    BY <1>17, <2>2 DEF ServerKilled
  <2>4. files' \in SUBSET Blocks BY <1>17 DEF ServerKilled
  <2> QED BY <1>17, <2>1, <2>3, <2>4 DEF ServerKilled, sessVars
<1> QED
  BY <1>1, <1>2, <1>3, <1>4, <1>5, <1>6, <1>7, <1>8, <1>9, <1>10, <1>11, <1>12, <1>13, <1>14, <1>15,
     <1>16, <1>17 DEF ShmNext

\* At most one link's session end is up, and nothing was opened after it.
LEMMA OneUp ==
  ASSUME ShmTypeOK, LinksInTurn, NEW l \in LinkIds, Up(l)
  PROVE  \A k \in LinkIds : (k < l => sess[k] = "closed") /\ (k > l => sess[k] = "none")
<1> SUFFICES ASSUME NEW k \in LinkIds
             PROVE  (k < l => sess[k] = "closed") /\ (k > l => sess[k] = "none")
  OBVIOUS
<1>1. sess[l] # "none" /\ sess[l] # "closed" BY DEF Up
<1>2. k < l => sess[k] = "closed" BY <1>1 DEF LinksInTurn
<1>3. k > l => sess[k] = "none"
  <2>1. SUFFICES ASSUME k > l PROVE sess[k] = "none" OBVIOUS
  <2>2. l < k BY <2>1, LinkIdsFacts
  <2> QED BY <2>2, <1>1 DEF LinksInTurn
<1> QED BY <1>2, <1>3

LEMMA LinksInTurnStep ==
  ASSUME ShmTypeOK, LinksInTurn, ShmNext
  PROVE  LinksInTurn'
<1>0. \A l \in LinkIds : l \in Nat BY LinkIdsFacts
<1>1. ASSUME NEW l \in LinkIds, OpenLink(l) PROVE LinksInTurn'
  <2>1. \A k \in LinkIds : k < l => sess[k] = "closed"
    BY <1>1 DEF OpenLink, Up, ShmTypeOK
  <2>2. \A k \in LinkIds : k >= l => sess[k] = "none" BY <1>1 DEF OpenLink
  <2>3. \A k \in LinkIds : sess'[k] = IF k = l THEN "hello" ELSE sess[k]
    BY <1>1 DEF OpenLink, ShmTypeOK
  <2>4. \A m \in LinkIds : sess'[m] # "none" => \A k \in LinkIds : k < m => sess'[k] = "closed"
    BY <2>1, <2>2, <2>3, <1>0
  <2>5. UNCHANGED <<block, retired, rotations>> BY <1>1 DEF OpenLink
  <2> QED BY <2>4, <2>5 DEF LinksInTurn
<1>2. ASSUME NEW l \in LinkIds, Up(l), NEW s, sess' = [sess EXCEPT ![l] = s]
      PROVE  \A m \in LinkIds : sess'[m] # "none" => \A k \in LinkIds : k < m => sess'[k] = "closed"
  <2>1. \A k \in LinkIds : (k < l => sess[k] = "closed") /\ (k > l => sess[k] = "none") BY <1>2, OneUp
  <2>2. \A k \in LinkIds : k # l => sess'[k] = sess[k] BY <1>2 DEF ShmTypeOK
  <2> QED BY <2>1, <2>2, <1>0
<1>3. ASSUME NEW l \in LinkIds,
             ReadProbe(l) \/ AllocateRequest(l) \/ SessionCloses(l) \/ SessionKilled(l) \/ LinkLost(l)
      PROVE  LinksInTurn'
  <2>1. UNCHANGED <<block, retired, rotations>>
    BY <1>3 DEF ReadProbe, AllocateRequest, SessionCloses, SessionKilled, LinkLost
  <2>2. Up(l) BY <1>3 DEF ReadProbe, AllocateRequest, SessionCloses, SessionKilled, LinkLost, Up
  <2>3. \E s : sess' = [sess EXCEPT ![l] = s]
    BY <1>3 DEF ReadProbe, AllocateRequest, SessionCloses, SessionKilled, LinkLost
  <2>4. \A m \in LinkIds : sess'[m] # "none" => \A k \in LinkIds : k < m => sess'[k] = "closed"
    BY <2>2, <2>3, <1>2
  <2> QED BY <2>1, <2>4 DEF LinksInTurn
<1>4. ASSUME NEW l \in LinkIds, SendCancel(l) PROVE LinksInTurn'
  <2>1. rotations[l] \in Nat BY DEF ShmTypeOK
  <2>2. \A k \in LinkIds : block'[k] = (IF k = l THEN Request(l, rotations[l] + 1) ELSE block[k])
                           /\ rotations'[k] = (IF k = l THEN rotations[l] + 1 ELSE rotations[k])
                           /\ retired'[k] = (IF k = l THEN {block[l]} ELSE retired[k])
    BY <1>4 DEF SendCancel, ShmTypeOK
  <2>3. UNCHANGED sess BY <1>4 DEF SendCancel
  <2> QED BY <2>1, <2>2, <2>3 DEF LinksInTurn, Request
<1>5. ASSUME NEW l \in LinkIds, CancelFails(l) PROVE LinksInTurn'
  <2>1. rotations[l] \in Nat /\ block[l] \in Blocks BY DEF ShmTypeOK
  <2>2. \A k \in LinkIds : rotations'[k] = (IF k = l THEN rotations[l] + 1 ELSE rotations[k])
                           /\ retired'[k] = (IF k = l THEN {} ELSE retired[k])
    BY <1>5 DEF CancelFails, ShmTypeOK
  <2>3. UNCHANGED <<sess, block>> BY <1>5 DEF CancelFails
  <2>4. block[l].turn \in Nat BY <2>1 DEF Blocks
  <2> QED BY <2>1, <2>2, <2>3, <2>4 DEF LinksInTurn
<1>6. ASSUME UNCHANGED <<sess, block, retired, rotations>> PROVE LinksInTurn'
  BY <1>6 DEF LinksInTurn
<1>7. ASSUME NEW l \in LinkIds,
             \/ SendArrays(l) \/ ReadResult(l) \/ ClaimSlot(l) \/ ReleasePrevious(l) \/ AllocateOutput(l)
             \/ AnnounceProbe(l) \/ ServerSeesEnd(l) \/ ReceiveStep(l) \/ AnswerStep(l) \/ SendResult(l)
      PROVE  UNCHANGED <<sess, block, retired, rotations>>
  BY <1>7 DEF SendArrays, ReadResult, ClaimSlot, ReleasePrevious, AllocateOutput, AnnounceProbe, ServerSeesEnd,
     LeaveSlot, ReceiveStep, AnswerStep, SendResult, sessVars
<1>8. CASE ServerKilled BY <1>6, <1>8 DEF ServerKilled, sessVars
<1> QED BY <1>1, <1>3, <1>4, <1>5, <1>6, <1>7, <1>8 DEF ShmNext

LEMMA RequestsKeptStep ==
  ASSUME ShmTypeOK, LinksInTurn, RequestsKept, ShmNext
  PROVE  RequestsKept'
<1>1. ASSUME NEW l \in LinkIds, OpenLink(l) PROVE RequestsKept'
  BY <1>1 DEF OpenLink, OfSession, RequestsKept
<1>2. ASSUME UNCHANGED <<block, retired>>,
             \A f \in files' : f.kind = "request" => f \in files,
             \A k \in LinkIds : sess'[k] = "none" <=> sess[k] = "none"
      PROVE  RequestsKept'
  BY <1>2 DEF RequestsKept, ShmTypeOK, Blocks
<1>3. ASSUME NEW l \in LinkIds, ReadProbe(l) \/ SessionCloses(l) \/ SessionKilled(l) \/ LinkLost(l)
      PROVE  RequestsKept'
  <2>1. Up(l) BY <1>3 DEF ReadProbe, SessionCloses, SessionKilled, LinkLost, Up
  <2>2. PICK s : sess' = [sess EXCEPT ![l] = s] /\ s # "none"
    BY <1>3 DEF ReadProbe, SessionCloses, SessionKilled, LinkLost
  <2>3. \A k \in LinkIds : sess'[k] = "none" <=> sess[k] = "none" BY <2>1, <2>2 DEF ShmTypeOK, Up
  <2>4. UNCHANGED <<block, retired>> /\ files' \subseteq files
    BY <1>3 DEF ReadProbe, SessionCloses, SessionKilled, LinkLost
  <2> QED BY <2>3, <2>4, <1>2
<1>4. ASSUME NEW l \in LinkIds, AllocateRequest(l) PROVE RequestsKept'
  <2>1. Up(l) BY <1>4 DEF AllocateRequest, Up
  <2>2. PICK s : sess' = [sess EXCEPT ![l] = s] /\ s # "none" BY <1>4 DEF AllocateRequest
  <2>3. \A k \in LinkIds : sess'[k] = "none" <=> sess[k] = "none" BY <2>1, <2>2 DEF ShmTypeOK, Up
  <2>4. UNCHANGED <<block, retired>> /\ files' \subseteq files \cup {block[l]} BY <1>4 DEF AllocateRequest
  <2>5. \A k \in LinkIds : k > l => sess[k] = "none" BY <2>1, OneUp
  <2>6. block[l].link = l BY DEF LinksInTurn
  <2>7. sess[l] # "none" BY <2>1 DEF Up
  <2>8. \A k \in LinkIds : k > block[l].link => sess'[k] = "none" BY <2>3, <2>5, <2>6
  <2>9. sess'[block[l].link] # "none" /\ block[l] = block'[block[l].link] BY <2>3, <2>4, <2>6, <2>7
  <2>10. \A f \in files : f.link \in LinkIds BY DEF ShmTypeOK, Blocks
  <2>11. \A f \in files : f.kind = "request" =>
           /\ f = block'[f.link] \/ f \in retired'[f.link]
           /\ sess'[f.link] # "none" /\ \A k \in LinkIds : k > f.link => sess'[k] = "none"
    BY <2>3, <2>4, <2>10 DEF RequestsKept
  <2> QED BY <2>4, <2>8, <2>9, <2>11 DEF RequestsKept
<1>5. ASSUME NEW l \in LinkIds, SendCancel(l) \/ CancelFails(l) PROVE RequestsKept'
  <2>1. Up(l) /\ UNCHANGED sess BY <1>5 DEF SendCancel, CancelFails, Up
  <2>2. \A k \in LinkIds : k > l => sess[k] = "none" BY <2>1, OneUp
  <2>3. sess[l] # "none" BY <2>1 DEF Up
  <2>4. \A k \in LinkIds : k # l => block'[k] = block[k] /\ retired'[k] = retired[k]
    BY <1>5 DEF SendCancel, CancelFails, ShmTypeOK
  <2>5. CASE SendCancel(l)
    <3>1. block'[l] = Request(l, rotations[l] + 1) /\ retired'[l] = {block[l]} BY <2>5 DEF SendCancel, ShmTypeOK
    <3>2. files' = (files \ retired[l]) \cup {Request(l, rotations[l] + 1)} BY <2>5 DEF SendCancel
    <3>3. Request(l, rotations[l] + 1).link = l BY DEF Request
    <3>4. \A f \in files \ retired[l] : f.kind = "request" =>
            /\ f.link \in LinkIds
            /\ f = block'[f.link] \/ f \in retired'[f.link]
      BY <3>1, <2>4 DEF RequestsKept, ShmTypeOK, Blocks
    <3> QED BY <3>1, <3>2, <3>3, <3>4, <2>1, <2>2, <2>3 DEF RequestsKept
  <2>6. CASE CancelFails(l)
    <3>1. UNCHANGED block /\ retired'[l] = {} /\ files' = files \ retired[l] BY <2>6 DEF CancelFails, ShmTypeOK
    <3>2. \A f \in files' : f.link \in LinkIds BY <3>1 DEF ShmTypeOK, Blocks
    <3> QED BY <3>1, <3>2, <2>1, <2>4 DEF RequestsKept
  <2> QED BY <1>5, <2>5, <2>6
<1>6. ASSUME NEW l \in LinkIds,
             \/ SendArrays(l) \/ ReadResult(l) \/ ClaimSlot(l) \/ ReleasePrevious(l) \/ AllocateOutput(l)
             \/ AnnounceProbe(l) \/ ServerSeesEnd(l) \/ ReceiveStep(l) \/ AnswerStep(l) \/ SendResult(l)
      PROVE  /\ UNCHANGED <<sess, block, retired>>
             /\ \A f \in files' : f.kind = "request" => f \in files
  <2>1. UNCHANGED <<sess, block, retired>>
    BY <1>6 DEF SendArrays, ReadResult, ClaimSlot, ReleasePrevious, AllocateOutput, AnnounceProbe, ServerSeesEnd,
       LeaveSlot, ReceiveStep, AnswerStep, SendResult, sessVars
  <2>2. files' \subseteq files \cup {Output(l), Probe(l)}
    BY <1>6 DEF SendArrays, ReadResult, ClaimSlot, ReleasePrevious, AllocateOutput, AnnounceProbe, ServerSeesEnd,
       LeaveSlot, ReceiveStep, AnswerStep, SendResult
  <2> QED BY <2>1, <2>2 DEF Output, Probe
<1>7. CASE ServerKilled
  <2>1. files' \subseteq files /\ UNCHANGED <<sess, block, retired>> BY <1>7 DEF ServerKilled, sessVars
  <2> QED BY <2>1, <1>2
<1> QED BY <1>1, <1>2, <1>3, <1>4, <1>5, <1>6, <1>7 DEF ShmNext

LEMMA OutputsKeptStep ==
  ASSUME ShmTypeOK, LinksInTurn, OutputsKept, ShmNext
  PROVE  OutputsKept'
<1>0. /\ \A l \in LinkIds : l # 0 /\ Output(l).kind = "output" /\ Output(l).link = l
      /\ \A l \in LinkIds : Probe(l).kind = "probe" /\ block[l].kind = "request"
      /\ \A f \in files : f.link \in LinkIds
  <2>1. \A l \in LinkIds : l # 0 /\ Output(l).kind = "output" /\ Output(l).link = l BY LinkIdsFacts DEF Output
  <2>2. \A l \in LinkIds : Probe(l).kind = "probe" /\ block[l].kind = "request" BY DEF Probe, LinksInTurn
  <2>3. \A f \in files : f.link \in LinkIds BY DEF ShmTypeOK, Blocks
  <2> QED BY <2>1, <2>2, <2>3
<1>1. ASSUME UNCHANGED <<srv, slotLock, slotHeld, previous>>,
             \A f \in files' : f.kind = "output" => f \in files
      PROVE  OutputsKept'
  BY <1>1 DEF OutputsKept
<1>2. ASSUME NEW l \in LinkIds,
             \/ OpenLink(l) \/ ReadProbe(l) \/ AllocateRequest(l) \/ SessionCloses(l) \/ SessionKilled(l)
             \/ SendArrays(l) \/ SendCancel(l) \/ CancelFails(l) \/ ReadResult(l) \/ LinkLost(l)
      PROVE  OutputsKept'
  <2>1. UNCHANGED <<srv, slotLock, slotHeld, previous>>
    BY <1>2 DEF OpenLink, ReadProbe, AllocateRequest, SessionCloses, SessionKilled, SendArrays, SendCancel,
       CancelFails, ReadResult, LinkLost, srvVars
  <2>2. files' \subseteq files \cup {block[l], Request(l, rotations[l] + 1)}
    BY <1>2 DEF OpenLink, ReadProbe, AllocateRequest, SessionCloses, SessionKilled, SendArrays, SendCancel,
       CancelFails, ReadResult, LinkLost
  <2>3. block[l].kind = "request" /\ Request(l, rotations[l] + 1).kind = "request" BY <1>0 DEF Request
  <2> QED BY <2>1, <2>2, <2>3, <1>1
<1>3. ASSUME NEW l \in LinkIds, ClaimSlot(l) PROVE OutputsKept'
  <2>1. \A k \in LinkIds : srv'[k] = IF k = l THEN "claimed" ELSE srv[k] BY <1>3 DEF ClaimSlot, ShmTypeOK
  <2>2. /\ slotLock = 0 /\ slotLock' = l /\ previous' = slotHeld /\ slotHeld' = l /\ UNCHANGED files
    BY <1>3 DEF ClaimSlot
  <2> QED BY <2>1, <2>2, <1>0 DEF OutputsKept
<1>4. ASSUME NEW l \in LinkIds, ReleasePrevious(l) PROVE OutputsKept'
  <2>1. slotLock = l /\ slotHeld = l BY <1>4, <1>0 DEF ReleasePrevious, OutputsKept
  <2>2. files' = files \ Owned(previous) /\ UNCHANGED <<srv, slotLock, slotHeld>> BY <1>4 DEF ReleasePrevious
  <2>3. \A f \in files' : f.kind # "output"
    <3>1. SUFFICES ASSUME NEW f \in files, f.kind = "output" PROVE f \in Owned(previous) BY <2>2
    <3>2. previous = f.link BY <3>1, <2>1 DEF OutputsKept
    <3> QED BY <3>1, <3>2 DEF Owned
  <2> QED BY <2>1, <2>2, <2>3 DEF OutputsKept
<1>5. ASSUME NEW l \in LinkIds, AllocateOutput(l) PROVE OutputsKept'
  <2>1. slotLock = l /\ slotHeld = l /\ previous = 0 BY <1>5, <1>0 DEF AllocateOutput, OutputsKept
  <2>2. \A f \in files : f.kind # "output" BY <2>1, <1>0 DEF OutputsKept
  <2>3. /\ files' \subseteq files \cup {Output(l), Probe(l)}
        /\ slotLock' = 0 /\ UNCHANGED <<slotHeld, previous>>
    BY <1>5 DEF AllocateOutput
  <2>4. PICK s : srv' = [srv EXCEPT ![l] = s] /\ s # "claimed" BY <1>5 DEF AllocateOutput
  <2>5. \A k \in LinkIds : srv'[k] = IF k = l THEN s ELSE srv[k] BY <2>4 DEF ShmTypeOK
  <2>6. \A k \in LinkIds : srv'[k] # "claimed" BY <2>1, <2>4, <2>5 DEF OutputsKept
  <2>7. \A f \in files' : f.kind = "output" => f = Output(l) BY <2>2, <2>3, <1>0
  <2> QED BY <2>1, <2>3, <2>6, <2>7, <1>0 DEF OutputsKept
<1>6. ASSUME NEW l \in LinkIds, AnnounceProbe(l) PROVE OutputsKept'
  <2>1. \A k \in LinkIds : srv'[k] = IF k = l THEN "serving" ELSE srv[k] BY <1>6 DEF AnnounceProbe, ShmTypeOK
  <2>2. srv[l] = "allocated" /\ UNCHANGED <<files, slotLock, slotHeld, previous>> BY <1>6 DEF AnnounceProbe
  <2> QED BY <2>1, <2>2 DEF OutputsKept
<1>7. ASSUME NEW l \in LinkIds, ServerSeesEnd(l) PROVE OutputsKept'
  <2>1. srv[l] # "claimed" BY <1>7 DEF ServerSeesEnd
  <2>2. \A k \in LinkIds : srv'[k] = IF k = l THEN "over" ELSE srv[k] BY <1>7 DEF ServerSeesEnd, LeaveSlot, ShmTypeOK
  <2>3. /\ files' = files \ Owned(l) /\ UNCHANGED <<slotLock, previous>>
        /\ slotHeld' = IF slotHeld = l THEN 0 ELSE slotHeld
    BY <1>7 DEF ServerSeesEnd, LeaveSlot
  <2>4. slotLock # l BY <2>1 DEF OutputsKept
  <2>5. \A f \in files' : f.kind = "output" => f.link # l BY <2>3 DEF Owned
  <2>6. \A k \in LinkIds : srv'[k] = "claimed" <=> slotLock' = k BY <2>1, <2>2, <2>3 DEF OutputsKept
  <2>7. slotLock' # 0 => slotHeld' = slotLock' BY <2>3, <2>4 DEF OutputsKept
  <2> QED BY <2>3, <2>5, <2>6, <2>7 DEF OutputsKept
<1>8. ASSUME NEW l \in LinkIds, ReceiveStep(l) \/ AnswerStep(l) \/ SendResult(l) PROVE OutputsKept'
  <2>1. UNCHANGED <<srv, slotLock, slotHeld, previous>> /\ files' \subseteq files
    BY <1>8 DEF ReceiveStep, AnswerStep, SendResult
  <2> QED BY <2>1, <1>1
<1>9. CASE ServerKilled
  <2>1. \A f \in files' : f.kind # "output" BY <1>9 DEF ServerKilled, OfSession
  <2>2. slotLock' = 0 /\ \A l \in LinkIds : srv'[l] # "claimed" BY <1>9 DEF ServerKilled
  <2> QED BY <2>1, <2>2, <1>0 DEF OutputsKept
<1> QED BY <1>2, <1>3, <1>4, <1>5, <1>6, <1>7, <1>8, <1>9 DEF ShmNext

LEMMA AtMostTwo ==
  ASSUME NEW S, NEW a, NEW b, S \subseteq {a, b}
  PROVE  Cardinality(S) <= 2
<1>1. IsFiniteSet({a}) /\ Cardinality({a}) = 1 BY FS_Singleton
<1>2. IsFiniteSet({a} \cup {b}) /\ Cardinality({a} \cup {b}) <= 2 /\ Cardinality({a} \cup {b}) \in Nat
  BY <1>1, FS_AddElement, FS_CardinalityType
<1>3. S \subseteq {a} \cup {b} OBVIOUS
<1>4. IsFiniteSet(S) /\ Cardinality(S) <= Cardinality({a} \cup {b}) BY <1>2, <1>3, FS_Subset
<1> QED BY <1>2, <1>4, FS_CardinalityType

LEMMA AtMostOne ==
  ASSUME NEW S, \A f, g \in S : f = g
  PROVE  Cardinality(S) <= 1
<1>1. CASE S = {} BY <1>1, FS_EmptySet
<1>2. CASE S # {}
  <2>1. PICK f : f \in S BY <1>2
  <2>2. S = {f} BY <2>1
  <2>3. Cardinality({f}) = 1 BY FS_Singleton
  <2> QED BY <2>2, <2>3
<1> QED BY <1>1, <1>2

LEMMA BlocksInSlot ==
  ASSUME BlocksInv
  PROVE  SlotHoldsItsBlocks
<1> USE DEF BlocksInv
<1> DEFINE R == {f \in files : f.kind = "request"}
           O == {f \in files : f.kind = "output"}
<1>0. \A f \in files : f.link \in LinkIds /\ f.link \in Nat BY LinkIdsFacts DEF ShmTypeOK, Blocks
<1>1. Cardinality(R) <= 2
  <2>1. CASE R = {} BY <2>1, FS_EmptySet
  <2>2. CASE R # {}
    <3>1. PICK f \in R : TRUE BY <2>2
    <3>2. \A g \in R : g.link = f.link
      <4> SUFFICES ASSUME NEW g \in R PROVE g.link = f.link OBVIOUS
      <4>1. ~(g.link > f.link) BY <3>1, <1>0 DEF RequestsKept
      <4>2. ~(f.link > g.link) BY <3>1, <1>0 DEF RequestsKept
      <4> QED BY <4>1, <4>2, <3>1, <1>0
    <3>3. PICK old : \A g \in retired[f.link] : g = old
      BY <3>1, <1>0 DEF LinksInTurn
    <3>4. R \subseteq {block[f.link], old} BY <3>2, <3>3 DEF RequestsKept
    <3> QED BY <3>4, AtMostTwo
  <2> QED BY <2>1, <2>2
<1>2. Cardinality(O) <= 1
  <2>1. \A f, g \in O : f = g
    <3> SUFFICES ASSUME NEW f \in O, NEW g \in O PROVE f = g OBVIOUS
    <3>1. f = Output(f.link) /\ g = Output(g.link) BY DEF OutputsKept
    <3>2. f.link = g.link BY DEF OutputsKept
    <3> QED BY <3>1, <3>2
  <2> HIDE DEF O
  <2> QED BY <2>1, AtMostOne
<1> QED BY <1>1, <1>2 DEF SlotHoldsItsBlocks

-------------------------------------------------------------------------------
(* Lines of steps that move on.                                            *)

LEMMA TailFacts ==
  ASSUME NEW S, NEW s \in Seq(S), s # <<>>
  PROVE  /\ Tail(s) \in Seq(S) /\ Head(s) = s[1] /\ Head(s) \in S /\ 1 \in DOMAIN s
         /\ \A i \in DOMAIN Tail(s) : i \in Nat /\ 1 < i + 1 /\ i + 1 \in DOMAIN s /\ Tail(s)[i] = s[i + 1]
<1>1. Tail(s) \in Seq(S) /\ Len(Tail(s)) = Len(s) - 1 /\ Head(s) \in S
      /\ \A i \in 1 .. Len(Tail(s)) : Tail(s)[i] = s[i + 1]
  BY HeadTailProperties
<1>2. DOMAIN s = 1 .. Len(s) /\ Len(s) \in Nat /\ Len(s) # 0 BY EmptySeq, LenProperties
<1>3. DOMAIN Tail(s) = 1 .. Len(s) - 1 BY <1>1, LenProperties
<1>4. Head(s) = s[1] OBVIOUS
<1> QED BY <1>1, <1>2, <1>3, <1>4

\* The first is taken.
LEMMA TailKeeps ==
  ASSUME NEW s \in Seq(Nat), s # <<>>
  PROVE  /\ Climbs(s) => Climbs(Tail(s)) /\ \A j \in DOMAIN Tail(s) : Head(s) < Tail(s)[j]
         /\ \A t : Under(s, t) => Under(Tail(s), t) /\ \A j \in DOMAIN t : Head(s) < t[j]
         /\ \A t : Under(t, s) => Under(t, Tail(s)) /\ \A j \in DOMAIN t : t[j] < Head(s)
         /\ \A t : UnderSteps(s, t) => UnderSteps(Tail(s), t)
                                       /\ \A j \in DOMAIN t : t[j].is = "step" => Head(s) < t[j].of
         /\ \A n : Within(s, n) => Within(Tail(s), n) /\ 1 <= Head(s) /\ Head(s) <= n
<1>1. /\ Tail(s) \in Seq(Nat) /\ Head(s) = s[1] /\ Head(s) \in Nat /\ 1 \in DOMAIN s
      /\ \A i \in DOMAIN Tail(s) : i \in Nat /\ 1 < i + 1 /\ i + 1 \in DOMAIN s /\ Tail(s)[i] = s[i + 1]
  BY TailFacts
<1>2. \A i, j \in DOMAIN Tail(s) : i < j => i + 1 < j + 1 BY <1>1
<1>3. Climbs(s) => Climbs(Tail(s)) BY <1>1, <1>2 DEF Climbs
<1>4. Climbs(s) => \A j \in DOMAIN Tail(s) : Head(s) < Tail(s)[j] BY <1>1 DEF Climbs
<1>5. \A t : Under(s, t) => Under(Tail(s), t) /\ \A j \in DOMAIN t : Head(s) < t[j] BY <1>1 DEF Under
<1>6. \A t : Under(t, s) => Under(t, Tail(s)) /\ \A j \in DOMAIN t : t[j] < Head(s) BY <1>1 DEF Under
<1>7. \A t : UnderSteps(s, t) => UnderSteps(Tail(s), t)
                                 /\ \A j \in DOMAIN t : t[j].is = "step" => Head(s) < t[j].of
  BY <1>1 DEF UnderSteps
<1>8. \A n : Within(s, n) => Within(Tail(s), n) /\ 1 <= Head(s) /\ Head(s) <= n BY <1>1 DEF Within
<1> QED BY <1>3, <1>4, <1>5, <1>6, <1>7, <1>8

LEMMA TailSteps ==
  ASSUME NEW t \in Seq(Frames), t # <<>>
  PROVE  /\ StepsClimb(t) => StepsClimb(Tail(t))
                             /\ \A j \in DOMAIN Tail(t) : Tail(t)[j].is = "step" => Head(t).of < Tail(t)[j].of
         /\ \A s : UnderSteps(s, t) =>
              UnderSteps(s, Tail(t)) /\ (Head(t).is = "step" => \A i \in DOMAIN s : s[i] < Head(t).of)
<1>1. /\ Tail(t) \in Seq(Frames) /\ Head(t) = t[1] /\ 1 \in DOMAIN t
      /\ \A i \in DOMAIN Tail(t) : i \in Nat /\ 1 < i + 1 /\ i + 1 \in DOMAIN t /\ Tail(t)[i] = t[i + 1]
  BY TailFacts
<1>2. \A i, j \in DOMAIN Tail(t) : i < j => i + 1 < j + 1 BY <1>1
<1>3. StepsClimb(t) => StepsClimb(Tail(t)) BY <1>1, <1>2 DEF StepsClimb
<1>4. StepsClimb(t) => \A j \in DOMAIN Tail(t) : Tail(t)[j].is = "step" => Head(t).of < Tail(t)[j].of
  BY <1>1 DEF StepsClimb
<1>5. \A s : UnderSteps(s, t) => UnderSteps(s, Tail(t)) BY <1>1 DEF UnderSteps
<1>6. \A s : UnderSteps(s, t) => (Head(t).is = "step" => \A i \in DOMAIN s : s[i] < Head(t).of)
  BY <1>1 DEF UnderSteps
<1> QED BY <1>3, <1>4, <1>5, <1>6

\* One more comes at the end.
LEMMA AppendKeeps ==
  ASSUME NEW s \in Seq(Nat), NEW n \in Nat
  PROVE  /\ Climbs(s) /\ (\A i \in DOMAIN s : s[i] < n) => Climbs(Append(s, n))
         /\ \A t : Under(s, t) /\ (\A j \in DOMAIN t : n < t[j]) => Under(Append(s, n), t)
         /\ \A t : Under(t, s) /\ (\A j \in DOMAIN t : t[j] < n) => Under(t, Append(s, n))
         /\ \A t : UnderSteps(s, t) /\ (\A j \in DOMAIN t : t[j].is = "step" => n < t[j].of)
                   => UnderSteps(Append(s, n), t)
         /\ \A m : Within(s, m) /\ 1 <= n /\ n <= m => Within(Append(s, n), m)
<1>a. /\ Len(Append(s, n)) = Len(s) + 1 /\ Append(s, n)[Len(s) + 1] = n
      /\ \A i \in 1 .. Len(s) : Append(s, n)[i] = s[i]
  BY AppendProperties
<1>b. DOMAIN s = 1 .. Len(s) /\ Len(s) \in Nat /\ DOMAIN Append(s, n) = 1 .. Len(s) + 1
  BY <1>a, LenProperties, AppendProperties
<1>c. \A i \in DOMAIN s : i < Len(s) + 1 /\ i \in Nat /\ Len(s) \in Nat BY <1>b
<1>d. \A i \in DOMAIN Append(s, n) : i \in Nat /\ Len(s) \in Nat /\ i <= Len(s) + 1 BY <1>b
<1>1. ASSUME NEW i \in DOMAIN Append(s, n)
      PROVE  \/ i \in DOMAIN s /\ Append(s, n)[i] = s[i]
             \/ i = Len(s) + 1 /\ Append(s, n)[i] = n
  <2>1. i \in 1 .. Len(s) \/ i = Len(s) + 1 BY <1>b
  <2>2. CASE i \in 1 .. Len(s) BY <2>2, <1>a, <1>b
  <2>3. CASE i = Len(s) + 1 BY <2>3, <1>a
  <2> QED BY <2>1, <2>2, <2>3
<1>2. Climbs(s) /\ (\A i \in DOMAIN s : s[i] < n) => Climbs(Append(s, n))
  <2>1. SUFFICES ASSUME Climbs(s), \A i \in DOMAIN s : s[i] < n,
                        NEW i \in DOMAIN Append(s, n), NEW j \in DOMAIN Append(s, n), i < j
                 PROVE  Append(s, n)[i] < Append(s, n)[j]
    BY DEF Climbs
  <2>2. i # Len(s) + 1 BY <2>1, <1>d
  <2> QED BY <2>1, <2>2, <1>1, <1>c, <1>d DEF Climbs
<1>3. \A t : Under(s, t) /\ (\A j \in DOMAIN t : n < t[j]) => Under(Append(s, n), t) BY <1>1 DEF Under
<1>4. \A t : Under(t, s) /\ (\A j \in DOMAIN t : t[j] < n) => Under(t, Append(s, n)) BY <1>1 DEF Under
<1>5. \A t : UnderSteps(s, t) /\ (\A j \in DOMAIN t : t[j].is = "step" => n < t[j].of)
             => UnderSteps(Append(s, n), t)
  BY <1>1 DEF UnderSteps
<1>6. \A m : Within(s, m) /\ 1 <= n /\ n <= m => Within(Append(s, n), m) BY <1>1 DEF Within
<1> QED BY <1>2, <1>3, <1>4, <1>5, <1>6

LEMMA AppendSteps ==
  ASSUME NEW t \in Seq(Frames), NEW m \in Frames
  PROVE  /\ StepsClimb(t) /\ (m.is = "step" => \A i \in DOMAIN t : t[i].of < m.of) => StepsClimb(Append(t, m))
         /\ \A s : UnderSteps(s, t) /\ (m.is = "step" => \A i \in DOMAIN s : s[i] < m.of)
                   => UnderSteps(s, Append(t, m))
<1>a. /\ Len(Append(t, m)) = Len(t) + 1 /\ Append(t, m)[Len(t) + 1] = m
      /\ \A i \in 1 .. Len(t) : Append(t, m)[i] = t[i]
  BY AppendProperties
<1>b. DOMAIN t = 1 .. Len(t) /\ Len(t) \in Nat /\ DOMAIN Append(t, m) = 1 .. Len(t) + 1
  BY <1>a, LenProperties, AppendProperties
<1>c. \A i \in DOMAIN t : i < Len(t) + 1 /\ i \in Nat /\ Len(t) \in Nat BY <1>b
<1>d. \A i \in DOMAIN Append(t, m) : i \in Nat /\ Len(t) \in Nat /\ i <= Len(t) + 1 BY <1>b
<1>1. ASSUME NEW i \in DOMAIN Append(t, m)
      PROVE  \/ i \in DOMAIN t /\ Append(t, m)[i] = t[i]
             \/ i = Len(t) + 1 /\ Append(t, m)[i] = m
  <2>1. i \in 1 .. Len(t) \/ i = Len(t) + 1 BY <1>b
  <2>2. CASE i \in 1 .. Len(t) BY <2>2, <1>a, <1>b
  <2>3. CASE i = Len(t) + 1 BY <2>3, <1>a
  <2> QED BY <2>1, <2>2, <2>3
<1>2. StepsClimb(t) /\ (m.is = "step" => \A i \in DOMAIN t : t[i].of < m.of) => StepsClimb(Append(t, m))
  <2>1. SUFFICES ASSUME StepsClimb(t), m.is = "step" => \A i \in DOMAIN t : t[i].of < m.of,
                        NEW i \in DOMAIN Append(t, m), NEW j \in DOMAIN Append(t, m), i < j,
                        Append(t, m)[j].is = "step"
                 PROVE  Append(t, m)[i].of < Append(t, m)[j].of
    BY DEF StepsClimb
  <2>2. i # Len(t) + 1 BY <2>1, <1>d
  <2> QED BY <2>1, <2>2, <1>1, <1>c, <1>d DEF StepsClimb
<1>3. \A s : UnderSteps(s, t) /\ (m.is = "step" => \A i \in DOMAIN s : s[i] < m.of) => UnderSteps(s, Append(t, m))
  BY <1>1 DEF UnderSteps
<1> QED BY <1>2, <1>3

LEMMA AppendAt ==
  ASSUME NEW t \in Seq(Frames), NEW m \in Frames, NEW i \in DOMAIN Append(t, m)
  PROVE  (i \in DOMAIN t /\ Append(t, m)[i] = t[i]) \/ Append(t, m)[i] = m
<1>1. /\ Len(Append(t, m)) = Len(t) + 1 /\ Append(t, m)[Len(t) + 1] = m
      /\ \A j \in 1 .. Len(t) : Append(t, m)[j] = t[j]
  BY AppendProperties
<1>2. DOMAIN t = 1 .. Len(t) /\ Len(t) \in Nat /\ DOMAIN Append(t, m) = 1 .. Len(t) + 1
  BY <1>1, LenProperties, AppendProperties
<1>3. i \in 1 .. Len(t) \/ i = Len(t) + 1 BY <1>2
<1>4. CASE i \in 1 .. Len(t) BY <1>1, <1>2, <1>4
<1>5. CASE i = Len(t) + 1 BY <1>1, <1>5
<1> QED BY <1>3, <1>4, <1>5

LEMMA OrderWhenRead ==
  ASSUME NEW a \in Seq(Nat), NEW b, NEW c, NEW t, a # <<>>, InOrder(a, b, c, t)
  PROVE  InOrder(Tail(a), b, c, t)
BY TailKeeps DEF InOrder

LEMMA OrderWhenSent ==
  ASSUME NEW a \in Seq(Nat), NEW b \in Seq(Nat), NEW c, NEW t, b # <<>>, InOrder(a, b, c, t)
  PROVE  InOrder(Append(a, Head(b)), Tail(b), c, t)
<1>1. Head(b) \in Nat BY TailFacts
<1>2. /\ Climbs(Tail(b)) /\ \A j \in DOMAIN Tail(b) : Head(b) < Tail(b)[j]
      /\ Under(Tail(b), c) /\ \A j \in DOMAIN c : Head(b) < c[j]
      /\ Under(a, Tail(b)) /\ \A j \in DOMAIN a : a[j] < Head(b)
      /\ UnderSteps(Tail(b), t) /\ \A j \in DOMAIN t : t[j].is = "step" => Head(b) < t[j].of
  BY TailKeeps DEF InOrder
<1>3. PICK n \in Nat : n = Head(b) BY <1>1
<1>4. /\ Climbs(Append(a, n)) /\ Under(Append(a, n), Tail(b)) /\ Under(Append(a, n), c)
      /\ UnderSteps(Append(a, n), t)
  BY <1>2, <1>3, AppendKeeps DEF InOrder
<1> QED BY <1>2, <1>3, <1>4 DEF InOrder

LEMMA OrderWhenAnswered ==
  ASSUME NEW a, NEW b \in Seq(Nat), NEW c \in Seq(Nat), NEW t, c # <<>>, InOrder(a, b, c, t)
  PROVE  InOrder(a, Append(b, Head(c)), Tail(c), t)
<1>1. Head(c) \in Nat BY TailFacts
<1>2. /\ Climbs(Tail(c)) /\ \A j \in DOMAIN Tail(c) : Head(c) < Tail(c)[j]
      /\ Under(a, Tail(c)) /\ \A j \in DOMAIN a : a[j] < Head(c)
      /\ Under(b, Tail(c)) /\ \A j \in DOMAIN b : b[j] < Head(c)
      /\ UnderSteps(Tail(c), t) /\ \A j \in DOMAIN t : t[j].is = "step" => Head(c) < t[j].of
  BY TailKeeps DEF InOrder
<1>3. PICK n \in Nat : n = Head(c) BY <1>1
<1>4. /\ Climbs(Append(b, n)) /\ Under(Append(b, n), Tail(c)) /\ Under(a, Append(b, n))
      /\ UnderSteps(Append(b, n), t)
  BY <1>2, <1>3, AppendKeeps DEF InOrder
<1> QED BY <1>2, <1>3, <1>4 DEF InOrder

LEMMA OrderWhenReceived ==
  ASSUME NEW a, NEW b, NEW c \in Seq(Nat), NEW t \in Seq(Frames), t # <<>>, InOrder(a, b, c, t)
  PROVE  /\ InOrder(a, b, c, Tail(t))
         /\ Head(t).is = "step" => InOrder(a, b, Append(c, Head(t).of), Tail(t))
         /\ \A n : InOrder(a, b, Cancelled(c, n), Tail(t))
<1>0. Head(t) \in Frames BY TailFacts
<1>1. Head(t).of \in Nat BY <1>0 DEF Frames
<1>2. /\ StepsClimb(Tail(t))
      /\ \A j \in DOMAIN Tail(t) : Tail(t)[j].is = "step" => Head(t).of < Tail(t)[j].of
      /\ UnderSteps(a, Tail(t)) /\ UnderSteps(b, Tail(t)) /\ UnderSteps(c, Tail(t))
      /\ Head(t).is = "step" => /\ \A i \in DOMAIN a : a[i] < Head(t).of
                                /\ \A i \in DOMAIN b : b[i] < Head(t).of
                                /\ \A i \in DOMAIN c : c[i] < Head(t).of
  BY TailSteps DEF InOrder
<1>3. InOrder(a, b, c, Tail(t)) BY <1>2 DEF InOrder
<1>4. ASSUME Head(t).is = "step" PROVE InOrder(a, b, Append(c, Head(t).of), Tail(t))
  <2>1. PICK n \in Nat : n = Head(t).of BY <1>1
  <2>2. /\ Climbs(Append(c, n)) /\ Under(a, Append(c, n)) /\ Under(b, Append(c, n))
        /\ UnderSteps(Append(c, n), Tail(t))
    BY <1>2, <1>4, <2>1, AppendKeeps DEF InOrder
  <2> QED BY <2>1, <2>2, <1>3 DEF InOrder
<1>5. ASSUME NEW n PROVE InOrder(a, b, Cancelled(c, n), Tail(t))
  <2>1. PICK d : d = Cancelled(c, n) OBVIOUS
  <2>2. Climbs(d) /\ \A i \in DOMAIN d : \E j \in DOMAIN c : d[i] = c[j]
    BY <2>1, CancelledSteps DEF InOrder
  <2>3. Under(a, d) /\ Under(b, d) BY <2>2 DEF InOrder, Under
  <2>4. UnderSteps(d, Tail(t)) BY <2>2, <1>2 DEF UnderSteps
  <2> QED BY <2>1, <2>2, <2>3, <2>4, <1>3 DEF InOrder
<1> QED BY <1>3, <1>4, <1>5

LEMMA OrderWhenFramed ==
  ASSUME NEW a, NEW b, NEW c, NEW t \in Seq(Frames), NEW m \in Frames, InOrder(a, b, c, t),
         m.is = "step" => /\ \A i \in DOMAIN a : a[i] < m.of
                          /\ \A i \in DOMAIN b : b[i] < m.of
                          /\ \A i \in DOMAIN c : c[i] < m.of
                          /\ \A i \in DOMAIN t : t[i].of < m.of
  PROVE  InOrder(a, b, c, Append(t, m))
BY AppendSteps DEF InOrder

\* The two ends of a line that lets its steps go, and of one that starts.
LEMMA OrderAtTheEnds ==
  /\ \A a, b, c, t : InOrder(a, b, c, t) => InOrder(a, <<>>, <<>>, t) /\ InOrder(<<>>, b, c, t)
  /\ \A b, c, t : /\ InOrder(<<>>, b, c, t) /\ (\A i \in DOMAIN b : 1 <= b[i]) /\ (\A i \in DOMAIN c : 1 <= c[i])
                  /\ (\A i \in DOMAIN t : 1 <= t[i].of)
                  /\ b \in Seq(Nat) /\ c \in Seq(Nat) /\ t \in Seq(Frames)
                  => InOrder(Append(<<>>, 0), b, c, t)
<1>1. ASSUME NEW a, NEW b, NEW c, NEW t, InOrder(a, b, c, t)
      PROVE  InOrder(a, <<>>, <<>>, t) /\ InOrder(<<>>, b, c, t)
  BY <1>1 DEF InOrder, Climbs, Under, UnderSteps
<1>2. ASSUME NEW b \in Seq(Nat), NEW c \in Seq(Nat), NEW t \in Seq(Frames), InOrder(<<>>, b, c, t),
             \A i \in DOMAIN b : 1 <= b[i], \A i \in DOMAIN c : 1 <= c[i], \A i \in DOMAIN t : 1 <= t[i].of
      PROVE  InOrder(Append(<<>>, 0), b, c, t)
  <2>1. PICK e : e = <<>> OBVIOUS
  <2>2. e \in Seq(Nat) /\ 0 \in Nat /\ DOMAIN e = {} BY <2>1
  <2>3. Climbs(e) /\ Under(e, b) /\ Under(e, c) /\ UnderSteps(e, t) BY <1>2, <2>1 DEF InOrder
  <2>4. \A i \in DOMAIN b : 0 < b[i] BY <1>2
  <2>5. \A i \in DOMAIN c : 0 < c[i] BY <1>2
  <2>6. \A i \in DOMAIN t : 0 < t[i].of
    <3>0. \A i \in DOMAIN t : t[i] \in Frames BY <1>2
    <3>1. \A i \in DOMAIN t : t[i].of \in Nat BY <3>0 DEF Frames
    <3> QED BY <1>2, <3>1
  <2>7. Climbs(Append(e, 0)) /\ Under(Append(e, 0), b) /\ Under(Append(e, 0), c) /\ UnderSteps(Append(e, 0), t)
    BY <2>2, <2>3, <2>4, <2>5, <2>6, AppendKeeps
  <2> QED BY <2>1, <2>7, <1>2 DEF InOrder
<1> QED BY <1>1, <1>2

-------------------------------------------------------------------------------
(* The arrays a link's steps carry.                                        *)

LEMMA ZeroedFacts ==
  ASSUME NEW f
  PROVE  /\ DOMAIN Zeroed(f) = DOMAIN pages \cup {f}
         /\ \A g \in DOMAIN pages : Zeroed(f)[g] = pages[g]
BY DEF Zeroed

\* Bounds that grow.
LEMMA WithinGrows ==
  ASSUME NEW s \in Seq(Nat), NEW m \in Nat, NEW n \in Nat, m <= n, Within(s, m)
  PROVE  Within(s, n)
<1>1. \A i \in DOMAIN s : s[i] \in Nat OBVIOUS
<1> QED BY <1>1 DEF Within

\* A frame stays in order while its link goes on, whatever the others do.
LEMMA FrameStays ==
  ASSUME ShmTypeOK, ShmTypeOK', NEW k \in LinkIds, NEW m \in Frames, FrameOK(k, m),
         rotations[k] <= rotations'[k], sentSteps <= sentSteps', unsent \subseteq unsent',
         DOMAIN pages \subseteq DOMAIN pages',
         m.is = "step" => pages'[m.in] = pages[m.in] \/ m.of \in unsent,
         m.is = "step" /\ sess'[k] = "open" /\ m.in = block'[k] => m.of = awaited' \/ m.of \in unsent'
  PROVE  FrameOK(k, m)'
<1>1. m.of \in Nat /\ m.in \in Blocks BY DEF Frames
<1>2. m.in.turn \in Nat BY <1>1 DEF Blocks
<1>3. rotations[k] \in Nat /\ rotations'[k] \in Nat /\ sentSteps \in Nat /\ sentSteps' \in Nat BY DEF ShmTypeOK
<1> QED BY <1>1, <1>2, <1>3 DEF FrameOK

\* A link whose ends do nothing in a step.
LEMMA OtherLink ==
  ASSUME ShmTypeOK, ShmTypeOK', NEW k \in LinkIds, LinkOK(k),
         sess'[k] = sess[k], srv'[k] = srv[k], toSession'[k] = toSession[k], toServer'[k] = toServer[k],
         running'[k] = running[k], replies'[k] = replies[k], block'[k] = block[k], rotations'[k] = rotations[k],
         sentSteps <= sentSteps', unsent \subseteq unsent', DOMAIN pages \subseteq DOMAIN pages',
         \A f \in DOMAIN pages : f.link = k => pages'[f] = pages[f],
         sess[k] = "open" => awaited' = awaited
  PROVE  LinkOK(k)'
<1>1. sentSteps \in Nat /\ sentSteps' \in Nat /\ toSession[k] \in Seq(Nat) /\ replies[k] \in Seq(Nat)
      /\ running[k] \in Seq(Nat) /\ toServer[k] \in Seq(Frames) /\ rotations[k] \in Nat
  BY DEF ShmTypeOK
<1>2. \A s \in Seq(Nat) : Within(s, sentSteps) => Within(s, sentSteps') BY <1>1, WithinGrows
<1>3. EndsMeet(k)' BY <1>1, <1>2 DEF LinkOK, EndsMeet
<1>4. StepsInLine(k)' BY <1>1, <1>2 DEF LinkOK, StepsInLine
<1>5. ArraysInPlace(k)'
  <2>1. (\A i \in DOMAIN toServer[k] : FrameOK(k, toServer[k][i]))'
    <3> SUFFICES ASSUME NEW i \in DOMAIN toServer'[k] PROVE FrameOK(k, toServer[k][i])' OBVIOUS
    <3>1. PICK m \in Frames : m = toServer[k][i] BY <1>1
    <3>2. FrameOK(k, m) BY <3>1 DEF LinkOK, ArraysInPlace
    <3>3. pages'[m.in] = pages[m.in] BY <3>2 DEF FrameOK
    <3>4. m.is = "step" /\ sess'[k] = "open" /\ m.in = block'[k] => m.of = awaited' \/ m.of \in unsent'
      BY <3>2 DEF FrameOK
    <3>5. rotations[k] <= rotations'[k] BY <1>1
    <3>6. FrameOK(k, m)' BY <3>2, <3>3, <3>4, <3>5, FrameStays
    <3>7. m = toServer'[k][i] BY <3>1
    <3> QED BY <3>6, <3>7 DEF FrameOK
  <2>2. Output(k).link = k BY DEF Output
  <2>3. Output(k) \in DOMAIN pages => pages'[Output(k)] = pages[Output(k)] BY <2>2
  <2> QED BY <2>1, <2>3 DEF LinkOK, ArraysInPlace
<1> QED BY <1>3, <1>4, <1>5 DEF LinkOK

SessionSteps(l) ==
  \/ OpenLink(l) \/ ReadProbe(l) \/ AllocateRequest(l) \/ SessionCloses(l) \/ SessionKilled(l)
  \/ SendArrays(l) \/ SendCancel(l) \/ CancelFails(l) \/ ReadResult(l) \/ LinkLost(l)

ServerSteps(l) ==
  \/ ClaimSlot(l) \/ ReleasePrevious(l) \/ AllocateOutput(l) \/ AnnounceProbe(l) \/ ServerSeesEnd(l)
  \/ ReceiveStep(l) \/ AnswerStep(l) \/ SendResult(l)

\* A step that only concerns link l.
OnlyLink(l) ==
  /\ \A k \in LinkIds \ {l} :
       /\ sess'[k] = sess[k] /\ srv'[k] = srv[k] /\ toSession'[k] = toSession[k] /\ toServer'[k] = toServer[k]
       /\ running'[k] = running[k] /\ replies'[k] = replies[k]
       /\ block'[k] = block[k] /\ rotations'[k] = rotations[k]
       /\ \A f \in DOMAIN pages : f.link = k => pages'[f] = pages[f]
       /\ sess[k] = "open" => awaited' = awaited
  /\ sentSteps <= sentSteps' /\ unsent \subseteq unsent' /\ DOMAIN pages \subseteq DOMAIN pages'

LEMMA EveryLink ==
  ASSUME ShmTypeOK, ShmTypeOK', NEW l \in LinkIds, OnlyLink(l), \A k \in LinkIds : LinkOK(k), LinkOK(l)'
  PROVE  (\A k \in LinkIds : LinkOK(k))'
<1> SUFFICES ASSUME NEW k \in LinkIds, k # l PROVE LinkOK(k)' OBVIOUS
<1> QED BY OtherLink DEF OnlyLink

LEMMA SessionActsOnOne ==
  ASSUME BlocksInv, NEW l \in LinkIds, SessionSteps(l)
  PROVE  OnlyLink(l)
<1> USE DEF BlocksInv
<1>1. UNCHANGED <<srv, running, replies>>
  BY DEF SessionSteps, OpenLink, ReadProbe, AllocateRequest, SessionCloses, SessionKilled, SendArrays, SendCancel,
     CancelFails, ReadResult, LinkLost, srvVars
<1>2. \A k \in LinkIds \ {l} : sess'[k] = sess[k] /\ block'[k] = block[k] /\ rotations'[k] = rotations[k]
  BY DEF SessionSteps, OpenLink, ReadProbe, AllocateRequest, SessionCloses, SessionKilled, SendArrays, SendCancel,
     CancelFails, ReadResult, LinkLost, ShmTypeOK
<1>3. \A k \in LinkIds \ {l} : toSession'[k] = toSession[k] /\ toServer'[k] = toServer[k]
  BY DEF SessionSteps, OpenLink, ReadProbe, AllocateRequest, SessionCloses, SessionKilled, SendArrays, SendCancel,
     CancelFails, ReadResult, LinkLost, ShmTypeOK
<1>4. /\ DOMAIN pages \subseteq DOMAIN pages'
      /\ \A k \in LinkIds \ {l} : \A f \in DOMAIN pages : f.link = k => pages'[f] = pages[f]
  <2>1. CASE UNCHANGED pages BY <2>1
  <2>2. CASE SendArrays(l)
    <3>1. block[l].link = l BY DEF LinksInTurn
    <3> QED BY <2>2, <3>1 DEF SendArrays
  <2>3. CASE \E f : pages' = Zeroed(f) BY <2>3, ZeroedFacts
  <2> QED
    BY <2>1, <2>2, <2>3 DEF SessionSteps, OpenLink, ReadProbe, AllocateRequest, SessionCloses, SessionKilled,
       SendCancel, CancelFails, ReadResult, LinkLost
<1>5. sentSteps <= sentSteps' /\ unsent \subseteq unsent'
  <2>1. sentSteps \in Nat /\ (UNCHANGED sentSteps \/ sentSteps' = sentSteps + 1)
    BY DEF SessionSteps, OpenLink, ReadProbe, AllocateRequest, SessionCloses, SessionKilled, SendArrays, SendCancel,
       CancelFails, ReadResult, LinkLost, ShmTypeOK
  <2>2. unsent \subseteq unsent'
    BY DEF SessionSteps, OpenLink, ReadProbe, AllocateRequest, SessionCloses, SessionKilled, SendArrays, SendCancel,
       CancelFails, ReadResult, LinkLost
  <2> QED BY <2>1, <2>2
<1>6. \A k \in LinkIds \ {l} : sess[k] = "open" => awaited' = awaited
  <2>1. CASE Up(l)
    <3>1. \A k \in LinkIds \ {l} : k < l \/ k > l BY LinkIdsFacts
    <3> QED BY <2>1, <3>1, OneUp
  <2>2. CASE ~Up(l)
    BY <2>2 DEF SessionSteps, OpenLink, ReadProbe, AllocateRequest, SessionCloses, SessionKilled, SendArrays,
       SendCancel, CancelFails, ReadResult, LinkLost, Up
  <2> QED BY <2>1, <2>2
<1> QED BY <1>1, <1>2, <1>3, <1>4, <1>5, <1>6 DEF OnlyLink

LEMMA ServerActsOnOne ==
  ASSUME BlocksInv, NEW l \in LinkIds, ServerSteps(l)
  PROVE  OnlyLink(l)
<1> USE DEF BlocksInv
<1>1. UNCHANGED <<sess, block, rotations, awaited, unsent, sentSteps>>
  BY DEF ServerSteps, ClaimSlot, ReleasePrevious, AllocateOutput, AnnounceProbe, ServerSeesEnd, LeaveSlot,
     ReceiveStep, AnswerStep, SendResult, sessVars
<1>2. \A k \in LinkIds \ {l} : srv'[k] = srv[k]
  BY DEF ServerSteps, ClaimSlot, ReleasePrevious, AllocateOutput, AnnounceProbe, ServerSeesEnd, LeaveSlot,
     ReceiveStep, AnswerStep, SendResult, ShmTypeOK
<1>3. \A k \in LinkIds \ {l} : toSession'[k] = toSession[k] /\ toServer'[k] = toServer[k]
  BY DEF ServerSteps, ClaimSlot, ReleasePrevious, AllocateOutput, AnnounceProbe, ServerSeesEnd, LeaveSlot,
     ReceiveStep, AnswerStep, SendResult, ShmTypeOK
<1>4. \A k \in LinkIds \ {l} : running'[k] = running[k] /\ replies'[k] = replies[k]
  BY DEF ServerSteps, ClaimSlot, ReleasePrevious, AllocateOutput, AnnounceProbe, ServerSeesEnd, LeaveSlot,
     ReceiveStep, AnswerStep, SendResult, ShmTypeOK
<1>5. /\ DOMAIN pages \subseteq DOMAIN pages'
      /\ \A k \in LinkIds \ {l} : \A f \in DOMAIN pages : f.link = k => pages'[f] = pages[f]
  <2>1. CASE UNCHANGED pages BY <2>1
  <2>2. CASE SendResult(l)
    <3>1. Output(l).link = l BY DEF Output
    <3> QED BY <2>2, <3>1 DEF SendResult
  <2>3. CASE \E f : pages' = Zeroed(f) BY <2>3, ZeroedFacts
  <2> QED
    BY <2>1, <2>2, <2>3 DEF ServerSteps, ClaimSlot, ReleasePrevious, AllocateOutput, AnnounceProbe, ServerSeesEnd,
       LeaveSlot, ReceiveStep, AnswerStep
<1>6. sentSteps <= sentSteps' BY <1>1 DEF ShmTypeOK
<1> QED BY <1>1, <1>2, <1>3, <1>4, <1>5, <1>6 DEF OnlyLink

\* The frames that are still there, of a link that was not given another block.
LEMMA FramesStay ==
  ASSUME ShmTypeOK, ShmTypeOK', NEW l \in LinkIds, LinkOK(l),
         \A i \in DOMAIN toServer'[l] : \E j \in DOMAIN toServer[l] : toServer'[l][i] = toServer[l][j],
         rotations'[l] = rotations[l], sentSteps' = sentSteps, unsent' = unsent, DOMAIN pages \subseteq DOMAIN pages',
         \A f \in DOMAIN pages : f.kind = "request" => pages'[f] = pages[f],
         sess'[l] = "open" => sess[l] = "open" /\ block'[l] = block[l] /\ awaited' = awaited
  PROVE  (\A i \in DOMAIN toServer[l] : FrameOK(l, toServer[l][i]))'
<1> SUFFICES ASSUME NEW i \in DOMAIN toServer'[l] PROVE FrameOK(l, toServer[l][i])' OBVIOUS
<1>1. toServer[l] \in Seq(Frames) /\ rotations[l] \in Nat /\ sentSteps \in Nat BY DEF ShmTypeOK
<1>2. PICK j \in DOMAIN toServer[l] : toServer'[l][i] = toServer[l][j] OBVIOUS
<1>3. PICK m \in Frames : m = toServer[l][j] BY <1>1
<1>4. FrameOK(l, m) BY <1>3 DEF LinkOK, ArraysInPlace
<1>5. pages'[m.in] = pages[m.in] BY <1>4 DEF FrameOK
<1>6. m.is = "step" /\ sess'[l] = "open" /\ m.in = block'[l] => m.of = awaited' \/ m.of \in unsent'
  BY <1>4 DEF FrameOK
<1>7. rotations[l] <= rotations'[l] /\ sentSteps <= sentSteps' BY <1>1
<1>8. FrameOK(l, m)' BY <1>4, <1>5, <1>6, <1>7, FrameStays
<1>9. m = toServer'[l][i] BY <1>2, <1>3
<1> QED BY <1>8, <1>9 DEF FrameOK

LEMMA OpenLinkOK ==
  ASSUME ShmTypeOK, ShmTypeOK', NEW l \in LinkIds, LinkOK(l), OpenLink(l)
  PROVE  LinkOK(l)'
<1>1. l >= l BY LinkIdsFacts
<1>2. sess[l] = "none" /\ sess'[l] = "hello" BY <1>1 DEF OpenLink, ShmTypeOK
<1>3. UNCHANGED <<srv, toSession, toServer, running, replies, block, rotations, pages, awaited, unsent, sentSteps>>
  BY DEF OpenLink, srvVars
<1>4. EndsMeet(l)' BY <1>2, <1>3 DEF LinkOK, EndsMeet
<1>5. StepsInLine(l)' BY <1>3 DEF LinkOK, StepsInLine
<1>6. (\A i \in DOMAIN toServer[l] : FrameOK(l, toServer[l][i]))' BY <1>2, <1>3, FramesStay
<1>7. ArraysInPlace(l)' BY <1>2, <1>3, <1>6 DEF LinkOK, ArraysInPlace
<1> QED BY <1>4, <1>5, <1>7 DEF LinkOK

LEMMA ReadProbeOK ==
  ASSUME ShmTypeOK, ShmTypeOK', NEW l \in LinkIds, LinkOK(l), ReadProbe(l)
  PROVE  LinkOK(l)'
<1>1. sess[l] = "hello" /\ toSession[l] # <<>> /\ sess'[l] \in {"probed", "closed"} BY DEF ReadProbe, ShmTypeOK
<1>2. toSession'[l] = Tail(toSession[l]) /\ toSession[l] \in Seq(Nat) BY DEF ReadProbe, ShmTypeOK
<1>3. UNCHANGED <<srv, toServer, running, replies, block, rotations, pages, awaited, unsent, sentSteps>>
  BY DEF ReadProbe, srvVars
<1>4. toSession'[l] = <<>>
  <2>1. Len(toSession[l]) <= 1 BY <1>1 DEF LinkOK, EndsMeet
  <2>2. Tail(toSession[l]) \in Seq(Nat) /\ Len(Tail(toSession[l])) = Len(toSession[l]) - 1
    BY <1>1, <1>2, HeadTailProperties
  <2>3. Len(Tail(toSession[l])) = 0
    <3>1. Len(toSession[l]) \in Nat BY <1>2, LenProperties
    <3>2. Len(toSession[l]) # 0 BY <1>1, <1>2, EmptySeq
    <3>3. PICK n \in Nat : n = Len(toSession[l]) BY <3>1
    <3>4. n <= 1 /\ n # 0 BY <2>1, <3>2, <3>3
    <3>5. n = 1 BY <3>4
    <3> QED BY <2>2, <3>3, <3>5
  <2> QED BY <2>2, <2>3, <1>2, EmptySeq
<1>5. srv[l] \in {"serving", "over"} BY <1>1 DEF LinkOK, EndsMeet
<1>6. EndsMeet(l)'
  <2>1. Within(toSession'[l], sentSteps') BY <1>4 DEF Within
  <2>2. Len(toSession'[l]) <= 1 BY <1>4
  <2> QED BY <1>1, <1>3, <1>4, <1>5, <2>1, <2>2 DEF LinkOK, EndsMeet
<1>7. StepsInLine(l)'
  <2>1. InOrder(<<>>, replies[l], running[l], toServer[l]) BY OrderAtTheEnds DEF LinkOK, StepsInLine
  <2> QED BY <1>3, <1>4, <2>1 DEF LinkOK, StepsInLine
<1>8. (\A i \in DOMAIN toServer[l] : FrameOK(l, toServer[l][i]))' BY <1>1, <1>3, FramesStay
<1>9. ArraysInPlace(l)' BY <1>1, <1>3, <1>4, <1>8 DEF LinkOK, ArraysInPlace
<1> QED BY <1>6, <1>7, <1>9 DEF LinkOK

LEMMA AllocateRequestOK ==
  ASSUME ShmTypeOK, ShmTypeOK', NEW l \in LinkIds, LinkOK(l), AllocateRequest(l)
  PROVE  LinkOK(l)'
<1>1. sess[l] = "probed" /\ sess'[l] \in {"open", "closed"} /\ (sess'[l] = "open" => pages' = Zeroed(block[l]))
      /\ (UNCHANGED pages \/ pages' = Zeroed(block[l]))
  BY DEF AllocateRequest, ShmTypeOK
<1>2. UNCHANGED <<srv, toSession, toServer, running, replies, block, rotations, awaited, unsent, sentSteps>>
  BY DEF AllocateRequest, srvVars
<1>3. DOMAIN pages \subseteq DOMAIN pages' /\ \A g \in DOMAIN pages : pages'[g] = pages[g] BY <1>1, ZeroedFacts
<1>4. toServer[l] = <<>> BY <1>1 DEF LinkOK, EndsMeet
<1>5. EndsMeet(l)' BY <1>1, <1>2 DEF LinkOK, EndsMeet
<1>6. StepsInLine(l)' BY <1>2 DEF LinkOK, StepsInLine
<1>7. (\A i \in DOMAIN toServer[l] : FrameOK(l, toServer[l][i]))' BY <1>2, <1>4
<1>8. sess'[l] = "open" => block'[l] \in DOMAIN pages' BY <1>1, <1>2, ZeroedFacts
<1>9. ArraysInPlace(l)' BY <1>1, <1>2, <1>3, <1>7, <1>8 DEF LinkOK, ArraysInPlace
<1> QED BY <1>5, <1>6, <1>9 DEF LinkOK

LEMMA SessionGoneOK ==
  ASSUME ShmTypeOK, ShmTypeOK', NEW l \in LinkIds, LinkOK(l), SessionCloses(l) \/ SessionKilled(l) \/ LinkLost(l)
  PROVE  LinkOK(l)'
<1>1. sess'[l] = "closed"
  <2>1. sess' = [sess EXCEPT ![l] = "closed"] BY DEF SessionCloses, SessionKilled, LinkLost
  <2> QED BY <2>1 DEF ShmTypeOK
<1>2. UNCHANGED <<srv, toSession, toServer, running, replies, block, rotations, pages, unsent, sentSteps>>
  BY DEF SessionCloses, SessionKilled, LinkLost, srvVars
<1>3. EndsMeet(l)' BY <1>1, <1>2 DEF LinkOK, EndsMeet
<1>4. StepsInLine(l)' BY <1>2 DEF LinkOK, StepsInLine
<1>5. (\A i \in DOMAIN toServer[l] : FrameOK(l, toServer[l][i]))' BY <1>1, <1>2, FramesStay
<1>6. ArraysInPlace(l)' BY <1>1, <1>2, <1>5 DEF LinkOK, ArraysInPlace
<1> QED BY <1>3, <1>4, <1>6 DEF LinkOK

LEMMA SetUpOK ==
  ASSUME ShmTypeOK, ShmTypeOK', NEW l \in LinkIds, LinkOK(l),
         ClaimSlot(l) \/ ReleasePrevious(l) \/ AllocateOutput(l)
  PROVE  LinkOK(l)'
<1>1. UNCHANGED <<sess, toSession, toServer, running, replies, block, rotations, awaited, unsent, sentSteps>>
  BY DEF ClaimSlot, ReleasePrevious, AllocateOutput, sessVars
<1>2. /\ srv[l] \in {"none", "claimed"} /\ srv'[l] \in {"claimed", "allocated", "refused"}
      /\ srv[l] = "none" => sess[l] # "none"
      /\ srv'[l] = "allocated" => pages' = Zeroed(Output(l))
      /\ UNCHANGED pages \/ pages' = Zeroed(Output(l))
  BY DEF ClaimSlot, ReleasePrevious, AllocateOutput, ShmTypeOK
<1>3. DOMAIN pages \subseteq DOMAIN pages' /\ \A g \in DOMAIN pages : pages'[g] = pages[g] BY <1>2, ZeroedFacts
<1>4. toSession[l] = <<>> /\ sess[l] \notin {"none", "probed", "open"} BY <1>2 DEF LinkOK, EndsMeet
<1>5. EndsMeet(l)' BY <1>1, <1>2, <1>4 DEF LinkOK, EndsMeet
<1>6. StepsInLine(l)' BY <1>1 DEF LinkOK, StepsInLine
<1>7. (\A i \in DOMAIN toServer[l] : FrameOK(l, toServer[l][i]))' BY <1>1, <1>3, FramesStay
<1>8. srv'[l] = "allocated" => Output(l) \in DOMAIN pages' BY <1>2, ZeroedFacts
<1>9. ArraysInPlace(l)' BY <1>1, <1>2, <1>4, <1>7, <1>8 DEF LinkOK, ArraysInPlace
<1> QED BY <1>5, <1>6, <1>9 DEF LinkOK

LEMMA AnnounceProbeOK ==
  ASSUME ShmTypeOK, ShmTypeOK', NEW l \in LinkIds, LinkOK(l), AnnounceProbe(l)
  PROVE  LinkOK(l)'
<1>1. UNCHANGED <<sess, toServer, running, replies, block, rotations, pages, awaited, unsent, sentSteps>>
  BY DEF AnnounceProbe, sessVars
<1>2. srv[l] = "allocated" /\ srv'[l] = "serving" /\ toSession'[l] = Append(toSession[l], 0)
  BY DEF AnnounceProbe, ShmTypeOK
<1>3. toSession[l] = <<>> /\ sess[l] \notin {"none", "probed", "open"} BY <1>2 DEF LinkOK, EndsMeet
<1>4. toSession'[l] = Append(<<>>, 0) BY <1>2, <1>3
<1>5. EndsMeet(l)'
  <2>1. Len(toSession'[l]) <= 1 BY <1>4
  <2> QED BY <1>1, <1>2, <1>3, <2>1 DEF LinkOK, EndsMeet
<1>6. StepsInLine(l)'
  <2>1. PICK b, c, t : b = replies[l] /\ c = running[l] /\ t = toServer[l] OBVIOUS
  <2>2. b \in Seq(Nat) /\ c \in Seq(Nat) /\ t \in Seq(Frames) BY <2>1 DEF ShmTypeOK
  <2>3. InOrder(<<>>, b, c, t) BY <1>3, <2>1 DEF LinkOK, StepsInLine
  <2>4. (\A i \in DOMAIN b : 1 <= b[i]) /\ (\A i \in DOMAIN c : 1 <= c[i])
    BY <2>1 DEF LinkOK, StepsInLine, Within
  <2>5. \A i \in DOMAIN t : 1 <= t[i].of BY <2>1 DEF LinkOK, ArraysInPlace, FrameOK
  <2>6. InOrder(Append(<<>>, 0), b, c, t) BY <2>2, <2>3, <2>4, <2>5, OrderAtTheEnds
  <2> QED BY <1>1, <1>4, <2>1, <2>6 DEF LinkOK, StepsInLine
<1>7. (\A i \in DOMAIN toServer[l] : FrameOK(l, toServer[l][i]))' BY <1>1, FramesStay
<1>8. ArraysInPlace(l)' BY <1>1, <1>2, <1>3, <1>7 DEF LinkOK, ArraysInPlace
<1> QED BY <1>5, <1>6, <1>8 DEF LinkOK

LEMMA ServerSeesEndOK ==
  ASSUME ShmTypeOK, ShmTypeOK', NEW l \in LinkIds, LinkOK(l), ServerSeesEnd(l)
  PROVE  LinkOK(l)'
<1>1. UNCHANGED <<sess, toSession, toServer, block, rotations, pages, awaited, unsent, sentSteps>>
  BY DEF ServerSeesEnd, LeaveSlot, sessVars
<1>2. srv[l] # "none" /\ srv'[l] = "over" /\ running'[l] = <<>> /\ replies'[l] = <<>>
  BY DEF ServerSeesEnd, LeaveSlot, ShmTypeOK
<1>3. EndsMeet(l)' BY <1>1, <1>2 DEF LinkOK, EndsMeet
<1>4. StepsInLine(l)'
  <2>1. InOrder(toSession[l], <<>>, <<>>, toServer[l]) BY OrderAtTheEnds DEF LinkOK, StepsInLine
  <2>2. Within(<<>>, sentSteps) BY DEF Within
  <2> QED BY <1>1, <1>2, <2>1, <2>2 DEF StepsInLine
<1>5. (\A i \in DOMAIN toServer[l] : FrameOK(l, toServer[l][i]))' BY <1>1, FramesStay
<1>6. ArraysInPlace(l)' BY <1>1, <1>2, <1>5 DEF LinkOK, ArraysInPlace
<1> QED BY <1>3, <1>4, <1>6 DEF LinkOK

LEMMA ReceiveStepOK ==
  ASSUME ShmTypeOK, ShmTypeOK', NEW l \in LinkIds, LinkOK(l), ReceiveStep(l)
  PROVE  /\ LinkOK(l)'
         /\ \A copy \in taken' \ taken : copy.read = copy.of \/ copy.of \in unsent
<1> DEFINE m == Head(toServer[l])
<1>1. UNCHANGED <<sess, srv, toSession, replies, block, rotations, pages, awaited, unsent, sentSteps>>
  BY DEF ReceiveStep, sessVars
<1>2. srv[l] = "serving" /\ toServer[l] # <<>> /\ toServer'[l] = Tail(toServer[l])
  BY DEF ReceiveStep, ShmTypeOK
<1>3. \/ running'[l] = running[l]
      \/ \E n : running'[l] = Cancelled(running[l], n)
      \/ m.is = "step" /\ running'[l] = Append(running[l], m.of)
  BY DEF ReceiveStep, ShmTypeOK
<1>4. taken' \subseteq taken \cup {[of |-> m.of, read |-> pages[m.in]]} /\ (m.is = "step" \/ taken' = taken)
  BY DEF ReceiveStep
<1>5. toServer[l] \in Seq(Frames) /\ running[l] \in Seq(Nat) BY DEF ShmTypeOK
<1>6. /\ m \in Frames /\ m = toServer[l][1] /\ 1 \in DOMAIN toServer[l]
      /\ \A i \in DOMAIN Tail(toServer[l]) : i + 1 \in DOMAIN toServer[l] /\ Tail(toServer[l])[i] = toServer[l][i + 1]
  BY <1>2, <1>5, TailFacts
<1>7. FrameOK(l, m) BY <1>6 DEF LinkOK, ArraysInPlace
<1> HIDE DEF m
<1>8. EndsMeet(l)'
  <2>1. sess[l] \notin {"none", "hello", "probed"} BY <1>2 DEF LinkOK, EndsMeet
  <2> QED BY <1>1, <2>1 DEF LinkOK, EndsMeet
<1>9. StepsInLine(l)'
  <2>1. PICK a, b, c, t : a = toSession[l] /\ b = replies[l] /\ c = running[l] /\ t = toServer[l] OBVIOUS
  <2>2. c \in Seq(Nat) /\ t \in Seq(Frames) /\ t # <<>> BY <2>1, <1>2, <1>5
  <2>3. InOrder(a, b, c, t) BY <2>1 DEF LinkOK, StepsInLine
  <2>4. /\ InOrder(a, b, c, Tail(t)) /\ (m.is = "step" => InOrder(a, b, Append(c, m.of), Tail(t)))
        /\ \A n : InOrder(a, b, Cancelled(c, n), Tail(t))
    BY <2>1, <2>2, <2>3, OrderWhenReceived DEF m
  <2>5. InOrder(a, b, running'[l], Tail(t)) BY <1>3, <2>1, <2>4
  <2>6. Within(running'[l], sentSteps)
    <3>1. Within(c, sentSteps) BY <2>1 DEF LinkOK, StepsInLine
    <3>2. ASSUME NEW n PROVE Within(Cancelled(c, n), sentSteps)
      <4>1. PICK d : d = Cancelled(c, n) OBVIOUS
      <4>2. \A i \in DOMAIN d : \E j \in DOMAIN c : d[i] = c[j] BY <4>1, <2>2, CancelledSteps
      <4> QED BY <3>1, <4>1, <4>2 DEF Within
    <3>3. Within(Append(c, m.of), sentSteps)
      <4>1. m.of \in Nat /\ 1 <= m.of /\ m.of <= sentSteps BY <1>6, <1>7 DEF FrameOK, Frames
      <4>2. PICK n \in Nat : n = m.of BY <4>1
      <4> QED BY <3>1, <4>1, <4>2, <2>2, AppendKeeps
    <3> QED BY <1>3, <2>1, <3>1, <3>2, <3>3
  <2> QED BY <1>1, <1>2, <2>1, <2>5, <2>6 DEF LinkOK, StepsInLine
<1>10. (\A i \in DOMAIN toServer[l] : FrameOK(l, toServer[l][i]))'
  <2>1. \A i \in DOMAIN toServer'[l] : \E j \in DOMAIN toServer[l] : toServer'[l][i] = toServer[l][j]
    BY <1>2, <1>6
  <2> QED BY <1>1, <2>1, FramesStay
<1>11. ArraysInPlace(l)' BY <1>1, <1>10 DEF LinkOK, ArraysInPlace
<1>12. \A copy \in taken' \ taken : copy.read = copy.of \/ copy.of \in unsent BY <1>4, <1>7 DEF FrameOK
<1> QED BY <1>8, <1>9, <1>11, <1>12 DEF LinkOK

LEMMA AnswerStepOK ==
  ASSUME ShmTypeOK, ShmTypeOK', NEW l \in LinkIds, LinkOK(l), AnswerStep(l)
  PROVE  LinkOK(l)'
<1>1. UNCHANGED <<sess, srv, toSession, toServer, block, rotations, pages, awaited, unsent, sentSteps>>
  BY DEF AnswerStep, sessVars
<1>2. /\ running[l] # <<>> /\ running'[l] = Tail(running[l])
      /\ replies'[l] = Append(replies[l], Head(running[l]))
  BY DEF AnswerStep, ShmTypeOK
<1>3. EndsMeet(l)'
  <2>1. sess[l] \notin {"none", "hello", "probed"} BY <1>2 DEF LinkOK, EndsMeet
  <2> QED BY <1>1, <2>1 DEF LinkOK, EndsMeet
<1>4. StepsInLine(l)'
  <2>1. PICK a, b, c, t : a = toSession[l] /\ b = replies[l] /\ c = running[l] /\ t = toServer[l] OBVIOUS
  <2>2. b \in Seq(Nat) /\ c \in Seq(Nat) /\ c # <<>> BY <2>1, <1>2 DEF ShmTypeOK
  <2>3. InOrder(a, b, c, t) BY <2>1 DEF LinkOK, StepsInLine
  <2>4. InOrder(a, Append(b, Head(c)), Tail(c), t) BY <2>2, <2>3, OrderWhenAnswered
  <2>5. Within(b, sentSteps) /\ Within(c, sentSteps) BY <2>1 DEF LinkOK, StepsInLine
  <2>6. Within(Tail(c), sentSteps) /\ 1 <= Head(c) /\ Head(c) <= sentSteps BY <2>2, <2>5, TailKeeps
  <2>7. PICK n \in Nat : n = Head(c) BY <2>2, TailFacts
  <2>8. Within(Append(b, Head(c)), sentSteps) BY <2>2, <2>5, <2>6, <2>7, AppendKeeps
  <2> QED BY <1>1, <1>2, <2>1, <2>4, <2>6, <2>8 DEF StepsInLine
<1>5. (\A i \in DOMAIN toServer[l] : FrameOK(l, toServer[l][i]))' BY <1>1, FramesStay
<1>6. ArraysInPlace(l)' BY <1>1, <1>5 DEF LinkOK, ArraysInPlace
<1> QED BY <1>3, <1>4, <1>6 DEF LinkOK

LEMMA SendResultOK ==
  ASSUME ShmTypeOK, ShmTypeOK', NEW l \in LinkIds, LinkOK(l), SendResult(l)
  PROVE  LinkOK(l)'
<1>1. UNCHANGED <<sess, srv, toServer, running, block, rotations, awaited, unsent, sentSteps>>
  BY DEF SendResult, sessVars
<1>2. /\ srv[l] = "serving" /\ replies[l] # <<>> /\ replies'[l] = Tail(replies[l])
      /\ toSession'[l] = Append(toSession[l], Head(replies[l]))
      /\ pages' = [pages EXCEPT ![Output(l)] = Head(replies[l])]
  BY DEF SendResult, ShmTypeOK
<1>3. sess[l] \notin {"none", "hello", "probed"} BY <1>2 DEF LinkOK, EndsMeet
<1>4. PICK a, b, c, t : a = toSession[l] /\ b = replies[l] /\ c = running[l] /\ t = toServer[l] OBVIOUS
<1>5. a \in Seq(Nat) /\ b \in Seq(Nat) /\ b # <<>> BY <1>4, <1>2 DEF ShmTypeOK
<1>6. Within(b, sentSteps) BY <1>4 DEF LinkOK, StepsInLine
<1>7. Within(Tail(b), sentSteps) /\ 1 <= Head(b) /\ Head(b) <= sentSteps BY <1>5, <1>6, TailKeeps
<1>8. PICK n \in Nat : n = Head(b) BY <1>5, TailFacts
<1>9. EndsMeet(l)'
  <2>1. Within(a, sentSteps) => Within(Append(a, n), sentSteps) BY <1>5, <1>7, <1>8, AppendKeeps
  <2> QED BY <1>1, <1>2, <1>3, <1>4, <1>8, <2>1 DEF LinkOK, EndsMeet
<1>10. StepsInLine(l)'
  <2>1. InOrder(a, b, c, t) BY <1>4 DEF LinkOK, StepsInLine
  <2>2. InOrder(Append(a, Head(b)), Tail(b), c, t) BY <1>5, <2>1, OrderWhenSent
  <2> QED BY <1>1, <1>2, <1>4, <1>7, <2>2 DEF LinkOK, StepsInLine
<1>11. Output(l) \in DOMAIN pages /\ Output(l).kind = "output"
  BY <1>2 DEF LinkOK, ArraysInPlace, Output
<1>12. /\ DOMAIN pages' = DOMAIN pages /\ pages'[Output(l)] = n
       /\ \A f \in DOMAIN pages : f.kind = "request" => pages'[f] = pages[f]
  BY <1>2, <1>4, <1>8, <1>11
<1>13. (\A i \in DOMAIN toServer[l] : FrameOK(l, toServer[l][i]))' BY <1>1, <1>12, FramesStay
<1>14. Append(a, n)[Len(Append(a, n))] = n BY <1>5, AppendProperties
<1>15. ArraysInPlace(l)'
  <2>1. toSession'[l] = Append(a, n) BY <1>2, <1>4, <1>8
  <2> QED BY <1>1, <1>11, <1>12, <1>13, <1>14, <2>1 DEF LinkOK, ArraysInPlace
<1> QED BY <1>9, <1>10, <1>15 DEF LinkOK

LEMMA SendArraysOK ==
  ASSUME ShmTypeOK, ShmTypeOK', LinksInTurn, NEW l \in LinkIds, LinkOK(l), SendArrays(l)
  PROVE  LinkOK(l)'
<1>a. PICK n : n = sentSteps + 1 OBVIOUS
<1>b. PICK m : m = [is |-> "step", of |-> n, in |-> block[l]] OBVIOUS
<1>1. UNCHANGED <<sess, srv, toSession, running, replies, block, rotations, unsent>>
  BY DEF SendArrays, srvVars
<1>2. /\ sess[l] = "open" /\ awaited = 0 /\ sentSteps' = n /\ awaited' = n
      /\ pages' = [pages EXCEPT ![block[l]] = n] /\ toServer'[l] = Append(toServer[l], m)
  BY <1>a, <1>b DEF SendArrays, ShmTypeOK
<1>3. /\ sentSteps \in Nat /\ n \in Nat /\ sentSteps <= n /\ sentSteps < n /\ 1 <= n
      /\ toSession[l] \in Seq(Nat) /\ replies[l] \in Seq(Nat) /\ running[l] \in Seq(Nat)
      /\ toServer[l] \in Seq(Frames) /\ block[l] \in Blocks
  BY <1>a DEF ShmTypeOK
<1>4. m \in Frames BY <1>b, <1>3 DEF Frames
<1>5. m.is = "step" /\ m.of = n /\ m.in = block[l] BY <1>b
<1>6. \A s \in Seq(Nat) : Within(s, sentSteps) => Within(s, n) /\ \A i \in DOMAIN s : s[i] < n
  <2> SUFFICES ASSUME NEW s \in Seq(Nat), Within(s, sentSteps) PROVE Within(s, n) /\ \A i \in DOMAIN s : s[i] < n
    OBVIOUS
  <2>1. \A i \in DOMAIN s : s[i] \in Nat OBVIOUS
  <2> QED BY <2>1, <1>3 DEF Within
<1>7. EndsMeet(l)' BY <1>1, <1>2, <1>3, <1>6 DEF LinkOK, EndsMeet
<1>8. block[l] \in DOMAIN pages /\ block[l].kind = "request" /\ block[l].link = l /\ block[l].turn <= rotations[l]
  BY <1>2 DEF LinkOK, ArraysInPlace, LinksInTurn
<1>9. Output(l) # block[l] BY <1>8 DEF Output
<1>10. \A i \in DOMAIN toServer[l] : toServer[l][i] \in Frames /\ FrameOK(l, toServer[l][i])
  BY <1>3 DEF LinkOK, ArraysInPlace
<1>11. \A i \in DOMAIN toServer[l] : toServer[l][i].of < n
  <2> SUFFICES ASSUME NEW i \in DOMAIN toServer[l] PROVE toServer[l][i].of < n OBVIOUS
  <2>1. toServer[l][i].of \in Nat BY <1>10 DEF Frames
  <2>2. toServer[l][i].of <= sentSteps BY <1>10 DEF FrameOK
  <2> QED BY <2>1, <2>2, <1>3
<1>12. StepsInLine(l)'
  <2>1. Within(toSession[l], sentSteps) /\ Within(replies[l], sentSteps) /\ Within(running[l], sentSteps)
    BY <1>2 DEF LinkOK, EndsMeet, StepsInLine
  <2>2. PICK a, b, c, t : a = toSession[l] /\ b = replies[l] /\ c = running[l] /\ t = toServer[l] OBVIOUS
  <2>3. /\ \A i \in DOMAIN a : a[i] < m.of
        /\ \A i \in DOMAIN b : b[i] < m.of
        /\ \A i \in DOMAIN c : c[i] < m.of
        /\ \A i \in DOMAIN t : t[i].of < m.of
    BY <2>1, <2>2, <1>3, <1>5, <1>6, <1>11
  <2>4. InOrder(a, b, c, t) /\ t \in Seq(Frames) BY <1>3, <2>2 DEF LinkOK, StepsInLine
  <2>5. InOrder(a, b, c, Append(t, m)) BY <1>4, <2>3, <2>4, OrderWhenFramed
  <2>6. Within(b, n) /\ Within(c, n) BY <2>1, <2>2, <1>3, <1>6
  <2> QED BY <1>1, <1>2, <2>2, <2>5, <2>6 DEF StepsInLine
<1>13. /\ DOMAIN pages' = DOMAIN pages /\ pages'[block[l]] = n
       /\ \A f \in DOMAIN pages : f # block[l] => pages'[f] = pages[f]
  BY <1>2, <1>8
<1>14. FrameOK(l, m)' BY <1>1, <1>2, <1>3, <1>5, <1>8, <1>13 DEF FrameOK
<1>15. ASSUME NEW f \in Frames, FrameOK(l, f) PROVE FrameOK(l, f)'
  <2>1. f.of \in Nat BY DEF Frames
  <2>2. f.is = "step" /\ f.in = block[l] => f.of \in unsent BY <1>2, <1>15, <2>1 DEF FrameOK
  <2>3. f.is = "step" => pages'[f.in] = pages[f.in] \/ f.of \in unsent
    BY <1>13, <1>15, <2>2 DEF FrameOK
  <2>4. rotations[l] <= rotations'[l] BY <1>1 DEF ShmTypeOK
  <2> QED BY <1>1, <1>2, <1>3, <1>13, <1>15, <2>2, <2>3, <2>4, FrameStays
<1>16. (\A i \in DOMAIN toServer[l] : FrameOK(l, toServer[l][i]))'
  <2> SUFFICES ASSUME NEW i \in DOMAIN toServer'[l] PROVE FrameOK(l, toServer[l][i])' OBVIOUS
  <2>1. \/ i \in DOMAIN toServer[l] /\ toServer'[l][i] = toServer[l][i]
        \/ toServer'[l][i] = m
    BY <1>2, <1>3, <1>4, AppendAt
  <2>2. CASE toServer'[l][i] = m BY <1>14, <2>2 DEF FrameOK
  <2>3. CASE i \in DOMAIN toServer[l] /\ toServer'[l][i] = toServer[l][i]
    <3>1. PICK f \in Frames : f = toServer[l][i] /\ FrameOK(l, f) BY <2>3, <1>10
    <3>2. FrameOK(l, f)' /\ f = toServer'[l][i] BY <1>15, <2>3, <3>1
    <3> QED BY <3>2 DEF FrameOK
  <2> QED BY <2>1, <2>2, <2>3
<1>17. ArraysInPlace(l)' BY <1>1, <1>8, <1>9, <1>13, <1>16 DEF LinkOK, ArraysInPlace
<1> QED BY <1>7, <1>12, <1>17 DEF LinkOK

LEMMA SendCancelOK ==
  ASSUME ShmTypeOK, ShmTypeOK', LinksInTurn, awaited # 0 => awaited = sentSteps,
         NEW l \in LinkIds, LinkOK(l), SendCancel(l)
  PROVE  LinkOK(l)'
<1>a. PICK m : m = [is |-> "cancel", of |-> awaited, in |-> block[l]] OBVIOUS
<1>b. PICK fresh : fresh = Request(l, rotations[l] + 1) OBVIOUS
<1>1. UNCHANGED <<sess, srv, toSession, running, replies, unsent, sentSteps>> BY DEF SendCancel, srvVars
<1>2. /\ sess[l] = "open" /\ awaited # 0 /\ rotations'[l] = rotations[l] + 1 /\ block'[l] = fresh
      /\ pages' = Zeroed(fresh) /\ toServer'[l] = Append(toServer[l], m)
  BY <1>a, <1>b DEF SendCancel, ShmTypeOK
<1>3. /\ sentSteps \in Nat /\ awaited \in Nat /\ toServer[l] \in Seq(Frames) /\ block[l] \in Blocks
      /\ rotations[l] \in Nat
  BY DEF ShmTypeOK
<1>4. m \in Frames BY <1>a, <1>3 DEF Frames
<1>5. m.is = "cancel" /\ m.of = awaited /\ m.in = block[l] BY <1>a
<1>6. fresh.turn = rotations[l] + 1 BY <1>b DEF Request
<1>7. block[l] \in DOMAIN pages /\ block[l].kind = "request" /\ block[l].link = l /\ block[l].turn <= rotations[l]
      /\ block[l].turn \in Nat
  BY <1>2, <1>3 DEF LinkOK, ArraysInPlace, LinksInTurn, Blocks
<1>8. /\ DOMAIN pages \subseteq DOMAIN pages' /\ fresh \in DOMAIN pages'
      /\ \A g \in DOMAIN pages : pages'[g] = pages[g]
  BY <1>2, ZeroedFacts
<1>9. EndsMeet(l)' BY <1>1, <1>2 DEF LinkOK, EndsMeet
<1>10. StepsInLine(l)'
  <2>1. PICK a, b, c, t : a = toSession[l] /\ b = replies[l] /\ c = running[l] /\ t = toServer[l] OBVIOUS
  <2>2. InOrder(a, b, c, t) /\ t \in Seq(Frames) BY <1>3, <2>1 DEF LinkOK, StepsInLine
  <2>3. InOrder(a, b, c, Append(t, m)) BY <1>4, <1>5, <2>2, OrderWhenFramed
  <2> QED BY <1>1, <1>2, <2>1, <2>3 DEF LinkOK, StepsInLine
<1>11. FrameOK(l, m)'
  <2>1. 1 <= m.of /\ m.of <= sentSteps' BY <1>1, <1>2, <1>3, <1>5
  <2>2. m.in.turn <= rotations'[l] BY <1>2, <1>3, <1>5, <1>7
  <2> QED BY <1>5, <1>7, <1>8, <2>1, <2>2 DEF FrameOK
<1>12. ASSUME NEW f \in Frames, FrameOK(l, f) PROVE FrameOK(l, f)'
  <2>1. f.in \in Blocks BY DEF Frames
  <2>2. f.in.turn \in Nat /\ f.in.turn <= rotations[l] BY <1>12, <2>1 DEF Blocks, FrameOK
  <2>3. f.in # block'[l] BY <1>2, <1>3, <1>6, <2>2
  <2>4. pages'[f.in] = pages[f.in] BY <1>8, <1>12 DEF FrameOK
  <2>5. rotations[l] <= rotations'[l] /\ sentSteps <= sentSteps' BY <1>1, <1>2, <1>3
  <2> QED BY <1>1, <1>8, <1>12, <2>3, <2>4, <2>5, FrameStays
<1>13. (\A i \in DOMAIN toServer[l] : FrameOK(l, toServer[l][i]))'
  <2> SUFFICES ASSUME NEW i \in DOMAIN toServer'[l] PROVE FrameOK(l, toServer[l][i])' OBVIOUS
  <2>1. (i \in DOMAIN toServer[l] /\ toServer'[l][i] = toServer[l][i]) \/ toServer'[l][i] = m
    BY <1>2, <1>3, <1>4, AppendAt
  <2>2. CASE toServer'[l][i] = m BY <1>11, <2>2 DEF FrameOK
  <2>3. CASE i \in DOMAIN toServer[l] /\ toServer'[l][i] = toServer[l][i]
    <3>1. PICK f \in Frames : f = toServer[l][i] /\ FrameOK(l, f) BY <2>3, <1>3 DEF LinkOK, ArraysInPlace
    <3>2. FrameOK(l, f)' /\ f = toServer'[l][i] BY <1>12, <2>3, <3>1
    <3> QED BY <3>2 DEF FrameOK
  <2> QED BY <2>1, <2>2, <2>3
<1>14. ArraysInPlace(l)' BY <1>1, <1>2, <1>8, <1>13 DEF LinkOK, ArraysInPlace
<1> QED BY <1>9, <1>10, <1>14 DEF LinkOK

LEMMA CancelFailsOK ==
  ASSUME ShmTypeOK, ShmTypeOK', NEW l \in LinkIds, LinkOK(l), CancelFails(l)
  PROVE  LinkOK(l)'
<1>1. UNCHANGED <<sess, srv, toSession, toServer, running, replies, block, pages, sentSteps>>
  BY DEF CancelFails, srvVars
<1>2. /\ rotations'[l] = rotations[l] + 1 /\ unsent' = unsent \cup {awaited}
      /\ rotations[l] \in Nat /\ sentSteps \in Nat /\ toServer[l] \in Seq(Frames)
  BY DEF CancelFails, ShmTypeOK
<1>3. EndsMeet(l)' BY <1>1 DEF LinkOK, EndsMeet
<1>4. StepsInLine(l)' BY <1>1 DEF LinkOK, StepsInLine
<1>5. (\A i \in DOMAIN toServer[l] : FrameOK(l, toServer[l][i]))'
  <2> SUFFICES ASSUME NEW i \in DOMAIN toServer'[l] PROVE FrameOK(l, toServer[l][i])' OBVIOUS
  <2>1. PICK f \in Frames : f = toServer[l][i] /\ FrameOK(l, f) BY <1>1, <1>2 DEF LinkOK, ArraysInPlace
  <2>2. f.is = "step" /\ sess'[l] = "open" /\ f.in = block'[l] => f.of \in unsent'
    BY <1>1, <1>2, <2>1 DEF FrameOK
  <2>3. rotations[l] <= rotations'[l] /\ sentSteps <= sentSteps' BY <1>1, <1>2
  <2>4. FrameOK(l, f)' BY <1>1, <1>2, <2>1, <2>2, <2>3, FrameStays
  <2>5. f = toServer'[l][i] BY <1>1, <2>1
  <2> QED BY <2>4, <2>5 DEF FrameOK
<1>6. ArraysInPlace(l)' BY <1>1, <1>5 DEF LinkOK, ArraysInPlace
<1> QED BY <1>3, <1>4, <1>6 DEF LinkOK

LEMMA ReadResultOK ==
  ASSUME ShmTypeOK, ShmTypeOK', awaited # 0 => awaited = sentSteps,
         NEW l \in LinkIds, LinkOK(l), ReadResult(l)
  PROVE  /\ LinkOK(l)'
         /\ \A copy \in kept' \ kept : copy.read = copy.of
         /\ awaited' # 0 => awaited' = awaited
<1>1. UNCHANGED <<sess, srv, toServer, running, replies, block, rotations, pages, unsent, sentSteps>>
  BY DEF ReadResult, srvVars
<1>2. sess[l] = "open" /\ toSession[l] # <<>> /\ toSession'[l] = Tail(toSession[l]) BY DEF ReadResult, ShmTypeOK
<1>3. PICK a : a = toSession[l] OBVIOUS
<1>4. a \in Seq(Nat) /\ a # <<>> /\ sentSteps \in Nat /\ toServer[l] \in Seq(Frames) BY <1>2, <1>3 DEF ShmTypeOK
<1>5. Within(a, sentSteps) /\ InOrder(a, replies[l], running[l], toServer[l])
  BY <1>2, <1>3 DEF LinkOK, EndsMeet, StepsInLine
<1>6. /\ Within(Tail(a), sentSteps) /\ 1 <= Head(a) /\ Head(a) <= sentSteps
      /\ \A j \in DOMAIN Tail(a) : Head(a) < Tail(a)[j]
      /\ \A j \in DOMAIN toServer[l] : toServer[l][j].is = "step" => Head(a) < toServer[l][j].of
  BY <1>4, <1>5, TailKeeps DEF InOrder
<1>7. /\ Tail(a) \in Seq(Nat) /\ Head(a) = a[1] /\ Head(a) \in Nat
      /\ Len(Tail(a)) = Len(a) - 1 /\ Len(a) \in Nat /\ Len(a) # 0
      /\ \A i \in 1 .. Len(Tail(a)) : Tail(a)[i] = a[i + 1]
  BY <1>4, TailFacts, HeadTailProperties, LenProperties, EmptySeq
<1>8. a[Len(a)] = pages[Output(l)] /\ Output(l) \in DOMAIN pages BY <1>2, <1>3 DEF LinkOK, ArraysInPlace
<1>9. EndsMeet(l)' BY <1>1, <1>2, <1>3, <1>6 DEF LinkOK, EndsMeet
<1>10. StepsInLine(l)'
  <2>1. InOrder(Tail(a), replies[l], running[l], toServer[l]) BY <1>4, <1>5, OrderWhenRead
  <2> QED BY <1>1, <1>2, <1>3, <2>1 DEF LinkOK, StepsInLine
<1>11. Tail(a) # <<>> => Tail(a)[Len(Tail(a))] = pages[Output(l)]
  <2>1. SUFFICES ASSUME Tail(a) # <<>> PROVE Tail(a)[Len(Tail(a))] = a[Len(a)] BY <1>8
  <2>2. Len(Tail(a)) \in Nat /\ Len(Tail(a)) # 0 BY <1>7, <2>1, LenProperties, EmptySeq
  <2>3. PICK n \in Nat : n = Len(Tail(a)) BY <2>2
  <2>4. n \in 1 .. Len(Tail(a)) /\ n + 1 = Len(a) BY <1>7, <2>2, <2>3
  <2> QED BY <1>7, <2>3, <2>4
<1>12. ASSUME Head(a) = awaited
       PROVE  /\ a[Len(a)] = awaited
              /\ \A i \in DOMAIN toServer[l] : toServer[l][i].is # "step"
  <2>1. Head(a) = sentSteps BY <1>6, <1>7, <1>12
  <2>2. Tail(a) = <<>>
    <3>1. SUFFICES ASSUME Tail(a) # <<>> PROVE FALSE OBVIOUS
    <3>2. 1 \in DOMAIN Tail(a) /\ Tail(a)[1] \in Nat BY <1>7, <3>1, TailFacts
    <3>3. Tail(a)[1] <= sentSteps BY <1>6, <3>2 DEF Within
    <3>4. Head(a) < Tail(a)[1] BY <1>6, <3>2
    <3> QED BY <1>4, <2>1, <3>2, <3>3, <3>4
  <2>3. Len(Tail(a)) = 0 BY <1>7, <2>2, EmptySeq
  <2>4. Len(a) = 1
    <3>1. PICK n \in Nat : n = Len(a) BY <1>7
    <3>2. n - 1 = 0 BY <1>7, <2>3, <3>1
    <3>3. n = 1 BY <3>2
    <3> QED BY <3>1, <3>3
  <2>5. ASSUME NEW i \in DOMAIN toServer[l], toServer[l][i].is = "step" PROVE FALSE
    <3>1. PICK f \in Frames : f = toServer[l][i] /\ FrameOK(l, f) BY <1>4 DEF LinkOK, ArraysInPlace
    <3>2. f.of \in Nat BY DEF Frames
    <3>3. Head(a) < f.of /\ f.of <= sentSteps BY <1>6, <2>5, <3>1 DEF FrameOK
    <3> QED BY <1>4, <2>1, <3>2, <3>3
  <2> QED BY <1>7, <1>12, <2>4, <2>5
<1>13. (Head(a) = awaited /\ kept' = kept \cup {[of |-> awaited, read |-> pages[Output(l)]]} /\ awaited' = 0)
       \/ UNCHANGED <<kept, awaited>>
  BY <1>3 DEF ReadResult
<1>14. (\A i \in DOMAIN toServer[l] : FrameOK(l, toServer[l][i]))'
  <2>1. CASE UNCHANGED awaited BY <1>1, <2>1, FramesStay
  <2>2. CASE Head(a) = awaited
    <3> SUFFICES ASSUME NEW i \in DOMAIN toServer'[l] PROVE FrameOK(l, toServer[l][i])' OBVIOUS
    <3>1. toServer[l][i].is # "step" /\ FrameOK(l, toServer[l][i])
      BY <1>1, <1>12, <2>2 DEF LinkOK, ArraysInPlace
    <3> QED BY <1>1, <3>1 DEF FrameOK
  <2> QED BY <1>13, <2>1, <2>2
<1>15. ArraysInPlace(l)' BY <1>1, <1>2, <1>3, <1>8, <1>11, <1>14 DEF LinkOK, ArraysInPlace
<1>16. \A copy \in kept' \ kept : copy.read = copy.of BY <1>8, <1>12, <1>13
<1> QED BY <1>9, <1>10, <1>13, <1>15, <1>16 DEF LinkOK

LEMMA ServerKilledOK ==
  ASSUME ShmTypeOK, ShmTypeOK', NEW l \in LinkIds, LinkOK(l), ServerKilled
  PROVE  LinkOK(l)'
<1>1. UNCHANGED <<sess, toSession, toServer, block, rotations, pages, awaited, unsent, sentSteps>>
  BY DEF ServerKilled, sessVars
<1>2. srv'[l] = (IF sess[l] = "none" THEN "none" ELSE "over") /\ running'[l] = <<>> /\ replies'[l] = <<>>
  BY DEF ServerKilled
<1>3. EndsMeet(l)' BY <1>1, <1>2 DEF LinkOK, EndsMeet
<1>4. StepsInLine(l)'
  <2>1. InOrder(toSession[l], <<>>, <<>>, toServer[l]) BY OrderAtTheEnds DEF LinkOK, StepsInLine
  <2>2. Within(<<>>, sentSteps) BY DEF Within
  <2> QED BY <1>1, <1>2, <2>1, <2>2 DEF StepsInLine
<1>5. (\A i \in DOMAIN toServer[l] : FrameOK(l, toServer[l][i]))' BY <1>1, FramesStay
<1>6. ArraysInPlace(l)' BY <1>1, <1>2, <1>5 DEF LinkOK, ArraysInPlace
<1> QED BY <1>3, <1>4, <1>6 DEF LinkOK

LEMMA LinkStarts ==
  ASSUME ShmInit
  PROVE  BlocksInv /\ ArraysInv
<1> USE DEF ShmInit
<1>1. ShmTypeOK
  <2>1. \A l \in LinkIds : Request(l, 0) \in Blocks BY LinkIdsFacts
  <2>2. <<>> \in Seq(Nat) /\ <<>> \in Seq(Frames) OBVIOUS
  <2> QED BY <2>1, <2>2 DEF ShmTypeOK
<1>2. LinksInTurn BY DEF LinksInTurn, Request
<1>3. RequestsKept BY DEF RequestsKept
<1>4. OutputsKept BY LinkIdsFacts DEF OutputsKept
<1>5. ASSUME NEW l \in LinkIds PROVE LinkOK(l)
  <2>1. EndsMeet(l)
    <3>1. Len(<<>>) <= 1 OBVIOUS
    <3> QED BY <3>1 DEF EndsMeet
  <2>2. StepsInLine(l) BY DEF StepsInLine, InOrder, Climbs, Under, StepsClimb, UnderSteps, Within
  <2>3. ArraysInPlace(l) BY DEF ArraysInPlace
  <2> QED BY <2>1, <2>2, <2>3 DEF LinkOK
<1>6. ArraysIntact BY DEF ArraysIntact
<1> QED BY <1>1, <1>2, <1>3, <1>4, <1>5, <1>6 DEF BlocksInv, ArraysInv

LEMMA LinkGoesOn ==
  ASSUME BlocksInv, BlocksInv', ArraysInv, ShmNext
  PROVE  ArraysInv'
<1>0. /\ ShmTypeOK /\ ShmTypeOK' /\ LinksInTurn /\ \A k \in LinkIds : LinkOK(k)
      /\ awaited # 0 => awaited = sentSteps
  BY DEF BlocksInv, ArraysInv
<1>1. ASSUME NEW l \in LinkIds, SessionSteps(l) PROVE (\A k \in LinkIds : LinkOK(k))'
  <2>1. OnlyLink(l) BY <1>1, SessionActsOnOne
  <2>2. LinkOK(l)'
    BY <1>0, <1>1, OpenLinkOK, ReadProbeOK, AllocateRequestOK, SessionGoneOK, SendArraysOK, SendCancelOK,
       CancelFailsOK, ReadResultOK DEF SessionSteps
  <2> QED BY <1>0, <2>1, <2>2, EveryLink
<1>2. ASSUME NEW l \in LinkIds, ServerSteps(l) PROVE (\A k \in LinkIds : LinkOK(k))'
  <2>1. OnlyLink(l) BY <1>2, ServerActsOnOne
  <2>2. LinkOK(l)'
    BY <1>0, <1>2, SetUpOK, AnnounceProbeOK, ServerSeesEndOK, ReceiveStepOK, AnswerStepOK, SendResultOK
       DEF ServerSteps
  <2> QED BY <1>0, <2>1, <2>2, EveryLink
<1>3. CASE ServerKilled
  <2>1. (\A k \in LinkIds : LinkOK(k))' BY <1>0, <1>3, ServerKilledOK
  <2>2. UNCHANGED <<awaited, sentSteps, taken, kept, unsent>> BY <1>3 DEF ServerKilled, sessVars
  <2> QED BY <2>1, <2>2 DEF ArraysInv, ArraysIntact
<1>4. ASSUME NEW l \in LinkIds, SessionSteps(l)
      PROVE  (awaited' # 0 => awaited' = sentSteps') /\ ArraysIntact'
  <2>1. CASE ReadResult(l)
    <3>1. UNCHANGED <<taken, sentSteps, unsent>> BY <2>1 DEF ReadResult
    <3>2. (\A copy \in kept' \ kept : copy.read = copy.of) /\ (awaited' # 0 => awaited' = awaited)
      BY <1>0, <2>1, ReadResultOK
    <3> QED BY <1>0, <3>1, <3>2 DEF ArraysInv, ArraysIntact
  <2>2. CASE ~ReadResult(l)
    <3>1. UNCHANGED <<taken, kept>> /\ unsent \subseteq unsent'
      BY <1>4, <2>2 DEF SessionSteps, OpenLink, ReadProbe, AllocateRequest, SessionCloses, SessionKilled, SendArrays,
         SendCancel, CancelFails, LinkLost
    <3>2. awaited' = 0 \/ UNCHANGED <<awaited, sentSteps>> \/ awaited' = sentSteps'
      BY <1>4, <2>2 DEF SessionSteps, OpenLink, ReadProbe, AllocateRequest, SessionCloses, SessionKilled, SendArrays,
         SendCancel, CancelFails, LinkLost
    <3> QED BY <1>0, <3>1, <3>2 DEF ArraysInv, ArraysIntact
  <2> QED BY <2>1, <2>2
<1>5. ASSUME NEW l \in LinkIds, ServerSteps(l)
      PROVE  (awaited' # 0 => awaited' = sentSteps') /\ ArraysIntact'
  <2>1. UNCHANGED <<awaited, sentSteps, unsent, kept>>
    BY <1>5 DEF ServerSteps, ClaimSlot, ReleasePrevious, AllocateOutput, AnnounceProbe, ServerSeesEnd, LeaveSlot,
       ReceiveStep, AnswerStep, SendResult, sessVars
  <2>2. \A copy \in taken' \ taken : copy.read = copy.of \/ copy.of \in unsent
    <3>1. CASE ReceiveStep(l) BY <1>0, <3>1, ReceiveStepOK
    <3>2. CASE ~ReceiveStep(l)
      <4>1. UNCHANGED taken
        BY <1>5, <3>2 DEF ServerSteps, ClaimSlot, ReleasePrevious, AllocateOutput, AnnounceProbe, ServerSeesEnd,
           LeaveSlot, AnswerStep, SendResult
      <4> QED BY <4>1
    <3> QED BY <3>1, <3>2
  <2> QED BY <1>0, <2>1, <2>2 DEF ArraysInv, ArraysIntact
<1>6. ServerKilled \/ \E l \in LinkIds : SessionSteps(l) \/ ServerSteps(l)
  BY DEF ShmNext, SessionSteps, ServerSteps
<1> QED BY <1>1, <1>2, <1>3, <1>4, <1>5, <1>6 DEF ArraysInv

\* Whatever the sizes of the blocks and however many links, steps and failures
\* there are: a slot's directory holds at most two request blocks and one output
\* block, every step runs on the arrays its session wrote for it unless its own
\* cancel found no room, and the client accepts a result only with the arrays the
\* model returned for it, though both ends reuse a block without being told that
\* it was read (shm_link.py).
THEOREM LinkSafe == ShmSpec => []LinkHolds
<1>1. ShmInit => BlocksInv /\ ArraysInv BY LinkStarts
<1>2. BlocksInv /\ ArraysInv /\ [ShmNext]_shmVars => BlocksInv' /\ ArraysInv'
  <2> SUFFICES ASSUME BlocksInv, ArraysInv, [ShmNext]_shmVars PROVE BlocksInv' /\ ArraysInv' OBVIOUS
  <2>1. CASE ShmNext
    <3>1. BlocksInv'
      BY <2>1, ShmTypes, LinksInTurnStep, RequestsKeptStep, OutputsKeptStep DEF BlocksInv
    <3>2. ArraysInv' BY <2>1, <3>1, LinkGoesOn
    <3> QED BY <3>1, <3>2
  <2>2. CASE UNCHANGED shmVars
    <3>1. BlocksInv'
      BY <2>2 DEF BlocksInv, ShmTypeOK, LinksInTurn, RequestsKept, OutputsKept, shmVars, sessVars, srvVars
    <3>2. ArraysInv'
      BY <2>2 DEF ArraysInv, ArraysIntact, LinkOK, EndsMeet, StepsInLine, ArraysInPlace, FrameOK, shmVars, sessVars,
         srvVars
    <3> QED BY <3>1, <3>2
  <2> QED BY <2>1, <2>2
<1>3. BlocksInv /\ ArraysInv => LinkHolds BY BlocksInSlot DEF LinkHolds, ArraysInv
<1> QED BY <1>1, <1>2, <1>3, PTL DEF ShmSpec
================================================================================
